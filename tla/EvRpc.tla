------------------------------- MODULE EvRpc -------------------------------
(***************************************************************************)
(* evrpc.c: a pool of HTTP connections over which user code makes RPCs, a  *)
(* queue for the RPCs no connection is free for, their timeouts, and the   *)
(* server that hands an RPC to user code and sends its reply.              *)
(*                                                                         *)
(* The connections are those of EvHttp, reduced to what evrpc.c sees: a    *)
(* request is made, and later done, or failed alone, or failed with all    *)
(* others.  What is on its way over a connection, and what the server does *)
(* with it, is one record for each RPC that was sent.                      *)
(*                                                                         *)
(* Handlers run to their end; out holds what the attempts to send of a     *)
(* handler come to, again the RPC the first user callback makes.  A hook   *)
(* may abort what it sees, so that adding one and removing it is left out. *)
(***************************************************************************)
EXTENDS Integers, FiniteSets, SequencesExt

CONSTANTS
  Rpcs,       \* names for RPCs, struct evrpc_request_wrapper
  Conns,      \* connections
  Outcomes,   \* of an attempt to send: "ok", "hook" (aborted), "refused"
  Null

ASSUME EvRpcAssumption ==
  /\ IsFiniteSet(Rpcs) /\ IsFiniteSet(Conns) /\ Null \notin Rpcs \cup Conns
  /\ "ok" \in Outcomes /\ Outcomes \subseteq {"ok", "hook", "refused"}

VARIABLE rpc   \* the pool, its connections, the server

\* state: "down", "connecting", "up", or "dead", taken for up after the end of
\* the stream.
NoConnection == [state |-> "down", requests |-> <<>>]

\* evrpc_pool_new
NewPool ==
  [connections |-> <<>>, requests |-> <<>>, timeout |-> FALSE,
   con |-> [c \in Conns |-> NoConnection],
   timer |-> {},                          \* RPCs whose ev_timeout is pending
   evcon |-> [x \in Rpcs |-> Null],
   where |-> [x \in Rpcs |-> "none"],     \* "queued" in the pool, "sent"
   server |-> {},
   reply |-> <<Null, Null>>,              \* history: an RPC and what it was answered
   out |-> <<>>, again |-> Null]

-----------------------------------------------------------------------------
(* Connections, as EvHttp has them.                                        *)

evhttp_request_dispatch(s, c) ==
  IF s.con[c].requests = <<>> \/ s.con[c].state # "up" THEN s
  ELSE [s EXCEPT !.server = @ \cup {[on |-> c, of |-> Head(s.con[c].requests),
                                     at |-> "sent", live |-> TRUE]}]

evhttp_make_request(s, c, x) ==
  LET t == [s EXCEPT !.con[c].requests = Append(@, x)]
  IN  IF s.con[c].state = "down" THEN [t EXCEPT !.con[c].state = "connecting"]
      ELSE IF s.con[c].requests = <<>> THEN evhttp_request_dispatch(t, c) ELSE t

\* The socket is closed: the server may still see what was sent, but nobody
\* will see its answer.
evhttp_connection_reset(s, c) ==
  [s EXCEPT !.con[c].state = "down",
            !.server = {IF m.on = c THEN [m EXCEPT !.live = FALSE] ELSE m :
                          m \in {k \in @ : k.on # c \/ k.at \in {"sent", "user"}}}]

-----------------------------------------------------------------------------
(* The pool.  Cb is the user callback, from state and RPC to state; the     *)
(* functions themselves follow once the callbacks are defined.             *)

\* evrpc_request_wrapper_free, which leaves ev_timeout as it is.
Free(s, x) == [s EXCEPT !.where[x] = "none", !.evcon[x] = Null]

ScheduleOn(s, c, x, Cb(_, _)) ==
  LET result == IF s.out = <<>> THEN "ok" ELSE Head(s.out)
      t == [s EXCEPT !.out = IF @ = <<>> THEN @ ELSE Tail(@), !.evcon[x] = c]
      timed == [t EXCEPT !.timer = IF s.timeout THEN @ \cup {x} ELSE @]
      made  == evhttp_make_request(timed, c, x)
  IN  CASE result = "hook" -> Free(Cb(t, x), x)
        [] result = "refused" /\ s.con[c].state = "down" ->
             Free(Cb([made EXCEPT !.con[c].state = "down"], x), x)
        [] OTHER -> [made EXCEPT !.where[x] = "sent"]

\* Mutant: the first connection is taken, idle or not.
AnyConnection(s) == IF s.connections = <<>> THEN Null ELSE s.connections[1]

evrpc_pool_find_connection(s) ==
  LET idle == {i \in DOMAIN s.connections : s.con[s.connections[i]].requests = <<>>}
  IN  IF idle = {} THEN Null ELSE s.connections[Min(idle)]

ScheduleNext(s, Cb(_, _)) ==
  LET c == evrpc_pool_find_connection(s)
  IN  IF s.requests = <<>> \/ c = Null THEN s
      ELSE ScheduleOn([s EXCEPT !.requests = Tail(@)], c, Head(s.requests), Cb)

Enqueue(s, x) == [s EXCEPT !.requests = Append(@, x), !.where[x] = "queued"]

\* User callbacks: one that makes no RPC, and one that may, by a name that is
\* not in use.
Silent(s, x) == s
MayCallAgain(s, x) ==
  IF s.again = Null \/ s.where[s.again] # "none" THEN s
  ELSE ScheduleNext(Enqueue([s EXCEPT !.again = Null], s.again), Silent)

\* The functions, with callbacks that may make an RPC, which makes no other.
evrpc_schedule_request(s, c, x) == ScheduleOn(s, c, x, MayCallAgain)
evrpc_pool_schedule(s) == ScheduleNext(s, MayCallAgain)
evrpc_make_request(s, x) == evrpc_pool_schedule(Enqueue(s, x))

\* Mutant: nothing is scheduled after a reply.
ReplyWithoutSchedule(s, x) ==
  Free(MayCallAgain([s EXCEPT !.timer = @ \ {x}], x), x)

evrpc_reply_done(s, x) ==
  evrpc_pool_schedule(Free(MayCallAgain([s EXCEPT !.timer = @ \ {x}], x), x))

-----------------------------------------------------------------------------
(* The first request of a connection ends.                                 *)

\* Mutant: the socket is used again after a failure.
FailKeepsSocket(s, c) ==
  evrpc_reply_done([s EXCEPT !.con[c].requests = Tail(@)], Head(s.con[c].requests))

evhttp_connection_fail(s, c) ==
  LET r == evhttp_connection_reset([s EXCEPT !.con[c].requests = Tail(@)], c)
      t == IF r.con[c].requests = <<>> THEN r ELSE [r EXCEPT !.con[c].state = "connecting"]
  IN  evrpc_reply_done(t, Head(s.con[c].requests))

\* evhttp_connection_done; close is the header of an answer from evhttp_send_error.
evhttp_connection_done(s, c, close) ==
  LET t == [s EXCEPT !.con[c].requests = Tail(@)]
      u == IF close THEN evhttp_connection_reset(t, c) ELSE t
      more == u.con[c].requests # <<>>
  IN  evrpc_reply_done(CASE more /\ close -> [u EXCEPT !.con[c].state = "connecting"]
                         [] more /\ ~close -> evhttp_request_dispatch(u, c)
                         [] OTHER -> u, Head(s.con[c].requests))

\* Names are for calls: a new call has one of its own.
Unused == {x \in Rpcs : rpc.where[x] = "none" /\ \A m \in rpc.server : m.of # x}

Handle(h(_)) ==
  \E out \in Outcomes \X Outcomes, again \in {Null} \cup Unused :
    rpc' = [h([rpc EXCEPT !.out = out, !.again = again, !.reply = <<Null, Null>>]) EXCEPT
              !.out = <<>>, !.again = Null]

Busy(c) == rpc.con[c].requests # <<>>

Connected(c) ==
  /\ rpc.con[c].state = "connecting"
  /\ rpc' = evhttp_request_dispatch([rpc EXCEPT !.con[c].state = "up"], c)

TellFirst(s, c) ==
  IF s.con[c].requests = <<>> THEN s
  ELSE evrpc_reply_done([s EXCEPT !.con[c].requests = Tail(@)], Head(s.con[c].requests))

\* Every request of a connection is told, those too that the pool schedules on
\* it meanwhile: never more than there are RPCs.
TellAll(s, c) ==
  LET told[i \in 0 .. Cardinality(Rpcs)] == IF i = 0 THEN s ELSE TellFirst(told[i - 1], c)
  IN  told[Cardinality(Rpcs)]

\* evhttp_connectioncb gives up.
ConnectFailed(c) ==
  /\ rpc.con[c].state = "connecting"
  /\ LET h(s) == TellAll([s EXCEPT !.con[c].state = "down"], c) IN Handle(h)

Replied(c) ==
  \E m \in rpc.server :
    /\ Busy(c) /\ m.on = c /\ m.live /\ m.at \in {"reply", "error"}
    /\ LET h(s) == evhttp_connection_done(
                     [s EXCEPT !.server = @ \ {m}, !.reply = <<Head(s.con[c].requests), m.of>>],
                     c, m.at = "error")
       IN  Handle(h)

\* The stream ends before the reply does.
EndOfStream(c) ==
  /\ Busy(c) /\ rpc.con[c].state \in {"up", "dead"}
  /\ LET h(s) == evhttp_connection_done(
                   [evhttp_connection_reset(s, c) EXCEPT !.con[c].state = "dead"], c, FALSE)
     IN  Handle(h)

\* Reading or writing fails, or takes too long.
ConnectionFails(c) ==
  /\ Busy(c) /\ rpc.con[c].state \in {"up", "dead"}
  /\ LET h(s) == evhttp_connection_fail(s, c) IN Handle(h)

\* evhttp_detect_close_cb: the peer closes an idle connection.
DetectClose(c) ==
  /\ ~Busy(c) /\ rpc.con[c].state \in {"up", "dead"}
  /\ rpc' = evhttp_connection_reset(rpc, c)

\* evrpc_request_timeout
RequestTimeout(x) ==
  /\ x \in rpc.timer
  /\ LET h(s) == evhttp_connection_fail([s EXCEPT !.timer = @ \ {x}], s.evcon[x])
     IN  Handle(h)

-----------------------------------------------------------------------------
(* The server.                                                             *)

Moves(m, to) == rpc' = [rpc EXCEPT !.server = (@ \ {m}) \cup to]
\* evhttp_send: an answer to nobody is dropped.
Sends(m, at) == IF m.live THEN {[m EXCEPT !.at = at]} ELSE {}

\* A request comes, for an RPC that is registered or not.  evrpc_request_cb
\* hands it to user code, unless a hook, the parser or memory says no.
ServerReceives(m) ==
  m.at = "sent" /\ (Moves(m, {[m EXCEPT !.at = "user"]}) \/ Moves(m, Sends(m, "error")))

\* evrpc_request_done: the reply, or an error if it is incomplete.
RequestDone(m) ==
  m.at = "user" /\ \E at \in {"reply", "error"} : Moves(m, Sends(m, at))

-----------------------------------------------------------------------------
(* Calls of user code.                                                     *)

\* EVRPC_MAKE_REQUEST
MakeRequest(x) ==
  /\ rpc.connections # <<>> /\ x \in Unused
  /\ LET h(s) == evrpc_make_request(s, x) IN Handle(h)

PoolAddConnection(c) ==
  /\ c \notin ToSet(rpc.connections)
  /\ LET h(s) == LET t == [s EXCEPT !.connections = Append(@, c)]
                 IN  IF s.requests = <<>> THEN t
                     ELSE evrpc_schedule_request([t EXCEPT !.requests = Tail(@)], c,
                                                 Head(s.requests))
     IN  Handle(h)

PoolSetTimeout(t) == t # rpc.timeout /\ rpc' = [rpc EXCEPT !.timeout = t]

\* evrpc_pool_free, then evrpc_pool_new.  User code waits for its RPCs first:
\* their timers would go on.
PoolFree ==
  /\ \A x \in Rpcs : rpc.where[x] = "none"
  /\ rpc.connections # <<>>
  /\ rpc' = [NewPool EXCEPT !.server = {[m EXCEPT !.live = FALSE] :
                                          m \in {k \in rpc.server : k.at \in {"sent", "user"}}}]

-----------------------------------------------------------------------------
Init == rpc = NewPool

ConnectionStep(c) ==
  Connected(c) \/ ConnectFailed(c) \/ Replied(c) \/ EndOfStream(c) \/ ConnectionFails(c)

Next ==
  \/ \E c \in Conns : ConnectionStep(c) \/ DetectClose(c) \/ PoolAddConnection(c)
  \/ \E x \in Rpcs : RequestTimeout(x) \/ MakeRequest(x)
  \/ \E m \in rpc.server : ServerReceives(m) \/ RequestDone(m)
  \/ \E t \in BOOLEAN : PoolSetTimeout(t)
  \/ PoolFree

Spec == Init /\ [][Next]_rpc

\* A connection that connects or has a request does not stay as it is: EvHttp
\* shows so (RequestsEnd), from the timeouts of its events.  Each ConnectionStep
\* changes the connection, so that this is no more than weak fairness of it.
Waits(c) == rpc.con[c].state = "connecting" \/ Busy(c)
FairSpec ==
  Spec /\ \A c \in Conns : []<>~Waits(c) \/ []<><<rpc'.con[c] # rpc.con[c]>>_rpc

-----------------------------------------------------------------------------
Carried(x) == {c \in Conns : \E i \in DOMAIN rpc.con[c].requests : rpc.con[c].requests[i] = x}

\* An RPC that is under way is in the queue of the pool or on the connection
\* it knows, and on that alone: so its timeout fails its own request and no
\* other, and no timeout is left when it is freed.
RpcsOwned ==
  \A x \in Rpcs :
    /\ Carried(x) = IF rpc.where[x] = "sent" THEN {rpc.evcon[x]} ELSE {}
    /\ (\E i \in DOMAIN rpc.requests : rpc.requests[i] = x) <=> rpc.where[x] = "queued"
    /\ x \in rpc.timer => /\ rpc.where[x] = "sent"
                          /\ Head(rpc.con[rpc.evcon[x]].requests) = x

\* No RPC waits in the pool while a connection is idle.  evrpc.c says in
\* evrpc_make_request: "the next time a connection is empty, the rpc will be
\* send on that."
NoneWaitsForIdle ==
  rpc.requests # <<>> =>
    \A i \in DOMAIN rpc.connections : rpc.con[rpc.connections[i]].requests # <<>>

\* The reply an RPC is given answers that RPC: a reply that is late, after the
\* timeout of its RPC or the failure of its connection, is not taken for the
\* answer to the RPC that has the connection now.
ReplyMatches == rpc.reply[1] = rpc.reply[2]

\* Every RPC is told its end, also when the callbacks of others make more.
RpcsTold == \A x \in Rpcs : rpc.where[x] # "none" ~> rpc.where[x] = "none"
=============================================================================
