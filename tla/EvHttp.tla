------------------------------- MODULE EvHttp -------------------------------
(***************************************************************************)
(* http.c: one evhttp_connection, as the client side keeps it (a queue of  *)
(* requests that share a connection, which connects, retries, is reused    *)
(* and reset) or as the server side does (a request is read, handed to     *)
(* user code, answered at once or in pieces, and followed by the next).    *)
(*                                                                         *)
(* Handlers run to their end in one thread, so that an action is one       *)
(* callback of an event or one call of user code.  The functions of the    *)
(* file are operators on the record of the connection.  User callbacks are *)
(* the last thing a handler does, so that what they call is an action of   *)
(* its own; the loop of evhttp_connectioncb is the exception (field again).*)
(*                                                                         *)
(* Bytes are tokens: a first line, header lines, the empty line, a chunk   *)
(* size, one unit of body.  What is read may end anywhere: a read of no    *)
(* token is one of bytes that complete none.                               *)
(***************************************************************************)
EXTENDS Integers, FiniteSets, SequencesExt

CONSTANTS
  Requests,     \* request objects
  Closers,      \* the client's requests with the header "Connection: close"
  Roles,        \* "client", "server"
  Messages,     \* what the peer may send, by role: sequences of tokens
  RetryMax,     \* retry_max
  MaxSent,      \* bound on the messages the peer sends over one connection
  MaxOut,       \* bound on the pieces of a reply that are not written
  MayRefuse,    \* bind_socket or socket_connect may fail
  Null

ASSUME EvHttpAssumption ==
  /\ IsFiniteSet(Requests) /\ Closers \subseteq Requests
  /\ Roles \subseteq {"client", "server"}
  /\ RetryMax \in Nat /\ MaxSent \in Nat /\ MaxOut \in Nat /\ MayRefuse \in BOOLEAN
  /\ Null \notin Requests

FirstLines == {"get", "get10", "post", "ok", "nocontent"}

VARIABLE con   \* the connection, its requests and its socket

\* The fields of a request that reading its message and answering it set.
NoMessage == [type |-> "none", hdrs |-> {}, ntoread |-> 0, chunked |-> FALSE,
              body |-> 0, userdone |-> FALSE, close |-> FALSE]

\* evhttp_connection_new
Fresh(role) ==
  [role |-> role, alive |-> TRUE, state |-> "DISCONNECTED", fd |-> FALSE,
   ev |-> "none",              \* what evcon->ev waits for, "none" if not pending
   closeEv |-> FALSE,          \* close_ev is pending
   queue |-> <<>>, retryCnt |-> 0, cb |-> "null",
   out |-> 0,                  \* output_buffer, in pieces
   inbuf |-> <<>>,             \* input_buffer
   msg |-> NoMessage,          \* of the first request
   where |-> [r \in Requests |-> "none"],  \* "queued", "held" by user code, "detached"
   started |-> {},             \* held requests with evhttp_send_reply_start done
   wire |-> <<>>,              \* sent by the peer and not read
   closed |-> FALSE,           \* the peer has closed
   sent |-> <<>>,              \* bodies of the peer's messages not handed over
   may |-> 0,                  \* messages the peer may still send
   eof |-> FALSE,              \* history: evhttp_read has met the end
   last |-> <<0, 0>>,          \* history: body handed over, body sent
   refused |-> FALSE,          \* history: the last connect failed at once
   refuse |-> FALSE,           \* during a handler: the next connect will
   ran |-> FALSE,              \* history: changes when a callback of an event runs
   fault |-> "none"]

Die(s, why) == [s EXCEPT !.fault = IF s.fault = "none" THEN why ELSE @]

-----------------------------------------------------------------------------
(* Connecting and sending.                                                 *)

evhttp_connected(s) == s.state \notin {"DISCONNECTED", "CONNECTING"}

evhttp_write_buffer(s, cb) == [s EXCEPT !.cb = cb, !.ev = "write"]

\* A new socket, or none: nothing has come over it.
Closed(s) == [s EXCEPT !.fd = FALSE, !.wire = <<>>, !.closed = FALSE, !.sent = <<>>,
                       !.may = 0, !.eof = FALSE]

evhttp_connection_reset(s) ==
  [Closed(s) EXCEPT !.ev = "none", !.state = "DISCONNECTED", !.inbuf = <<>>, !.out = 0]

evhttp_connection_connect(s) ==
  LET r == evhttp_connection_reset(s)
  IN  CASE s.state = "CONNECTING" -> s
        [] s.state # "CONNECTING" /\ s.refuse -> [r EXCEPT !.refused = TRUE]
        [] OTHER -> [r EXCEPT !.fd = TRUE, !.ev = "connect", !.state = "CONNECTING",
                              !.refused = FALSE]

\* Mutant: close detection goes on while the next request is sent.
DispatchKeepsDetecting(s) ==
  IF s.queue = <<>> THEN s
  ELSE evhttp_write_buffer([s EXCEPT !.state = "WRITING", !.msg = NoMessage, !.out = @ + 1,
                                     !.may = 1], "connectioncb")

evhttp_request_dispatch(s) ==
  IF s.queue = <<>> THEN s
  ELSE IF s.state # "IDLE" THEN Die(s, "assert")
  ELSE evhttp_write_buffer([s EXCEPT !.closeEv = FALSE, !.state = "WRITING",
                                     !.msg = NoMessage, !.out = @ + 1, !.may = 1],
                           "connectioncb")

evhttp_make_request(s, r) ==
  LET t == [s EXCEPT !.queue = Append(@, r), !.where[r] = "queued"]
  IN  IF ~evhttp_connected(s) THEN evhttp_connection_connect(t)
      ELSE IF s.queue = <<>> THEN evhttp_request_dispatch(t) ELSE t

evhttp_start_read(s) == [s EXCEPT !.ev = "read", !.state = "READING_FIRSTLINE"]

\* evhttp_write_connectioncb
evhttp_write_connectioncb(s) ==
  IF s.queue = <<>> \/ s.state # "WRITING" THEN Die(s, "assert")
  ELSE evhttp_start_read(s)

-----------------------------------------------------------------------------
(* The server's requests.                                                  *)

\* Mutant: the requests of the queue are not freed.
FreeKeepsRequests(s) ==
  [evhttp_connection_reset(s) EXCEPT !.alive = FALSE, !.closeEv = FALSE, !.queue = <<>>]

\* evhttp_connection_free, and evhttp_request_free for the requests it has.
evhttp_connection_free(s) ==
  LET mine == ToSet(s.queue)
      t == [evhttp_connection_reset(s) EXCEPT
              !.alive = FALSE, !.closeEv = FALSE, !.queue = <<>>, !.cb = "null",
              !.where = [r \in Requests |-> IF r \in mine THEN "none" ELSE @[r]],
              !.started = @ \ mine, !.msg = NoMessage]
  IN  IF \E r \in mine : s.where[r] = "held" THEN Die(t, "dangling") ELSE t

Unused(s) == {r \in Requests : s.where[r] = "none"}

evhttp_associate_new_request_with_connection(s) ==
  LET r == CHOOSE x \in Unused(s) : TRUE
  IN  evhttp_start_read([s EXCEPT !.queue = Append(@, r), !.where[r] = "queued",
                                  !.msg = NoMessage])

\* Mutant: the request user code is answering is freed with the connection.
DropFreesHeld(s) == evhttp_connection_free(s)

\* evhttp_connection_incoming_fail for a timeout and the end of the stream: a
\* request user code does not hold yet is nobody's from now on.

evhttp_connection_drop(s) ==
  LET r == Head(s.queue)
      t == [s EXCEPT !.queue = Tail(@),
                     !.where[r] = IF @ = "held" THEN "detached" ELSE "none"]
  IN  evhttp_connection_free(IF s.msg.userdone THEN s ELSE t)

\* evhttp_send; close is the header "Connection: close" of evhttp_send_page.
evhttp_send(s, r, close) ==
  IF s.where[r] = "detached" THEN [s EXCEPT !.where[r] = "none"]
  ELSE IF s.queue = <<>> \/ Head(s.queue) # r THEN Die(s, "assert")
  ELSE evhttp_write_buffer([s EXCEPT !.where[r] = "queued", !.msg.userdone = TRUE,
                                     !.msg.close = close, !.out = @ + 1], "send_done")

\* evhttp_handle_request: user code answers later, unless there is no uri.
evhttp_handle_request(s) ==
  LET r == Head(s.queue)
  IN  IF s.msg.type # "none" THEN [s EXCEPT !.where[r] = "held"]
      ELSE IF s.state = "DISCONNECTED" THEN evhttp_connection_drop(s)
      ELSE evhttp_send(s, r, TRUE)

evhttp_send_done(s) ==
  LET r == Head(s.queue)
      t == [s EXCEPT !.queue = Tail(@), !.closeEv = FALSE, !.where[r] = "none",
                     !.started = @ \ {r}]
      needClose == \/ s.msg.type = "get10" /\ "keep" \notin s.msg.hdrs
                   \/ "close" \in s.msg.hdrs \/ s.msg.close
  IN  IF needClose THEN evhttp_connection_free(t)
      ELSE evhttp_associate_new_request_with_connection(t)

-----------------------------------------------------------------------------
(* The end of a message.                                                   *)

\* evhttp_connection_fail; why is "network" (EOF, TIMEOUT) or "header".
evhttp_connection_fail(s, why) ==
  LET r == Head(s.queue)
      t == evhttp_connection_reset([s EXCEPT !.queue = Tail(@), !.where[r] = "none"])
  IN  CASE s.queue = <<>> -> Die(s, "assert")
        [] s.queue # <<>> /\ s.role = "server" ->
             IF why = "network" THEN evhttp_connection_drop(s)
             ELSE evhttp_handle_request([s EXCEPT !.msg.type = "none"])
        [] OTHER -> IF t.queue = <<>> THEN t ELSE evhttp_connection_connect(t)

\* The message of the peer is handed over.
HandOver(s) ==
  [s EXCEPT !.last = IF s.eof \/ s.sent = <<>> THEN <<0, 0>> ELSE <<s.msg.body, Head(s.sent)>>,
            !.sent = IF @ = <<>> THEN @ ELSE Tail(@)]

evhttp_connection_done(s) ==
  LET r == Head(s.queue)
      needClose == "close" \in s.msg.hdrs \/ r \in Closers
      idle == [HandOver(s) EXCEPT !.queue = Tail(@), !.where[r] = "none", !.state = "IDLE"]
      t    == IF needClose THEN evhttp_connection_reset(idle) ELSE idle
  IN  IF s.role = "server"
      THEN evhttp_handle_request(
             [HandOver(s) EXCEPT !.state = IF @ = "DISCONNECTED" THEN @ ELSE "WRITING"])
      ELSE IF t.queue # <<>>
      THEN IF evhttp_connected(t) THEN evhttp_request_dispatch(t)
           ELSE evhttp_connection_connect(t)
      ELSE [t EXCEPT !.closeEv = @ \/ ~needClose]

-----------------------------------------------------------------------------
(* Reading.                                                                *)

Units(seq) == Cardinality({i \in DOMAIN seq : seq[i] = "unit"})
\* Where a loop over the tokens stops, 0 if it consumes them all.
StopAt(seq, tokens) == Min({i \in DOMAIN seq : seq[i] \in tokens} \cup {Len(seq) + 1})
From(seq, i) == SubSeq(seq, i, Len(seq))
WaitRead(s) == [s EXCEPT !.ev = "read"]

\* evhttp_parse_headers: the new state and its result.
evhttp_parse_headers(s) ==
  LET i == StopAt(s.inbuf, {"blank", "badheader"})
      t == [s EXCEPT !.msg.hdrs = @ \cup ToSet(SubSeq(s.inbuf, 1, i - 1)),
                     !.inbuf = From(@, i + 1)]
  IN  <<t, IF i > Len(s.inbuf) THEN "MORE_DATA_EXPECTED"
           ELSE IF s.inbuf[i] = "blank" THEN "ALL_DATA_READ" ELSE "DATA_CORRUPTED">>

evhttp_read_trailer(s) ==
  LET p == evhttp_parse_headers(s)
  IN  CASE p[2] = "DATA_CORRUPTED" -> evhttp_connection_fail(p[1], "header")
        [] p[2] = "ALL_DATA_READ"  -> evhttp_connection_done([p[1] EXCEPT !.ev = "none"])
        [] OTHER                   -> WaitRead(p[1])

\* Mutant: a chunk whose size came with an earlier read is left out.
ChunkLostWhenCut(s) ==
  LET i == StopAt(s.inbuf, {"zero", "badsize"})
      n == Cardinality({j \in 2 .. i - 1 : s.inbuf[j - 1] = "size"})
      t == [s EXCEPT !.msg.body = @ + n, !.inbuf = From(@, i + 1)]
  IN  <<t, IF i > Len(s.inbuf) THEN "MORE_DATA_EXPECTED"
           ELSE IF s.inbuf[i] = "zero" THEN "ALL_DATA_READ" ELSE "DATA_CORRUPTED">>

\* A chunk is a size line and one unit; ntoread is 1 between them.
evhttp_handle_chunked_read(s) ==
  LET i    == StopAt(s.inbuf, {"zero", "badsize"})
      data == SubSeq(s.inbuf, 1, i - 1)
      t == [s EXCEPT !.msg.body = @ + Units(data), !.inbuf = From(@, i + 1),
                     !.msg.ntoread = CASE data = <<>>         -> @
                                       [] data # <<>> /\ Last(data) = "size" -> 1
                                       [] OTHER               -> -1]
  IN  <<t, IF i > Len(s.inbuf) THEN "MORE_DATA_EXPECTED"
           ELSE IF s.inbuf[i] = "zero" THEN "ALL_DATA_READ" ELSE "DATA_CORRUPTED">>

evhttp_read_body(s) ==
  LET p == evhttp_handle_chunked_read(s)
      whole == [s EXCEPT !.msg.body = @ + s.msg.ntoread, !.msg.ntoread = 0,
                         !.inbuf = From(@, s.msg.ntoread + 1)]
  IN  IF s.msg.chunked
      THEN CASE p[2] = "ALL_DATA_READ" ->
                  evhttp_read_trailer([p[1] EXCEPT !.state = "READING_TRAILER"])
             [] p[2] = "DATA_CORRUPTED" -> evhttp_connection_fail(p[1], "header")
             [] OTHER                   -> WaitRead(p[1])
      ELSE IF s.msg.ntoread < 0
      THEN WaitRead([s EXCEPT !.msg.body = @ + Units(s.inbuf), !.inbuf = <<>>])
      ELSE IF Len(s.inbuf) >= s.msg.ntoread THEN evhttp_connection_done(whole)
      ELSE WaitRead(s)

\* evhttp_get_body_length: -1 is "until the end", -2 that it cannot be known.
evhttp_get_body_length(hdrs) ==
  CASE "length" \in hdrs                          -> 1
    [] "length" \notin hdrs /\ "keep" \in hdrs    -> -2
    [] OTHER                                      -> -1

evhttp_get_body(s) ==
  LET n == evhttp_get_body_length(s.msg.hdrs)
      t == [s EXCEPT !.state = "READING_BODY"]
  IN  CASE s.msg.type \in {"get", "get10"} -> evhttp_connection_done(s)
        [] s.msg.type \notin {"get", "get10"} /\ "chunked" \in s.msg.hdrs ->
             evhttp_read_body([t EXCEPT !.msg.chunked = TRUE, !.msg.ntoread = -1])
        [] OTHER -> IF n = -2 THEN evhttp_connection_fail(t, "header")
                    ELSE evhttp_read_body([t EXCEPT !.msg.ntoread = n])

evhttp_read_header(s) ==
  LET p == evhttp_parse_headers(s)
  IN  CASE p[2] = "DATA_CORRUPTED"     -> evhttp_connection_fail(p[1], "header")
        [] p[2] = "MORE_DATA_EXPECTED" -> WaitRead(p[1])
        [] OTHER -> IF s.msg.type = "nocontent" THEN evhttp_connection_done(p[1])
                    ELSE evhttp_get_body(p[1])

\* evhttp_read_firstline, evhttp_parse_firstline
evhttp_read_firstline(s) ==
  LET t == [s EXCEPT !.inbuf = Tail(@)]
  IN  IF s.inbuf = <<>> THEN WaitRead(s)
      ELSE IF Head(s.inbuf) \notin FirstLines THEN evhttp_connection_fail(t, "header")
      ELSE evhttp_read_header([t EXCEPT !.msg.type = Head(s.inbuf),
                                        !.state = "READING_HEADERS"])

\* evhttp_read after evbuffer_read has appended something.
Parse(s) ==
  CASE s.state = "READING_FIRSTLINE" -> evhttp_read_firstline(s)
    [] s.state = "READING_HEADERS"   -> evhttp_read_header(s)
    [] s.state = "READING_BODY"      -> evhttp_read_body(s)
    [] s.state = "READING_TRAILER"   -> evhttp_read_trailer(s)
    [] OTHER                         -> Die(s, "illegal")

-----------------------------------------------------------------------------
(* Callbacks of events.  The connection must exist and the process live.   *)

Handle(h(_)) ==
  /\ con.alive /\ con.fault = "none"
  /\ \E no \in IF MayRefuse THEN BOOLEAN ELSE {FALSE} :
       con' = [h([con EXCEPT !.refuse = no]) EXCEPT !.refuse = FALSE]

\* The event is not persistent: it is no longer pending when it runs.
OnEvent(what, h(_)) ==
  /\ con.ev = what
  /\ LET g(s) == h([s EXCEPT !.ev = "none", !.ran = ~@]) IN Handle(g)

Connected ==
  LET h(s) == evhttp_request_dispatch([s EXCEPT !.retryCnt = 0, !.state = "IDLE"])
  IN  OnEvent("connect", h)

\* Mutant: retries are not counted.
RetryUncounted ==
  /\ con.retryCnt < RetryMax
  /\ LET h(s) == [s EXCEPT !.ev = "retry"] IN OnEvent("connect", h)

\* The connect failed or timed out, and there are retries left.
ConnectAgain ==
  /\ con.retryCnt < RetryMax
  /\ LET h(s) == [s EXCEPT !.ev = "retry", !.retryCnt = @ + 1] IN OnEvent("connect", h)

\* There are none: all requests are told, the one that the first of their
\* callbacks makes (again) too.
ConnectFailed(again) ==
  /\ con.retryCnt >= RetryMax
  /\ again # Null => (con.queue # <<>> /\ con.where[again] = "none")
  /\ LET h(s) == LET t == evhttp_connection_reset(s)
                     u == [t EXCEPT !.queue = Tail(@), !.where[Head(t.queue)] = "none"]
                     v == IF again = Null THEN t ELSE evhttp_make_request(u, again)
                 IN  [v EXCEPT !.queue = <<>>, !.where = [r \in Requests |-> "none"]]
     IN  OnEvent("connect", h)

ConnectionRetry ==
  LET h(s) == evhttp_connection_connect([s EXCEPT !.state = "DISCONNECTED"])
  IN  OnEvent("retry", h)

\* evhttp_write: k pieces are written.
EvhttpWrite(k) ==
  /\ k \in 1 .. con.out
  /\ LET h(s) == LET t == [s EXCEPT !.out = @ - k]
                 IN  CASE t.out > 0 -> [t EXCEPT !.ev = "write"]
                       [] t.out = 0 /\ s.cb = "connectioncb" -> evhttp_write_connectioncb(t)
                       [] t.out = 0 /\ s.cb = "send_done"    -> evhttp_send_done(t)
                       [] OTHER -> t
     IN  OnEvent("write", h)

\* The write fails, writes nothing, or times out.
EvhttpWriteFails ==
  LET h(s) == evhttp_connection_fail(s, "network") IN OnEvent("write", h)

\* evhttp_read: k tokens are complete.
EvhttpRead(k) ==
  /\ con.wire # <<>> /\ k \in 0 .. Len(con.wire)
  /\ LET new == con.inbuf \o SubSeq(con.wire, 1, k)
         h(s) == Parse([s EXCEPT !.inbuf = new, !.wire = From(@, k + 1),
                                 !.ran = IF new = <<>> THEN ~@ ELSE @])
     IN  OnEvent("read", h)

EvhttpReadEOF ==
  /\ con.wire = <<>> /\ con.closed
  /\ LET h(s) == evhttp_connection_done([s EXCEPT !.state = "DISCONNECTED", !.eof = TRUE])
     IN  OnEvent("read", h)

\* The read fails or times out.
EvhttpReadFails ==
  LET h(s) == evhttp_connection_fail(s, "network") IN OnEvent("read", h)

DetectClose ==
  /\ con.closeEv /\ (con.wire # <<>> \/ con.closed)
  /\ LET h(s) == evhttp_connection_reset([s EXCEPT !.closeEv = FALSE, !.ran = ~@])
     IN  Handle(h)

-----------------------------------------------------------------------------
(* User code.                                                              *)

MakeRequest(r) ==
  /\ con.role = "client" /\ con.where[r] = "none"
  /\ LET h(s) == evhttp_make_request(s, r) IN Handle(h)

\* evhttp_connection_free, then evhttp_connection_new.
ReplaceConnection ==
  /\ con.role = "client"
  /\ LET h(s) == [Fresh("client") EXCEPT !.ran = s.ran] IN Handle(h)

\* accept_socket, evhttp_get_request
Accept ==
  /\ con.role = "server" /\ ~con.alive /\ con.fault = "none" /\ Unused(con) # {}
  /\ con' = evhttp_associate_new_request_with_connection(
              [Fresh("server") EXCEPT !.fd = TRUE, !.may = MaxSent, !.where = con.where,
                                      !.started = con.started, !.ran = con.ran])

\* evhttp_free.  User code keeps no request of the server.
EvhttpFree ==
  /\ con.role = "server" /\ \A r \in Requests : con.where[r] # "held"
  /\ Handle(evhttp_connection_free)

\* A call for a request user code has been handed, with or without connection.
Answer(r, h(_)) ==
  /\ con.where[r] \in {"held", "detached"} /\ con.fault = "none"
  /\ con' = h(con)

SendReply(r) ==
  /\ r \notin con.started
  /\ \E close \in BOOLEAN : LET h(s) == evhttp_send(s, r, close) IN Answer(r, h)

SendReplyStart(r) ==
  /\ r \notin con.started
  /\ LET h(s) == IF s.where[r] = "detached" THEN Die(s, "null")
                 ELSE evhttp_write_buffer([s EXCEPT !.started = @ \cup {r}, !.out = @ + 1,
                                                    !.msg.chunked = @ \/ s.msg.type # "get10"],
                                          "null")
     IN  Answer(r, h)

\* k is 0 for an empty buffer, which is nothing to write unless chunked.
SendReplyChunk(r, k) ==
  /\ r \in con.started /\ con.where[r] = "held" /\ con.out < MaxOut
  /\ LET h(s) == evhttp_write_buffer(
                   [s EXCEPT !.out = IF s.msg.chunked THEN @ + 1 ELSE @ + k], "null")
     IN  Answer(r, h)

SendReplyEnd(r) ==
  /\ r \in con.started
  /\ LET done(s) == [s EXCEPT !.where[r] = "queued", !.msg.userdone = TRUE]
         h(s) == CASE s.where[r] = "detached" ->
                        [s EXCEPT !.where[r] = "none", !.started = @ \ {r}]
                   [] s.where[r] # "detached" /\ s.msg.chunked ->
                        evhttp_write_buffer([done(s) EXCEPT !.out = @ + 1, !.msg.chunked = FALSE],
                                            "send_done")
                   [] OTHER -> IF s.ev = "none" THEN evhttp_send_done(done(s))
                               ELSE [done(s) EXCEPT !.cb = "send_done"]
     IN  Answer(r, h)

-----------------------------------------------------------------------------
(* The peer: what it sends is any mixture of its messages.                 *)

PeerSends(m) ==
  /\ con.alive /\ con.fd /\ ~con.closed /\ con.state # "CONNECTING"
  /\ con.may > 0
  /\ con' = [con EXCEPT !.wire = @ \o m, !.sent = Append(@, Units(m)), !.may = @ - 1]

PeerCloses ==
  /\ con.alive /\ con.fd /\ ~con.closed /\ con.state # "CONNECTING"
  /\ con' = [con EXCEPT !.closed = TRUE]

-----------------------------------------------------------------------------
Init == \E role \in Roles :
          con = IF role = "client" THEN Fresh(role) ELSE [Fresh(role) EXCEPT !.alive = FALSE]

EventStep ==
  \/ Connected \/ ConnectAgain \/ ConnectionRetry
  \/ \E again \in Requests \cup {Null} : ConnectFailed(again)
  \/ \E k \in 1 .. MaxOut + 1 : EvhttpWrite(k)
  \/ EvhttpWriteFails
  \/ \E k \in 0 .. Len(con.wire) : EvhttpRead(k)
  \/ EvhttpReadEOF \/ EvhttpReadFails
  \/ DetectClose

Next ==
  \/ EventStep
  \/ \E r \in Requests : MakeRequest(r)
  \/ ReplaceConnection \/ Accept \/ EvhttpFree
  \/ \E r \in Requests : SendReply(r) \/ SendReplyStart(r) \/ SendReplyEnd(r)
  \/ \E r \in Requests, k \in {0, 1} : SendReplyChunk(r, k)
  \/ \E m \in Messages[con.role] : PeerSends(m)
  \/ PeerCloses

Spec == Init /\ [][Next]_con

\* Every pending event has a timeout, so that its callback runs.  Weak fairness
\* of EventStep is written out here, with a formula for when it is enabled and
\* the history that tells its steps.
EventPending ==
  /\ con.alive /\ con.fault = "none"
  /\ con.ev # "none" \/ (con.closeEv /\ (con.wire # <<>> \/ con.closed))
FairSpec == Spec /\ ([]<>~EventPending \/ []<><<con'.ran # con.ran>>_con)

-----------------------------------------------------------------------------
Queued(r) == \E i \in DOMAIN con.queue : con.queue[i] = r

\* No assertion fails, no event runs in a state it has no case for, no request
\* user code holds is freed under it, and none is answered without a
\* connection: not when a write of a reply in pieces fails in between, not
\* when a connection is reset with requests behind the one that failed.
NoFault == con.fault = "none"

\* How a message of the peer ends, in what follows its tokens so far: body is
\* what these hold of the body and n all of it.  A message that is rejected
\* and one that the end of the stream ends have no end of their own.
FirstAt(rest, i, tokens) ==
  i \in DOMAIN rest /\ rest[i] \in tokens /\ \A j \in 1 .. i - 1 : rest[j] \notin tokens

TrailerEnds(rest, body, n) ==
  \E i \in DOMAIN rest :
    /\ FirstAt(rest, i, {"blank", "badheader"})
    /\ rest[i] = "blank" => i = Len(rest) /\ body = n

ChunksEnd(rest, body, n) ==
  \E i \in DOMAIN rest :
    /\ FirstAt(rest, i, {"zero", "badsize"})
    /\ rest[i] = "zero" =>
         TrailerEnds(From(rest, i + 1), body + Units(SubSeq(rest, 1, i - 1)), n)

NoBody == {"nocontent", "get", "get10"}

BodyEnds(type, hdrs, rest, n) ==
  CASE type \in NoBody                            -> rest = <<>> /\ n = 0
    [] type \notin NoBody /\ "chunked" \in hdrs   -> ChunksEnd(rest, 0, n)
    [] OTHER -> "length" \in hdrs => Len(rest) = 1 /\ n = 1

HeadersEnd(type, hdrs, rest, n) ==
  \E i \in DOMAIN rest :
    /\ FirstAt(rest, i, {"blank", "badheader"})
    /\ rest[i] = "blank" =>
         BodyEnds(type, hdrs \cup ToSet(SubSeq(rest, 1, i - 1)), From(rest, i + 1), n)

WellFramed(m) ==
  /\ m \in Seq(STRING) /\ m # <<>>
  /\ m[1] \in FirstLines => HeadersEnd(m[1], {}, Tail(m), Units(m))

\* Each message the peer may send is one by its own framing, and holds its body.
ASSUME MessagesAssumption == \A role \in Roles : \A m \in Messages[role] : WellFramed(m)

\* The body handed to user code is the one the peer sent, wherever reads cut
\* it, whatever its framing and whatever follows it in the buffer, unless the
\* stream ended first.
WholeBody == con.last[1] = con.last[2]

\* A request has one owner: the queue of the connection it belongs to, exactly
\* once, or, on the server, user code that was handed the first of the queue or
\* one whose connection is gone.
OneOwner ==
  \A r \in Requests :
    /\ Queued(r) <=> con.where[r] \in {"queued", "held"}
    /\ Cardinality({i \in DOMAIN con.queue : con.queue[i] = r}) <= 1
    /\ con.where[r] = "held" => con.role = "server" /\ Head(con.queue) = r

\* The event that waits for the peer to close is pending only on an open
\* connection no request uses: otherwise it would reset a connection in use.
CloseDetectedIdle ==
  con.closeEv => con.fd /\ con.state = "IDLE" /\ con.queue = <<>> /\ con.ev = "none"

\* A request that is queued is told to user code, one that is being read is
\* handed over or its connection dropped, one that is answered is finished
\* with: through retries, failures of the requests before it and replies in
\* pieces.  A connect that failed at once is the exception.
RequestsEnd ==
  /\ \A r \in Requests :
       (con.role = "client" /\ Queued(r)) ~> (~Queued(r) \/ con.refused)
  /\ (con.role = "server" /\ con.alive) ~>
       (~con.alive \/ con.msg.userdone \/ \E r \in Requests : con.where[r] = "held")
  /\ con.msg.userdone ~> ~con.msg.userdone
=============================================================================
