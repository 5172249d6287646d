----------------------------- MODULE EvDnsServer -----------------------------
(***************************************************************************)
(* The server side of evdns.c: a port that reads requests and hands them   *)
(* to user code, replies that are built, sent or kept until the socket     *)
(* takes them, and a port that is closed but lives as long as a request.   *)
(*                                                                         *)
(* An action is one packet of the loop in server_port_read, one callback   *)
(* or one call of user code.  net holds what the sendto calls of an action *)
(* will do.                                                                *)
(***************************************************************************)
EXTENDS Integers, FiniteSets, SequencesExt

CONSTANTS
  Reqs,       \* memory for requests
  MaxItems,   \* bound on the records of a reply
  Fit,        \* the records a packet of 512 bytes holds
  Outcomes,   \* of sendto: "ok", "again", "error"
  Null

VARIABLES
  port,    \* struct evdns_server_port
  req      \* struct server_request, for each address

vars == <<port, req>>

\* state: "none" no such request, "user" in the hands of user code, "pending".
NoRequest == [state |-> "none", items |-> 0, response |-> FALSE, truncated |-> FALSE]

\* evdns_add_server_port
Init ==
  /\ port = [refcnt |-> 1, choked |-> FALSE, closing |-> FALSE, freed |-> FALSE,
             pending_replies |-> Null,
             ring |-> <<>>,          \* the requests linked by next_pending
             events |-> {"READ"},    \* what the event of the port waits for
             fault |-> "none"]
  /\ req = [q \in Reqs |-> NoRequest]

\* The functions below take and give <<port, req>>.
server_port_free(p) ==
  IF p.pending_replies # Null THEN [p EXCEPT !.fault = "assert"]
  ELSE [p EXCEPT !.freed = TRUE, !.events = {}]

\* What follows q in the circular list: q itself when it is alone.
NextPending(p, q) ==
  IF q \in ToSet(p.ring)
  THEN LET i == CHOOSE k \in DOMAIN p.ring : p.ring[k] = q
       IN  IF i = Len(p.ring) THEN p.ring[1] ELSE p.ring[i + 1]
  ELSE Null

server_request_free(s, q) ==
  LET p == s[1]
      head == IF p.pending_replies = q THEN NextPending(p, q) ELSE p.pending_replies
      t == [p EXCEPT !.pending_replies = head, !.refcnt = @ - 1,
                     !.ring = SelectSeq(@, LAMBDA x : x # q)]
  IN  <<IF t.refcnt = 0 THEN server_port_free(t) ELSE t, [s[2] EXCEPT ![q] = NoRequest]>>

\* One turn of the loop of server_port_flush; n is what sendto does.
FlushOne(s, n) ==
  LET q == s[1].pending_replies
  IN  IF s[1].freed \/ s[1].fault # "none" \/ q = Null \/ s[3] THEN s
      ELSE IF s[2][q].state # "pending"
      THEN <<[s[1] EXCEPT !.fault = "freed"], s[2], FALSE>>
      ELSE IF n = "again" THEN <<s[1], s[2], TRUE>>
      ELSE server_request_free(s, q) \o <<FALSE>>

server_port_flush(s, net) ==
  LET t == FoldLeft(FlushOne, s \o <<FALSE>>, net)
  IN  IF t[3] \/ t[1].freed \/ t[1].fault # "none" THEN <<t[1], t[2]>>
      ELSE <<[t[1] EXCEPT !.events = {"READ"}], t[2]>>

\* evdns_server_request_format_response; it frees the records.
Formatted(r) ==
  IF r.response THEN r
  ELSE [r EXCEPT !.response = TRUE, !.truncated = r.items > Fit, !.items = 0]

\* The reply is kept until the socket can be written.
Pend(p, q) ==
  IF p.pending_replies # Null THEN [p EXCEPT !.ring = Append(@, q)]
  ELSE [p EXCEPT !.ring = <<q>>, !.pending_replies = q, !.choked = TRUE,
                 !.events = (IF p.closing THEN {} ELSE {"READ"}) \cup {"WRITE"}]

\* evdns_server_request_respond; net is what its sendto calls do.
evdns_server_request_respond(q, net) ==
  LET r == Formatted(req[q])
      s == server_request_free(<<port, [req EXCEPT ![q] = r]>>, q)
  IN  CASE net[1] = "error" -> <<port, [req EXCEPT ![q] = r]>>
        [] net[1] = "again" -> <<Pend(port, q), [req EXCEPT ![q] = [r EXCEPT !.state = "pending"]]>>
        [] OTHER -> IF s[1].freed \/ s[1].pending_replies = Null THEN s
                    ELSE server_port_flush(s, Tail(net))

Running == port.fault = "none"
Becomes(s) == port' = s[1] /\ req' = s[2]
\* What the sendto calls of one handler do: all but the last of a flush succeed
\* or fail for good.
Nets == [1 .. Cardinality(Reqs) + 1 -> Outcomes]

\* server_port_read, request_parse: a request that is well formed.
Receive(q) ==
  /\ Running /\ "READ" \in port.events /\ req[q].state = "none"
  /\ port' = [port EXCEPT !.refcnt = @ + 1]
  /\ req' = [req EXCEPT ![q] = [NoRequest EXCEPT !.state = "user"]]

\* server_port_ready_callback with EV_WRITE
Writable ==
  /\ Running /\ "WRITE" \in port.events
  /\ \E net \in Nets : Becomes(server_port_flush(<<[port EXCEPT !.choked = FALSE], req>>, net))

\* evdns_server_request_add_reply, refused once the reply is formatted.
AddReply(q) ==
  /\ Running /\ req[q].state = "user" /\ ~req[q].response /\ req[q].items < MaxItems
  /\ req' = [req EXCEPT ![q].items = @ + 1]
  /\ UNCHANGED port

Respond(q) ==
  /\ Running /\ req[q].state = "user"
  /\ \E net \in Nets : Becomes(evdns_server_request_respond(q, net))

\* evdns_server_request_drop
Drop(q) ==
  /\ Running /\ req[q].state = "user"
  /\ Becomes(server_request_free(<<port, req>>, q))

\* evdns_close_server_port; it sets closing after the port may be freed.
ClosePort ==
  /\ Running /\ ~port.closing
  /\ LET p == [port EXCEPT !.refcnt = @ - 1]
     IN  port' = [(IF p.refcnt = 0 THEN server_port_free(p) ELSE p) EXCEPT !.closing = TRUE]
  /\ UNCHANGED req

Next ==
  \/ \E q \in Reqs : Receive(q) \/ AddReply(q) \/ Respond(q) \/ Drop(q)
  \/ Writable \/ ClosePort

Spec == Init /\ [][Next]_vars

-----------------------------------------------------------------------------
\* The port holds no link to a request that was freed: the list of pending
\* replies begins with one that is pending.  evdns.c says of
\* server_request_free: "Free all storage held by req, and remove links to it."
LinksRemoved ==
  port.pending_replies # Null => req[port.pending_replies].state = "pending"
=============================================================================
