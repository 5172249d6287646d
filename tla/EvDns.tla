------------------------------- MODULE EvDns -------------------------------
(***************************************************************************)
(* The resolver of evdns.c: requests in flight and waiting, name servers   *)
(* that fail and are probed, retransmission, reissue, searching, suspend,  *)
(* resume and shutdown.                                                    *)
(*                                                                         *)
(* Everything runs in the callbacks of one thread, so that one action is   *)
(* one callback or one call of user code, from the first line to the last. *)
(* The functions of the file are operators from the record of its globals  *)
(* to that record.  Two of its fields live only during a handler: net, the *)
(* outcomes the handler's sendto calls will have, and again, the query the *)
(* first user callback it makes starts.                                    *)
(*                                                                         *)
(* The network may lose, delay, duplicate and reorder: a reply to a        *)
(* request that was sent may arrive at any time, with any result, from any *)
(* server.  Transaction ids tell requests in flight apart; what remains of *)
(* them here is whether a request has been given one.                      *)
(***************************************************************************)
EXTENDS Integers, FiniteSets, SequencesExt

CONSTANTS
  Servers,         \* addresses of name servers
  Queries,         \* what user code resolves
  Searching,       \* the queries without DNS_QUERY_NO_SEARCH
  Dotted,          \* the queries whose name has a dot (the others have none)
  Domains,         \* search domains
  MaxDomains,      \* bound on the domains of a search list
  InflightLimits,  \* the values of the option max-inflight; the first is Min
  MaxRetransmits, MaxReissues, MaxTimeouts,  \* global_max_retransmits ...
  Outcomes,        \* what sendto may do: "ok", "again", "error"
  MaxLive,         \* bound on the requests that exist when a probe is sent
  Careful,         \* user code resumes and shuts down only when no request
                   \* waits for want of a name server
  Null, Freed      \* no name server, search state or query; a freed server

States == 1 .. Cardinality(Queries) + 1   \* search states that can be in use

ASSUME EvDnsAssumption ==
  /\ IsFiniteSet(Queries) /\ Searching \subseteq Queries /\ Dotted \subseteq Queries
  /\ InflightLimits \subseteq Nat \ {0} /\ InflightLimits # {}
  /\ MaxDomains \in Nat /\ MaxRetransmits \in Nat /\ MaxReissues \in Nat
  /\ MaxTimeouts \in Nat /\ MaxLive \in Nat /\ Careful \in BOOLEAN
  /\ "ok" \in Outcomes /\ Outcomes \subseteq {"ok", "again", "error"}
  /\ {Null, Freed} \cap (Servers \cup Queries \cup States) = {}
  /\ Servers \cap Queries = {}

VARIABLE dns   \* the globals of evdns.c

\* struct request.  who is the query it is for, or the server it probes.
Request(who, ns, id) ==
  [who |-> who, ns |-> ns, id |-> id, tx |-> 0, reissue |-> 0, transmit |-> FALSE,
   timer |-> FALSE, state |-> Null, index |-> 0]

\* struct search_state; memory that holds none.
NoState == [refcount |-> 0, ndots |-> 1, domains |-> <<>>]

Init ==
  dns = [ring |-> <<>>,        \* the circular list, server_head first
         up |-> {},            \* servers with state 1
         good |-> 0,           \* global_good_nameservers
         timedout |-> [n \in Servers |-> 0],
         timer |-> {},         \* servers whose timeout_event is pending
         choked |-> {}, writing |-> {},   \* choked, write_waiting
         inflight |-> <<>>, waiting |-> <<>>,   \* req_head, req_waiting_head
         nInflight |-> 0, nWaiting |-> 0,       \* global_requests_...
         limit |-> Min(InflightLimits),         \* global_max_requests_inflight
         search |-> Null,      \* global_search_state
         states |-> [k \in States |-> NoState],
         pending |-> [q \in Queries |-> 0],  \* history: callbacks user code waits for
         turn |-> [q \in Queries |-> 0],     \* history: tells a query from the one
                                             \* its callback makes
         left |-> [q \in Queries |-> <<>>],  \* history: names the search has to try
         fault |-> "none",     \* what ended the process
         net |-> <<>>, again |-> Null, picked |-> Null]

Die(s, why) == [s EXCEPT !.fault = IF s.fault = "none" THEN why ELSE s.fault]

-----------------------------------------------------------------------------
(* Name servers.                                                           *)

Rotate(seq, k) == SubSeq(seq, k + 1, Len(seq)) \o SubSeq(seq, 1, k)

nameserver_pick(s) ==
  LET good == {i \in DOMAIN s.ring : s.ring[i] \in s.up}
  IN  IF s.ring = <<>> THEN [s EXCEPT !.picked = Null]
      ELSE IF s.good = 0
      THEN [s EXCEPT !.ring = Rotate(s.ring, 1), !.picked = Head(Rotate(s.ring, 1))]
      ELSE IF good = {} THEN Die(s, "assert")
      ELSE [s EXCEPT !.ring = Rotate(s.ring, Min(good)), !.picked = s.ring[Min(good)]]

\* One request of the walk in nameserver_failed.
Reassign(s, i, n) ==
  IF s.inflight[i].tx = 0 /\ s.inflight[i].ns = n
  THEN LET p == nameserver_pick(s) IN [p EXCEPT !.inflight[i].ns = p.picked]
  ELSE s

ReassignAll(s, n) ==
  LET walk[i \in 0 .. Len(s.inflight)] == IF i = 0 THEN s ELSE Reassign(walk[i - 1], i, n)
  IN  walk[Len(s.inflight)]

nameserver_failed(s, n) ==
  LET down == [s EXCEPT !.good = @ - 1, !.up = @ \ {n}, !.timer = @ \cup {n},
                        !.fault = IF s.good = 0 THEN "assert" ELSE @]
  IN  IF n \notin s.up THEN s
      ELSE IF down.good = 0 THEN down ELSE ReassignAll(down, n)

nameserver_up(s, n) ==
  IF n \in s.up THEN s
  ELSE [s EXCEPT !.timer = @ \ {n}, !.up = @ \cup {n}, !.timedout[n] = 0, !.good = @ + 1]

\* Mutant: the timer is not armed again.
NoSecondProbe(s, n) == [s EXCEPT !.timer = @ \ {n}]

nameserver_probe_failed(s, n) ==
  [s EXCEPT !.timer = IF n \in s.up THEN @ \ {n} ELSE @ \cup {n}]

-----------------------------------------------------------------------------
(* Sending.  r is the place of a request in the list.                      *)

sendto(s) == IF s.net = <<>> THEN "ok" ELSE Head(s.net)

\* Mutant: transmissions are not counted.
TransmitUncounted(s, i) ==
  LET r == s.inflight[i]
  IN  IF r.ns \in s.choked THEN [s EXCEPT !.inflight[i].transmit = TRUE]
      ELSE [s EXCEPT !.inflight[i].timer = TRUE, !.inflight[i].transmit = FALSE]

evdns_request_transmit(s, i) ==
  LET r    == s.inflight[i]
      mark == [s EXCEPT !.inflight[i].transmit = TRUE]
      sent == [mark EXCEPT !.net = IF @ = <<>> THEN @ ELSE Tail(@)]
      Arm(t) == [t EXCEPT !.inflight[i].timer = TRUE, !.inflight[i].tx = @ + 1,
                          !.inflight[i].transmit = FALSE]
  IN  CASE ~r.id            -> Die(mark, "abort")
        [] r.id /\ r.ns = Null -> Die(mark, "null")
        [] OTHER ->
             IF r.ns \in s.choked THEN mark
             ELSE CASE sendto(s) = "ok"    -> Arm(sent)
                    [] sendto(s) = "again" -> [sent EXCEPT !.choked  = @ \cup {r.ns},
                                                           !.writing = @ \cup {r.ns}]
                    [] sendto(s) = "error" -> Arm(nameserver_failed(sent, r.ns))

\* One turn of the loop of evdns_transmit.
TransmitMarked(s, i) == IF s.inflight[i].transmit THEN evdns_request_transmit(s, i) ELSE s

evdns_transmit(s) ==
  LET sent[i \in 0 .. Len(s.inflight)] == IF i = 0 THEN s ELSE TransmitMarked(sent[i - 1], i)
  IN  sent[Len(s.inflight)]

\* One turn of the loop of evdns_requests_pump_waiting_queue.
Promote(s) ==
  IF s.waiting = <<>> THEN Die(s, "assert")
  ELSE LET p == nameserver_pick(s)
           r == [Head(s.waiting) EXCEPT !.ns = p.picked, !.id = TRUE]
           t == [p EXCEPT !.waiting = Tail(@), !.nWaiting = @ - 1, !.nInflight = @ + 1,
                          !.inflight = Append(@, r)]
       IN  evdns_transmit(evdns_request_transmit(t, Len(t.inflight)))

MayPump(s) == s.fault = "none" /\ s.nInflight < s.limit /\ s.nWaiting > 0
Pump(s) == IF MayPump(s) THEN Promote(s) ELSE s

evdns_requests_pump_waiting_queue(s) ==
  LET turn[i \in 0 .. Len(s.waiting) + 1] == IF i = 0 THEN s ELSE Pump(turn[i - 1])
  IN  turn[Len(s.waiting) + 1]

\* request_new, without the search fields.
request_new(s, who) ==
  LET now == s.nInflight < s.limit
      p   == IF now THEN nameserver_pick(s) ELSE s
  IN  <<p, Request(who, IF now THEN p.picked ELSE Null, now)>>

request_submit(s, r) ==
  IF r.ns # Null
  THEN LET t == [s EXCEPT !.inflight = Append(@, r), !.nInflight = @ + 1]
       IN  evdns_request_transmit(t, Len(t.inflight))
  ELSE [s EXCEPT !.waiting = Append(@, r), !.nWaiting = @ + 1]

-----------------------------------------------------------------------------
(* Searching.  A name is tried as it is (Null) or with a domain.           *)

\* The memory of a state that has one holder less.
Decref(state) ==
  IF state.refcount = 1 THEN NoState ELSE [state EXCEPT !.refcount = @ - 1]

search_state_decref(s, k) ==
  IF k = Null THEN s ELSE [s EXCEPT !.states[k] = Decref(@)]

Unused(s) == {k \in States : s.states[k].refcount = 0}

search_state_new(s) ==
  LET k == Min(Unused(s))
  IN  [s EXCEPT !.search = k,
                !.states[k] = [NoState EXCEPT !.refcount = 1]]

Dots(q) == IF q \in Dotted THEN 1 ELSE 0

\* The names a search in state k tries for q, in their order.
SearchPlan(s, q, k) ==
  LET d == s.states[k].domains
  IN  IF Dots(q) >= s.states[k].ndots THEN <<Null>> \o d ELSE Append(d, Null)

\* search_request_new: index -1 is the raw name.
search_request_new(s, q) ==
  LET new == request_new(s, q)
      k   == s.search
      hasList == q \in Searching /\ k # Null /\ (k # Null => s.states[k].domains # <<>>)
  IN  IF hasList
      THEN request_submit(
             [new[1] EXCEPT !.states[k].refcount = @ + 1,
                            !.left[q] = Tail(SearchPlan(s, q, k))],
             [new[2] EXCEPT !.state = k,
                            !.index = IF Dots(q) >= s.states[k].ndots THEN -1 ELSE 0])
      ELSE request_submit([new[1] EXCEPT !.left[q] = <<>>], new[2])

\* evdns_resolve_ipv4 and its sisters.
evdns_resolve(s, q) == search_request_new([s EXCEPT !.pending[q] = @ + 1], q)

\* Does search_try_next have another name for this request?
HasNext(s, r) ==
  /\ r.state # Null
  /\ \/ r.index + 1 < Len(s.states[r.state].domains)
     \/ Dots(r.who) < s.states[r.state].ndots

\* Mutant: the first domain is tried again.
SameDomainAgain(s, r) ==
  LET new == request_new(s, r.who)
  IN  request_submit([new[1] EXCEPT !.states[r.state].refcount = @ + 1],
                     [new[2] EXCEPT !.state = r.state, !.index = 0])

search_try_next(s, r) ==
  LET k      == r.state
      isLast == r.index + 1 >= Len(s.states[k].domains)
      new    == request_new(s, r.who)
      tried  == [new[1] EXCEPT !.left[r.who] = IF @ = <<>> THEN @ ELSE Tail(@)]
  IN  IF isLast THEN request_submit(tried, new[2])
      ELSE request_submit([tried EXCEPT !.states[k].refcount = @ + 1],
                          [new[2] EXCEPT !.state = k, !.index = r.index + 1])

-----------------------------------------------------------------------------
(* Ending a request.                                                       *)

\* Mutant: the counter is not decremented.
FinishedStillCounted(s, list, i) ==
  evdns_requests_pump_waiting_queue(
    [search_state_decref(s, s[list][i].state) EXCEPT ![list] = RemoveAt(@, i)])

\* request_finished for the request at place i of a list.
request_finished(s, list, i) ==
  evdns_requests_pump_waiting_queue(
    [search_state_decref(s, s[list][i].state) EXCEPT
       ![list] = RemoveAt(@, i), !.nInflight = @ - 1])

\* nameserver_probe_callback
nameserver_probe_callback(s, n, result) ==
  IF n = Freed THEN Die(s, "freed")
  ELSE IF result \in {"none", "notexist"} THEN nameserver_up(s, n)
  ELSE nameserver_probe_failed(s, n)

\* reply_callback: the user callback may resolve another query.
reply_callback(s, r, result) ==
  IF r.who \notin Queries THEN nameserver_probe_callback(s, r.who, result)
  ELSE LET told == [s EXCEPT !.pending[r.who] = @ - 1, !.left[r.who] = <<>>, !.again = Null,
                              !.turn[r.who] = IF s.again = r.who THEN 1 - @ ELSE 0]
       IN  IF s.again \in Queries /\ told.pending[s.again] = 0
           THEN evdns_resolve(told, s.again) ELSE told

request_reissue(s, i) ==
  LET p == nameserver_pick(s)
      t == [p EXCEPT !.inflight[i].ns = p.picked]
  IN  IF p.picked = s.inflight[i].ns THEN t
      ELSE [t EXCEPT !.inflight[i].reissue = @ + 1, !.inflight[i].tx = 0,
                     !.inflight[i].transmit = TRUE]

\* Mutant: the user is told although another name is tried.
TellsEarly(s, i, result) ==
  LET r == s.inflight[i]
      t == reply_callback(s, r, result)
  IN  IF HasNext(s, r) THEN request_finished(search_try_next(t, r), "inflight", i)
      ELSE request_finished(t, "inflight", i)

\* All else failed, or there is another name to try.
Unanswered(s, i, result) ==
  LET r == s.inflight[i]
  IN  IF HasNext(s, r) THEN request_finished(search_try_next(s, r), "inflight", i)
      ELSE request_finished(reply_callback(s, r, result), "inflight", i)

reply_handle(s, i, result) ==
  LET r       == s.inflight[i]
      failed  == nameserver_failed(s, r.ns)
      again   == request_reissue(failed, i)
      reissued == again.inflight[i].reissue > r.reissue
      told    == reply_callback(s, r, "none")
  IN  CASE result = "none" ->
             request_finished(nameserver_up(told, told.inflight[i].ns), "inflight", i)
        [] result = "refused" ->
             IF r.reissue >= MaxReissues THEN Unanswered(s, i, result)
             ELSE IF reissued THEN again ELSE Unanswered(again, i, result)
        [] result = "serverfailed" -> Unanswered(s, i, result)
        [] OTHER -> Unanswered(nameserver_up(s, r.ns), i, result)

-----------------------------------------------------------------------------
(* Callbacks of events.                                                    *)

\* The first sendto call of a handler or the second may not succeed.
Sends == {<<o, "ok">> : o \in Outcomes} \cup {<<"ok", o>> : o \in Outcomes}

\* The handler h runs on the globals; the process must be alive.
Handle(h(_), nets, queries) ==
  /\ dns.fault = "none"
  /\ \E net \in nets, q \in queries :
       dns' = [h([dns EXCEPT !.net = net, !.again = q]) EXCEPT
                 !.net = <<>>, !.again = Null, !.picked = Null]

\* A handler that may make a user callback for a request.
HandleReply(h(_), who, nets) ==
  \/ Handle(h, nets, {Null})
  \/ who \in Queries /\ Handle(h, Sends, Queries)

\* A handler that sends, and one that does not, without a user callback.
HandleSending(h(_)) == Handle(h, Sends, {Null})
HandleQuietly(h(_)) == Handle(h, {<<>>}, {Null})

Results == {"none", "notexist", "refused", "serverfailed", "format"}

\* nameserver_ready_callback, EV_READ: a packet of server n, which answers
\* any request that was sent.
NameserverRead(timedout, i, result) ==
  /\ i \in DOMAIN dns.inflight
  /\ dns.inflight[i].tx > 0 \/ dns.inflight[i].reissue > 0
  /\ LET h(s) == reply_handle([s EXCEPT !.timedout = timedout], i, result)
         idle == dns.waiting = <<>> /\ dns.inflight[i].state = Null
     IN  HandleReply(h, dns.inflight[i].who, IF idle THEN {<<>>} ELSE Sends)

\* recvfrom fails.
NameserverReadError(n) ==
  /\ n \in ToSet(dns.ring)
  /\ LET h(s) == nameserver_failed(s, n) IN HandleQuietly(h)

\* Mutant: the event is given up after one attempt.
WriteOnce(n) ==
  /\ n \in dns.writing
  /\ LET h(s) == [evdns_transmit([s EXCEPT !.choked = @ \ {n}]) EXCEPT !.writing = @ \ {n}]
     IN  HandleSending(h)

\* The event stays until nothing is left to be sent.
nameserver_write_waiting(s, n) ==
  LET tries == \E i \in DOMAIN s.inflight : s.inflight[i].transmit
  IN  [evdns_transmit([s EXCEPT !.choked = @ \ {n}]) EXCEPT
         !.writing = IF tries THEN @ ELSE @ \ {n}]

\* nameserver_ready_callback, EV_WRITE.
NameserverWrite(n) ==
  /\ n \in dns.writing
  /\ LET h(s) == nameserver_write_waiting(s, n) IN HandleSending(h)

\* A server is charged with a request that timed out.
Charge(s, n) ==
  IF s.timedout[n] + 1 > MaxTimeouts THEN nameserver_failed([s EXCEPT !.timedout[n] = 0], n)
  ELSE [s EXCEPT !.timedout[n] = @ + 1]

evdns_request_timeout_callback(s, i) ==
  LET charged == Charge(s, s.inflight[i].ns)
      t == [charged EXCEPT !.inflight[i].timer = FALSE]
      r == t.inflight[i]
  IN  IF r.tx >= MaxRetransmits
      THEN request_finished(reply_callback(t, r, "timeout"), "inflight", i)
      ELSE evdns_request_transmit(t, i)

RequestTimeout(i) ==
  /\ i \in DOMAIN dns.inflight /\ dns.inflight[i].timer
  /\ LET h(s) == evdns_request_timeout_callback(s, i)
     IN  HandleReply(h, dns.inflight[i].who, Sends)

\* Mutant: a probe beyond the limit is given no transaction id.
ProbeWithoutId(n) ==
  /\ n \in dns.timer
  /\ Len(dns.inflight) + Len(dns.waiting) < MaxLive
  /\ LET h(s) == LET new == request_new([s EXCEPT !.timer = @ \ {n}], n)
                 IN  request_submit(new[1], [new[2] EXCEPT !.ns = n])
     IN  HandleSending(h)

nameserver_send_probe(s, n) ==
  LET new == request_new([s EXCEPT !.timer = @ \ {n}], n)
  IN  request_submit(new[1], [new[2] EXCEPT !.ns = n, !.id = TRUE])

\* nameserver_prod_callback.
SendProbe(n) ==
  /\ n \in dns.timer
  /\ Len(dns.inflight) + Len(dns.waiting) < MaxLive
  /\ LET h(s) == nameserver_send_probe(s, n) IN HandleSending(h)

-----------------------------------------------------------------------------
(* Calls of user code.                                                     *)

Resolve(q) ==
  /\ dns.pending[q] = 0
  /\ LET h(s) == evdns_resolve(s, q) IN HandleSending(h)

\* _evdns_nameserver_add_impl; an address that is there already is refused.
nameserver_add(s, n) ==
  IF n \in ToSet(s.ring) THEN s
  ELSE [s EXCEPT !.ring = IF @ = <<>> THEN <<n>> ELSE <<Head(@), n>> \o Tail(@),
                 !.up = @ \cup {n}, !.good = @ + 1, !.timedout[n] = 0]

NameserverAdd(n) ==
  LET h(s) == nameserver_add(s, n) IN HandleQuietly(h)

\* A request that evdns_clear_nameservers_and_suspend takes out of flight.
Suspended(r) ==
  [r EXCEPT !.tx = 0, !.reissue = 0, !.ns = Null, !.timer = FALSE, !.id = FALSE,
            !.transmit = FALSE, !.who = IF @ \in Queries THEN @ ELSE Freed]

evdns_clear_nameservers_and_suspend(s) ==
  LET front == Reverse([i \in DOMAIN s.inflight |-> Suspended(s.inflight[i])])
  IN  [s EXCEPT !.ring = <<>>, !.up = {}, !.good = 0, !.timer = {},
                !.choked = {}, !.writing = {}, !.timedout = [n \in Servers |-> 0],
                !.waiting = front \o @, !.nWaiting = @ + Len(front),
                !.inflight = <<>>, !.nInflight = 0]

ClearNameserversAndSuspend ==
  dns.ring # <<>> /\ HandleQuietly(evdns_clear_nameservers_and_suspend)

EvdnsResume ==
  /\ Careful => dns.ring # <<>> \/ dns.waiting = <<>>
  /\ dns.waiting # <<>>
  /\ HandleSending(evdns_requests_pump_waiting_queue)

\* evdns_set_option("max-inflight:").
SetMaxInflight(n) ==
  /\ n # dns.limit
  /\ LET h(s) == [s EXCEPT !.limit = n] IN HandleQuietly(h)

\* One turn of the first, then the second loop of evdns_shutdown.
Discard(s, failRequests) ==
  LET list == IF s.inflight # <<>> THEN "inflight" ELSE "waiting"
      r    == s[list][1]
      told == IF failRequests THEN reply_callback(s, r, "shutdown")
              ELSE IF r.who \in Queries THEN [s EXCEPT !.pending[r.who] = @ - 1, !.left[r.who] = <<>>]
              ELSE s
  IN  IF s.fault # "none" \/ s[list] = <<>> THEN s
      ELSE request_finished(told, list, 1)

\* Both loops: a callback makes one request more at most.
DiscardAll(s, failRequests) ==
  LET turn[i \in 0 .. Len(s.inflight) + Len(s.waiting) + 1] ==
        IF i = 0 THEN s ELSE Discard(turn[i - 1], failRequests)
  IN  turn[Len(s.inflight) + Len(s.waiting) + 1]

evdns_shutdown(s, failRequests) ==
  LET t == DiscardAll(s, failRequests)
  IN  [t EXCEPT !.nInflight = 0, !.nWaiting = 0, !.ring = <<>>, !.up = {},
                !.good = 0, !.choked = {}, !.writing = {},
                !.timedout = [n \in Servers |-> 0],
                !.timer = @ \ (ToSet(t.ring) \ t.up), !.search = Null,
                !.states = IF t.search = Null THEN @
                           ELSE [t.states EXCEPT ![t.search] = NoState]]

EvdnsShutdown(failRequests) ==
  /\ Careful => dns.inflight # <<>> \/ dns.waiting = <<>>
  /\ LET h(s) == evdns_shutdown(s, failRequests)
     IN  Handle(h, {<<>>}, Queries \cup {Null})

\* Those that search hold the state they began with.
search_postfix_clear(s) == search_state_new(search_state_decref(s, s.search))

\* The search state, made if there is none.
WithState(s) == IF s.search = Null THEN search_state_new(s) ELSE s

\* evdns_search_clear
SearchClear == HandleQuietly(search_postfix_clear)

\* Queries that are searched with the global search state.
InSearch == {q \in Queries : \E r \in ToSet(dns.inflight) \cup ToSet(dns.waiting) :
               r.who = q /\ r.state # Null /\ r.state = dns.search}

search_postfix_add(s, d) ==
  LET t == WithState(s)
  IN  [t EXCEPT !.states[t.search].domains = <<d>> \o @]

\* evdns_search_add.  A search under way follows the list it finds.
SearchAdd(d) ==
  /\ dns.search # Null => Len(dns.states[dns.search].domains) < MaxDomains
  /\ MaxDomains > 0 /\ (Careful => InSearch = {})
  /\ LET h(s) == search_postfix_add(s, d) IN HandleQuietly(h)

evdns_search_ndots_set(s, n) ==
  LET t == WithState(s)
  IN  [t EXCEPT !.states[t.search].ndots = n]

SearchNdotsSet(n) ==
  /\ MaxDomains > 0 /\ (Careful => InSearch = {})
  /\ LET h(s) == evdns_search_ndots_set(s, n) IN HandleQuietly(h)

\* evdns_resolv_conf_parse of a file with a line "nameserver n" and, if there
\* are domains, a line "search".  Domains are pushed and then reversed; without
\* one the host name (which has none) takes their place.
evdns_resolv_conf_parse(s, n, domains) ==
  LET pushed == Reverse(domains)   \* each is put in front of those before it
      noList == s.search # Null => s.states[s.search].domains = <<>>
      new    == search_postfix_clear(s)
      t      == IF domains # <<>>
                THEN [new EXCEPT !.states[new.search].domains = Reverse(pushed)]
                ELSE IF noList THEN new ELSE s
  IN  nameserver_add(t, n)

ResolvConfParse(n, domains) ==
  /\ MaxDomains > 0
  /\ LET h(s) == evdns_resolv_conf_parse(s, n, domains) IN HandleQuietly(h)

-----------------------------------------------------------------------------
DomainLists == BoundedSeq(Domains, MaxDomains)

Next ==
  \/ \E q \in Queries : Resolve(q)
  \/ \E t \in {[dns.timedout EXCEPT ![n] = 0] : n \in ToSet(dns.ring)},
        i \in DOMAIN dns.inflight, res \in Results : NameserverRead(t, i, res)
  \/ \E n \in Servers : NameserverReadError(n)
  \/ \E n \in Servers : NameserverWrite(n)
  \/ \E i \in DOMAIN dns.inflight : RequestTimeout(i)
  \/ \E n \in Servers : SendProbe(n)
  \/ \E n \in Servers : NameserverAdd(n)
  \/ ClearNameserversAndSuspend
  \/ EvdnsResume
  \/ \E n \in InflightLimits : SetMaxInflight(n)
  \/ \E f \in BOOLEAN : EvdnsShutdown(f)
  \/ SearchClear
  \/ \E d \in Domains : SearchAdd(d)
  \/ \E n \in 1 .. 2 : SearchNdotsSet(n)
  \/ \E n \in Servers, l \in DomainLists : ResolvConfParse(n, l)

Spec == Init /\ [][Next]_dns

\* The timer of a request fires, however the list changes in the meantime.
TimeoutOf(who) == \E i \in DOMAIN dns.inflight : dns.inflight[i].who = who /\ RequestTimeout(i)
\* A socket takes what is written to it.
Unchoke(n) == NameserverWrite(n) /\ n \notin dns'.choked

FairSpec ==
  /\ Spec
  /\ \A who \in Queries \cup Servers \cup {Freed} : WF_dns(TimeoutOf(who))
  /\ \A n \in Servers : SF_dns(Unchoke(n))

-----------------------------------------------------------------------------
Alive == dns.fault = "none"
All   == dns.inflight \o dns.waiting

\* Each counter that decides what happens next (is there room in flight, does
\* a request wait, is any server good) says what its list says, whatever
\* mixture of probes, reissues, suspensions and callbacks led there.
CountersExact ==
  Alive => /\ dns.nInflight = Len(dns.inflight) /\ dns.nWaiting = Len(dns.waiting)
           /\ dns.good = Cardinality(dns.up) /\ dns.up \subseteq ToSet(dns.ring)

\* A query user code waits for is carried by exactly one request, in flight or
\* waiting, so that its callback is made once: across the requests of a
\* search, a reissue, a suspension and a callback that resolves again.
OneRequestPerQuery ==
  Alive => \A q \in Queries :
             /\ dns.pending[q] \in {0, 1}
             /\ Cardinality({i \in DOMAIN All : All[i].who = q}) = dns.pending[q]

\* No assertion of evdns.c fails, no request is sent without a transaction id
\* (abort) or without a server, whichever order events come in, as long as
\* user code is careful.
NeverAborts == dns.fault \in {"none", "freed"}

\* A server that is down will be tried again: its timer is pending or a probe
\* of it is under way.  A server that is up has no timer left.
DownServersProbed ==
  Alive => /\ \A n \in ToSet(dns.ring) \ dns.up :
                n \in dns.timer \/ \E i \in DOMAIN All : All[i].who = n
           /\ dns.timer \subseteq ToSet(dns.ring) \ dns.up

\* A request in flight has a timer, or it is marked to be sent and some
\* server waits for its socket, whose event sends all that is marked.
SendingContinues ==
  Alive => \A i \in DOMAIN dns.inflight :
             \/ dns.inflight[i].timer
             \/ dns.inflight[i].transmit /\ dns.writing # {}

\* The names a request's search would still try, read off its search state.
Remaining(r) ==
  IF r.state = Null THEN <<>>
  ELSE LET d == dns.states[r.state].domains
       IN  SubSeq(d, r.index + 2, Len(d)) \o
           (IF Dots(r.who) < dns.states[r.state].ndots THEN <<Null>> ELSE <<>>)

\* A search tries every name of the list it began with, in that order and once
\* each, the plain name first or last as ndots says, even when user code
\* replaces the list (evdns_search_clear, resolv.conf) or the resolver is
\* suspended meanwhile: the state a request holds is not freed under it.
SearchesEveryName ==
  Alive => \A i \in DOMAIN All : All[i].who \in Queries =>
             Remaining(All[i]) = dns.left[All[i].who]

\* Every query is answered, if only by a timeout, unless the resolver comes
\* to have nothing in flight (suspended, or no server yet).
QueriesAnswered ==
  \A q \in Queries, v \in {0, 1} :
    (dns.pending[q] > 0 /\ dns.turn[q] = v)
      ~> (dns.pending[q] = 0 \/ dns.turn[q] # v \/ dns.inflight = <<>> \/ ~Alive)
=============================================================================
