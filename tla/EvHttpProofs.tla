---------------------------- MODULE EvHttpProofs ----------------------------
(***************************************************************************)
(* The connections of http.c never fail an assertion, free a request under *)
(* user code or lose track of one, and hand over the bodies the peer sent, *)
(* for any requests, any messages of the peer and any number of retries.   *)
(***************************************************************************)
EXTENDS EvHttp, FiniteSetTheorems, SequenceTheorems, WellFoundedInduction, TLAPS

Reading == {"READING_FIRSTLINE", "READING_HEADERS", "READING_BODY", "READING_TRAILER"}

-----------------------------------------------------------------------------
(* What holds between two handlers.                                        *)

\* The fields of the record and of its message; the output is counted.
Shape(s) ==
  /\ DOMAIN s = {"role", "alive", "state", "fd", "ev", "closeEv", "queue", "retryCnt", "cb",
                 "out", "inbuf", "msg", "where", "started", "wire", "closed", "sent", "may",
                 "eof", "last", "refused", "refuse", "ran", "fault"}
  /\ DOMAIN s.msg = {"type", "hdrs", "ntoread", "chunked", "body", "userdone", "close"}
  /\ s.out \in Nat

Among(r, q) == \E i \in 1 .. Len(q) : q[i] = r

\* A request is queued once, and exactly then where says so.
Owns(q, where) ==
  /\ q \in Seq(Requests)
  /\ where \in [Requests -> {"none", "queued", "held", "detached"}]
  /\ \A r \in Requests : Among(r, q) <=> where[r] \in {"queued", "held"}
  /\ \A i, j \in 1 .. Len(q) : q[i] = q[j] => i = j

\* What both roles keep, also while a handler runs.
Base(s) ==
  /\ Shape(s)
  /\ Owns(s.queue, s.where)
  /\ s.closeEv \in BOOLEAN /\ s.fd \in BOOLEAN /\ s.alive \in BOOLEAN
  /\ s.msg.userdone \in BOOLEAN
  /\ s.fault = "none"

\* A client is always there, and user code holds none of its requests.
Client(s) ==
  /\ Base(s) /\ s.role = "client" /\ s.alive
  /\ \A r \in Requests : s.where[r] \in {"none", "queued"}

\* The state of a client says which event is pending; only one that is idle or
\* disconnected has no request that uses it.
ClientOK(s) ==
  /\ Client(s)
  /\ s.state \in {"DISCONNECTED", "CONNECTING", "IDLE", "WRITING"} \cup Reading
  /\ s.state \in {"DISCONNECTED", "IDLE"} => s.ev = "none"
  /\ s.state = "CONNECTING" => s.ev \in {"connect", "retry"}
  /\ s.state = "WRITING" => s.ev = "write" /\ s.cb = "connectioncb" /\ s.queue # <<>>
  /\ s.state \in Reading => s.ev = "read" /\ s.queue # <<>>
  /\ s.state = "IDLE" => s.queue = <<>>
  /\ s.state # "DISCONNECTED" => s.fd
  /\ s.closeEv => s.state = "IDLE"

\* A request whose connection is gone is one that user code has begun to answer.
Server(s) ==
  /\ Base(s) /\ s.role = "server" /\ ~s.closeEv
  /\ s.cb \in {"null", "send_done"}
  /\ \A r \in Requests : s.where[r] = "detached" => r \in s.started

\* A server connection has one request, which is being read, or held by user
\* code, or answered; while it is held nothing is pending, unless a reply in
\* pieces has begun.
ServerOK(s) ==
  /\ Server(s)
  /\ ~s.alive => s.queue = <<>> /\ s.ev = "none"
  /\ s.alive => Len(s.queue) = 1
  /\ s.ev \in {"none", "read", "write"}
  /\ s.alive /\ s.ev = "none" => s.where[Head(s.queue)] = "held"
  /\ s.ev = "read" => s.state \in Reading /\ s.where[Head(s.queue)] = "queued"
  /\ s.alive /\ s.where[Head(s.queue)] = "held" => ~s.msg.userdone
  /\ s.alive /\ s.where[Head(s.queue)] = "held" /\ s.ev = "write" =>
       Head(s.queue) \in s.started /\ s.cb = "null"
  /\ s.alive /\ s.where[Head(s.queue)] = "queued" =>
       /\ s.msg.userdone <=> s.ev = "write"
       /\ s.ev = "write" => s.cb = "send_done"

HttpOK(s) == ClientOK(s) \/ ServerOK(s)
HttpInv == HttpOK(con)

-----------------------------------------------------------------------------
(* Requests that leave and join the queue.                                 *)

\* Tail and Append, position by position.
LEMMA TailFacts ==
  ASSUME NEW q \in Seq(Requests), q # <<>>
  PROVE  /\ Head(q) \in Requests /\ Head(q) = q[1] /\ Len(q) \in Nat /\ Len(q) > 0
         /\ Tail(q) \in Seq(Requests) /\ Len(Tail(q)) = Len(q) - 1
         /\ \A i \in 1 .. Len(q) - 1 : Tail(q)[i] = q[i + 1]
  OBVIOUS

LEMMA AppendFacts ==
  ASSUME NEW q \in Seq(Requests), NEW r \in Requests
  PROVE  /\ Append(q, r) \in Seq(Requests) /\ Len(q) \in Nat
         /\ Len(Append(q, r)) = Len(q) + 1
         /\ \A i \in 1 .. Len(q) : Append(q, r)[i] = q[i]
         /\ Append(q, r)[Len(q) + 1] = r
         /\ Append(q, r) # <<>>
  OBVIOUS

\* An empty queue has nobody.
LEMMA EmptyOwns ==
  ASSUME NEW where \in [Requests -> {"none", "detached"}]
  PROVE  Owns(<<>>, where)
<1>1. <<>> \in Seq(Requests) /\ Len(<<>>) = 0
  OBVIOUS
<1>2. \A r \in Requests : ~Among(r, <<>>)
  BY <1>1 DEF Among
<1>3. \A i \in 1 .. Len(<<>>) : FALSE
  BY <1>1
<1>4. \A r \in Requests : where[r] \notin {"queued", "held"}
  OBVIOUS
<1>5. where \in [Requests -> {"none", "queued", "held", "detached"}]
  OBVIOUS
<1> QED
  BY <1>1, <1>2, <1>3, <1>4, <1>5 DEF Owns

\* The first request leaves.
LEMMA PopOwns ==
  ASSUME NEW q, NEW where, Owns(q, where), q # <<>>, NEW v \in {"none", "detached"}
  PROVE  Owns(Tail(q), [where EXCEPT ![Head(q)] = v])
<1> DEFINE w == [where EXCEPT ![Head(q)] = v]
<1>1. /\ Head(q) \in Requests /\ Head(q) = q[1] /\ Len(q) \in Nat /\ Len(q) > 0
      /\ Tail(q) \in Seq(Requests) /\ Len(Tail(q)) = Len(q) - 1
      /\ \A i \in 1 .. Len(q) - 1 : Tail(q)[i] = q[i + 1]
  BY TailFacts DEF Owns
<1>2. /\ w \in [Requests -> {"none", "queued", "held", "detached"}]
      /\ w[Head(q)] = v
      /\ \A r \in Requests \ {Head(q)} : w[r] = where[r]
  BY <1>1 DEF Owns
<1>3. \A i, j \in 1 .. Len(q) : q[i] = q[j] => i = j
  BY DEF Owns
<1>4. \A i, j \in 1 .. Len(Tail(q)) : Tail(q)[i] = Tail(q)[j] => i = j
  <2> SUFFICES ASSUME NEW i \in 1 .. Len(Tail(q)), NEW j \in 1 .. Len(Tail(q)),
                      Tail(q)[i] = Tail(q)[j]
               PROVE  i = j
    OBVIOUS
  <2>1. i + 1 \in 1 .. Len(q) /\ j + 1 \in 1 .. Len(q) /\ q[i + 1] = q[j + 1]
    BY <1>1
  <2>2. i + 1 = j + 1
    BY <1>3, <2>1
  <2> QED
    BY <1>1, <2>2
<1>5. ~Among(Head(q), Tail(q))
  <2> SUFFICES ASSUME NEW i \in 1 .. Len(Tail(q)), Tail(q)[i] = Head(q) PROVE FALSE
    BY DEF Among
  <2>1. i + 1 \in 1 .. Len(q) /\ 1 \in 1 .. Len(q) /\ q[i + 1] = q[1]
    BY <1>1
  <2>2. i + 1 = 1
    BY <1>3, <2>1
  <2> QED
    BY <1>1, <2>2
<1>6. ASSUME NEW r \in Requests \ {Head(q)} PROVE Among(r, Tail(q)) <=> Among(r, q)
  <2>1. ASSUME NEW i \in 1 .. Len(q), q[i] = r PROVE Among(r, Tail(q))
    <3>1. i # 1
      BY <1>1, <1>6, <2>1
    <3>2. i - 1 \in 1 .. Len(Tail(q)) /\ (i - 1) + 1 = i
      BY <1>1, <3>1
    <3>3. Tail(q)[i - 1] = r
      BY <1>1, <2>1, <3>2
    <3> QED
      BY <3>2, <3>3 DEF Among
  <2>2. ASSUME NEW i \in 1 .. Len(Tail(q)), Tail(q)[i] = r PROVE Among(r, q)
    <3>1. i + 1 \in 1 .. Len(q) /\ q[i + 1] = r
      BY <1>1, <2>2
    <3> QED
      BY <3>1 DEF Among
  <2> QED
    BY <2>1, <2>2 DEF Among
<1>7. \A r \in Requests : Among(r, Tail(q)) <=> w[r] \in {"queued", "held"}
  <2>1. v \notin {"queued", "held"}
    OBVIOUS
  <2> HIDE DEF w
  <2> QED
    BY <1>2, <1>5, <1>6, <2>1 DEF Owns
<1> HIDE DEF w
<1>8. Owns(Tail(q), w)
  BY <1>1, <1>2, <1>4, <1>7 DEF Owns
<1> QED
  BY <1>8 DEF w

\* A request joins that was nowhere.
LEMMA PushOwns ==
  ASSUME NEW q, NEW where, Owns(q, where), NEW r \in Requests, where[r] \in {"none", "detached"}
  PROVE  Owns(Append(q, r), [where EXCEPT ![r] = "queued"])
<1> DEFINE w == [where EXCEPT ![r] = "queued"]
           a == Append(q, r)
<1>1. /\ a \in Seq(Requests) /\ Len(q) \in Nat /\ Len(a) = Len(q) + 1
      /\ \A i \in 1 .. Len(q) : a[i] = q[i]
      /\ a[Len(q) + 1] = r
  BY AppendFacts DEF Owns
<1>2. /\ w \in [Requests -> {"none", "queued", "held", "detached"}]
      /\ w[r] = "queued"
      /\ \A x \in Requests \ {r} : w[x] = where[x]
  BY DEF Owns
<1> HIDE DEF w, a
<1>3. \A i \in 1 .. Len(q) : q[i] # r
  <2>1. ~Among(r, q)
    BY DEF Owns
  <2> QED
    BY <2>1 DEF Among
<1>4. \A i \in 1 .. Len(a) : i = Len(q) + 1 \/ i \in 1 .. Len(q)
  BY <1>1
<1>5. \A i, j \in 1 .. Len(a) : a[i] = a[j] => i = j
  <2>1. \A i, j \in 1 .. Len(q) : q[i] = q[j] => i = j
    BY DEF Owns
  <2> QED
    BY <1>1, <1>3, <1>4, <2>1
<1>6. Among(r, a)
  <2>1. Len(q) + 1 \in 1 .. Len(a)
    BY <1>1
  <2> QED
    BY <1>1, <2>1 DEF Among
<1>7. ASSUME NEW x \in Requests \ {r} PROVE Among(x, a) <=> Among(x, q)
  <2>1. ASSUME NEW i \in 1 .. Len(q), q[i] = x PROVE Among(x, a)
    <3>1. i \in 1 .. Len(a) /\ a[i] = x
      BY <1>1, <2>1
    <3> QED
      BY <3>1 DEF Among
  <2>2. ASSUME NEW i \in 1 .. Len(a), a[i] = x PROVE Among(x, q)
    <3>1. i \in 1 .. Len(q) /\ q[i] = x
      BY <1>1, <1>4, <1>7, <2>2
    <3> QED
      BY <3>1 DEF Among
  <2> QED
    BY <2>1, <2>2 DEF Among
<1>8. \A x \in Requests : Among(x, a) <=> w[x] \in {"queued", "held"}
  BY <1>2, <1>6, <1>7 DEF Owns
<1>9. Owns(a, w)
  BY <1>1, <1>2, <1>5, <1>8 DEF Owns
<1> QED
  BY <1>9 DEF a, w

\* A request that stays in the queue is handed to user code or taken back.
LEMMA MarkOwns ==
  ASSUME NEW q, NEW where, Owns(q, where), NEW r \in Requests, Among(r, q),
         NEW v \in {"queued", "held"}
  PROVE  Owns(q, [where EXCEPT ![r] = v])
<1> DEFINE w == [where EXCEPT ![r] = v]
<1>1. /\ w \in [Requests -> {"none", "queued", "held", "detached"}]
      /\ w[r] \in {"queued", "held"}
      /\ \A x \in Requests \ {r} : w[x] = where[x]
  BY DEF Owns
<1> HIDE DEF w
<1>2. \A x \in Requests : Among(x, q) <=> w[x] \in {"queued", "held"}
  BY <1>1 DEF Owns
<1>3. Owns(q, w)
  BY <1>1, <1>2 DEF Owns
<1> QED
  BY <1>3 DEF w

\* The first of a queue is in it.
LEMMA HeadOwned ==
  ASSUME NEW q, NEW where, Owns(q, where), q # <<>>
  PROVE  Head(q) \in Requests /\ Among(Head(q), q) /\ where[Head(q)] \in {"queued", "held"}
<1>1. Head(q) \in Requests /\ Head(q) = q[1] /\ 1 \in 1 .. Len(q)
  BY TailFacts DEF Owns
<1>2. Among(Head(q), q)
  BY <1>1 DEF Among
<1> QED
  BY <1>1, <1>2 DEF Owns

\* A queue of one has one: its first.
LEMMA OnlyOne ==
  ASSUME NEW q, NEW where, Owns(q, where), Len(q) = 1
  PROVE  /\ q # <<>> /\ Tail(q) = <<>>
         /\ \A r \in Requests : where[r] \in {"queued", "held"} => r = Head(q)
<1>1. q \in Seq(Requests)
  BY DEF Owns
<1>2. q # <<>>
  BY <1>1
<1>3. Len(Tail(q)) = 0 /\ Tail(q) \in Seq(Requests) /\ Head(q) = q[1]
  BY <1>1, <1>2, TailFacts
<1>4. Tail(q) = <<>>
  BY <1>3, EmptySeq
<1>5. \A r \in Requests : Among(r, q) => r = Head(q)
  BY <1>3 DEF Among
<1> QED
  BY <1>2, <1>4, <1>5 DEF Owns

\* Nobody is queued in an empty queue.
LEMMA NoneOwned ==
  ASSUME NEW where, Owns(<<>>, where)
  PROVE  where \in [Requests -> {"none", "detached"}]
<1>1. \A r \in Requests : ~Among(r, <<>>)
  BY DEF Among
<1> QED
  BY <1>1 DEF Owns

-----------------------------------------------------------------------------
(* The client, while a handler runs.                                       *)

\* What the invariant looks at, without the state and the pending event.
Like(t, s) ==
  /\ Shape(t)
  /\ t.role = s.role /\ t.alive = s.alive /\ t.fd = s.fd /\ t.closeEv = s.closeEv
  /\ t.queue = s.queue /\ t.where = s.where /\ t.started = s.started
  /\ t.cb = s.cb /\ t.fault = s.fault /\ t.msg.userdone = s.msg.userdone

\* A handler of a client runs for the first request.
ClientBusy(s) ==
  Client(s) /\ s.queue # <<>> /\ s.fd /\ ~s.closeEv /\ s.ev = "none"

\* evhttp_connection_reset closes the socket and leaves the requests.
LEMMA ResetFacts ==
  ASSUME NEW s, Shape(s)
  PROVE  LET t == evhttp_connection_reset(s)
         IN  /\ Shape(t) /\ t.msg.userdone = s.msg.userdone
             /\ t.state = "DISCONNECTED" /\ t.ev = "none" /\ t.fd = FALSE
             /\ t.role = s.role /\ t.alive = s.alive /\ t.closeEv = s.closeEv
             /\ t.queue = s.queue /\ t.where = s.where /\ t.started = s.started
             /\ t.cb = s.cb /\ t.fault = s.fault /\ t.refuse = s.refuse
  BY DEF Shape, evhttp_connection_reset, Closed

\* evhttp_connection_connect makes a socket, or is refused.
LEMMA ConnectOK ==
  ASSUME NEW s, Client(s), ~s.closeEv, s.state # "CONNECTING"
  PROVE  ClientOK(evhttp_connection_connect(s))
<1> DEFINE r == evhttp_connection_reset(s)
           t == evhttp_connection_connect(s)
<1> SUFFICES ClientOK(t)
  OBVIOUS
<1>1. Shape(s)
  BY DEF Client, Base
<1>2. /\ Shape(r) /\ r.msg.userdone = s.msg.userdone
      /\ r.state = "DISCONNECTED" /\ r.ev = "none" /\ r.fd = FALSE
      /\ r.role = s.role /\ r.alive = s.alive /\ r.closeEv = s.closeEv
      /\ r.queue = s.queue /\ r.where = s.where
      /\ r.fault = s.fault
  BY <1>1, ResetFacts
<1>3. s.closeEv = FALSE
  BY DEF Client, Base
<1>4. CASE s.refuse
  <2>1. t = [r EXCEPT !.refused = TRUE]
    BY <1>4 DEF evhttp_connection_connect
  <2> HIDE DEF r, t
  <2>2. /\ Shape(t) /\ t.msg = r.msg /\ t.role = r.role /\ t.alive = r.alive
        /\ t.queue = r.queue /\ t.where = r.where /\ t.fault = r.fault
        /\ t.closeEv = r.closeEv /\ t.fd = r.fd /\ t.state = r.state /\ t.ev = r.ev
    BY <1>2, <2>1 DEF Shape
  <2>3. Client(t)
    BY <1>2, <1>3, <2>2 DEF Client, Base
  <2> QED
    BY <1>2, <1>3, <2>2, <2>3 DEF ClientOK, Reading
<1>5. CASE ~s.refuse
  <2>1. t = [r EXCEPT !.fd = TRUE, !.ev = "connect", !.state = "CONNECTING", !.refused = FALSE]
    BY <1>5 DEF evhttp_connection_connect
  <2> HIDE DEF r, t
  <2>2. /\ Shape(t) /\ t.msg = r.msg /\ t.role = r.role /\ t.alive = r.alive
        /\ t.queue = r.queue /\ t.where = r.where /\ t.fault = r.fault
        /\ t.closeEv = r.closeEv /\ t.fd = TRUE /\ t.state = "CONNECTING" /\ t.ev = "connect"
    BY <1>2, <2>1 DEF Shape
  <2>3. Client(t)
    BY <1>2, <1>3, <2>2 DEF Client, Base
  <2> QED
    BY <1>2, <1>3, <2>2, <2>3 DEF ClientOK, Reading
<1> QED
  BY <1>4, <1>5

\* evhttp_request_dispatch on an idle connection.
LEMMA DispatchOK ==
  ASSUME NEW s, Client(s), s.queue # <<>>, s.state = "IDLE", s.fd
  PROVE  ClientOK(evhttp_request_dispatch(s))
<1> DEFINE t == evhttp_request_dispatch(s)
<1>1. /\ Shape(t) /\ t.msg = NoMessage /\ t.role = s.role /\ t.alive = s.alive
      /\ t.queue = s.queue /\ t.where = s.where /\ t.fault = s.fault
      /\ t.closeEv = FALSE /\ t.fd = s.fd /\ t.state = "WRITING" /\ t.ev = "write"
      /\ t.cb = "connectioncb"
  <2>1. Shape(s) /\ s.out + 1 \in Nat
    BY DEF Shape, Client, Base
  <2>2. t = [s EXCEPT !.closeEv = FALSE, !.state = "WRITING", !.msg = NoMessage,
                      !.out = s.out + 1, !.may = 1, !.cb = "connectioncb", !.ev = "write"]
    BY DEF evhttp_request_dispatch, evhttp_write_buffer
  <2> HIDE DEF t
  <2>3. /\ DOMAIN t = DOMAIN s /\ t.msg = NoMessage /\ t.out = s.out + 1
        /\ t.role = s.role /\ t.alive = s.alive
        /\ t.queue = s.queue /\ t.where = s.where /\ t.fault = s.fault
        /\ t.closeEv = FALSE /\ t.fd = s.fd /\ t.state = "WRITING" /\ t.ev = "write"
        /\ t.cb = "connectioncb"
    BY <2>1, <2>2 DEF Shape
  <2>4. Shape(t)
    BY <2>1, <2>3 DEF Shape, NoMessage
  <2> QED
    BY <2>3, <2>4
<1> HIDE DEF t
<1>2. t.msg.userdone = FALSE
  BY <1>1 DEF NoMessage
<1>3. ClientOK(t)
  BY <1>1, <1>2 DEF ClientOK, Client, Base, Reading
<1> QED
  BY <1>3 DEF t

\* t is s without its first request.
Left(t, s) ==
  /\ Shape(t) /\ t.role = s.role /\ t.alive = s.alive /\ t.closeEv = s.closeEv
  /\ t.fault = s.fault /\ t.fd \in BOOLEAN /\ t.msg.userdone = s.msg.userdone
  /\ t.queue = Tail(s.queue) /\ t.where = [s.where EXCEPT ![Head(s.queue)] = "none"]

\* The first request of a client leaves.
LEMMA ClientPop ==
  ASSUME NEW s, Client(s), s.queue # <<>>, NEW t, Left(t, s)
  PROVE  Client(t)
<1> USE DEF Left
<1>1. Owns(t.queue, t.where)
  <2>1. Owns(s.queue, s.where) /\ "none" \in {"none", "detached"}
    BY DEF Client, Base
  <2>2. Owns(Tail(s.queue), [s.where EXCEPT ![Head(s.queue)] = "none"])
    BY <2>1, PopOwns
  <2> QED
    BY <2>2
<1>2. Head(s.queue) \in Requests
  BY HeadOwned DEF Client, Base
<1>3. \A r \in Requests : t.where[r] \in {"none", "queued"}
  BY <1>2 DEF Client, Base, Owns
<1> QED
  BY <1>1, <1>3 DEF Client, Base

\* evhttp_connection_fail on the client.
LEMMA ClientFails ==
  ASSUME NEW s, ClientBusy(s), NEW why
  PROVE  ClientOK(evhttp_connection_fail(s, why))
<1> DEFINE p == [s EXCEPT !.queue = Tail(@), !.where[Head(s.queue)] = "none"]
           t == evhttp_connection_reset(p)
<1>1. Shape(s) /\ s.queue # <<>> /\ s.role = "client" /\ s.fd = TRUE /\ s.closeEv = FALSE
  BY DEF ClientBusy, Client, Base
<1>2. /\ Shape(p) /\ p.msg = s.msg /\ p.role = s.role /\ p.alive = s.alive
      /\ p.closeEv = s.closeEv /\ p.fault = s.fault /\ p.queue = Tail(s.queue)
      /\ p.where = [s.where EXCEPT ![Head(s.queue)] = "none"]
  BY <1>1 DEF Shape
<1>3. evhttp_connection_fail(s, why) =
        IF t.queue = <<>> THEN t ELSE evhttp_connection_connect(t)
  BY <1>1 DEF evhttp_connection_fail
<1> HIDE DEF p
<1>4. /\ Shape(t) /\ t.msg.userdone = p.msg.userdone
      /\ t.state = "DISCONNECTED" /\ t.ev = "none" /\ t.fd = FALSE
      /\ t.role = p.role /\ t.alive = p.alive /\ t.closeEv = p.closeEv
      /\ t.queue = p.queue /\ t.where = p.where /\ t.fault = p.fault
  BY <1>2, ResetFacts
<1> HIDE DEF t
<1>5. Client(t)
  <2>1. Left(t, s)
    BY <1>1, <1>2, <1>4 DEF Left
  <2> QED
    BY <1>1, <2>1, ClientPop DEF ClientBusy
<1>6. ClientOK(t)
  BY <1>1, <1>2, <1>4, <1>5 DEF ClientOK, Reading
<1>7. ClientOK(evhttp_connection_connect(t))
  BY <1>1, <1>2, <1>4, <1>5, ConnectOK
<1> QED
  BY <1>3, <1>6, <1>7

\* evhttp_connection_done on the client.
LEMMA ClientDone ==
  ASSUME NEW s, ClientBusy(s)
  PROVE  ClientOK(evhttp_connection_done(s))
<1> DEFINE needClose == "close" \in s.msg.hdrs \/ Head(s.queue) \in Closers
           idle == [HandOver(s) EXCEPT !.queue = Tail(@), !.where[Head(s.queue)] = "none",
                                       !.state = "IDLE"]
           t == IF needClose THEN evhttp_connection_reset(idle) ELSE idle
           z == [t EXCEPT !.closeEv = @ \/ ~needClose]
<1>1. /\ Shape(s) /\ s.queue # <<>> /\ s.role = "client" /\ s.fd = TRUE /\ s.closeEv = FALSE
      /\ s.ev = "none"
  BY DEF ClientBusy, Client, Base
<1>2. /\ Shape(idle) /\ idle.msg = s.msg /\ idle.role = s.role /\ idle.alive = s.alive
      /\ idle.closeEv = s.closeEv /\ idle.fault = s.fault /\ idle.queue = Tail(s.queue)
      /\ idle.where = [s.where EXCEPT ![Head(s.queue)] = "none"]
      /\ idle.state = "IDLE" /\ idle.fd = s.fd /\ idle.ev = s.ev
  BY <1>1 DEF Shape, HandOver
<1>3. evhttp_connection_done(s) =
        IF t.queue # <<>>
        THEN IF evhttp_connected(t) THEN evhttp_request_dispatch(t)
             ELSE evhttp_connection_connect(t)
        ELSE z
  BY <1>1 DEF evhttp_connection_done
<1> HIDE DEF idle
<1>4. Client(idle)
  <2>1. Left(idle, s)
    BY <1>1, <1>2 DEF Left
  <2> QED
    BY <1>1, <2>1, ClientPop DEF ClientBusy
<1> HIDE DEF needClose
<1>5. CASE needClose
  <2>1. /\ Shape(t) /\ t.msg.userdone = idle.msg.userdone
        /\ t.state = "DISCONNECTED" /\ t.ev = "none" /\ t.fd = FALSE
        /\ t.role = idle.role /\ t.alive = idle.alive /\ t.closeEv = idle.closeEv
        /\ t.queue = idle.queue /\ t.where = idle.where /\ t.fault = idle.fault
    BY <1>2, <1>5, ResetFacts
  <2>2. z = [t EXCEPT !.closeEv = t.closeEv \/ FALSE]
    BY <1>5
  <2> HIDE DEF t, z
  <2>3. Client(t)
    BY <1>4, <2>1 DEF Client, Base
  <2>4. ClientOK(evhttp_connection_connect(t))
    BY <1>1, <1>2, <2>1, <2>3, ConnectOK
  <2>5. ~evhttp_connected(t)
    BY <2>1 DEF evhttp_connected
  <2>6. t.closeEv = FALSE
    BY <1>1, <1>2, <2>1
  <2>7. /\ Shape(z) /\ z.closeEv = FALSE /\ z.msg = t.msg /\ z.state = t.state /\ z.ev = t.ev
        /\ z.fd = t.fd /\ z.role = t.role /\ z.alive = t.alive /\ z.queue = t.queue
        /\ z.where = t.where /\ z.fault = t.fault
    BY <2>1, <2>2, <2>6 DEF Shape
  <2>8. ClientOK(z)
    <3>1. Client(z)
      BY <2>3, <2>7 DEF Client, Base
    <3> QED
      BY <2>1, <2>7, <3>1 DEF ClientOK, Reading
  <2> QED
    BY <1>3, <2>4, <2>5, <2>8
<1>6. CASE ~needClose
  <2>1. t = idle
    BY <1>6
  <2>2. /\ Shape(z) /\ z.closeEv = TRUE /\ z.msg = t.msg /\ z.state = t.state /\ z.ev = t.ev
        /\ z.fd = t.fd /\ z.role = t.role /\ z.alive = t.alive /\ z.queue = t.queue
        /\ z.where = t.where /\ z.fault = t.fault
    BY <1>2, <1>6, <2>1 DEF Shape
  <2> HIDE DEF t, z
  <2>3. evhttp_connected(t)
    BY <1>2, <2>1 DEF evhttp_connected
  <2>4. t.queue # <<>> => ClientOK(evhttp_request_dispatch(t))
    BY <1>1, <1>2, <1>4, <2>1, DispatchOK
  <2>5. ASSUME t.queue = <<>> PROVE ClientOK(z)
    <3>1. Client(z)
      BY <1>4, <2>1, <2>2 DEF Client, Base
    <3>2. z.state = "IDLE" /\ z.ev = "none" /\ z.fd = TRUE /\ z.queue = <<>>
      BY <1>1, <1>2, <2>1, <2>2, <2>5
    <3> QED
      BY <3>1, <3>2 DEF ClientOK, Reading
  <2> QED
    BY <1>3, <2>3, <2>4, <2>5
<1> QED
  BY <1>5, <1>6

-----------------------------------------------------------------------------
(* The server, while a handler runs.                                       *)

\* A handler of a server runs for a request that is being read.
ServerBusy(s) ==
  /\ Server(s) /\ s.alive /\ Len(s.queue) = 1 /\ s.where[Head(s.queue)] = "queued"
  /\ ~s.msg.userdone /\ s.ev = "none"

\* evhttp_connection_free, when user code holds none of the requests.
LEMMA FreeOK ==
  ASSUME NEW s, Server(s), \A r \in Requests : s.where[r] # "held"
  PROVE  ServerOK(evhttp_connection_free(s))
<1> DEFINE mine == ToSet(s.queue)
           z == evhttp_connection_reset(s)
           t == [z EXCEPT !.alive = FALSE, !.closeEv = FALSE, !.queue = <<>>, !.cb = "null",
                          !.where = [r \in Requests |-> IF r \in mine THEN "none" ELSE @[r]],
                          !.started = @ \ mine, !.msg = NoMessage]
<1>1. Shape(s) /\ Owns(s.queue, s.where) /\ s.role = "server" /\ s.fault = "none"
  BY DEF Server, Base
<1>2. /\ Shape(z) /\ z.ev = "none" /\ z.fd = FALSE /\ z.role = s.role
      /\ z.where = s.where /\ z.started = s.started /\ z.fault = s.fault
  BY <1>1, ResetFacts
<1>3. \A r \in Requests : r \in mine <=> Among(r, s.queue)
  BY <1>1 DEF ToSet, Among, Owns
<1>4. evhttp_connection_free(s) = t
  <2>1. ~\E r \in mine : s.where[r] = "held"
    BY <1>1 DEF ToSet, Owns
  <2> QED
    BY <2>1 DEF evhttp_connection_free
<1> HIDE DEF z, mine
<1>5. /\ Shape(t) /\ t.ev = z.ev /\ t.fd = z.fd /\ t.role = z.role /\ t.fault = z.fault
      /\ t.alive = FALSE /\ t.closeEv = FALSE /\ t.queue = <<>> /\ t.cb = "null"
      /\ t.where = [r \in Requests |-> IF r \in mine THEN "none" ELSE s.where[r]]
      /\ t.started = s.started \ mine /\ t.msg = NoMessage
  BY <1>2 DEF Shape, NoMessage
<1>6. t.msg.userdone = FALSE
  BY <1>5 DEF NoMessage
<1> HIDE DEF t
<1>7. t.where \in [Requests -> {"none", "detached"}]
  BY <1>1, <1>3, <1>5 DEF Owns
<1>8. Owns(t.queue, t.where)
  BY <1>5, <1>7, EmptyOwns
<1>9. \A r \in Requests : t.where[r] = "detached" => r \in t.started
  <2> SUFFICES ASSUME NEW r \in Requests, t.where[r] = "detached" PROVE r \in t.started
    OBVIOUS
  <2>1. r \notin mine /\ s.where[r] = "detached"
    BY <1>5
  <2> QED
    BY <1>5, <2>1 DEF Server
<1>10. Server(t)
  BY <1>1, <1>2, <1>5, <1>6, <1>8, <1>9 DEF Server, Base
<1>11. ServerOK(t)
  BY <1>2, <1>5, <1>10 DEF ServerOK
<1> QED
  BY <1>4, <1>11

\* t is s without its first request, which is marked v.
Popped(t, s, v) ==
  /\ Shape(t) /\ t.role = s.role /\ t.fault = s.fault /\ t.closeEv = FALSE
  /\ t.fd = s.fd /\ t.alive = s.alive /\ t.msg = s.msg /\ t.cb = s.cb
  /\ t.queue = Tail(s.queue) /\ t.where = [s.where EXCEPT ![Head(s.queue)] = v]
  /\ t.started = s.started \/ (v = "none" /\ t.started = s.started \ {Head(s.queue)})

\* The one request of a server leaves: what is left is a server without any.
LEMMA ServerPop ==
  ASSUME NEW s, Server(s), Len(s.queue) = 1, NEW v \in {"none", "detached"},
         v = "detached" => Head(s.queue) \in s.started,
         NEW t, Popped(t, s, v)
  PROVE  Server(t) /\ t.queue = <<>> /\ t.where[Head(s.queue)] = v
         /\ \A r \in Requests : t.where[r] # "held"
<1> USE DEF Popped
<1>1. Owns(s.queue, s.where)
  BY DEF Server, Base
<1>2. s.queue # <<>> /\ Tail(s.queue) = <<>>
  BY <1>1, OnlyOne
<1>3. Head(s.queue) \in Requests
  BY <1>1, <1>2, HeadOwned
<1>4. Owns(Tail(s.queue), [s.where EXCEPT ![Head(s.queue)] = v])
  BY <1>1, <1>2, PopOwns
<1>5. Owns(<<>>, t.where)
  BY <1>2, <1>4
<1>6. t.where \in [Requests -> {"none", "detached"}]
  BY <1>5, NoneOwned
<1>7. t.where[Head(s.queue)] = v /\ \A r \in Requests \ {Head(s.queue)} : t.where[r] = s.where[r]
  BY <1>1, <1>3 DEF Owns
<1>8. \A r \in Requests : t.where[r] = "detached" => r \in t.started
  BY <1>7 DEF Server
<1>9. Server(t)
  BY <1>2, <1>4, <1>8 DEF Server, Base
<1> QED
  BY <1>2, <1>6, <1>7, <1>9

\* evhttp_connection_drop: a request that user code has begun to answer is
\* detached, another is forgotten.
LEMMA DropOK ==
  ASSUME NEW s, Server(s), Len(s.queue) = 1,
         s.where[Head(s.queue)] = "held" => ~s.msg.userdone /\ Head(s.queue) \in s.started
  PROVE  ServerOK(evhttp_connection_drop(s))
<1> DEFINE v == IF s.where[Head(s.queue)] = "held" THEN "detached" ELSE "none"
           t == [s EXCEPT !.queue = Tail(@), !.where[Head(s.queue)] = v]
<1>1. Shape(s) /\ Owns(s.queue, s.where) /\ s.closeEv = FALSE
  BY DEF Server, Base
<1>2. CASE s.msg.userdone
  <2>1. \A r \in Requests : s.where[r] # "held"
    BY <1>1, <1>2, OnlyOne
  <2>2. evhttp_connection_drop(s) = evhttp_connection_free(s)
    BY <1>2 DEF evhttp_connection_drop
  <2> QED
    BY <2>1, <2>2, FreeOK
<1>3. CASE ~s.msg.userdone
  <2>1. evhttp_connection_drop(s) = evhttp_connection_free(t)
    BY <1>3 DEF evhttp_connection_drop
  <2>2. Popped(t, s, v)
    BY <1>1 DEF Shape, Popped
  <2>3. v \in {"none", "detached"} /\ (v = "detached" => Head(s.queue) \in s.started)
    OBVIOUS
  <2> HIDE DEF t, v
  <2>4. Server(t) /\ \A r \in Requests : t.where[r] # "held"
    BY <2>2, <2>3, ServerPop
  <2>5. ServerOK(evhttp_connection_free(t))
    BY <2>4, FreeOK
  <2> QED
    BY <2>1, <2>5
<1> QED
  BY <1>2, <1>3

\* evhttp_associate_new_request_with_connection
LEMMA AssociateOK ==
  ASSUME NEW s, Server(s), s.alive, s.queue = <<>>, Unused(s) # {}
  PROVE  ServerOK(evhttp_associate_new_request_with_connection(s))
<1> DEFINE r == CHOOSE x \in Unused(s) : TRUE
           t == evhttp_associate_new_request_with_connection(s)
<1> SUFFICES ServerOK(t)
  OBVIOUS
<1>1. r \in Requests /\ s.where[r] = "none"
  BY DEF Unused
<1>2. Shape(s) /\ Owns(s.queue, s.where)
  BY DEF Server, Base
<1>3. /\ Shape(t) /\ t.ev = "read" /\ t.state = "READING_FIRSTLINE" /\ t.fd = s.fd
      /\ t.role = s.role /\ t.fault = s.fault /\ t.alive = s.alive /\ t.closeEv = s.closeEv
      /\ t.queue = Append(s.queue, r) /\ t.where = [s.where EXCEPT ![r] = "queued"]
      /\ t.started = s.started /\ t.cb = s.cb /\ t.msg = NoMessage
  BY <1>2 DEF Shape, NoMessage, evhttp_associate_new_request_with_connection, evhttp_start_read
<1>4. t.msg.userdone = FALSE
  BY <1>3 DEF NoMessage
<1> HIDE DEF t, r
<1>5. Owns(t.queue, t.where)
  <2>1. Owns(Append(s.queue, r), [s.where EXCEPT ![r] = "queued"])
    BY <1>1, <1>2, PushOwns
  <2> QED
    BY <1>3, <2>1
<1>6. t.where[r] = "queued" /\ \A x \in Requests \ {r} : t.where[x] = s.where[x]
  BY <1>1, <1>2, <1>3 DEF Owns
<1>7. t.queue = <<r>> /\ Len(t.queue) = 1 /\ Head(t.queue) = r
  BY <1>3
<1>8. Server(t)
  BY <1>3, <1>4, <1>5, <1>6 DEF Server, Base
<1> QED
  BY <1>3, <1>4, <1>6, <1>7, <1>8 DEF ServerOK, Reading

\* evhttp_send for the request of the connection.
LEMMA SendOK ==
  ASSUME NEW s, Server(s), s.alive, Len(s.queue) = 1, NEW close
  PROVE  ServerOK(evhttp_send(s, Head(s.queue), close))
<1> DEFINE r == Head(s.queue)
           t == evhttp_send(s, r, close)
<1> SUFFICES ServerOK(t)
  OBVIOUS
<1>1. Shape(s) /\ Owns(s.queue, s.where)
  BY DEF Server, Base
<1>2. s.queue # <<>>
  BY <1>1, OnlyOne
<1>3. r \in Requests /\ Among(r, s.queue) /\ s.where[r] \in {"queued", "held"}
  BY <1>1, <1>2, HeadOwned
<1>4. s.where[r] # "detached"
  BY <1>3
<1>5. t = evhttp_write_buffer([s EXCEPT !.where[r] = "queued", !.msg.userdone = TRUE,
                                        !.msg.close = close, !.out = @ + 1], "send_done")
  BY <1>2, <1>4 DEF evhttp_send
<1>6. /\ Shape(t) /\ t.ev = "write" /\ t.cb = "send_done" /\ t.fd = s.fd
      /\ t.role = s.role /\ t.fault = s.fault /\ t.alive = s.alive /\ t.closeEv = s.closeEv
      /\ t.queue = s.queue /\ t.where = [s.where EXCEPT ![r] = "queued"]
      /\ t.started = s.started /\ t.msg.userdone = TRUE
  <2> HIDE DEF t, r
  <2>1. /\ DOMAIN t = DOMAIN s /\ t.ev = "write" /\ t.cb = "send_done" /\ t.fd = s.fd
        /\ t.role = s.role /\ t.fault = s.fault /\ t.alive = s.alive
        /\ t.closeEv = s.closeEv /\ t.started = s.started /\ t.queue = s.queue
    BY <1>1, <1>5 DEF Shape, evhttp_write_buffer
  <2>5. t.where = [s.where EXCEPT ![r] = "queued"] /\ t.out = s.out + 1
    BY <1>1, <1>5 DEF Shape, evhttp_write_buffer
  <2>2. t.msg = [[s.msg EXCEPT !.userdone = TRUE] EXCEPT !.close = close]
    BY <1>1, <1>5 DEF Shape, evhttp_write_buffer
  <2>3. DOMAIN t.msg = DOMAIN s.msg /\ t.msg.userdone = TRUE
    BY <1>1, <2>2 DEF Shape
  <2>4. Shape(t)
    BY <1>1, <2>1, <2>5, <2>3 DEF Shape
  <2> QED
    BY <2>1, <2>5, <2>3, <2>4
<1> HIDE DEF t, r
<1>7. Owns(t.queue, t.where)
  <2>1. "queued" \in {"queued", "held"}
    OBVIOUS
  <2>2. Owns(s.queue, [s.where EXCEPT ![r] = "queued"])
    BY <1>1, <1>3, <2>1, MarkOwns
  <2> QED
    BY <1>6, <2>2
<1>8. t.where[r] = "queued" /\ \A x \in Requests \ {r} : t.where[x] = s.where[x]
  BY <1>1, <1>3, <1>6 DEF Owns
<1>9. Server(t)
  BY <1>6, <1>7, <1>8 DEF Server, Base
<1>10. Head(t.queue) = r /\ Len(t.queue) = 1
  BY <1>6 DEF r
<1> QED
  BY <1>6, <1>8, <1>9, <1>10 DEF ServerOK

\* evhttp_handle_request
LEMMA HandleOK ==
  ASSUME NEW s, ServerBusy(s)
  PROVE  ServerOK(evhttp_handle_request(s))
<1> DEFINE r == Head(s.queue)
           t == [s EXCEPT !.where[r] = "held"]
<1>1. Shape(s) /\ Owns(s.queue, s.where) /\ s.where[r] = "queued"
  BY DEF ServerBusy, Server, Base
<1>2. s.queue # <<>> /\ r \in Requests /\ Among(r, s.queue)
  BY <1>1, OnlyOne, HeadOwned DEF ServerBusy
<1>3. evhttp_handle_request(s) \in {t, evhttp_connection_drop(s), evhttp_send(s, r, TRUE)}
  BY DEF evhttp_handle_request
<1>4. ServerOK(evhttp_connection_drop(s))
  BY <1>1, DropOK DEF ServerBusy
<1>5. ServerOK(evhttp_send(s, r, TRUE))
  BY SendOK DEF ServerBusy
<1>6. /\ Shape(t) /\ t.ev = s.ev /\ t.cb = s.cb /\ t.fd = s.fd
      /\ t.role = s.role /\ t.fault = s.fault /\ t.alive = s.alive /\ t.closeEv = s.closeEv
      /\ t.queue = s.queue /\ t.where = [s.where EXCEPT ![r] = "held"]
      /\ t.started = s.started /\ t.msg = s.msg
  BY <1>1 DEF Shape
<1> HIDE DEF t, r
<1>7. Owns(t.queue, t.where)
  <2>1. "held" \in {"queued", "held"}
    OBVIOUS
  <2>2. Owns(s.queue, [s.where EXCEPT ![r] = "held"])
    BY <1>1, <1>2, <2>1, MarkOwns
  <2> QED
    BY <1>6, <2>2
<1>8. t.where[r] = "held" /\ \A x \in Requests \ {r} : t.where[x] = s.where[x]
  BY <1>1, <1>2, <1>6 DEF Owns
<1>9. Server(t)
  BY <1>6, <1>7, <1>8 DEF ServerBusy, Server, Base
<1>10. Head(t.queue) = r
  BY <1>6 DEF r
<1>11. ServerOK(t)
  BY <1>6, <1>8, <1>9, <1>10 DEF ServerOK, ServerBusy
<1> QED
  BY <1>3, <1>4, <1>5, <1>11

\* evhttp_send_done: the connection is freed, or reads the next request.
LEMMA SendDoneOK ==
  ASSUME NEW s, Server(s), s.alive, Len(s.queue) = 1
  PROVE  ServerOK(evhttp_send_done(s))
<1> DEFINE r == Head(s.queue)
           t == [s EXCEPT !.queue = Tail(@), !.closeEv = FALSE, !.where[r] = "none",
                          !.started = @ \ {r}]
<1>1. Shape(s) /\ Owns(s.queue, s.where)
  BY DEF Server, Base
<1>2. /\ Shape(t) /\ t.role = s.role /\ t.fault = s.fault /\ t.closeEv = FALSE
      /\ t.fd = s.fd /\ t.alive = s.alive /\ t.msg = s.msg /\ t.cb = s.cb
      /\ t.queue = Tail(s.queue) /\ t.where = [s.where EXCEPT ![r] = "none"]
      /\ t.started = s.started \ {r}
  BY <1>1 DEF Shape
<1>3. evhttp_send_done(s) \in {evhttp_connection_free(t),
                               evhttp_associate_new_request_with_connection(t)}
  BY DEF evhttp_send_done
<1>4. r \in Requests
  BY <1>1, OnlyOne, HeadOwned
<1> HIDE DEF t
<1>5. /\ Server(t) /\ t.queue = <<>> /\ t.where[r] = "none"
      /\ \A x \in Requests : t.where[x] # "held"
  <2>1. "none" \in {"none", "detached"} /\ "none" # "detached"
    OBVIOUS
  <2>2. Popped(t, s, "none")
    BY <1>2 DEF Popped
  <2> QED
    BY <2>1, <2>2, ServerPop
<1>6. Unused(t) # {} /\ t.alive
  BY <1>2, <1>4, <1>5 DEF Unused
<1>7. ServerOK(evhttp_connection_free(t))
  BY <1>5, FreeOK
<1>8. ServerOK(evhttp_associate_new_request_with_connection(t))
  BY <1>5, <1>6, AssociateOK
<1> QED
  BY <1>3, <1>7, <1>8

-----------------------------------------------------------------------------
(* Reading: only the message, the input and the state change, until the    *)
(* request is done, fails, or waits for more.                              *)

Busy(s) == ClientBusy(s) \/ ServerBusy(s)

LEMMA LikeBusy ==
  ASSUME NEW s, Busy(s), NEW t, Like(t, s), t.ev = "none"
  PROVE  Busy(t)
<1>1. ASSUME ClientBusy(s) PROVE ClientBusy(t)
  <2>1. Client(t)
    BY <1>1 DEF ClientBusy, Client, Base, Like
  <2> QED
    BY <1>1, <2>1 DEF ClientBusy, Like
<1>2. ASSUME ServerBusy(s) PROVE ServerBusy(t)
  <2>1. Server(t)
    BY <1>2 DEF ServerBusy, Server, Base, Like
  <2> QED
    BY <1>2, <2>1 DEF ServerBusy, Like
<1> QED
  BY <1>1, <1>2 DEF Busy

LEMMA BusyShape == ASSUME NEW s, Busy(s) PROVE Shape(s) /\ s.ev = "none" /\ s.queue # <<>>
<1>1. ASSUME ServerBusy(s) PROVE s.queue # <<>>
  BY <1>1, OnlyOne DEF ServerBusy, Server, Base
<1> QED
  BY <1>1 DEF Busy, ClientBusy, ServerBusy, Client, Server, Base

\* evhttp_connection_fail
LEMMA FailOK ==
  ASSUME NEW s, Busy(s), NEW why
  PROVE  HttpOK(evhttp_connection_fail(s, why))
<1>1. CASE ClientBusy(s)
  BY <1>1, ClientFails DEF HttpOK
<1>2. CASE ServerBusy(s)
  <2> DEFINE t == [s EXCEPT !.msg.type = "none"]
  <2>1. Shape(s) /\ s.queue # <<>> /\ s.role = "server" /\ s.ev = "none"
    BY <1>2, BusyShape DEF ServerBusy, Server
  <2>2. evhttp_connection_fail(s, why) =
          IF why = "network" THEN evhttp_connection_drop(s) ELSE evhttp_handle_request(t)
    BY <2>1 DEF evhttp_connection_fail
  <2>3. ServerOK(evhttp_connection_drop(s))
    BY <1>2, DropOK DEF ServerBusy
  <2>4. ServerOK(evhttp_handle_request(t))
    <3>1. Like(t, s) /\ t.ev = "none" /\ t.role = "server"
      BY <2>1 DEF Like, Shape
    <3> HIDE DEF t
    <3>2. ServerBusy(t)
      BY <3>1, LikeBusy DEF Busy, ClientBusy, Client
    <3> QED
      BY <3>2, HandleOK
  <2> QED
    BY <2>2, <2>3, <2>4 DEF HttpOK
<1> QED
  BY <1>1, <1>2 DEF Busy

\* evhttp_connection_done
LEMMA DoneOK ==
  ASSUME NEW s, Busy(s)
  PROVE  HttpOK(evhttp_connection_done(s))
<1>1. CASE ClientBusy(s)
  BY <1>1, ClientDone DEF HttpOK
<1>2. CASE ServerBusy(s)
  <2> DEFINE t == [HandOver(s) EXCEPT !.state = IF @ = "DISCONNECTED" THEN @ ELSE "WRITING"]
  <2>1. Shape(s) /\ s.role = "server" /\ s.ev = "none"
    BY <1>2, BusyShape DEF ServerBusy, Server
  <2>2. evhttp_connection_done(s) = evhttp_handle_request(t)
    BY <2>1 DEF evhttp_connection_done
  <2>3. Like(t, s) /\ t.ev = "none" /\ t.role = "server"
    BY <2>1 DEF Like, Shape, HandOver
  <2> HIDE DEF t
  <2>4. ServerBusy(t)
    BY <1>2, <2>3, LikeBusy DEF Busy, ClientBusy, Client
  <2> QED
    BY <2>2, <2>4, HandleOK DEF HttpOK
<1> QED
  BY <1>1, <1>2 DEF Busy

\* The event for reading is added again.
LEMMA WaitOK ==
  ASSUME NEW s, Busy(s), s.state \in Reading
  PROVE  HttpOK(WaitRead(s))
<1> DEFINE t == WaitRead(s)
<1>1. Shape(s)
  BY BusyShape
<1>2. Like(t, s) /\ t.state = s.state /\ t.ev = "read"
  BY <1>1 DEF WaitRead, Like, Shape
<1> HIDE DEF t
<1>3. ASSUME ClientBusy(s) PROVE ClientOK(t)
  <2>1. Client(t)
    BY <1>2, <1>3 DEF ClientBusy, Client, Base, Like
  <2>2. t.queue # <<>> /\ t.fd /\ ~t.closeEv
    BY <1>2, <1>3 DEF ClientBusy, Like
  <2> QED
    BY <1>2, <2>1, <2>2 DEF ClientOK, Reading
<1>4. ASSUME ServerBusy(s) PROVE ServerOK(t)
  <2>1. Server(t)
    BY <1>2, <1>4 DEF ServerBusy, Server, Base, Like
  <2> QED
    BY <1>2, <1>4, <2>1 DEF ServerOK, ServerBusy, Like
<1> QED
  BY <1>3, <1>4 DEF HttpOK, Busy, t

\* evhttp_parse_headers and evhttp_handle_chunked_read leave the rest alone.
LEMMA ParseHeadersLike ==
  ASSUME NEW s, Busy(s)
  PROVE  LET t == evhttp_parse_headers(s)[1]
         IN  Busy(t) /\ t.state = s.state
<1> DEFINE i == StopAt(s.inbuf, {"blank", "badheader"})
           h == s.msg.hdrs \cup ToSet(SubSeq(s.inbuf, 1, i - 1))
           b == From(s.inbuf, i + 1)
           t == evhttp_parse_headers(s)[1]
<1>1. Shape(s) /\ s.ev = "none"
  BY BusyShape
<1>2. t = [s EXCEPT !.msg.hdrs = h, !.inbuf = b]
  BY DEF evhttp_parse_headers
<1> HIDE DEF h, b
<1>3. Like(t, s) /\ t.state = s.state /\ t.ev = "none"
  BY <1>1, <1>2 DEF Like, Shape
<1> HIDE DEF t
<1> QED
  BY <1>3, LikeBusy DEF t

LEMMA ChunkedLike ==
  ASSUME NEW s, Busy(s)
  PROVE  LET t == evhttp_handle_chunked_read(s)[1]
         IN  Busy(t) /\ t.state = s.state
<1> DEFINE i == StopAt(s.inbuf, {"zero", "badsize"})
           data == SubSeq(s.inbuf, 1, i - 1)
           n == s.msg.body + Units(data)
           b == From(s.inbuf, i + 1)
           m == CASE data = <<>> -> s.msg.ntoread
                  [] data # <<>> /\ Last(data) = "size" -> 1
                  [] OTHER -> -1
           t == evhttp_handle_chunked_read(s)[1]
<1>1. Shape(s) /\ s.ev = "none"
  BY BusyShape
<1>2. t = [s EXCEPT !.msg.body = n, !.inbuf = b, !.msg.ntoread = m]
  BY DEF evhttp_handle_chunked_read
<1> HIDE DEF n, b, m, t
<1>3. /\ DOMAIN t = DOMAIN s /\ t.ev = s.ev /\ t.cb = s.cb /\ t.fd = s.fd
      /\ t.role = s.role /\ t.fault = s.fault /\ t.alive = s.alive
      /\ t.closeEv = s.closeEv /\ t.started = s.started /\ t.state = s.state
      /\ t.queue = s.queue /\ t.where = s.where /\ t.out = s.out
  BY <1>1, <1>2 DEF Shape
<1>4. t.msg = [[s.msg EXCEPT !.body = n] EXCEPT !.ntoread = m]
  BY <1>1, <1>2 DEF Shape
<1>5. DOMAIN t.msg = DOMAIN s.msg /\ t.msg.userdone = s.msg.userdone
  BY <1>1, <1>4 DEF Shape
<1>6. Like(t, s) /\ t.ev = "none"
  BY <1>1, <1>3, <1>5 DEF Like, Shape
<1> QED
  BY <1>3, <1>6, LikeBusy DEF t

LEMMA ReadTrailerOK ==
  ASSUME NEW s, Busy(s), s.state \in Reading
  PROVE  HttpOK(evhttp_read_trailer(s))
<1> DEFINE p == evhttp_parse_headers(s)
           t == p[1]
           u == [t EXCEPT !.ev = "none"]
<1>1. Busy(t) /\ t.state \in Reading
  BY ParseHeadersLike
<1>2. Busy(u)
  <2> HIDE DEF t
  <2>1. Shape(t)
    BY <1>1, BusyShape
  <2>2. Like(u, t) /\ u.ev = "none"
    BY <2>1 DEF Like, Shape
  <2> HIDE DEF u
  <2> QED
    BY <1>1, <2>2, LikeBusy
<1>3. evhttp_read_trailer(s) \in {evhttp_connection_fail(t, "header"),
                                  evhttp_connection_done(u), WaitRead(t)}
  BY DEF evhttp_read_trailer
<1> HIDE DEF t, u
<1> QED
  BY <1>1, <1>2, <1>3, FailOK, DoneOK, WaitOK

LEMMA ReadBodyOK ==
  ASSUME NEW s, Busy(s), s.state \in Reading
  PROVE  HttpOK(evhttp_read_body(s))
<1> DEFINE t == evhttp_handle_chunked_read(s)[1]
           trailer == [t EXCEPT !.state = "READING_TRAILER"]
           whole == [s EXCEPT !.msg.body = @ + s.msg.ntoread, !.msg.ntoread = 0,
                              !.inbuf = From(@, s.msg.ntoread + 1)]
           part == [s EXCEPT !.msg.body = @ + Units(s.inbuf), !.inbuf = <<>>]
<1>1. evhttp_read_body(s) \in {evhttp_read_trailer(trailer), evhttp_connection_fail(t, "header"),
                               WaitRead(t), WaitRead(part), evhttp_connection_done(whole),
                               WaitRead(s)}
  BY DEF evhttp_read_body
<1>2. Shape(s) /\ s.ev = "none"
  BY BusyShape
<1>3. Busy(t) /\ t.state \in Reading
  BY ChunkedLike
<1>4. Busy(part) /\ part.state \in Reading
  <2> DEFINE n == s.msg.body + Units(s.inbuf)
  <2>1. part = [s EXCEPT !.msg.body = n, !.inbuf = <<>>]
    OBVIOUS
  <2> HIDE DEF n, part
  <2>2. Like(part, s) /\ part.ev = "none" /\ part.state = s.state
    BY <1>2, <2>1 DEF Like, Shape
  <2> QED
    BY <2>2, LikeBusy
<1>5. Busy(whole)
  <2> DEFINE n == s.msg.body + s.msg.ntoread
             b == From(s.inbuf, s.msg.ntoread + 1)
  <2>1. whole = [s EXCEPT !.msg.body = n, !.msg.ntoread = 0, !.inbuf = b]
    OBVIOUS
  <2> HIDE DEF n, b, whole
  <2>2. /\ DOMAIN whole = DOMAIN s /\ whole.ev = s.ev /\ whole.cb = s.cb /\ whole.fd = s.fd
        /\ whole.role = s.role /\ whole.fault = s.fault /\ whole.alive = s.alive
        /\ whole.closeEv = s.closeEv /\ whole.started = s.started
        /\ whole.queue = s.queue /\ whole.where = s.where /\ whole.out = s.out
    BY <1>2, <2>1 DEF Shape
  <2>3. whole.msg = [[s.msg EXCEPT !.body = n] EXCEPT !.ntoread = 0]
    BY <1>2, <2>1 DEF Shape
  <2>4. DOMAIN whole.msg = DOMAIN s.msg /\ whole.msg.userdone = s.msg.userdone
    BY <1>2, <2>3 DEF Shape
  <2>5. Like(whole, s) /\ whole.ev = "none"
    BY <1>2, <2>2, <2>4 DEF Like, Shape
  <2> QED
    BY <2>5, LikeBusy
<1>6. Busy(trailer) /\ trailer.state \in Reading
  <2> HIDE DEF t
  <2>1. Shape(t) /\ t.ev = "none"
    BY <1>3, BusyShape
  <2>2. Like(trailer, t) /\ trailer.ev = "none" /\ trailer.state = "READING_TRAILER"
    BY <2>1 DEF Like, Shape
  <2> HIDE DEF trailer
  <2> QED
    BY <1>3, <2>2, LikeBusy DEF Reading
<1> HIDE DEF t, trailer, whole, part
<1> QED
  BY <1>1, <1>3, <1>4, <1>5, <1>6, FailOK, DoneOK, WaitOK, ReadTrailerOK

LEMMA GetBodyOK ==
  ASSUME NEW s, Busy(s), s.state \in Reading
  PROVE  HttpOK(evhttp_get_body(s))
<1> DEFINE n == evhttp_get_body_length(s.msg.hdrs)
           t == [s EXCEPT !.state = "READING_BODY"]
           chunks == [t EXCEPT !.msg.chunked = TRUE, !.msg.ntoread = -1]
           length == [t EXCEPT !.msg.ntoread = n]
<1>1. evhttp_get_body(s) \in {evhttp_connection_done(s), evhttp_read_body(chunks),
                              evhttp_connection_fail(t, "header"), evhttp_read_body(length)}
  BY DEF evhttp_get_body
<1> HIDE DEF n
<1>2. Shape(s) /\ s.ev = "none"
  BY BusyShape
<1>3. Busy(t) /\ t.state \in Reading /\ Shape(t) /\ t.ev = "none"
  <2>1. Like(t, s) /\ t.ev = "none" /\ t.state = "READING_BODY"
    BY <1>2 DEF Like, Shape
  <2> HIDE DEF t
  <2> QED
    BY <2>1, LikeBusy, BusyShape DEF Reading
<1> HIDE DEF t
<1>4. Busy(length) /\ length.state \in Reading
  <2>1. Like(length, t) /\ length.ev = "none" /\ length.state = t.state
    BY <1>3 DEF Like, Shape
  <2> HIDE DEF length
  <2> QED
    BY <1>3, <2>1, LikeBusy
<1>5. Busy(chunks) /\ chunks.state \in Reading
  <2>1. /\ DOMAIN chunks = DOMAIN t /\ chunks.ev = t.ev /\ chunks.cb = t.cb /\ chunks.fd = t.fd
        /\ chunks.role = t.role /\ chunks.fault = t.fault /\ chunks.alive = t.alive
        /\ chunks.closeEv = t.closeEv /\ chunks.started = t.started
        /\ chunks.queue = t.queue /\ chunks.where = t.where /\ chunks.state = t.state
        /\ chunks.out = t.out
    BY <1>3 DEF Shape
  <2>2. chunks.msg = [[t.msg EXCEPT !.chunked = TRUE] EXCEPT !.ntoread = -1]
    BY <1>3 DEF Shape
  <2> HIDE DEF chunks
  <2>3. DOMAIN chunks.msg = DOMAIN t.msg /\ chunks.msg.userdone = t.msg.userdone
    BY <1>3, <2>2 DEF Shape
  <2>4. Like(chunks, t) /\ chunks.ev = "none" /\ chunks.state = t.state
    BY <1>3, <2>1, <2>3 DEF Like, Shape
  <2> QED
    BY <1>3, <2>4, LikeBusy
<1> HIDE DEF length, chunks
<1> QED
  BY <1>1, <1>3, <1>4, <1>5, FailOK, DoneOK, ReadBodyOK

LEMMA ReadHeaderOK ==
  ASSUME NEW s, Busy(s), s.state \in Reading
  PROVE  HttpOK(evhttp_read_header(s))
<1> DEFINE t == evhttp_parse_headers(s)[1]
<1>1. Busy(t) /\ t.state \in Reading
  BY ParseHeadersLike
<1>2. evhttp_read_header(s) \in {evhttp_connection_fail(t, "header"), WaitRead(t),
                                 evhttp_connection_done(t), evhttp_get_body(t)}
  BY DEF evhttp_read_header
<1> HIDE DEF t
<1> QED
  BY <1>1, <1>2, FailOK, DoneOK, WaitOK, GetBodyOK

LEMMA ReadFirstlineOK ==
  ASSUME NEW s, Busy(s), s.state \in Reading
  PROVE  HttpOK(evhttp_read_firstline(s))
<1> DEFINE t == [s EXCEPT !.inbuf = Tail(@)]
           u == [t EXCEPT !.msg.type = Head(s.inbuf), !.state = "READING_HEADERS"]
<1>1. evhttp_read_firstline(s) \in {WaitRead(s), evhttp_connection_fail(t, "header"),
                                    evhttp_read_header(u)}
  BY DEF evhttp_read_firstline
<1>2. Shape(s) /\ s.ev = "none"
  BY BusyShape
<1>3. Busy(t) /\ Shape(t) /\ t.ev = "none"
  <2>1. Like(t, s) /\ t.ev = "none"
    BY <1>2 DEF Like, Shape
  <2> HIDE DEF t
  <2> QED
    BY <2>1, LikeBusy, BusyShape
<1> HIDE DEF t
<1>4. Busy(u) /\ u.state \in Reading
  <2>1. Like(u, t) /\ u.ev = "none" /\ u.state = "READING_HEADERS"
    BY <1>3 DEF Like, Shape
  <2> HIDE DEF u
  <2> QED
    BY <1>3, <2>1, LikeBusy DEF Reading
<1> HIDE DEF u
<1> QED
  BY <1>1, <1>3, <1>4, FailOK, WaitOK, ReadHeaderOK

\* evhttp_read has a case for every state in which its event is pending.
LEMMA ParseOK ==
  ASSUME NEW s, Busy(s), s.state \in Reading
  PROVE  HttpOK(Parse(s))
<1>1. Parse(s) \in {evhttp_read_firstline(s), evhttp_read_header(s), evhttp_read_body(s),
                    evhttp_read_trailer(s)}
  BY DEF Parse, Reading
<1> QED
  BY <1>1, ReadFirstlineOK, ReadHeaderOK, ReadBodyOK, ReadTrailerOK

-----------------------------------------------------------------------------
(* Every step keeps the invariant.                                         *)

\* What runs when an event's callback is called.
Run(no) == [[con EXCEPT !.refuse = no] EXCEPT !.ev = "none", !.ran = ~@]

\* The invariant does not look at other fields.
LEMMA LikeOK ==
  ASSUME NEW s, HttpOK(s), NEW t, Like(t, s), t.state = s.state, t.ev = s.ev
  PROVE  HttpOK(t)
<1>1. ASSUME ClientOK(s) PROVE ClientOK(t)
  <2>1. Client(t)
    BY <1>1 DEF ClientOK, Client, Base, Like
  <2> QED
    BY <1>1, <2>1 DEF ClientOK, Like
<1>2. ASSUME ServerOK(s) PROVE ServerOK(t)
  <2>1. Server(t)
    BY <1>2 DEF ServerOK, Server, Base, Like
  <2> QED
    BY <1>2, <2>1 DEF ServerOK, Like
<1> QED
  BY <1>1, <1>2 DEF HttpOK

LEMMA OKShape == ASSUME NEW s, HttpOK(s) PROVE Shape(s)
  BY DEF HttpOK, ClientOK, ServerOK, Client, Server, Base

\* The end of Handle: refuse is for one handler.
LEMMA Settle == ASSUME NEW s, HttpOK(s) PROVE HttpOK([s EXCEPT !.refuse = FALSE])
<1> DEFINE t == [s EXCEPT !.refuse = FALSE]
<1>1. Like(t, s) /\ t.state = s.state /\ t.ev = s.ev
  BY OKShape DEF Like, Shape
<1> HIDE DEF t
<1>2. HttpOK(t)
  BY <1>1, LikeOK
<1> QED
  BY <1>2 DEF t

\* The beginning of Handle.
LEMMA Prepare ==
  ASSUME HttpInv, NEW no
  PROVE  /\ HttpOK([con EXCEPT !.refuse = no])
         /\ Like([con EXCEPT !.refuse = no], con)
         /\ [con EXCEPT !.refuse = no].state = con.state
         /\ [con EXCEPT !.refuse = no].ev = con.ev
<1> DEFINE t == [con EXCEPT !.refuse = no]
<1>1. Like(t, con) /\ t.state = con.state /\ t.ev = con.ev
  BY OKShape DEF Like, Shape, HttpInv
<1> HIDE DEF t
<1>2. HttpOK(t)
  BY <1>1, LikeOK DEF HttpInv
<1> QED
  BY <1>1, <1>2 DEF t

LEMMA RunFacts ==
  ASSUME HttpInv, NEW no
  PROVE  Like(Run(no), con) /\ Run(no).state = con.state /\ Run(no).ev = "none"
         /\ Run(no).out = con.out /\ Shape(con)
<1>1. Shape(con)
  BY OKShape DEF HttpInv
<1> QED
  BY <1>1 DEF Run, Like, Shape

\* The callback of an event that reads runs for a request.
LEMMA ReadRuns ==
  ASSUME HttpInv, con.ev = "read", NEW no
  PROVE  Busy(Run(no)) /\ Run(no).state \in Reading
<1> DEFINE t == Run(no)
<1>1. Like(t, con) /\ t.state = con.state /\ t.ev = "none"
  BY RunFacts
<1> HIDE DEF t
<1>2. ASSUME ClientOK(con) PROVE ClientBusy(t) /\ t.state \in Reading
  <2>1. con.state \in Reading /\ con.queue # <<>> /\ con.fd /\ ~con.closeEv
    BY <1>2 DEF ClientOK, Reading
  <2>2. Client(t)
    BY <1>1, <1>2 DEF ClientOK, Client, Base, Like
  <2> QED
    BY <1>1, <2>1, <2>2 DEF ClientBusy, Like
<1>3. ASSUME ServerOK(con) PROVE ServerBusy(t) /\ t.state \in Reading
  <2>1. con.alive /\ Len(con.queue) = 1 /\ con.where[Head(con.queue)] = "queued"
        /\ ~con.msg.userdone /\ con.state \in Reading
    BY <1>3 DEF ServerOK, Server, Base
  <2>2. Server(t)
    BY <1>1, <1>3 DEF ServerOK, Server, Base, Like
  <2> QED
    BY <1>1, <2>1, <2>2 DEF ServerBusy, Like
<1> QED
  BY <1>2, <1>3 DEF HttpInv, HttpOK, Busy, t

\* evhttp_read
LEMMA ReadStep == ASSUME HttpInv, NEW k, EvhttpRead(k) PROVE HttpInv'
<1> DEFINE new == con.inbuf \o SubSeq(con.wire, 1, k)
           t(no) == [Run(no) EXCEPT !.inbuf = new, !.wire = From(@, k + 1),
                                    !.ran = IF new = <<>> THEN ~@ ELSE @]
<1>1. PICK no : con' = [Parse(t(no)) EXCEPT !.refuse = FALSE]
  BY DEF EvhttpRead, OnEvent, Handle, Run
<1>2. Busy(Run(no)) /\ Run(no).state \in Reading
  BY ReadRuns DEF EvhttpRead, OnEvent
<1> HIDE DEF new
<1>3. Like(t(no), Run(no)) /\ t(no).ev = "none" /\ t(no).state = Run(no).state
  <2>1. Shape(Run(no)) /\ Run(no).ev = "none"
    BY <1>2, BusyShape
  <2> QED
    BY <2>1 DEF Like, Shape
<1> HIDE DEF t
<1>4. Busy(t(no)) /\ t(no).state \in Reading
  BY <1>2, <1>3, LikeBusy
<1>5. HttpOK([Parse(t(no)) EXCEPT !.refuse = FALSE])
  BY <1>4, ParseOK, Settle
<1> QED
  BY <1>1, <1>5 DEF HttpInv

LEMMA ReadEOFStep == ASSUME HttpInv, EvhttpReadEOF PROVE HttpInv'
<1> DEFINE t(no) == [Run(no) EXCEPT !.state = "DISCONNECTED", !.eof = TRUE]
<1>1. PICK no : con' = [evhttp_connection_done(t(no)) EXCEPT !.refuse = FALSE]
  BY DEF EvhttpReadEOF, OnEvent, Handle, Run
<1>2. Busy(Run(no))
  BY ReadRuns DEF EvhttpReadEOF, OnEvent
<1>3. Like(t(no), Run(no)) /\ t(no).ev = "none"
  <2>1. Shape(Run(no)) /\ Run(no).ev = "none"
    BY <1>2, BusyShape
  <2> QED
    BY <2>1 DEF Like, Shape
<1> HIDE DEF t
<1>4. Busy(t(no))
  BY <1>2, <1>3, LikeBusy
<1>5. HttpOK([evhttp_connection_done(t(no)) EXCEPT !.refuse = FALSE])
  BY <1>4, DoneOK, Settle
<1> QED
  BY <1>1, <1>5 DEF HttpInv

LEMMA ReadFailsStep == ASSUME HttpInv, EvhttpReadFails PROVE HttpInv'
<1>1. PICK no : con' = [evhttp_connection_fail(Run(no), "network") EXCEPT !.refuse = FALSE]
  BY DEF EvhttpReadFails, OnEvent, Handle, Run
<1>2. Busy(Run(no))
  BY ReadRuns DEF EvhttpReadFails, OnEvent
<1>3. HttpOK([evhttp_connection_fail(Run(no), "network") EXCEPT !.refuse = FALSE])
  BY <1>2, FailOK, Settle
<1> QED
  BY <1>1, <1>3 DEF HttpInv

\* What a pending write says of a client and of a server.
LEMMA WriteRuns ==
  ASSUME HttpInv, con.ev = "write", NEW t, Like(t, con), t.state = con.state, t.ev = "none"
  PROVE  \/ ClientBusy(t) /\ t.state = "WRITING" /\ t.cb = "connectioncb"
         \/ /\ Server(t) /\ t.alive /\ Len(t.queue) = 1
            /\ t.where[Head(t.queue)] = "held" => ~t.msg.userdone /\ Head(t.queue) \in t.started
            /\ t.cb # "send_done" => t.where[Head(t.queue)] = "held"
<1>1. ASSUME ClientOK(con) PROVE ClientBusy(t) /\ t.state = "WRITING" /\ t.cb = "connectioncb"
  <2>1. con.state = "WRITING" /\ con.queue # <<>> /\ con.fd /\ ~con.closeEv
        /\ con.cb = "connectioncb"
    BY <1>1 DEF ClientOK, Reading
  <2>2. Client(t)
    BY <1>1 DEF ClientOK, Client, Base, Like
  <2> QED
    BY <2>1, <2>2 DEF ClientBusy, Like
<1>2. ASSUME ServerOK(con)
      PROVE  /\ Server(t) /\ t.alive /\ Len(t.queue) = 1
             /\ t.where[Head(t.queue)] = "held" => ~t.msg.userdone /\ Head(t.queue) \in t.started
             /\ t.cb # "send_done" => t.where[Head(t.queue)] = "held"
  <2>1. Server(t)
    BY <1>2 DEF ServerOK, Server, Base, Like
  <2>2. con.alive /\ Len(con.queue) = 1 /\ Owns(con.queue, con.where)
    BY <1>2 DEF ServerOK, Server, Base
  <2>3. con.where[Head(con.queue)] \in {"queued", "held"}
    BY <2>2, OnlyOne, HeadOwned
  <2> QED
    BY <1>2, <2>1, <2>2, <2>3 DEF ServerOK, Like
<1> QED
  BY <1>1, <1>2 DEF HttpInv, HttpOK

LEMMA WriteFailsStep == ASSUME HttpInv, EvhttpWriteFails PROVE HttpInv'
<1>1. PICK no : con' = [evhttp_connection_fail(Run(no), "network") EXCEPT !.refuse = FALSE]
  BY DEF EvhttpWriteFails, OnEvent, Handle, Run
<1> DEFINE t == Run(no)
<1>2. Like(t, con) /\ t.state = con.state /\ t.ev = "none" /\ con.ev = "write"
  BY RunFacts DEF EvhttpWriteFails, OnEvent
<1> HIDE DEF t
<1>3. ASSUME ClientBusy(t) PROVE HttpOK(evhttp_connection_fail(t, "network"))
  BY <1>3, ClientFails DEF HttpOK
<1>4. ASSUME Server(t), Len(t.queue) = 1,
             t.where[Head(t.queue)] = "held" => ~t.msg.userdone /\ Head(t.queue) \in t.started
      PROVE  HttpOK(evhttp_connection_fail(t, "network"))
  <2>1. t.queue # <<>> /\ t.role = "server"
    BY <1>4, OnlyOne DEF Server, Base
  <2>2. evhttp_connection_fail(t, "network") = evhttp_connection_drop(t)
    BY <2>1 DEF evhttp_connection_fail
  <2> QED
    BY <1>4, <2>2, DropOK DEF HttpOK
<1>5. HttpOK(evhttp_connection_fail(t, "network"))
  BY <1>2, <1>3, <1>4, WriteRuns
<1>6. HttpOK([evhttp_connection_fail(t, "network") EXCEPT !.refuse = FALSE])
  BY <1>5, Settle
<1> QED
  BY <1>1, <1>6 DEF HttpInv, t

\* evhttp_write: the callback for the end of the output fits who wrote it.
LEMMA WriteStep == ASSUME HttpInv, NEW k, EvhttpWrite(k) PROVE HttpInv'
<1> DEFINE t(no) == [Run(no) EXCEPT !.out = @ - k]
           w(no) == [t(no) EXCEPT !.ev = "write"]
           z(no) == CASE t(no).out > 0 -> w(no)
                      [] t(no).out = 0 /\ Run(no).cb = "connectioncb" ->
                           evhttp_write_connectioncb(t(no))
                      [] t(no).out = 0 /\ Run(no).cb = "send_done" -> evhttp_send_done(t(no))
                      [] OTHER -> t(no)
<1>1. PICK no : con' = [z(no) EXCEPT !.refuse = FALSE]
  BY DEF EvhttpWrite, OnEvent, Handle, Run
<1>2. k \in 1 .. con.out /\ con.ev = "write"
  BY DEF EvhttpWrite, OnEvent
<1>3. /\ Like(Run(no), con) /\ Run(no).state = con.state /\ Run(no).ev = "none"
      /\ Run(no).out = con.out /\ Shape(con)
  BY RunFacts
<1>4. con.out - k \in Nat
  BY <1>2, <1>3 DEF Shape
<1>5. /\ Like(t(no), con) /\ t(no).state = con.state /\ t(no).ev = "none"
      /\ t(no).out = con.out - k /\ t(no).cb = con.cb /\ Run(no).cb = con.cb
  BY <1>3, <1>4 DEF Like, Shape
<1>6. Like(w(no), con) /\ w(no).state = con.state /\ w(no).ev = con.ev
  <2> HIDE DEF t
  <2> QED
    BY <1>2, <1>5 DEF Like, Shape
<1>7. z(no) = IF t(no).out > 0 THEN w(no)
              ELSE IF con.cb = "connectioncb" THEN evhttp_write_connectioncb(t(no))
              ELSE IF con.cb = "send_done" THEN evhttp_send_done(t(no)) ELSE t(no)
  <2> HIDE DEF t, w
  <2> QED
    BY <1>4, <1>5
<1> HIDE DEF t, w, z
<1>8. HttpOK(w(no))
  BY <1>6, LikeOK DEF HttpInv
<1>9. ASSUME ClientBusy(t(no)), t(no).state = "WRITING", t(no).cb = "connectioncb"
      PROVE  HttpOK(z(no))
  <2> DEFINE u == evhttp_write_connectioncb(t(no))
  <2>1. Shape(t(no)) /\ t(no).queue # <<>>
    BY <1>9 DEF ClientBusy, Client, Base
  <2>2. Like(u, t(no)) /\ u.state = "READING_FIRSTLINE" /\ u.ev = "read"
    BY <1>9, <2>1 DEF evhttp_write_connectioncb, evhttp_start_read, Like, Shape
  <2> HIDE DEF u
  <2>3. Client(u)
    BY <1>9, <2>2 DEF ClientBusy, Client, Base, Like
  <2>4. u.fd /\ ~u.closeEv /\ u.queue # <<>>
    BY <1>9, <2>2 DEF ClientBusy, Like
  <2>5. ClientOK(u)
    BY <2>2, <2>3, <2>4 DEF ClientOK, Reading
  <2> QED
    BY <1>5, <1>7, <1>8, <1>9, <2>5 DEF HttpOK, u
<1>10. ASSUME Server(t(no)), t(no).alive, Len(t(no).queue) = 1,
              t(no).where[Head(t(no).queue)] = "held" => ~t(no).msg.userdone,
              t(no).cb # "send_done" => t(no).where[Head(t(no).queue)] = "held"
       PROVE  HttpOK(z(no))
  <2>1. ServerOK(evhttp_send_done(t(no)))
    BY <1>10, SendDoneOK
  <2>2. t(no).cb # "connectioncb"
    BY <1>10 DEF Server
  <2>3. ASSUME t(no).cb # "send_done" PROVE ServerOK(t(no))
    BY <1>5, <1>10, <2>3 DEF ServerOK
  <2> QED
    BY <1>5, <1>7, <1>8, <2>1, <2>2, <2>3 DEF HttpOK
<1>11. HttpOK(z(no))
  BY <1>2, <1>5, <1>9, <1>10, WriteRuns
<1>12. HttpOK([z(no) EXCEPT !.refuse = FALSE])
  BY <1>11, Settle
<1> QED
  BY <1>1, <1>12 DEF HttpInv

\* Only clients connect.
LEMMA ConnectRuns ==
  ASSUME HttpInv, con.ev \in {"connect", "retry"}, NEW no
  PROVE  /\ Client(Run(no)) /\ Run(no).fd /\ ~Run(no).closeEv /\ Run(no).ev = "none"
         /\ con.state = "CONNECTING" /\ ClientOK(con)
<1> DEFINE t == Run(no)
<1>1. Like(t, con) /\ t.state = con.state /\ t.ev = "none"
  BY RunFacts
<1> HIDE DEF t
<1>2. ClientOK(con)
  BY DEF HttpInv, HttpOK, ServerOK
<1>3. con.state = "CONNECTING" /\ con.fd /\ ~con.closeEv
  BY <1>2 DEF ClientOK, Reading
<1>4. Client(t)
  BY <1>1, <1>2 DEF ClientOK, Client, Base, Like
<1>5. t.fd /\ ~t.closeEv
  BY <1>1, <1>3 DEF Like
<1> QED
  BY <1>1, <1>2, <1>3, <1>4, <1>5 DEF t

LEMMA ConnectedStep == ASSUME HttpInv, Connected PROVE HttpInv'
<1> DEFINE t(no) == [Run(no) EXCEPT !.retryCnt = 0, !.state = "IDLE"]
<1>1. PICK no : con' = [evhttp_request_dispatch(t(no)) EXCEPT !.refuse = FALSE]
  BY DEF Connected, OnEvent, Handle, Run
<1>2. Client(Run(no)) /\ Run(no).fd /\ ~Run(no).closeEv /\ Run(no).ev = "none"
  BY ConnectRuns DEF Connected, OnEvent
<1>3. Like(t(no), Run(no)) /\ t(no).state = "IDLE" /\ t(no).ev = "none"
  <2>1. Shape(Run(no))
    BY <1>2 DEF Client, Base
  <2> QED
    BY <1>2, <2>1 DEF Like, Shape
<1> HIDE DEF t
<1>4. Client(t(no)) /\ t(no).fd /\ ~t(no).closeEv
  BY <1>2, <1>3 DEF Client, Base, Like
<1>5. ASSUME t(no).queue # <<>> PROVE ClientOK(evhttp_request_dispatch(t(no)))
  BY <1>3, <1>4, <1>5, DispatchOK
<1>6. ASSUME t(no).queue = <<>> PROVE ClientOK(evhttp_request_dispatch(t(no)))
  <2>1. evhttp_request_dispatch(t(no)) = t(no)
    BY <1>6 DEF evhttp_request_dispatch
  <2>2. ClientOK(t(no))
    BY <1>3, <1>4, <1>6 DEF ClientOK, Reading
  <2> QED
    BY <2>1, <2>2
<1>7. HttpOK([evhttp_request_dispatch(t(no)) EXCEPT !.refuse = FALSE])
  BY <1>5, <1>6, Settle DEF HttpOK
<1> QED
  BY <1>1, <1>7 DEF HttpInv

LEMMA ConnectAgainStep == ASSUME HttpInv, ConnectAgain PROVE HttpInv'
<1> DEFINE t(no) == [Run(no) EXCEPT !.ev = "retry", !.retryCnt = @ + 1]
<1>1. PICK no : con' = [t(no) EXCEPT !.refuse = FALSE]
  BY DEF ConnectAgain, OnEvent, Handle, Run
<1>2. /\ Client(Run(no)) /\ Run(no).fd /\ ~Run(no).closeEv /\ con.state = "CONNECTING"
  BY ConnectRuns DEF ConnectAgain, OnEvent
<1>3. Like(t(no), Run(no)) /\ t(no).state = "CONNECTING" /\ t(no).ev = "retry"
  <2>1. Shape(Run(no)) /\ Run(no).state = "CONNECTING"
    BY <1>2, RunFacts DEF Client, Base
  <2> QED
    BY <2>1 DEF Like, Shape
<1> HIDE DEF t
<1>4. Client(t(no)) /\ t(no).fd /\ ~t(no).closeEv
  BY <1>2, <1>3 DEF Client, Base, Like
<1>5. ClientOK(t(no))
  BY <1>3, <1>4 DEF ClientOK, Reading
<1>6. HttpOK([t(no) EXCEPT !.refuse = FALSE])
  BY <1>5, Settle DEF HttpOK
<1> QED
  BY <1>1, <1>6 DEF HttpInv

LEMMA RetryStep == ASSUME HttpInv, ConnectionRetry PROVE HttpInv'
<1> DEFINE t(no) == [Run(no) EXCEPT !.state = "DISCONNECTED"]
<1>1. PICK no : con' = [evhttp_connection_connect(t(no)) EXCEPT !.refuse = FALSE]
  BY DEF ConnectionRetry, OnEvent, Handle, Run
<1>2. Client(Run(no)) /\ ~Run(no).closeEv
  BY ConnectRuns DEF ConnectionRetry, OnEvent
<1>3. Like(t(no), Run(no)) /\ t(no).state = "DISCONNECTED"
  <2>1. Shape(Run(no))
    BY <1>2 DEF Client, Base
  <2> QED
    BY <2>1 DEF Like, Shape
<1> HIDE DEF t
<1>4. Client(t(no)) /\ ~t(no).closeEv
  BY <1>2, <1>3 DEF Client, Base, Like
<1>5. HttpOK([evhttp_connection_connect(t(no)) EXCEPT !.refuse = FALSE])
  BY <1>3, <1>4, ConnectOK, Settle DEF HttpOK
<1> QED
  BY <1>1, <1>5 DEF HttpInv

\* evhttp_make_request
LEMMA MakeOK ==
  ASSUME NEW s, ClientOK(s), NEW r \in Requests, s.where[r] = "none"
  PROVE  ClientOK(evhttp_make_request(s, r))
<1> DEFINE t == [s EXCEPT !.queue = Append(@, r), !.where[r] = "queued"]
<1>1. Shape(s) /\ Owns(s.queue, s.where)
  BY DEF ClientOK, Client, Base
<1>2. /\ Shape(t) /\ t.role = s.role /\ t.alive = s.alive /\ t.fd = s.fd
      /\ t.closeEv = s.closeEv /\ t.cb = s.cb /\ t.fault = s.fault /\ t.msg = s.msg
      /\ t.state = s.state /\ t.ev = s.ev
      /\ t.queue = Append(s.queue, r) /\ t.where = [s.where EXCEPT ![r] = "queued"]
  BY <1>1 DEF Shape
<1>3. evhttp_make_request(s, r) =
        IF ~evhttp_connected(s) THEN evhttp_connection_connect(t)
        ELSE IF s.queue = <<>> THEN evhttp_request_dispatch(t) ELSE t
  BY DEF evhttp_make_request
<1> HIDE DEF t
<1>4. Owns(Append(s.queue, r), [s.where EXCEPT ![r] = "queued"])
  BY <1>1, PushOwns
<1>5. \A x \in Requests : t.where[x] \in {"none", "queued"}
  BY <1>1, <1>2 DEF ClientOK, Client, Owns
<1>6. Client(t) /\ t.queue # <<>>
  <2>1. t.queue # <<>>
    BY <1>1, <1>2, AppendFacts DEF Owns
  <2> QED
    BY <1>2, <1>4, <1>5, <2>1 DEF ClientOK, Client, Base
<1>7. CASE s.state = "CONNECTING"
  <2>1. ~evhttp_connected(s) /\ evhttp_connection_connect(t) = t
    BY <1>2, <1>7 DEF evhttp_connected, evhttp_connection_connect
  <2>2. ClientOK(t)
    BY <1>2, <1>6, <1>7 DEF ClientOK, Reading
  <2> QED
    BY <1>3, <2>1, <2>2
<1>8. CASE s.state = "DISCONNECTED"
  <2>1. ~evhttp_connected(s)
    BY <1>8 DEF evhttp_connected
  <2>2. ~t.closeEv /\ t.state # "CONNECTING"
    BY <1>2, <1>8 DEF ClientOK
  <2> QED
    BY <1>3, <1>6, <2>1, <2>2, ConnectOK
<1>9. CASE s.state = "IDLE"
  <2>1. evhttp_connected(s) /\ s.queue = <<>>
    BY <1>9 DEF evhttp_connected, ClientOK
  <2>2. t.fd /\ t.state = "IDLE"
    BY <1>2, <1>9 DEF ClientOK
  <2> QED
    BY <1>3, <1>6, <2>1, <2>2, DispatchOK
<1>10. CASE s.state \in {"WRITING"} \cup Reading
  <2>1. evhttp_connected(s) /\ s.queue # <<>>
    BY <1>10 DEF evhttp_connected, ClientOK, Reading
  <2>2. ClientOK(t)
    BY <1>2, <1>6, <1>10 DEF ClientOK, Reading
  <2> QED
    BY <1>3, <2>1, <2>2
<1> QED
  BY <1>7, <1>8, <1>9, <1>10 DEF ClientOK

LEMMA MakeRequestStep == ASSUME HttpInv, NEW r \in Requests, MakeRequest(r) PROVE HttpInv'
<1> DEFINE t(no) == [con EXCEPT !.refuse = no]
<1>1. PICK no : con' = [evhttp_make_request(t(no), r) EXCEPT !.refuse = FALSE]
  BY DEF MakeRequest, Handle
<1>2. HttpOK(t(no)) /\ Like(t(no), con)
  BY Prepare
<1> HIDE DEF t
<1>3. t(no).role = "client" /\ t(no).where[r] = "none"
  BY <1>2 DEF MakeRequest, Like
<1>4. ClientOK(t(no))
  BY <1>2, <1>3 DEF HttpOK, ServerOK, Server
<1>5. HttpOK([evhttp_make_request(t(no), r) EXCEPT !.refuse = FALSE])
  BY <1>3, <1>4, MakeOK, Settle DEF HttpOK
<1> QED
  BY <1>1, <1>5 DEF HttpInv

\* evhttp_connectioncb gives up and tells all requests.
LEMMA ConnectFailedStep ==
  ASSUME HttpInv, NEW again \in Requests \cup {Null}, ConnectFailed(again)
  PROVE  HttpInv'
<1> DEFINE t(no) == evhttp_connection_reset(Run(no))
           u(no) == [t(no) EXCEPT !.queue = Tail(@), !.where[Head(t(no).queue)] = "none"]
           v(no) == IF again = Null THEN t(no) ELSE evhttp_make_request(u(no), again)
           z(no) == [v(no) EXCEPT !.queue = <<>>, !.where = [r \in Requests |-> "none"]]
<1>1. PICK no : con' = [z(no) EXCEPT !.refuse = FALSE]
  BY DEF ConnectFailed, OnEvent, Handle, Run
<1>2. Client(Run(no)) /\ ~Run(no).closeEv /\ ClientOK(con)
  BY ConnectRuns DEF ConnectFailed, OnEvent
<1>3. Like(Run(no), con) /\ Shape(Run(no))
  BY RunFacts DEF Like
<1>4. /\ Shape(t(no)) /\ t(no).msg.userdone = Run(no).msg.userdone
      /\ t(no).state = "DISCONNECTED" /\ t(no).ev = "none" /\ t(no).fd = FALSE
      /\ t(no).role = Run(no).role /\ t(no).alive = Run(no).alive
      /\ t(no).closeEv = Run(no).closeEv /\ t(no).queue = Run(no).queue
      /\ t(no).where = Run(no).where /\ t(no).fault = Run(no).fault
  BY <1>3, ResetFacts
<1> HIDE DEF t
<1>5. Client(t(no)) /\ ~t(no).closeEv
  BY <1>2, <1>4 DEF Client, Base
<1>6. ClientOK(t(no))
  BY <1>4, <1>5 DEF ClientOK, Reading
<1>7. ASSUME again # Null
      PROVE  ClientOK(v(no)) /\ v(no).state \in {"DISCONNECTED", "CONNECTING"}
  <2>1. /\ Shape(u(no)) /\ u(no).role = t(no).role /\ u(no).alive = t(no).alive
        /\ u(no).closeEv = t(no).closeEv /\ u(no).fault = t(no).fault
        /\ u(no).fd = t(no).fd /\ u(no).msg = t(no).msg /\ u(no).queue = Tail(t(no).queue)
        /\ u(no).where = [t(no).where EXCEPT ![Head(t(no).queue)] = "none"]
        /\ u(no).state = t(no).state /\ u(no).ev = t(no).ev
    BY <1>4 DEF Shape
  <2>2. v(no) = evhttp_make_request(u(no), again)
    BY <1>7
  <2> HIDE DEF u, v
  <2>3. t(no).queue # <<>> /\ t(no).where[again] = "none" /\ again \in Requests
    BY <1>3, <1>4, <1>7 DEF ConnectFailed, Like
  <2>4. Client(u(no))
    <3>1. Left(u(no), t(no))
      BY <1>4, <2>1 DEF Left
    <3> QED
      BY <1>5, <2>3, <3>1, ClientPop
  <2>5. ClientOK(u(no))
    BY <1>4, <1>5, <2>1, <2>4 DEF ClientOK, Reading
  <2>6. u(no).where[again] = "none"
    BY <1>5, <2>1, <2>3 DEF Client, Base, Owns
  <2>7. ClientOK(v(no))
    BY <2>2, <2>3, <2>5, <2>6, MakeOK
  <2>8. v(no).state \in {"DISCONNECTED", "CONNECTING"}
    <3> DEFINE a == [u(no) EXCEPT !.queue = Append(@, again), !.where[again] = "queued"]
    <3>1. ~evhttp_connected(u(no)) /\ a.state = "DISCONNECTED"
      BY <1>4, <2>1 DEF evhttp_connected
    <3>2. v(no) = evhttp_connection_connect(a)
      BY <2>2, <3>1 DEF evhttp_make_request
    <3> HIDE DEF a
    <3>3. evhttp_connection_connect(a).state \in {"DISCONNECTED", "CONNECTING"}
      BY <3>1 DEF evhttp_connection_connect, evhttp_connection_reset
    <3> QED
      BY <3>2, <3>3
  <2> QED
    BY <2>7, <2>8
<1>8. ClientOK(v(no)) /\ v(no).state \in {"DISCONNECTED", "CONNECTING"}
  <2>1. again = Null => v(no) = t(no)
    OBVIOUS
  <2> HIDE DEF v
  <2> QED
    BY <1>4, <1>6, <1>7, <2>1
<1> HIDE DEF v
<1>9. ClientOK(z(no))
  <2>1. Shape(v(no))
    BY <1>8 DEF ClientOK, Client, Base
  <2>2. /\ Shape(z(no)) /\ z(no).role = v(no).role /\ z(no).alive = v(no).alive
        /\ z(no).closeEv = v(no).closeEv /\ z(no).fault = v(no).fault
        /\ z(no).fd = v(no).fd /\ z(no).msg = v(no).msg /\ z(no).queue = <<>>
        /\ z(no).where = [r \in Requests |-> "none"]
        /\ z(no).state = v(no).state /\ z(no).ev = v(no).ev
    BY <2>1 DEF Shape
  <2> HIDE DEF z
  <2>3. Owns(<<>>, z(no).where)
    BY <2>2, EmptyOwns
  <2>4. Client(z(no))
    BY <1>8, <2>2, <2>3 DEF ClientOK, Client, Base
  <2> QED
    BY <1>8, <2>2, <2>4 DEF ClientOK, Reading
<1> HIDE DEF z
<1>10. HttpOK([z(no) EXCEPT !.refuse = FALSE])
  BY <1>9, Settle DEF HttpOK
<1> QED
  BY <1>1, <1>10 DEF HttpInv

\* evhttp_detect_close_cb
LEMMA DetectCloseStep == ASSUME HttpInv, DetectClose PROVE HttpInv'
<1> DEFINE s(no) == [[con EXCEPT !.refuse = no] EXCEPT !.closeEv = FALSE, !.ran = ~@]
           t(no) == evhttp_connection_reset(s(no))
<1>1. PICK no : con' = [t(no) EXCEPT !.refuse = FALSE]
  BY DEF DetectClose, Handle
<1>2. ClientOK(con) /\ Shape(con)
  BY OKShape DEF DetectClose, HttpInv, HttpOK, ServerOK, Server
<1>3. /\ Shape(s(no)) /\ s(no).role = con.role /\ s(no).alive = con.alive
      /\ s(no).closeEv = FALSE /\ s(no).fault = con.fault /\ s(no).msg = con.msg
      /\ s(no).queue = con.queue /\ s(no).where = con.where
  BY <1>2 DEF Shape
<1> HIDE DEF s
<1>4. /\ Shape(t(no)) /\ t(no).msg.userdone = s(no).msg.userdone
      /\ t(no).state = "DISCONNECTED" /\ t(no).ev = "none" /\ t(no).fd = FALSE
      /\ t(no).role = s(no).role /\ t(no).alive = s(no).alive
      /\ t(no).closeEv = s(no).closeEv /\ t(no).queue = s(no).queue
      /\ t(no).where = s(no).where /\ t(no).fault = s(no).fault
  BY <1>3, ResetFacts
<1> HIDE DEF t
<1>5. Client(t(no))
  BY <1>2, <1>3, <1>4 DEF ClientOK, Client, Base
<1>6. ClientOK(t(no))
  BY <1>3, <1>4, <1>5 DEF ClientOK, Reading
<1>7. HttpOK([t(no) EXCEPT !.refuse = FALSE])
  BY <1>6, Settle DEF HttpOK
<1> QED
  BY <1>1, <1>7 DEF HttpInv

\* evhttp_connection_new
LEMMA FreshFacts ==
  ASSUME NEW role
  PROVE  LET f == Fresh(role)
         IN  /\ Shape(f) /\ f.role = role /\ f.alive = TRUE /\ f.fd = FALSE
             /\ f.closeEv = FALSE /\ f.queue = <<>> /\ f.cb = "null" /\ f.fault = "none"
             /\ f.where = [r \in Requests |-> "none"] /\ f.started = {}
             /\ f.msg = NoMessage /\ f.msg.userdone = FALSE
             /\ f.state = "DISCONNECTED" /\ f.ev = "none"
  BY DEF Fresh, NoMessage, Shape

LEMMA FreshOK == ClientOK(Fresh("client"))
<1> DEFINE f == Fresh("client")
<1>1. /\ Shape(f) /\ f.role = "client" /\ f.alive = TRUE /\ f.fd = FALSE
      /\ f.closeEv = FALSE /\ f.queue = <<>> /\ f.fault = "none"
      /\ f.where = [r \in Requests |-> "none"] /\ f.msg.userdone = FALSE
      /\ f.state = "DISCONNECTED" /\ f.ev = "none"
  BY FreshFacts
<1> HIDE DEF f
<1>2. Owns(<<>>, f.where)
  BY <1>1, EmptyOwns
<1>3. Client(f)
  BY <1>1, <1>2 DEF Client, Base
<1>4. ClientOK(f)
  BY <1>1, <1>3 DEF ClientOK, Reading
<1> QED
  BY <1>4 DEF f

LEMMA ReplaceStep == ASSUME HttpInv, ReplaceConnection PROVE HttpInv'
<1> DEFINE t(no) == [Fresh("client") EXCEPT !.ran = [con EXCEPT !.refuse = no].ran]
<1>1. PICK no : con' = [t(no) EXCEPT !.refuse = FALSE]
  BY DEF ReplaceConnection, Handle
<1> DEFINE f == Fresh("client")
<1>2. HttpOK(f) /\ Shape(f)
  BY FreshOK, FreshFacts DEF HttpOK
<1> HIDE DEF f
<1>3. t(no) = [f EXCEPT !.ran = [con EXCEPT !.refuse = no].ran]
  BY DEF f
<1> HIDE DEF t
<1>4. Like(t(no), f) /\ t(no).state = f.state /\ t(no).ev = f.ev
  BY <1>2, <1>3 DEF Like, Shape
<1>5. HttpOK([t(no) EXCEPT !.refuse = FALSE])
  BY <1>2, <1>4, LikeOK, Settle
<1> QED
  BY <1>1, <1>5 DEF HttpInv

\* accept_socket, evhttp_get_request
LEMMA AcceptStep == ASSUME HttpInv, Accept PROVE HttpInv'
<1> DEFINE f == Fresh("server")
           t == [f EXCEPT !.fd = TRUE, !.may = MaxSent, !.where = con.where,
                          !.started = con.started, !.ran = con.ran]
<1>1. con' = evhttp_associate_new_request_with_connection(t)
  BY DEF Accept
<1>2. /\ Shape(f) /\ f.role = "server" /\ f.alive = TRUE
      /\ f.closeEv = FALSE /\ f.queue = <<>> /\ f.cb = "null" /\ f.fault = "none"
      /\ f.msg.userdone = FALSE
  BY FreshFacts
<1> HIDE DEF f
<1>3. /\ Shape(t) /\ t.role = "server" /\ t.alive = TRUE /\ t.fd = TRUE
      /\ t.closeEv = FALSE /\ t.queue = <<>> /\ t.cb = "null" /\ t.fault = "none"
      /\ t.msg = f.msg /\ t.where = con.where /\ t.started = con.started
  BY <1>2 DEF Shape
<1> HIDE DEF t
<1>4. ServerOK(con) /\ con.queue = <<>>
  BY DEF Accept, HttpInv, HttpOK, ClientOK, Client, ServerOK
<1>5. Server(t)
  BY <1>2, <1>3, <1>4 DEF ServerOK, Server, Base
<1>6. Unused(t) # {}
  BY <1>3 DEF Accept, Unused
<1>7. HttpOK(con')
  BY <1>1, <1>3, <1>5, <1>6, AssociateOK DEF HttpOK
<1> QED
  BY <1>7 DEF HttpInv

\* evhttp_free
LEMMA FreeStep == ASSUME HttpInv, EvhttpFree PROVE HttpInv'
<1> DEFINE t(no) == [con EXCEPT !.refuse = no]
<1>1. PICK no : con' = [evhttp_connection_free(t(no)) EXCEPT !.refuse = FALSE]
  BY DEF EvhttpFree, Handle
<1>2. HttpOK(t(no)) /\ Like(t(no), con)
  BY Prepare
<1> HIDE DEF t
<1>3. Server(t(no)) /\ \A r \in Requests : t(no).where[r] # "held"
  BY <1>2 DEF EvhttpFree, Like, HttpOK, ClientOK, Client, ServerOK
<1>4. HttpOK([evhttp_connection_free(t(no)) EXCEPT !.refuse = FALSE])
  BY <1>3, FreeOK, Settle DEF HttpOK
<1> QED
  BY <1>1, <1>4 DEF HttpInv

\* A request user code holds is the one of its connection.
LEMMA HeldFacts ==
  ASSUME HttpInv, NEW r \in Requests, con.where[r] = "held"
  PROVE  /\ ServerOK(con) /\ con.alive /\ Len(con.queue) = 1 /\ r = Head(con.queue)
         /\ Shape(con) /\ Owns(con.queue, con.where) /\ con.queue # <<>>
         /\ Among(r, con.queue) /\ con.ev \in {"none", "write"} /\ ~con.msg.userdone
<1>1. ServerOK(con)
  BY DEF HttpInv, HttpOK, ClientOK, Client
<1>2. Shape(con) /\ Owns(con.queue, con.where)
  BY <1>1 DEF ServerOK, Server, Base
<1>3. con.queue # <<>>
  BY <1>2, NoneOwned
<1>4. con.alive /\ Len(con.queue) = 1
  BY <1>1, <1>3 DEF ServerOK, Server, Base
<1>5. r = Head(con.queue) /\ Among(r, con.queue)
  BY <1>2, <1>4, OnlyOne DEF Owns
<1> QED
  BY <1>1, <1>2, <1>3, <1>4, <1>5 DEF ServerOK

\* One whose connection is gone is one user code has begun to answer.
LEMMA DetachedFacts ==
  ASSUME HttpInv, NEW r \in Requests, con.where[r] = "detached"
  PROVE  ServerOK(con) /\ r \in con.started
<1>1. ServerOK(con)
  BY DEF HttpInv, HttpOK, ClientOK, Client
<1> QED
  BY <1>1 DEF ServerOK, Server

\* evhttp_send_reply
LEMMA SendReplyStep == ASSUME HttpInv, NEW r \in Requests, SendReply(r) PROVE HttpInv'
<1>1. PICK close : con' = evhttp_send(con, r, close)
  BY DEF SendReply, Answer
<1>2. con.where[r] = "held"
  BY DetachedFacts DEF SendReply, Answer
<1>3. Server(con) /\ con.alive /\ Len(con.queue) = 1 /\ r = Head(con.queue)
  BY <1>2, HeldFacts DEF ServerOK
<1>4. ServerOK(con')
  BY <1>1, <1>3, SendOK
<1> QED
  BY <1>4 DEF HttpInv, HttpOK

\* Pieces of a reply are written while user code holds the request.
LEMMA PieceOK ==
  ASSUME HttpInv, NEW r \in Requests, con.where[r] = "held", NEW t, Shape(t),
         t.role = con.role, t.alive = con.alive, t.fd = con.fd, t.closeEv = con.closeEv,
         t.queue = con.queue, t.where = con.where, t.fault = con.fault,
         t.msg.userdone = con.msg.userdone, t.started = con.started \cup {r},
         t.cb = "null", t.ev = "write"
  PROVE  ServerOK(t)
<1>1. ServerOK(con) /\ con.alive /\ Len(con.queue) = 1 /\ r = Head(con.queue)
      /\ ~con.msg.userdone
  BY HeldFacts
<1>2. Server(t)
  BY <1>1 DEF ServerOK, Server, Base
<1> QED
  BY <1>1, <1>2 DEF ServerOK

\* evhttp_send_reply_start
LEMMA SendReplyStartStep == ASSUME HttpInv, NEW r \in Requests, SendReplyStart(r) PROVE HttpInv'
<1> DEFINE n == con.out + 1
           c == con.msg.chunked \/ con.msg.type # "get10"
           t == [con EXCEPT !.started = @ \cup {r}, !.out = n, !.msg.chunked = c,
                            !.cb = "null", !.ev = "write"]
<1>1. con.where[r] = "held"
  BY DetachedFacts DEF SendReplyStart, Answer
<1>2. con' = t
  BY <1>1 DEF SendReplyStart, Answer, evhttp_write_buffer
<1>3. Shape(con) /\ n \in Nat
  BY <1>1, HeldFacts DEF Shape
<1> HIDE DEF n, c
<1>4. /\ Shape(t) /\ t.role = con.role /\ t.alive = con.alive /\ t.fd = con.fd
      /\ t.closeEv = con.closeEv /\ t.queue = con.queue /\ t.where = con.where
      /\ t.fault = con.fault /\ t.msg.userdone = con.msg.userdone
      /\ t.started = con.started \cup {r} /\ t.cb = "null" /\ t.ev = "write"
  BY <1>3 DEF Shape
<1> HIDE DEF t
<1>5. ServerOK(t)
  BY <1>1, <1>4, PieceOK
<1> QED
  BY <1>2, <1>5 DEF HttpInv, HttpOK

\* evhttp_send_reply_chunk
LEMMA SendReplyChunkStep ==
  ASSUME HttpInv, NEW r \in Requests, NEW k \in {0, 1}, SendReplyChunk(r, k)
  PROVE  HttpInv'
<1> DEFINE n == IF con.msg.chunked THEN con.out + 1 ELSE con.out + k
           t == [con EXCEPT !.out = n, !.cb = "null", !.ev = "write"]
<1>1. con.where[r] = "held" /\ con.started \cup {r} = con.started
  BY DEF SendReplyChunk
<1>2. con' = t
  BY DEF SendReplyChunk, Answer, evhttp_write_buffer
<1>3. Shape(con) /\ n \in Nat
  BY <1>1, HeldFacts DEF Shape
<1> HIDE DEF n
<1>4. /\ Shape(t) /\ t.role = con.role /\ t.alive = con.alive /\ t.fd = con.fd
      /\ t.closeEv = con.closeEv /\ t.queue = con.queue /\ t.where = con.where
      /\ t.fault = con.fault /\ t.msg.userdone = con.msg.userdone
      /\ t.started = con.started \cup {r} /\ t.cb = "null" /\ t.ev = "write"
  BY <1>1, <1>3 DEF Shape
<1> HIDE DEF t
<1>5. ServerOK(t)
  BY <1>1, <1>4, PieceOK
<1> QED
  BY <1>2, <1>5 DEF HttpInv, HttpOK

\* evhttp_send_reply_end for a request whose connection is gone.
LEMMA ForgetOK ==
  ASSUME NEW s, ServerOK(s), NEW r \in Requests, s.where[r] = "detached"
  PROVE  ServerOK([s EXCEPT !.where[r] = "none", !.started = @ \ {r}])
<1> DEFINE w == [s.where EXCEPT ![r] = "none"]
           t == [s EXCEPT !.where[r] = "none", !.started = @ \ {r}]
<1> SUFFICES ServerOK(t)
  OBVIOUS
<1>1. Shape(s) /\ Owns(s.queue, s.where)
  BY DEF ServerOK, Server, Base
<1>2. /\ Shape(t) /\ t.role = s.role /\ t.alive = s.alive /\ t.fd = s.fd
      /\ t.closeEv = s.closeEv /\ t.queue = s.queue /\ t.where = w
      /\ t.fault = s.fault /\ t.msg = s.msg /\ t.cb = s.cb /\ t.ev = s.ev
      /\ t.state = s.state /\ t.started = s.started \ {r}
  BY <1>1 DEF Shape
<1>3. /\ w \in [Requests -> {"none", "queued", "held", "detached"}] /\ w[r] = "none"
      /\ \A x \in Requests \ {r} : w[x] = s.where[x]
  BY <1>1 DEF Owns
<1> HIDE DEF t, w
<1>4. \A x \in Requests : Among(x, s.queue) <=> w[x] \in {"queued", "held"}
  BY <1>1, <1>3 DEF Owns
<1>5. Owns(t.queue, t.where)
  BY <1>1, <1>2, <1>3, <1>4 DEF Owns
<1>6. \A x \in Requests : t.where[x] = "detached" => x \in t.started
  BY <1>2, <1>3 DEF ServerOK, Server
<1>7. Server(t)
  BY <1>2, <1>5, <1>6 DEF ServerOK, Server, Base
<1>8. ASSUME s.alive
      PROVE  Head(s.queue) # r /\ t.where[Head(s.queue)] = s.where[Head(s.queue)]
  <2>1. s.queue # <<>>
    BY <1>1, <1>8, OnlyOne DEF ServerOK
  <2>2. Head(s.queue) \in Requests /\ s.where[Head(s.queue)] \in {"queued", "held"}
    BY <1>1, <2>1, HeadOwned
  <2> QED
    BY <1>2, <1>3, <2>2
<1>9. s.alive \/ s.ev = "none"
  BY DEF ServerOK
<1> QED
  BY <1>2, <1>7, <1>8, <1>9 DEF ServerOK

\* evhttp_send_reply_end
LEMMA SendReplyEndStep == ASSUME HttpInv, NEW r \in Requests, SendReplyEnd(r) PROVE HttpInv'
<1> DEFINE d == [con EXCEPT !.where[r] = "queued", !.msg.userdone = TRUE]
           chunk == [d EXCEPT !.out = @ + 1, !.msg.chunked = FALSE, !.cb = "send_done",
                              !.ev = "write"]
           last == [d EXCEPT !.cb = "send_done"]
<1>1. CASE con.where[r] = "detached"
  <2>1. con' = [con EXCEPT !.where[r] = "none", !.started = @ \ {r}]
    BY <1>1 DEF SendReplyEnd, Answer
  <2>2. ServerOK([con EXCEPT !.where[r] = "none", !.started = @ \ {r}])
    BY <1>1, DetachedFacts, ForgetOK
  <2> QED
    BY <2>1, <2>2 DEF HttpInv, HttpOK
<1>2. CASE con.where[r] = "held"
  <2>1. con' = IF con.msg.chunked THEN chunk
               ELSE IF con.ev = "none" THEN evhttp_send_done(d) ELSE last
    BY <1>2 DEF SendReplyEnd, Answer, evhttp_write_buffer
  <2>2. /\ ServerOK(con) /\ con.alive /\ Len(con.queue) = 1 /\ r = Head(con.queue)
        /\ Shape(con) /\ Owns(con.queue, con.where)
        /\ Among(r, con.queue) /\ con.ev \in {"none", "write"}
    BY <1>2, HeldFacts
  <2>3. /\ Shape(d) /\ d.role = con.role /\ d.alive = con.alive /\ d.fd = con.fd
        /\ d.closeEv = con.closeEv /\ d.queue = con.queue
        /\ d.where = [con.where EXCEPT ![r] = "queued"]
        /\ d.fault = con.fault /\ d.msg.userdone = TRUE /\ d.started = con.started
        /\ d.cb = con.cb /\ d.ev = con.ev
    BY <2>2 DEF Shape
  <2> HIDE DEF d
  <2>4. Server(d) /\ d.where[r] = "queued"
    <3>1. "queued" \in {"queued", "held"}
      OBVIOUS
    <3>2. Owns(con.queue, [con.where EXCEPT ![r] = "queued"])
      BY <2>2, <3>1, MarkOwns
    <3>3. /\ d.where[r] = "queued"
          /\ \A x \in Requests \ {r} : d.where[x] = con.where[x]
      BY <2>2, <2>3 DEF Owns
    <3>4. \A x \in Requests : d.where[x] = "detached" => x \in d.started
      BY <2>2, <2>3, <3>3 DEF ServerOK, Server
    <3>5. Base(d)
      BY <2>2, <2>3, <3>2 DEF ServerOK, Server, Base
    <3> QED
      BY <2>2, <2>3, <3>3, <3>4, <3>5 DEF ServerOK, Server
  <2>5. ServerOK(evhttp_send_done(d))
    BY <2>2, <2>3, <2>4, SendDoneOK
  <2>6. ServerOK(chunk)
    <3>1. d.out + 1 \in Nat
      BY <2>3 DEF Shape
    <3>2. /\ Shape(chunk) /\ chunk.role = d.role /\ chunk.alive = d.alive /\ chunk.fd = d.fd
          /\ chunk.closeEv = d.closeEv /\ chunk.queue = d.queue /\ chunk.where = d.where
          /\ chunk.fault = d.fault /\ chunk.msg.userdone = TRUE /\ chunk.started = d.started
          /\ chunk.cb = "send_done" /\ chunk.ev = "write"
      BY <2>3, <3>1 DEF Shape
    <3> HIDE DEF chunk
    <3>3. Server(chunk)
      BY <2>4, <3>2 DEF Server, Base
    <3> QED
      BY <2>2, <2>3, <2>4, <3>2, <3>3 DEF ServerOK
  <2>7. ASSUME con.ev # "none" PROVE ServerOK(last)
    <3>1. /\ Shape(last) /\ last.role = d.role /\ last.alive = d.alive /\ last.fd = d.fd
          /\ last.closeEv = d.closeEv /\ last.queue = d.queue /\ last.where = d.where
          /\ last.fault = d.fault /\ last.msg = d.msg /\ last.started = d.started
          /\ last.cb = "send_done" /\ last.ev = d.ev
      BY <2>3 DEF Shape
    <3> HIDE DEF last
    <3>2. Server(last)
      BY <2>4, <3>1 DEF Server, Base
    <3> QED
      BY <2>2, <2>3, <2>4, <2>7, <3>1, <3>2 DEF ServerOK
  <2> HIDE DEF chunk, last
  <2>8. ServerOK(con')
    BY <2>1, <2>5, <2>6, <2>7
  <2> QED
    BY <2>8 DEF HttpInv, HttpOK
<1> QED
  BY <1>1, <1>2 DEF SendReplyEnd, Answer

\* What the peer does is seen only by reading.
LEMMA PeerStep ==
  ASSUME HttpInv, (\E m : PeerSends(m)) \/ PeerCloses
  PROVE  HttpInv'
<1>1. Shape(con)
  BY OKShape DEF HttpInv
<1>2. Like(con', con) /\ con'.state = con.state /\ con'.ev = con.ev
  <2>1. ASSUME NEW m, PeerSends(m)
        PROVE  Like(con', con) /\ con'.state = con.state /\ con'.ev = con.ev
    <3> DEFINE w == con.wire \o m
               u == Append(con.sent, Units(m))
               n == con.may - 1
    <3>1. con' = [con EXCEPT !.wire = w, !.sent = u, !.may = n]
      BY <2>1 DEF PeerSends
    <3> HIDE DEF w, u, n
    <3> QED
      BY <1>1, <3>1 DEF Like, Shape
  <2>2. CASE PeerCloses
    BY <1>1, <2>2 DEF PeerCloses, Like, Shape
  <2> QED
    BY <2>1, <2>2
<1> QED
  BY <1>2, LikeOK DEF HttpInv

\* HttpInv is inductive.
LEMMA HttpInvariance == Spec => []HttpInv
<1>1. Init => HttpInv
  <2> SUFFICES ASSUME Init PROVE HttpOK(con)
    BY DEF HttpInv
  <2>1. CASE con = Fresh("client")
    BY <2>1, FreshOK DEF HttpOK
  <2>2. ASSUME NEW role \in Roles, role # "client", con = [Fresh(role) EXCEPT !.alive = FALSE]
        PROVE  ServerOK(con)
    <3> DEFINE f == Fresh(role)
    <3>1. role = "server"
      BY <2>2, EvHttpAssumption
    <3>2. /\ Shape(f) /\ f.role = role /\ f.fd = FALSE
          /\ f.closeEv = FALSE /\ f.queue = <<>> /\ f.cb = "null" /\ f.fault = "none"
          /\ f.where = [r \in Requests |-> "none"]
          /\ f.msg.userdone = FALSE /\ f.ev = "none"
      BY FreshFacts
    <3>3. con = [f EXCEPT !.alive = FALSE]
      BY <2>2
    <3> HIDE DEF f
    <3>4. /\ Shape(con) /\ con.role = "server" /\ con.fd = FALSE /\ con.alive = FALSE
          /\ con.closeEv = FALSE /\ con.queue = <<>> /\ con.cb = "null"
          /\ con.fault = "none" /\ con.where = [r \in Requests |-> "none"]
          /\ con.msg.userdone = FALSE /\ con.ev = "none"
      BY <3>1, <3>2, <3>3 DEF Shape
    <3>5. Owns(<<>>, con.where)
      BY <3>4, EmptyOwns
    <3>6. Server(con)
      BY <3>4, <3>5 DEF Server, Base
    <3> QED
      BY <3>4, <3>6 DEF ServerOK
  <2> QED
    BY <2>1, <2>2 DEF Init, HttpOK
<1>2. HttpInv /\ [Next]_con => HttpInv'
  <2> SUFFICES ASSUME HttpInv, [Next]_con PROVE HttpInv'
    OBVIOUS
  <2>1. CASE EventStep
    BY <2>1, ConnectedStep, ConnectAgainStep, RetryStep, ConnectFailedStep, WriteStep,
       WriteFailsStep, ReadStep, ReadEOFStep, ReadFailsStep, DetectCloseStep DEF EventStep
  <2>2. CASE \E r \in Requests : MakeRequest(r)
    BY <2>2, MakeRequestStep
  <2>3. CASE ReplaceConnection \/ Accept \/ EvhttpFree
    BY <2>3, ReplaceStep, AcceptStep, FreeStep
  <2>4. CASE \E r \in Requests : SendReply(r) \/ SendReplyStart(r) \/ SendReplyEnd(r)
    BY <2>4, SendReplyStep, SendReplyStartStep, SendReplyEndStep
  <2>5. CASE \E r \in Requests, k \in {0, 1} : SendReplyChunk(r, k)
    BY <2>5, SendReplyChunkStep
  <2>6. CASE (\E m \in Messages[con.role] : PeerSends(m)) \/ PeerCloses
    BY <2>6, PeerStep
  <2>7. CASE UNCHANGED con
    BY <2>7 DEF HttpInv
  <2> QED
    BY <2>1, <2>2, <2>3, <2>4, <2>5, <2>6, <2>7 DEF Next
<1> QED
  BY <1>1, <1>2, PTL DEF Spec

\* No assertion of http.c fails, no event runs in a state it has no case for,
\* no request is freed under user code, for any requests and messages.
THEOREM NeverFaults == Spec => []NoFault
<1>1. HttpInv => NoFault
  BY DEF HttpInv, HttpOK, ClientOK, ServerOK, Client, Server, Base, NoFault
<1> QED
  BY <1>1, HttpInvariance, PTL

\* Every request always has exactly one owner.
THEOREM AlwaysOneOwner == Spec => []OneOwner
<1>1. HttpInv => OneOwner
  <2> SUFFICES ASSUME HttpInv, NEW r \in Requests
               PROVE  /\ Queued(r) <=> con.where[r] \in {"queued", "held"}
                      /\ Cardinality({i \in DOMAIN con.queue : con.queue[i] = r}) <= 1
                      /\ con.where[r] = "held" => con.role = "server" /\ Head(con.queue) = r
    BY DEF OneOwner
  <2>1. Owns(con.queue, con.where)
    BY DEF HttpInv, HttpOK, ClientOK, ServerOK, Client, Server, Base
  <2>2. DOMAIN con.queue = 1 .. Len(con.queue)
    BY <2>1 DEF Owns
  <2>3. Queued(r) <=> con.where[r] \in {"queued", "held"}
    BY <2>1, <2>2 DEF Queued, Owns, Among
  <2>4. Cardinality({i \in DOMAIN con.queue : con.queue[i] = r}) <= 1
    <3> DEFINE P == {i \in DOMAIN con.queue : con.queue[i] = r}
    <3>1. \A i, j \in P : i = j
      BY <2>1, <2>2 DEF Owns
    <3>2. P = {} \/ \E i \in P : P = {i}
      BY <3>1
    <3> HIDE DEF P
    <3>3. P = {} => Cardinality(P) = 0
      BY FS_EmptySet
    <3>4. (\E i \in P : P = {i}) => Cardinality(P) = 1
      BY FS_Singleton
    <3>5. Cardinality(P) <= 1
      BY <3>2, <3>3, <3>4
    <3> QED
      BY <3>5 DEF P
  <2>5. con.where[r] = "held" => con.role = "server" /\ Head(con.queue) = r
    BY HeldFacts DEF ServerOK, Server
  <2> QED
    BY <2>3, <2>4, <2>5
<1> QED
  BY <1>1, HttpInvariance, PTL

\* The event that waits for the peer to close is pending only on an open
\* connection that no request uses.
THEOREM CloseAlwaysDetectedIdle == Spec => []CloseDetectedIdle
<1>1. HttpInv => CloseDetectedIdle
  BY DEF HttpInv, HttpOK, ClientOK, ServerOK, Server, CloseDetectedIdle
<1> QED
  BY <1>1, HttpInvariance, PTL

-----------------------------------------------------------------------------
(* Sequences of tokens.                                                    *)

Tokens == Seq(STRING)

LEMMA LeastExists ==
  ASSUME NEW P \in SUBSET Nat, P # {}
  PROVE  \E m \in P : \A k \in P : m <= k
<1>1. PICK m \in P : \A k \in P : <<k, m>> \notin OpToRel(<, Nat)
  BY WFMin, NatLessThanWellFounded, Zenon
<1>2. \A k \in P : ~(k < m)
  BY <1>1, Zenon DEF OpToRel
<1> QED
  BY <1>2

\* A loop over the tokens stops at the first of those that stop it, or not.
LEMMA StopFacts ==
  ASSUME NEW seq \in Tokens, NEW tokens
  PROVE  LET j == StopAt(seq, tokens)
         IN  /\ j \in 1 .. Len(seq) + 1
             /\ j <= Len(seq) => FirstAt(seq, j, tokens)
             /\ \A i \in 1 .. j - 1 : seq[i] \notin tokens
<1> DEFINE P == {i \in DOMAIN seq : seq[i] \in tokens} \cup {Len(seq) + 1}
           j == Min(P)
<1>1. Len(seq) \in Nat /\ DOMAIN seq = 1 .. Len(seq)
  BY DEF Tokens
<1>2. P \in SUBSET Nat /\ P # {} /\ P \subseteq 1 .. Len(seq) + 1
  BY <1>1
<1>3. \A i \in P : i = Len(seq) + 1 \/ (i \in 1 .. Len(seq) /\ seq[i] \in tokens)
  BY <1>1
<1>4. \A i \in 1 .. Len(seq) : seq[i] \in tokens => i \in P
  BY <1>1
<1> HIDE DEF P
<1>5. j \in P /\ \A k \in P : j <= k
  BY <1>2, LeastExists, Zenon DEF Min
<1> HIDE DEF j
<1>6. j \in 1 .. Len(seq) + 1
  BY <1>2, <1>5
<1>7. \A i \in 1 .. j - 1 : seq[i] \notin tokens
  BY <1>1, <1>4, <1>5, <1>6
<1>8. j <= Len(seq) => FirstAt(seq, j, tokens)
  BY <1>1, <1>3, <1>5, <1>6, <1>7 DEF FirstAt
<1> QED
  BY <1>6, <1>7, <1>8 DEF StopAt, j, P

\* What follows the first k tokens.
LEMMA FromFacts ==
  ASSUME NEW seq \in Tokens, NEW k \in Nat, k <= Len(seq)
  PROVE  /\ From(seq, k + 1) \in Tokens /\ Len(From(seq, k + 1)) = Len(seq) - k
         /\ \A i \in 1 .. Len(seq) - k : From(seq, k + 1)[i] = seq[k + i]
<1> DEFINE n == Len(seq)
           f == From(seq, k + 1)
<1>1. n \in Nat /\ \A i \in k + 1 .. n : seq[i] \in STRING
  BY DEF Tokens
<1>2. f = SubSeq(seq, k + 1, n)
  BY DEF From
<1> HIDE DEF n, f
<1>3. /\ f \in Seq(STRING)
      /\ Len(f) = IF k + 1 <= n THEN n - (k + 1) + 1 ELSE 0
      /\ \A i \in 1 .. n - (k + 1) + 1 : f[i] = seq[(k + 1) + i - 1]
  BY <1>1, <1>2, SubSeqProperties
<1>4. k <= n
  BY DEF n
<1>5. Len(f) = n - k
  BY <1>1, <1>3, <1>4
<1>6. ASSUME NEW i \in 1 .. n - k PROVE f[i] = seq[k + i]
  <2>1. i \in 1 .. n - (k + 1) + 1 /\ (k + 1) + i - 1 = k + i
    BY <1>1
  <2>2. f[i] = seq[(k + 1) + i - 1]
    BY <1>3, <2>1
  <2> QED
    BY <2>1, <2>2
<1> QED
  BY <1>3, <1>5, <1>6 DEF Tokens, n, f

\* The first k tokens.
LEMMA UntilFacts ==
  ASSUME NEW seq \in Tokens, NEW k \in Nat, k <= Len(seq)
  PROVE  /\ SubSeq(seq, 1, k) \in Tokens /\ Len(SubSeq(seq, 1, k)) = k
         /\ \A i \in 1 .. k : SubSeq(seq, 1, k)[i] = seq[i]
<1> DEFINE f == SubSeq(seq, 1, k)
<1>1. Len(seq) \in Nat /\ \A i \in 1 .. k : seq[i] \in STRING
  BY DEF Tokens
<1> HIDE DEF f
<1>2. /\ f \in Seq(STRING) /\ Len(f) = IF 1 <= k THEN k - 1 + 1 ELSE 0
      /\ \A i \in 1 .. k - 1 + 1 : f[i] = seq[1 + i - 1]
  BY <1>1, SubSeqProperties DEF f
<1>3. Len(f) = k
  BY <1>2
<1>4. ASSUME NEW i \in 1 .. k PROVE f[i] = seq[i]
  <2>1. i \in 1 .. k - 1 + 1 /\ 1 + i - 1 = i
    OBVIOUS
  <2>2. f[i] = seq[1 + i - 1]
    BY <1>2, <2>1
  <2> QED
    BY <2>1, <2>2
<1> QED
  BY <1>2, <1>3, <1>4 DEF Tokens, f

LEMMA JoinFacts ==
  ASSUME NEW a \in Tokens, NEW b \in Tokens
  PROVE  /\ a \o b \in Tokens /\ Len(a \o b) = Len(a) + Len(b)
         /\ \A i \in 1 .. Len(a) : (a \o b)[i] = a[i]
         /\ \A i \in 1 .. Len(b) : (a \o b)[Len(a) + i] = b[i]
<1> DEFINE c == a \o b
<1>1. Len(a) \in Nat /\ Len(b) \in Nat
  BY DEF Tokens
<1>2. /\ c \in Seq(STRING) /\ Len(c) = Len(a) + Len(b)
      /\ \A i \in 1 .. Len(a) + Len(b) : c[i] = IF i <= Len(a) THEN a[i] ELSE b[i - Len(a)]
  BY ConcatProperties DEF Tokens
<1> HIDE DEF c
<1>3. \A i \in 1 .. Len(a) : c[i] = a[i]
  BY <1>1, <1>2
<1>4. ASSUME NEW i \in 1 .. Len(b) PROVE c[Len(a) + i] = b[i]
  <2>1. Len(a) + i \in 1 .. Len(a) + Len(b) /\ ~(Len(a) + i <= Len(a)) /\ (Len(a) + i) - Len(a) = i
    BY <1>1
  <2> QED
    BY <1>2, <2>1
<1> QED
  BY <1>2, <1>3, <1>4 DEF Tokens, c

LEMMA SameTokens ==
  ASSUME NEW a \in Tokens, NEW b \in Tokens, Len(a) = Len(b),
         \A i \in 1 .. Len(a) : a[i] = b[i]
  PROVE  a = b
  BY SeqEqual DEF Tokens

\* The first tokens and the others.
LEMMA CutJoin ==
  ASSUME NEW seq \in Tokens, NEW k \in Nat, k <= Len(seq)
  PROVE  seq = SubSeq(seq, 1, k) \o From(seq, k + 1)
<1> DEFINE a == SubSeq(seq, 1, k)
           b == From(seq, k + 1)
           n == Len(seq)
<1>1. a \in Tokens /\ Len(a) = k /\ \A i \in 1 .. k : a[i] = seq[i]
  BY UntilFacts
<1>2. b \in Tokens /\ Len(b) = n - k /\ \A i \in 1 .. n - k : b[i] = seq[k + i]
  BY FromFacts
<1>3. n \in Nat /\ k <= n
  BY DEF Tokens
<1> HIDE DEF a, b, n
<1>4. /\ a \o b \in Tokens /\ Len(a \o b) = Len(a) + Len(b)
      /\ \A i \in 1 .. Len(a) : (a \o b)[i] = a[i]
      /\ \A i \in 1 .. Len(b) : (a \o b)[Len(a) + i] = b[i]
  BY <1>1, <1>2, JoinFacts
<1>5. ASSUME NEW i \in 1 .. n PROVE (a \o b)[i] = seq[i]
  <2>1. CASE i <= k
    BY <1>1, <1>3, <1>4, <2>1
  <2>2. CASE i > k
    <3>1. i - k \in 1 .. n - k /\ k + (i - k) = i
      BY <1>3, <2>2
    <3>2. (a \o b)[k + (i - k)] = b[i - k] /\ b[i - k] = seq[k + (i - k)]
      BY <1>1, <1>2, <1>4, <3>1
    <3> QED
      BY <3>1, <3>2
  <2>3. i <= k \/ i > k
    BY <1>3
  <2> QED
    BY <2>1, <2>2, <2>3
<1>6. Len(a \o b) = n
  BY <1>1, <1>2, <1>3, <1>4
<1>7. seq = a \o b
  BY <1>4, <1>5, <1>6, SameTokens DEF n
<1> QED
  BY <1>7 DEF a, b

\* Tokens leave from the first of two sequences.
LEMMA FromJoin ==
  ASSUME NEW a \in Tokens, NEW b \in Tokens, NEW k \in Nat, k <= Len(a)
  PROVE  From(a \o b, k + 1) = From(a, k + 1) \o b
<1> DEFINE c == a \o b
           x == From(c, k + 1)
           f == From(a, k + 1)
           y == f \o b
           n == Len(a)
           m == Len(b)
<1>1. n \in Nat /\ m \in Nat /\ k <= n
  BY DEF Tokens
<1>2. /\ c \in Tokens /\ Len(c) = n + m
      /\ \A i \in 1 .. n : c[i] = a[i]
      /\ \A i \in 1 .. m : c[n + i] = b[i]
  BY JoinFacts
<1>3. f \in Tokens /\ Len(f) = n - k /\ \A i \in 1 .. n - k : f[i] = a[k + i]
  BY FromFacts
<1>4. /\ y \in Tokens /\ Len(y) = (n - k) + m
      /\ \A i \in 1 .. n - k : y[i] = f[i]
      /\ \A i \in 1 .. m : y[(n - k) + i] = b[i]
  <2> HIDE DEF f
  <2>1. /\ y \in Tokens /\ Len(y) = Len(f) + Len(b)
        /\ \A i \in 1 .. Len(f) : y[i] = f[i]
        /\ \A i \in 1 .. Len(b) : y[Len(f) + i] = b[i]
    BY <1>3, JoinFacts
  <2> HIDE DEF y, n
  <2> QED
    BY <1>3, <2>1
<1> HIDE DEF c, f, n, m
<1>5. x \in Tokens /\ Len(x) = (n + m) - k /\ \A i \in 1 .. (n + m) - k : x[i] = c[k + i]
  <2>1. k <= Len(c)
    BY <1>1, <1>2
  <2>2. /\ x \in Tokens /\ Len(x) = Len(c) - k
        /\ \A i \in 1 .. Len(c) - k : x[i] = c[k + i]
    BY <1>2, <2>1, FromFacts
  <2> HIDE DEF x
  <2> QED
    BY <1>2, <2>2
<1> HIDE DEF x, y
<1>6. ASSUME NEW i \in 1 .. (n + m) - k PROVE x[i] = y[i]
  <2>1. x[i] = c[k + i]
    BY <1>5
  <2>2. CASE i <= n - k
    <3>1. i \in 1 .. n - k /\ k + i \in 1 .. n
      BY <1>1, <2>2
    <3> QED
      BY <1>2, <1>3, <1>4, <2>1, <3>1
  <2>3. CASE i > n - k
    <3>1. i - (n - k) \in 1 .. m /\ (n - k) + (i - (n - k)) = i /\ n + (i - (n - k)) = k + i
      BY <1>1, <2>3
    <3>2. y[(n - k) + (i - (n - k))] = b[i - (n - k)] /\ c[n + (i - (n - k))] = b[i - (n - k)]
      BY <1>2, <1>4, <3>1
    <3> QED
      BY <2>1, <3>1, <3>2
  <2> QED
    BY <1>1, <2>2, <2>3
<1>7. Len(x) = Len(y)
  BY <1>1, <1>4, <1>5
<1>8. x = y
  BY <1>4, <1>5, <1>6, <1>7, SameTokens
<1> QED
  BY <1>8 DEF x, y, c, f

\* A part of the message, which tokens end, is in the input b and the wire w;
\* u follows the message.
Meets(b, w, rest, u, tokens, i) ==
  /\ b \in Tokens /\ w \in Tokens /\ rest \in Tokens /\ u \in Tokens
  /\ b \o w = rest \o u /\ FirstAt(rest, i, tokens)

Inside(b, w, rest, u, tokens, i) ==
  /\ StopAt(b, tokens) = i /\ i \in Nat /\ b[i] = rest[i]
  /\ SubSeq(b, 1, i - 1) = SubSeq(rest, 1, i - 1)
  /\ From(b, i + 1) \in Tokens /\ From(rest, i + 1) \in Tokens
  /\ From(b, i + 1) \o w = From(rest, i + 1) \o u

Outside(b, w, rest, u, tokens, i, r, k) ==
  /\ r \in Tokens /\ <<>> \o w = r \o u
  /\ FirstAt(r, k, tokens) /\ r[k] = rest[i] /\ (i = Len(rest) => k = Len(r))
  /\ SubSeq(b, 1, StopAt(b, tokens) - 1) = b /\ From(b, StopAt(b, tokens) + 1) = <<>>
  /\ SubSeq(rest, 1, i - 1) = b \o SubSeq(r, 1, k - 1)
  /\ SubSeq(r, 1, k - 1) \in Tokens
  /\ From(rest, i + 1) = From(r, k + 1)

\* The input holds the token that ends this part of the message.
LEMMA StopInside ==
  ASSUME NEW b, NEW w, NEW rest, NEW u, NEW tokens, NEW i, Meets(b, w, rest, u, tokens, i),
         StopAt(b, tokens) <= Len(b)
  PROVE  Inside(b, w, rest, u, tokens, i)
<1> DEFINE j == StopAt(b, tokens)
           x == b \o w
<1>0. /\ b \in Tokens /\ w \in Tokens /\ rest \in Tokens /\ u \in Tokens
      /\ b \o w = rest \o u /\ FirstAt(rest, i, tokens)
  BY DEF Meets
<1> USE <1>0
<1>1. j \in 1 .. Len(b) + 1 /\ FirstAt(b, j, tokens) /\ \A k \in 1 .. j - 1 : b[k] \notin tokens
  BY StopFacts
<1>2. \A k \in 1 .. Len(b) : x[k] = b[k]
  BY JoinFacts
<1>3. \A k \in 1 .. Len(rest) : x[k] = rest[k]
  <2>1. x = rest \o u
    OBVIOUS
  <2> HIDE DEF x
  <2> QED
    BY <2>1, JoinFacts
<1>4. /\ Len(b) \in Nat /\ Len(rest) \in Nat /\ i \in 1 .. Len(rest)
      /\ rest[i] \in tokens /\ \A k \in 1 .. i - 1 : rest[k] \notin tokens
  BY DEF FirstAt, Tokens
<1>5. j \in 1 .. Len(b) /\ b[j] \in tokens
  BY <1>1, <1>4 DEF FirstAt
<1> HIDE DEF j, x
<1>6. ~(i < j)
  BY <1>1, <1>2, <1>3, <1>4, <1>5
<1>7. ~(j < i)
  BY <1>2, <1>3, <1>4, <1>5
<1>8. j = i
  BY <1>4, <1>5, <1>6, <1>7
<1>9. i \in 1 .. Len(b) /\ b[i] = rest[i] /\ i \in Nat
  BY <1>2, <1>3, <1>4, <1>5, <1>8
<1>10. SubSeq(b, 1, i - 1) = SubSeq(rest, 1, i - 1)
  <2> DEFINE y == SubSeq(b, 1, i - 1)
             z == SubSeq(rest, 1, i - 1)
  <2>1. i - 1 \in Nat /\ i - 1 <= Len(b) /\ i - 1 <= Len(rest)
    BY <1>4, <1>9
  <2>2. y \in Tokens /\ Len(y) = i - 1 /\ \A k \in 1 .. i - 1 : y[k] = b[k]
    BY <2>1, UntilFacts
  <2>3. z \in Tokens /\ Len(z) = i - 1 /\ \A k \in 1 .. i - 1 : z[k] = rest[k]
    BY <2>1, UntilFacts
  <2> HIDE DEF y, z
  <2>4. \A k \in 1 .. i - 1 : y[k] = z[k]
    BY <1>2, <1>3, <2>1, <2>2, <2>3
  <2>5. y = z
    BY <2>2, <2>3, <2>4, SameTokens
  <2> QED
    BY <2>5 DEF y, z
<1>11. From(b, i + 1) \in Tokens /\ From(rest, i + 1) \in Tokens
  BY <1>4, <1>9, FromFacts
<1>12. From(b, i + 1) \o w = From(rest, i + 1) \o u
  <2>1. i \in Nat /\ i <= Len(b) /\ i <= Len(rest)
    BY <1>4, <1>9
  <2>2. From(b \o w, i + 1) = From(b, i + 1) \o w
    BY <2>1, FromJoin
  <2>3. From(rest \o u, i + 1) = From(rest, i + 1) \o u
    BY <2>1, FromJoin
  <2> QED
    BY <2>2, <2>3, Zenon
<1> QED
  BY <1>4, <1>8, <1>9, <1>10, <1>11, <1>12 DEF Inside, j

\* It does not: all of the input belongs to this part.
LEMMA StopOutside ==
  ASSUME NEW b, NEW w, NEW rest, NEW u, NEW tokens, NEW i, Meets(b, w, rest, u, tokens, i),
         StopAt(b, tokens) > Len(b)
  PROVE  Outside(b, w, rest, u, tokens, i, From(rest, Len(b) + 1), i - Len(b))
<1> DEFINE n == Len(b)
           x == b \o w
           r == From(rest, n + 1)
           k == i - n
           y == SubSeq(rest, 1, i - 1)
           z == SubSeq(r, 1, k - 1)
<1>0. /\ b \in Tokens /\ w \in Tokens /\ rest \in Tokens /\ u \in Tokens
      /\ b \o w = rest \o u /\ FirstAt(rest, i, tokens)
  BY DEF Meets
<1> USE <1>0
<1>1. /\ n \in Nat /\ \A h \in 1 .. n : b[h] \notin tokens
      /\ StopAt(b, tokens) - 1 = n /\ StopAt(b, tokens) + 1 = n + 2
  <2>1. /\ StopAt(b, tokens) \in 1 .. n + 1
        /\ \A h \in 1 .. StopAt(b, tokens) - 1 : b[h] \notin tokens
    BY StopFacts
  <2>2. n \in Nat
    BY DEF Tokens
  <2>3. StopAt(b, tokens) > n
    OBVIOUS
  <2> HIDE DEF n
  <2>4. StopAt(b, tokens) = n + 1
    BY <2>1, <2>2, <2>3
  <2>5. (n + 1) - 1 = n /\ (n + 1) + 1 = n + 2
    BY <2>2
  <2> QED
    BY <2>1, <2>2, <2>4, <2>5
<1>2. \A h \in 1 .. n : x[h] = b[h]
  BY JoinFacts
<1>3. \A h \in 1 .. Len(rest) : x[h] = rest[h]
  <2>1. x = rest \o u
    OBVIOUS
  <2> HIDE DEF x
  <2> QED
    BY <2>1, JoinFacts
<1>4. /\ Len(rest) \in Nat /\ i \in 1 .. Len(rest)
      /\ rest[i] \in tokens /\ \A h \in 1 .. i - 1 : rest[h] \notin tokens
  BY DEF FirstAt, Tokens
<1> HIDE DEF n, x
<1>5. i > n /\ n <= Len(rest)
  BY <1>1, <1>2, <1>3, <1>4
<1>6. r \in Tokens /\ Len(r) = Len(rest) - n /\ \A h \in 1 .. Len(rest) - n : r[h] = rest[n + h]
  BY <1>1, <1>5, FromFacts
<1>7. <<>> \o w = r \o u
  <2>1. From(b, n + 1) \o w = r \o u
    <3>1. Len(b) \in Nat /\ Len(b) <= Len(b) /\ Len(b) <= Len(rest)
      BY <1>1, <1>5 DEF n
    <3>2. From(b \o w, Len(b) + 1) = From(b, Len(b) + 1) \o w
      BY <3>1, FromJoin
    <3>3. From(rest \o u, Len(b) + 1) = From(rest, Len(b) + 1) \o u
      BY <3>1, FromJoin
    <3> QED
      BY <3>2, <3>3, Zenon DEF n, r
  <2>2. From(b, n + 1) = <<>>
    <3>1. Len(b) \in Int /\ Len(b) + 1 \in Int /\ Len(b) < Len(b) + 1
      BY <1>1 DEF n
    <3> QED
      BY <3>1, SubSeqEmpty DEF From, n
  <2> QED
    BY <2>1, <2>2
<1> HIDE DEF r
<1>8. k \in 1 .. Len(r) /\ n + k = i /\ r[k] = rest[i] /\ (i = Len(rest) => k = Len(r))
  BY <1>1, <1>4, <1>5, <1>6
<1>9. \A h \in 1 .. k - 1 : r[h] \notin tokens
  <2> SUFFICES ASSUME NEW h \in 1 .. k - 1 PROVE r[h] \notin tokens
    OBVIOUS
  <2>1. h \in 1 .. Len(rest) - n /\ n + h \in 1 .. i - 1
    BY <1>1, <1>4, <1>5
  <2> QED
    BY <1>4, <1>6, <2>1
<1>10. FirstAt(r, k, tokens)
  <2>1. DOMAIN r = 1 .. Len(r)
    BY <1>6 DEF Tokens
  <2> QED
    BY <1>4, <1>8, <1>9, <2>1 DEF FirstAt
<1>11. /\ z \in Tokens /\ Len(z) = k - 1 /\ \A h \in 1 .. k - 1 : z[h] = r[h]
  <2>1. k - 1 \in Nat /\ k - 1 <= Len(r)
    BY <1>1, <1>4, <1>5, <1>6
  <2> HIDE DEF k
  <2> QED
    BY <1>6, <2>1, UntilFacts
<1>12. /\ y \in Tokens /\ Len(y) = i - 1 /\ \A h \in 1 .. i - 1 : y[h] = rest[h]
  <2>1. i - 1 \in Nat /\ i - 1 <= Len(rest)
    BY <1>4
  <2> QED
    BY <2>1, UntilFacts
<1> HIDE DEF y, z
<1>13. y = b \o z
  <2>1. /\ b \o z \in Tokens /\ Len(b \o z) = n + Len(z)
        /\ \A h \in 1 .. n : (b \o z)[h] = b[h]
        /\ \A h \in 1 .. Len(z) : (b \o z)[n + h] = z[h]
    BY <1>11, JoinFacts DEF n
  <2>2. Len(b \o z) = i - 1
    BY <1>1, <1>8, <1>11, <2>1
  <2>3. ASSUME NEW h \in 1 .. i - 1 PROVE y[h] = (b \o z)[h]
    <3>1. CASE h <= n
      <4>1. h \in 1 .. n /\ h \in 1 .. Len(rest)
        BY <1>1, <1>4, <3>1
      <4> QED
        BY <1>2, <1>3, <1>12, <2>1, <4>1
    <3>2. CASE h > n
      <4>1. h - n \in 1 .. k - 1 /\ n + (h - n) = h /\ h - n \in 1 .. Len(rest) - n
        BY <1>1, <1>4, <1>5, <3>2
      <4>2. (b \o z)[n + (h - n)] = z[h - n] /\ z[h - n] = r[h - n] /\ r[h - n] = rest[n + (h - n)]
        BY <1>6, <1>11, <2>1, <4>1
      <4> QED
        BY <1>12, <4>1, <4>2
    <3>3. h <= n \/ h > n
      BY <1>1
    <3> QED
      BY <3>1, <3>2, <3>3
  <2> QED
    BY <1>12, <2>1, <2>2, <2>3, SameTokens
<1>14. From(rest, i + 1) = From(r, k + 1)
  <2> DEFINE p == From(rest, i + 1)
             q == From(r, k + 1)
  <2>1. p \in Tokens /\ Len(p) = Len(rest) - i /\ \A h \in 1 .. Len(rest) - i : p[h] = rest[i + h]
    BY <1>4, FromFacts
  <2>2. q \in Tokens /\ Len(q) = Len(r) - k /\ \A h \in 1 .. Len(r) - k : q[h] = r[k + h]
    <3>1. k \in Nat /\ k <= Len(r)
      BY <1>4, <1>6, <1>8
    <3> HIDE DEF k
    <3> QED
      BY <1>6, <3>1, FromFacts
  <2> HIDE DEF p, q
  <2>3. Len(r) - k = Len(rest) - i /\ Len(p) = Len(q)
    BY <1>1, <1>4, <1>6, <1>8, <2>1, <2>2
  <2>4. ASSUME NEW h \in 1 .. Len(rest) - i PROVE p[h] = q[h]
    <3>1. k + h \in 1 .. Len(rest) - n /\ n + (k + h) = i + h
      BY <1>1, <1>4, <1>5
    <3>2. q[h] = r[k + h] /\ r[k + h] = rest[n + (k + h)]
      BY <1>6, <2>2, <2>3, <3>1
    <3> QED
      BY <2>1, <3>1, <3>2
  <2>5. p = q
    BY <2>1, <2>2, <2>3, <2>4, SameTokens
  <2> QED
    BY <2>5 DEF p, q
<1>15. SubSeq(b, 1, n) = b /\ From(b, n + 2) = <<>>
  <2>1. SubSeq(b, 1, Len(b)) = b
    BY SubSeqFull DEF Tokens
  <2>2. n \in Int /\ n + 2 \in Int /\ n < n + 2
    BY <1>1
  <2>3. SubSeq(b, n + 2, n) = <<>>
    BY <2>2, SubSeqEmpty
  <2> QED
    BY <2>1, <2>3 DEF From, n
<1>16. SubSeq(b, 1, StopAt(b, tokens) - 1) = b /\ From(b, StopAt(b, tokens) + 1) = <<>>
  BY <1>1, <1>15
<1>17. Outside(b, w, rest, u, tokens, i, r, k)
  <2> HIDE DEF k
  <2> QED
    BY <1>6, <1>7, <1>8, <1>10, <1>11, <1>13, <1>14, <1>16 DEF Outside, y, z
<1> QED
  BY <1>17 DEF r, k, n

\* The units of body in the tokens of two reads.
LEMMA UnitsFacts ==
  ASSUME NEW seq \in Tokens
  PROVE  Units(seq) \in Nat /\ IsFiniteSet({i \in DOMAIN seq : seq[i] = "unit"})
<1> DEFINE P == {i \in DOMAIN seq : seq[i] = "unit"}
<1>1. P \in SUBSET (1 .. Len(seq)) /\ Len(seq) \in Int /\ 1 \in Int
  BY DEF Tokens
<1> HIDE DEF P
<1>2. IsFiniteSet(1 .. Len(seq))
  BY <1>1, FS_Interval
<1>3. IsFiniteSet(P)
  BY <1>1, <1>2, FS_Subset
<1>4. Cardinality(P) \in Nat
  BY <1>3, FS_CardinalityType
<1> QED
  BY <1>3, <1>4 DEF Units, P

LEMMA UnitsJoin ==
  ASSUME NEW a \in Tokens, NEW b \in Tokens
  PROVE  Units(a \o b) = Units(a) + Units(b)
<1> DEFINE n == Len(a)
           m == Len(b)
           c == a \o b
           P == {i \in DOMAIN a : a[i] = "unit"}
           Q == {i \in DOMAIN b : b[i] = "unit"}
           R == {i \in DOMAIN c : c[i] = "unit"}
           S == {i \in R : i > n}
           f == [i \in Q |-> n + i]
<1>1. n \in Nat /\ m \in Nat /\ DOMAIN a = 1 .. n /\ DOMAIN b = 1 .. m
  BY DEF Tokens
<1>2. /\ c \in Tokens /\ Len(c) = n + m
      /\ \A i \in 1 .. n : c[i] = a[i]
      /\ \A i \in 1 .. m : c[n + i] = b[i]
  BY JoinFacts
<1>3. IsFiniteSet(P) /\ IsFiniteSet(Q) /\ Units(a) = Cardinality(P) /\ Units(b) = Cardinality(Q)
      /\ Cardinality(P) \in Nat /\ Cardinality(Q) \in Nat
  BY UnitsFacts DEF Units
<1>4. Units(c) = Cardinality(R)
  BY DEF Units
<1> HIDE DEF n, m, c
<1>5. DOMAIN c = 1 .. n + m
  BY <1>2 DEF Tokens
<1>6. f \in Bijection(Q, S)
  <2>1. ASSUME NEW i \in Q PROVE n + i \in S
    BY <1>1, <1>2, <1>5
  <2>2. ASSUME NEW j \in S PROVE \E i \in Q : n + i = j
    <3>1. j - n \in 1 .. m /\ n + (j - n) = j
      BY <1>1, <1>5
    <3>2. b[j - n] = "unit"
      <4>1. c[n + (j - n)] = b[j - n] /\ c[j] = "unit"
        BY <1>2, <3>1
      <4> QED
        BY <3>1, <4>1
    <3>3. j - n \in Q
      BY <1>1, <3>1, <3>2
    <3> QED
      BY <3>1, <3>3
  <2>3. \A i, j \in Q : n + i = n + j => i = j
    BY <1>1
  <2> HIDE DEF Q, S
  <2> QED
    BY <2>1, <2>2, <2>3 DEF Bijection, Injection, Surjection, IsInjective
<1>7. IsFiniteSet(S) /\ Cardinality(S) = Cardinality(Q)
  <2>1. ExistsBijection(Q, S)
    BY <1>6 DEF ExistsBijection
  <2> HIDE DEF Q, S
  <2> QED
    BY <1>3, <2>1, FS_Bijection
<1>8. R = P \cup S /\ P \cap S = {}
  <2>1. \A i \in P : i \in 1 .. n /\ i \in 1 .. n + m /\ c[i] = "unit" /\ ~(i > n)
    BY <1>1, <1>2
  <2>2. \A i \in R : i \in S \/ (i \in 1 .. n /\ c[i] = "unit")
    BY <1>1, <1>5
  <2>3. \A i \in 1 .. n : c[i] = "unit" => i \in P
    BY <1>1, <1>2
  <2>4. P \subseteq R
    BY <1>5, <2>1
  <2>5. S \subseteq R /\ \A i \in S : i > n
    OBVIOUS
  <2> HIDE DEF P, R, S
  <2> QED
    BY <2>1, <2>2, <2>3, <2>4, <2>5
<1> HIDE DEF P, Q, R, S
<1>9. Cardinality(P \cup S) = Cardinality(P) + Cardinality(S) - Cardinality(P \cap S)
  BY <1>3, <1>7, FS_Union
<1>10. Cardinality(R) = Cardinality(P) + Cardinality(Q)
  <2>1. Cardinality(P \cap S) = 0
    BY <1>8, FS_EmptySet
  <2> QED
    BY <1>3, <1>7, <1>8, <1>9, <2>1
<1> QED
  BY <1>3, <1>4, <1>10 DEF c

-----------------------------------------------------------------------------
(* What is left of a message when its parts are parsed.                    *)

\* The input b and the wire w are rest of a message, which u follows.
Cut(b, w, rest, u) ==
  /\ b \in Tokens /\ w \in Tokens /\ rest \in Tokens /\ u \in Tokens
  /\ b \o w = rest \o u

\* What the parser finds there: all of the input belongs to this part, or it
\* holds the token that ends it.
TrailerParsed(b, w, u, body, n) ==
  LET j == StopAt(b, {"blank", "badheader"})
  IN  /\ j > Len(b) => \E r \in Tokens : <<>> \o w = r \o u /\ TrailerEnds(r, body, n)
      /\ j <= Len(b) /\ b[j] = "blank" => body = n /\ From(b, j + 1) \o w = u

ChunksParsed(b, w, u, body, n) ==
  LET j == StopAt(b, {"zero", "badsize"})
      m == body + Units(SubSeq(b, 1, j - 1))
  IN  /\ j > Len(b) => \E r \in Tokens : <<>> \o w = r \o u /\ ChunksEnd(r, m, n)
      /\ j <= Len(b) /\ b[j] = "zero" =>
           \E r \in Tokens : From(b, j + 1) \o w = r \o u /\ TrailerEnds(r, m, n)

HeadersParsed(b, w, u, type, hdrs, n) ==
  LET j == StopAt(b, {"blank", "badheader"})
      h == hdrs \cup ToSet(SubSeq(b, 1, j - 1))
  IN  /\ j > Len(b) => \E r \in Tokens : <<>> \o w = r \o u /\ HeadersEnd(type, h, r, n)
      /\ j <= Len(b) /\ b[j] = "blank" =>
           \E r \in Tokens : From(b, j + 1) \o w = r \o u /\ BodyEnds(type, h, r, n)

\* Its trailer.
LEMMA TrailerLeft ==
  ASSUME NEW b, NEW w, NEW rest, NEW u, Cut(b, w, rest, u),
         NEW body, NEW n, TrailerEnds(rest, body, n)
  PROVE  TrailerParsed(b, w, u, body, n)
<1> DEFINE tokens == {"blank", "badheader"}
           j == StopAt(b, tokens)
<1>1. /\ b \in Tokens /\ w \in Tokens /\ rest \in Tokens /\ u \in Tokens
      /\ b \o w = rest \o u
  BY DEF Cut
<1>2. PICK i \in DOMAIN rest : FirstAt(rest, i, tokens)
                               /\ (rest[i] = "blank" => i = Len(rest) /\ body = n)
  BY DEF TrailerEnds
<1> HIDE DEF tokens
<1>3. Meets(b, w, rest, u, tokens, i)
  BY <1>1, <1>2 DEF Meets
<1>4. ASSUME j > Len(b) PROVE \E r \in Tokens : <<>> \o w = r \o u /\ TrailerEnds(r, body, n)
  <2> DEFINE r == From(rest, Len(b) + 1)
             k == i - Len(b)
  <2>1. /\ r \in Tokens /\ <<>> \o w = r \o u
        /\ FirstAt(r, k, tokens) /\ r[k] = rest[i] /\ (i = Len(rest) => k = Len(r))
    <3>1. Outside(b, w, rest, u, tokens, i, r, k)
      BY <1>3, <1>4, StopOutside
    <3> HIDE DEF r, k
    <3> QED
      BY <3>1 DEF Outside
  <2> HIDE DEF r, k
  <2>2. TrailerEnds(r, body, n)
    BY <1>2, <2>1 DEF TrailerEnds, FirstAt, tokens
  <2> QED
    BY <2>1, <2>2
<1>5. ASSUME j <= Len(b), b[j] = "blank" PROVE body = n /\ From(b, j + 1) \o w = u
  <2>1. /\ j = i /\ i \in Nat /\ b[i] = rest[i] /\ From(b, i + 1) \o w = From(rest, i + 1) \o u
    <3>1. Inside(b, w, rest, u, tokens, i)
      BY <1>3, <1>5, StopInside
    <3> QED
      BY <3>1 DEF Inside
  <2>2. i = Len(rest) /\ body = n
    BY <1>2, <1>5, <2>1
  <2>3. From(rest, i + 1) = <<>>
    <3>1. i \in Int /\ i + 1 \in Int /\ i < i + 1
      BY <2>1
    <3>2. SubSeq(rest, i + 1, i) = <<>>
      BY <3>1, SubSeqEmpty
    <3> QED
      BY <2>2, <3>2 DEF From
  <2>4. <<>> \o u = u
    BY <1>1, ConcatEmptySeq DEF Tokens
  <2> QED
    BY <2>1, <2>2, <2>3, <2>4
<1> QED
  BY <1>4, <1>5 DEF tokens, TrailerParsed

\* Its chunks.
LEMMA ChunksLeft ==
  ASSUME NEW b, NEW w, NEW rest, NEW u, Cut(b, w, rest, u),
         NEW body \in Nat, NEW n, ChunksEnd(rest, body, n)
  PROVE  ChunksParsed(b, w, u, body, n)
<1> DEFINE tokens == {"zero", "badsize"}
           j == StopAt(b, tokens)
           m == body + Units(SubSeq(b, 1, j - 1))
<1>1. /\ b \in Tokens /\ w \in Tokens /\ rest \in Tokens /\ u \in Tokens
      /\ b \o w = rest \o u
  BY DEF Cut
<1>2. PICK i \in DOMAIN rest :
        /\ FirstAt(rest, i, tokens)
        /\ rest[i] = "zero" =>
             TrailerEnds(From(rest, i + 1), body + Units(SubSeq(rest, 1, i - 1)), n)
  BY DEF ChunksEnd
<1> HIDE DEF tokens
<1>3. Meets(b, w, rest, u, tokens, i)
  BY <1>1, <1>2 DEF Meets
<1>4. ASSUME j > Len(b) PROVE \E r \in Tokens : <<>> \o w = r \o u /\ ChunksEnd(r, m, n)
  <2> DEFINE r == From(rest, Len(b) + 1)
             k == i - Len(b)
             z == SubSeq(r, 1, k - 1)
  <2>1. /\ r \in Tokens /\ <<>> \o w = r \o u
        /\ FirstAt(r, k, tokens) /\ r[k] = rest[i]
        /\ SubSeq(rest, 1, i - 1) = b \o z /\ z \in Tokens /\ SubSeq(b, 1, j - 1) = b
        /\ From(rest, i + 1) = From(r, k + 1)
    <3>1. Outside(b, w, rest, u, tokens, i, r, k)
      BY <1>3, <1>4, StopOutside
    <3> HIDE DEF r, k
    <3> QED
      BY <3>1 DEF Outside
  <2>3. Units(b \o z) = Units(b) + Units(z) /\ Units(b) \in Nat /\ Units(z) \in Nat
    BY <1>1, <2>1, UnitsJoin, UnitsFacts
  <2>4. body + Units(b \o z) = m + Units(z)
    <3>1. m = body + Units(b)
      BY <2>1
    <3> DEFINE x == Units(b)
               y == Units(z)
    <3>2. x \in Nat /\ y \in Nat /\ Units(b \o z) = x + y /\ m = body + x
      BY <2>3, <3>1
    <3> HIDE DEF x, y, m
    <3>3. body + (x + y) = m + y
      BY <3>2
    <3> QED
      BY <3>2, <3>3 DEF y
  <2> HIDE DEF m
  <2>5. r[k] = "zero" => TrailerEnds(From(r, k + 1), m + Units(z), n)
    BY <1>2, <2>1, <2>4
  <2> HIDE DEF r, k
  <2>6. ChunksEnd(r, m, n)
    BY <2>1, <2>5 DEF ChunksEnd, FirstAt, tokens, z
  <2> QED
    BY <2>1, <2>6
<1>5. ASSUME j <= Len(b), b[j] = "zero"
      PROVE  \E r \in Tokens : From(b, j + 1) \o w = r \o u /\ TrailerEnds(r, m, n)
  <2>1. /\ j = i /\ b[i] = rest[i] /\ From(b, i + 1) \o w = From(rest, i + 1) \o u
        /\ SubSeq(b, 1, i - 1) = SubSeq(rest, 1, i - 1) /\ From(rest, i + 1) \in Tokens
    <3>1. Inside(b, w, rest, u, tokens, i)
      BY <1>3, <1>5, StopInside
    <3> QED
      BY <3>1 DEF Inside
  <2>2. TrailerEnds(From(rest, i + 1), m, n)
    BY <1>2, <1>5, <2>1
  <2> QED
    BY <2>1, <2>2
<1> QED
  BY <1>4, <1>5 DEF tokens, ChunksParsed

\* Its headers.
LEMMA HeadersLeft ==
  ASSUME NEW b, NEW w, NEW rest, NEW u, Cut(b, w, rest, u),
         NEW type, NEW hdrs, NEW n, HeadersEnd(type, hdrs, rest, n)
  PROVE  HeadersParsed(b, w, u, type, hdrs, n)
<1> DEFINE tokens == {"blank", "badheader"}
           j == StopAt(b, tokens)
           h == hdrs \cup ToSet(SubSeq(b, 1, j - 1))
<1>1. /\ b \in Tokens /\ w \in Tokens /\ rest \in Tokens /\ u \in Tokens
      /\ b \o w = rest \o u
  BY DEF Cut
<1>2. PICK i \in DOMAIN rest :
        /\ FirstAt(rest, i, tokens)
        /\ rest[i] = "blank" =>
             BodyEnds(type, hdrs \cup ToSet(SubSeq(rest, 1, i - 1)), From(rest, i + 1), n)
  BY DEF HeadersEnd
<1> HIDE DEF tokens
<1>3. Meets(b, w, rest, u, tokens, i)
  BY <1>1, <1>2 DEF Meets
<1>4. ASSUME j > Len(b) PROVE \E r \in Tokens : <<>> \o w = r \o u /\ HeadersEnd(type, h, r, n)
  <2> DEFINE r == From(rest, Len(b) + 1)
             k == i - Len(b)
             z == SubSeq(r, 1, k - 1)
  <2>1. /\ r \in Tokens /\ <<>> \o w = r \o u
        /\ FirstAt(r, k, tokens) /\ r[k] = rest[i]
        /\ SubSeq(rest, 1, i - 1) = b \o z /\ z \in Tokens /\ SubSeq(b, 1, j - 1) = b
        /\ From(rest, i + 1) = From(r, k + 1)
    <3>1. Outside(b, w, rest, u, tokens, i, r, k)
      BY <1>3, <1>4, StopOutside
    <3> HIDE DEF r, k
    <3> QED
      BY <3>1 DEF Outside
  <2> HIDE DEF z
  <2>3. ToSet(b \o z) = ToSet(b) \cup ToSet(z)
    <3>1. Range(b \o z) = Range(b) \cup Range(z)
      BY <1>1, <2>1, RangeConcatenation DEF Tokens
    <3> QED
      BY <3>1 DEF Range, ToSet
  <2>4. hdrs \cup ToSet(b \o z) = h \cup ToSet(z)
    BY <2>1, <2>3
  <2> HIDE DEF h
  <2>5. r[k] = "blank" => BodyEnds(type, h \cup ToSet(z), From(r, k + 1), n)
    BY <1>2, <2>1, <2>4
  <2> HIDE DEF r, k
  <2>6. HeadersEnd(type, h, r, n)
    BY <2>1, <2>5 DEF HeadersEnd, FirstAt, tokens, z
  <2> QED
    BY <2>1, <2>6
<1>5. ASSUME j <= Len(b), b[j] = "blank"
      PROVE  \E r \in Tokens : From(b, j + 1) \o w = r \o u /\ BodyEnds(type, h, r, n)
  <2>1. /\ j = i /\ b[i] = rest[i] /\ From(b, i + 1) \o w = From(rest, i + 1) \o u
        /\ SubSeq(b, 1, i - 1) = SubSeq(rest, 1, i - 1) /\ From(rest, i + 1) \in Tokens
    <3>1. Inside(b, w, rest, u, tokens, i)
      BY <1>3, <1>5, StopInside
    <3> QED
      BY <3>1 DEF Inside
  <2>2. BodyEnds(type, h, From(rest, i + 1), n)
    BY <1>2, <1>5, <2>1
  <2> QED
    BY <2>1, <2>2
<1> QED
  BY <1>4, <1>5 DEF tokens, HeadersParsed

\* A body whose length its header says.
LEMMA LengthLeft ==
  ASSUME NEW b, NEW w, NEW rest, NEW u, Cut(b, w, rest, u), Len(rest) <= Len(b)
  PROVE  From(b, Len(rest) + 1) \o w = u
<1>0. /\ b \in Tokens /\ w \in Tokens /\ rest \in Tokens /\ u \in Tokens
      /\ b \o w = rest \o u
  BY DEF Cut
<1>1. Len(rest) \in Nat /\ Len(rest) <= Len(rest)
  BY <1>0 DEF Tokens
<1>2. From(b \o w, Len(rest) + 1) = From(b, Len(rest) + 1) \o w
  BY <1>0, <1>1, FromJoin
<1>3. From(rest \o u, Len(rest) + 1) = From(rest, Len(rest) + 1) \o u
  BY <1>0, <1>1, FromJoin
<1>4. From(rest, Len(rest) + 1) = <<>>
  <2>1. Len(rest) \in Int /\ Len(rest) + 1 \in Int /\ Len(rest) < Len(rest) + 1
    BY <1>1
  <2> QED
    BY <2>1, SubSeqEmpty DEF From
<1>5. <<>> \o u = u
  BY <1>0, ConcatEmptySeq DEF Tokens
<1> QED
  BY <1>0, <1>2, <1>3, <1>4, <1>5, Zenon

-----------------------------------------------------------------------------
(* The messages that are not read.                                         *)

\* seq is messages of the peer, one behind the other, with the bodies v.
Stream(role, seq, v) ==
  /\ seq \in Tokens /\ v \in Seq(Nat)
  /\ \E g \in [1 .. Len(v) + 1 -> Tokens] :
       /\ g[1] = seq /\ g[Len(v) + 1] = <<>>
       /\ \A i \in 1 .. Len(v) :
            \E m \in Messages[role] : g[i] = m \o g[i + 1] /\ v[i] = Units(m)

LEMMA NoStream == ASSUME NEW role PROVE Stream(role, <<>>, <<>>)
<1> DEFINE g == [i \in 1 .. 1 |-> <<>>]
<1>1. <<>> \in Tokens /\ <<>> \in Seq(Nat) /\ Len(<<>>) = 0
  BY DEF Tokens
<1>2. g \in [1 .. Len(<<>>) + 1 -> Tokens] /\ g[1] = <<>> /\ g[Len(<<>>) + 1] = <<>>
  BY <1>1
<1>3. \A i \in 1 .. Len(<<>>) : FALSE
  BY <1>1
<1> HIDE DEF g
<1> QED
  BY <1>1, <1>2, <1>3 DEF Stream

\* The peer sends another one.
LEMMA StreamGrows ==
  ASSUME NEW role \in Roles, NEW m \in Messages[role],
         NEW seq, NEW v, Stream(role, seq, v)
  PROVE  Stream(role, seq \o m, Append(v, Units(m)))
<1> DEFINE n == Len(v)
           a == Append(v, Units(m))
<1>1. PICK g \in [1 .. n + 1 -> Tokens] :
        /\ g[1] = seq /\ g[n + 1] = <<>>
        /\ \A i \in 1 .. n : \E x \in Messages[role] : g[i] = x \o g[i + 1] /\ v[i] = Units(x)
  BY DEF Stream
<1>2. seq \in Tokens /\ v \in Seq(Nat) /\ n \in Nat
  BY DEF Stream
<1>3. m \in Tokens /\ Units(m) \in Nat
  <2>1. m \in Tokens
    BY MessagesAssumption DEF WellFramed, Tokens
  <2> QED
    BY <2>1, UnitsFacts
<1>4. /\ a \in Seq(Nat) /\ Len(a) = n + 1
      /\ \A i \in 1 .. n : a[i] = v[i]
      /\ a[n + 1] = Units(m)
  BY <1>2, <1>3, AppendProperties
<1> HIDE DEF n, a
<1> DEFINE f == [i \in 1 .. n + 2 |-> IF i <= n + 1 THEN g[i] \o m ELSE <<>>]
<1>5. \A i \in 1 .. n + 1 : g[i] \o m \in Tokens /\ f[i] = g[i] \o m
  BY <1>2, <1>3, JoinFacts
<1>6. f \in [1 .. n + 2 -> Tokens] /\ f[n + 2] = <<>>
  <2>1. <<>> \in Tokens
    BY DEF Tokens
  <2>2. ASSUME NEW i \in 1 .. n + 2 PROVE (IF i <= n + 1 THEN g[i] \o m ELSE <<>>) \in Tokens
    <3>1. CASE i <= n + 1
      <4>1. i \in 1 .. n + 1
        BY <1>2, <3>1
      <4> QED
        BY <1>5, <3>1, <4>1
    <3>2. CASE ~(i <= n + 1)
      BY <2>1, <3>2
    <3> QED
      BY <3>1, <3>2
  <2>3. f[n + 2] = <<>>
    BY <1>2
  <2> QED
    BY <2>2, <2>3
<1> HIDE DEF f
<1>7. f[1] = seq \o m
  <2>1. 1 \in 1 .. n + 1
    BY <1>2
  <2> QED
    BY <1>1, <1>5, <2>1, Zenon
<1>8. ASSUME NEW i \in 1 .. n + 1
      PROVE  \E x \in Messages[role] : f[i] = x \o f[i + 1] /\ a[i] = Units(x)
  <2>1. CASE i \in 1 .. n
    <3>1. PICK x \in Messages[role] : g[i] = x \o g[i + 1] /\ v[i] = Units(x)
      BY <1>1, <2>1
    <3>2. i + 1 \in 1 .. n + 1 /\ g[i + 1] \in Tokens
      BY <1>2, <2>1
    <3>3. x \in Tokens
      BY MessagesAssumption DEF WellFramed, Tokens
    <3>4. (x \o g[i + 1]) \o m = x \o (g[i + 1] \o m)
      <4> DEFINE y == g[i + 1]
      <4>1. x \in Seq(STRING) /\ y \in Seq(STRING) /\ m \in Seq(STRING)
        BY <1>3, <3>2, <3>3 DEF Tokens
      <4> HIDE DEF y
      <4>2. (x \o y) \o m = x \o (y \o m)
        BY <4>1, ConcatAssociative
      <4> QED
        BY <4>2 DEF y
    <3>5. f[i] = g[i] \o m /\ f[i + 1] = g[i + 1] \o m
      BY <1>5, <3>2
    <3> QED
      BY <1>4, <2>1, <3>1, <3>4, <3>5
  <2>2. CASE i = n + 1
    <3>1. i + 1 = n + 2
      BY <1>2, <2>2
    <3>2. f[i] = <<>> \o m /\ f[i + 1] = <<>> /\ a[i] = Units(m)
      BY <1>1, <1>4, <1>5, <1>6, <2>2, <3>1
    <3>3. <<>> \o m = m /\ m \o <<>> = m
      BY <1>3, ConcatEmptySeq DEF Tokens
    <3> QED
      BY <3>2, <3>3
  <2>3. i \in 1 .. n \/ i = n + 1
    BY <1>2
  <2> QED
    BY <2>1, <2>2, <2>3
<1>9. seq \o m \in Tokens
  BY <1>2, <1>3, JoinFacts
<1>10. (n + 1) + 1 = n + 2
  BY <1>2
<1>11. \E g1 \in [1 .. Len(a) + 1 -> Tokens] :
         /\ g1[1] = seq \o m /\ g1[Len(a) + 1] = <<>>
         /\ \A i \in 1 .. Len(a) :
              \E x \in Messages[role] : g1[i] = x \o g1[i + 1] /\ a[i] = Units(x)
  <2>1. Len(a) = n + 1 /\ Len(a) + 1 = n + 2
    BY <1>4, <1>10
  <2>2. /\ f[1] = seq \o m /\ f[Len(a) + 1] = <<>>
        /\ \A i \in 1 .. Len(a) :
             \E x \in Messages[role] : f[i] = x \o f[i + 1] /\ a[i] = Units(x)
    BY <1>6, <1>7, <1>8, <2>1
  <2>3. f \in [1 .. Len(a) + 1 -> Tokens]
    BY <1>6, <2>1
  <2> QED
    BY <2>2, <2>3, Zenon
<1>12. Stream(role, seq \o m, a)
  BY <1>4, <1>9, <1>11 DEF Stream
<1> QED
  BY <1>12 DEF a

\* The next one begins what is not read.
LEMMA StreamBegins ==
  ASSUME NEW role \in Roles, NEW seq, NEW v, Stream(role, seq, v), seq # <<>>
  PROVE  /\ v # <<>>
         /\ \E m \in Messages[role], u \in Tokens :
              /\ m \in Tokens /\ WellFramed(m)
              /\ seq = m \o u /\ Head(v) = Units(m) /\ Stream(role, u, Tail(v))
<1> DEFINE n == Len(v)
<1>1. PICK g \in [1 .. n + 1 -> Tokens] :
        /\ g[1] = seq /\ g[n + 1] = <<>>
        /\ \A i \in 1 .. n : \E x \in Messages[role] : g[i] = x \o g[i + 1] /\ v[i] = Units(x)
  BY DEF Stream
<1>2. v \in Seq(Nat) /\ n \in Nat
  BY DEF Stream
<1>3. n # 0 /\ v # <<>>
  BY <1>1, <1>2
<1>4. PICK m \in Messages[role] : g[1] = m \o g[1 + 1] /\ v[1] = Units(m)
  <2>1. 1 \in 1 .. n
    BY <1>2, <1>3
  <2> QED
    BY <1>1, <2>1, Zenon
<1>5. m \in Tokens /\ WellFramed(m)
  BY MessagesAssumption DEF WellFramed, Tokens
<1>6. /\ Tail(v) \in Seq(Nat) /\ Len(Tail(v)) = n - 1 /\ Head(v) = v[1]
      /\ \A i \in 1 .. n - 1 : Tail(v)[i] = v[i + 1]
  <2>1. /\ Tail(v) \in Seq(Nat) /\ Len(Tail(v)) = Len(v) - 1
        /\ \A i \in 1 .. Len(Tail(v)) : Tail(v)[i] = v[i + 1]
    BY <1>2, <1>3, HeadTailProperties
  <2>2. Head(v) = v[1]
    BY <1>2, <1>3
  <2> QED
    BY <2>1, <2>2
<1> HIDE DEF n
<1> DEFINE f == [i \in 1 .. n |-> g[i + 1]]
<1>7. f \in [1 .. n -> Tokens] /\ \A i \in 1 .. n : f[i] = g[i + 1]
  <2>1. \A i \in 1 .. n : i + 1 \in 1 .. n + 1
    BY <1>2
  <2> QED
    BY <2>1
<1> HIDE DEF f
<1>8. f[1] = g[1 + 1] /\ f[n] = <<>> /\ f[1] \in Tokens
  BY <1>1, <1>2, <1>3, <1>7
<1>9. ASSUME NEW i \in 1 .. n - 1
      PROVE  \E x \in Messages[role] : f[i] = x \o f[i + 1] /\ Tail(v)[i] = Units(x)
  <2>1. i \in 1 .. n /\ i + 1 \in 1 .. n
    BY <1>2
  <2>2. PICK x \in Messages[role] : g[i + 1] = x \o g[(i + 1) + 1] /\ v[i + 1] = Units(x)
    BY <1>1, <2>1
  <2> QED
    BY <1>6, <1>7, <2>1, <2>2
<1>10. (n - 1) + 1 = n
  BY <1>2
<1>11. \E g1 \in [1 .. Len(Tail(v)) + 1 -> Tokens] :
         /\ g1[1] = f[1] /\ g1[Len(Tail(v)) + 1] = <<>>
         /\ \A i \in 1 .. Len(Tail(v)) :
              \E x \in Messages[role] : g1[i] = x \o g1[i + 1] /\ Tail(v)[i] = Units(x)
  <2>1. Len(Tail(v)) = n - 1 /\ Len(Tail(v)) + 1 = n
    BY <1>6, <1>10
  <2> QED
    BY <1>7, <1>8, <1>9, <2>1, Zenon
<1>12. Stream(role, f[1], Tail(v))
  BY <1>6, <1>8, <1>11 DEF Stream
<1> QED
  BY <1>1, <1>3, <1>4, <1>5, <1>6, <1>8, <1>12

-----------------------------------------------------------------------------
(* What a connection knows of the message it reads.                        *)

Clean(s) == s.msg.hdrs = {} /\ s.msg.body = 0 /\ s.msg.chunked = FALSE

Typed(s) ==
  /\ s.inbuf \in Tokens /\ s.wire \in Tokens /\ s.sent \in Seq(Nat)
  /\ s.msg.body \in Nat /\ s.msg.ntoread \in Int
  /\ s.last[1] = s.last[2] /\ s.role \in Roles /\ s.eof \in BOOLEAN

\* The input and the wire begin with a message.
Aligned(s) == Stream(s.role, s.inbuf \o s.wire, s.sent)

\* They begin with rest of one, which others follow.
Fit(s, rest, u) ==
  /\ rest \in Tokens /\ u \in Tokens /\ s.inbuf \o s.wire = rest \o u
  /\ s.sent # <<>> /\ Stream(s.role, u, Tail(s.sent))

Expects(s, rest) ==
  \/ /\ s.state = "READING_HEADERS" /\ s.msg.body = 0 /\ s.msg.chunked = FALSE
     /\ HeadersEnd(s.msg.type, s.msg.hdrs, rest, Head(s.sent))
  \/ /\ s.state = "READING_BODY" /\ s.msg.chunked = TRUE
     /\ ChunksEnd(rest, s.msg.body, Head(s.sent))
  \/ /\ s.state = "READING_BODY" /\ s.msg.chunked = FALSE
     /\ Len(rest) = s.msg.ntoread /\ Head(s.sent) = s.msg.body + s.msg.ntoread
  \/ s.state = "READING_TRAILER" /\ TrailerEnds(rest, s.msg.body, Head(s.sent))

\* The state of a connection that reads is the one its message is in.  A body
\* that the end of the stream ends needs no place in it.
InMessage(s) ==
  \/ s.state = "READING_FIRSTLINE" /\ Clean(s) /\ Aligned(s)
  \/ s.state = "READING_BODY" /\ s.msg.chunked = FALSE /\ s.msg.ntoread < 0
  \/ \E rest, u \in Tokens : Fit(s, rest, u) /\ Expects(s, rest)

\* A message that is rejected is the last of its connection.
Rejected(s) == s.role = "server" /\ s.msg.userdone /\ s.msg.close = TRUE

InStep(s) ==
  \/ s.eof = TRUE
  \/ Rejected(s)
  \/ s.ev = "read" /\ InMessage(s)
  \/ s.ev # "read" /\ Aligned(s) /\ (s.role = "client" /\ s.state = "WRITING" => Clean(s))

Data(s) == Typed(s) /\ InStep(s)

\* Other fields do not matter.
SameData(t, s) ==
  /\ t.inbuf = s.inbuf /\ t.wire = s.wire /\ t.sent = s.sent /\ t.msg = s.msg
  /\ t.last = s.last /\ t.role = s.role /\ t.eof = s.eof

\* Or a read has moved some of the wire to the input.
LEMMA FlowInMessage ==
  ASSUME NEW s, InMessage(s), NEW t, t.inbuf \o t.wire = s.inbuf \o s.wire,
         t.sent = s.sent, t.msg = s.msg, t.role = s.role, t.state = s.state
  PROVE  InMessage(t)
<1>1. (Aligned(s) => Aligned(t)) /\ (Clean(s) => Clean(t))
  BY DEF Aligned, Clean
<1>2. ASSUME NEW rest \in Tokens, NEW u \in Tokens, Fit(s, rest, u), Expects(s, rest)
      PROVE  Fit(t, rest, u) /\ Expects(t, rest)
  BY <1>2 DEF Fit, Expects
<1> QED
  BY <1>1, <1>2 DEF InMessage

LEMMA SameInMessage ==
  ASSUME NEW s, InMessage(s), NEW t, SameData(t, s), t.state = s.state
  PROVE  InMessage(t)
  BY FlowInMessage DEF SameData

LEMMA SameIsData ==
  ASSUME NEW s, Data(s), NEW t, SameData(t, s), t.state = s.state, t.ev = s.ev
  PROVE  Data(t)
<1>1. Typed(t)
  BY DEF Data, Typed, SameData
<1>2. Aligned(s) => Aligned(t)
  BY DEF Aligned, SameData
<1>3. Clean(s) => Clean(t)
  BY DEF Clean, SameData
<1>4. InMessage(s) => InMessage(t)
  BY SameInMessage
<1>5. Rejected(s) => Rejected(t)
  BY DEF Rejected, SameData
<1>6. InStep(t)
  BY <1>2, <1>3, <1>4, <1>5 DEF Data, InStep, SameData
<1> QED
  BY <1>1, <1>6 DEF Data

\* Nor does which of its events is pending, if it does not read.
LEMMA SameIsIdle ==
  ASSUME NEW s, Data(s), s.ev # "read", NEW t, SameData(t, s), t.ev # "read",
         t.role = "client" /\ t.state = "WRITING" => s.state = "WRITING"
  PROVE  Data(t)
<1>1. Typed(t) /\ (Aligned(s) => Aligned(t)) /\ (Clean(s) => Clean(t))
  BY DEF Data, Typed, Aligned, Clean, SameData
<1>2. Rejected(s) => Rejected(t)
  BY DEF Rejected, SameData
<1>3. InStep(t)
  BY <1>1, <1>2 DEF Data, InStep, SameData
<1> QED
  BY <1>1, <1>3 DEF Data

LEMMA SameIsTyped ==
  ASSUME NEW s, Typed(s), NEW t, SameData(t, s)
  PROVE  Typed(t) /\ (Aligned(s) => Aligned(t))
  BY DEF Typed, Aligned, SameData

\* A connection without a socket, or with a new one: nothing has come.
Blank(s) ==
  /\ Typed(s) /\ s.inbuf = <<>> /\ s.wire = <<>> /\ s.sent = <<>>
  /\ s.ev # "read" /\ s.state # "WRITING"

LEMMA BlankData == ASSUME NEW s, Blank(s) PROVE Data(s) /\ Aligned(s)
<1>1. <<>> \o <<>> = <<>>
  BY ConcatEmptySeq DEF Blank, Typed, Tokens
<1>2. Aligned(s)
  BY <1>1, NoStream DEF Aligned, Blank
<1> QED
  BY <1>2 DEF Blank, Data, InStep

\* evhttp_connection_reset
LEMMA ResetBlank ==
  ASSUME NEW s, Shape(s), Typed(s)
  PROVE  Blank(evhttp_connection_reset(s))
<1> DEFINE t == evhttp_connection_reset(s)
<1>1. /\ t.inbuf = <<>> /\ t.wire = <<>> /\ t.sent = <<>> /\ t.ev = "none"
      /\ t.state = "DISCONNECTED" /\ t.msg = s.msg /\ t.last = s.last /\ t.role = s.role
      /\ t.eof = FALSE
  BY DEF Shape, evhttp_connection_reset, Closed
<1> HIDE DEF t
<1>2. <<>> \in Tokens /\ <<>> \in Seq(Nat)
  BY DEF Tokens
<1>3. Blank(t)
  BY <1>1, <1>2 DEF Blank, Typed
<1> QED
  BY <1>3 DEF t

\* evhttp_connection_connect
LEMMA ConnectBlank ==
  ASSUME NEW s, Shape(s), Typed(s), s.state # "CONNECTING"
  PROVE  Blank(evhttp_connection_connect(s))
<1> DEFINE r == evhttp_connection_reset(s)
           t == evhttp_connection_connect(s)
<1>1. Shape(r) /\ Blank(r)
  BY ResetFacts, ResetBlank
<1>2. \/ t = [r EXCEPT !.refused = TRUE]
      \/ t = [r EXCEPT !.fd = TRUE, !.ev = "connect", !.state = "CONNECTING", !.refused = FALSE]
  BY DEF evhttp_connection_connect
<1> HIDE DEF r, t
<1>3. /\ SameData(t, r)
      /\ (t.ev = r.ev /\ t.state = r.state) \/ (t.ev = "connect" /\ t.state = "CONNECTING")
  BY <1>1, <1>2 DEF Shape, SameData
<1>4. Typed(t)
  BY <1>1, <1>3, SameIsTyped DEF Blank
<1>5. Blank(t)
  BY <1>1, <1>3, <1>4 DEF Blank, SameData
<1> QED
  BY <1>5 DEF t

\* evhttp_connection_free
LEMMA FreeBlank ==
  ASSUME NEW s, Shape(s), Typed(s)
  PROVE  Blank(evhttp_connection_free(s))
<1> DEFINE mine == ToSet(s.queue)
           r == evhttp_connection_reset(s)
           w == [x \in Requests |-> IF x \in mine THEN "none" ELSE r.where[x]]
           d == r.started \ mine
           t == [r EXCEPT !.alive = FALSE, !.closeEv = FALSE, !.queue = <<>>, !.cb = "null",
                          !.where = w, !.started = d, !.msg = NoMessage]
           z == evhttp_connection_free(s)
<1>1. Shape(r) /\ Blank(r)
  BY ResetFacts, ResetBlank
<1>2. z = t \/ z = Die(t, "dangling")
  BY DEF evhttp_connection_free
<1> HIDE DEF r, w, d, z, mine
<1>3. /\ t.inbuf = r.inbuf /\ t.wire = r.wire /\ t.sent = r.sent /\ t.last = r.last
      /\ t.role = r.role /\ t.eof = r.eof /\ t.ev = r.ev /\ t.state = r.state
      /\ t.msg = NoMessage /\ DOMAIN t = DOMAIN r
  BY <1>1 DEF Shape
<1> HIDE DEF t
<1>4. /\ z.inbuf = r.inbuf /\ z.wire = r.wire /\ z.sent = r.sent /\ z.last = r.last
      /\ z.role = r.role /\ z.eof = r.eof /\ z.ev = r.ev /\ z.state = r.state
      /\ z.msg = NoMessage
  <2>1. CASE z = t
    BY <1>3, <2>1
  <2>2. CASE z = Die(t, "dangling")
    BY <1>1, <1>3, <2>2 DEF Die, Shape
  <2> QED
    BY <1>2, <2>1, <2>2
<1>5. z.msg.body = 0 /\ z.msg.ntoread = 0
  BY <1>4 DEF NoMessage
<1>6. Blank(z)
  BY <1>1, <1>4, <1>5 DEF Blank, Typed
<1> QED
  BY <1>6 DEF z

\* evhttp_connection_drop
LEMMA DropBlank ==
  ASSUME NEW s, Shape(s), Typed(s)
  PROVE  Blank(evhttp_connection_drop(s))
<1> DEFINE v == IF s.where[Head(s.queue)] = "held" THEN "detached" ELSE "none"
           t == [s EXCEPT !.queue = Tail(@), !.where[Head(s.queue)] = v]
<1>1. Shape(t) /\ SameData(t, s)
  BY DEF Shape, SameData
<1>2. evhttp_connection_drop(s) \in {evhttp_connection_free(s), evhttp_connection_free(t)}
  BY DEF evhttp_connection_drop
<1> HIDE DEF t
<1>3. Typed(t)
  BY <1>1, SameIsTyped
<1> QED
  BY <1>1, <1>2, <1>3, FreeBlank

\* evhttp_request_dispatch
LEMMA DispatchData ==
  ASSUME NEW s, Shape(s), Typed(s), s.queue # <<>>, s.state = "IDLE",
         s.eof = TRUE \/ Aligned(s)
  PROVE  Data(evhttp_request_dispatch(s))
<1> DEFINE n == s.out + 1
           t == evhttp_request_dispatch(s)
<1>1. t = [s EXCEPT !.closeEv = FALSE, !.state = "WRITING", !.msg = NoMessage,
                    !.out = n, !.may = 1, !.cb = "connectioncb", !.ev = "write"]
  BY DEF evhttp_request_dispatch, evhttp_write_buffer
<1> HIDE DEF t, n
<1>2. /\ t.inbuf = s.inbuf /\ t.wire = s.wire /\ t.sent = s.sent /\ t.last = s.last
      /\ t.role = s.role /\ t.eof = s.eof /\ t.msg = NoMessage /\ t.ev = "write"
  BY <1>1 DEF Shape
<1>3. Clean(t) /\ t.msg.body = 0 /\ t.msg.ntoread = 0
  BY <1>2 DEF Clean, NoMessage
<1>4. Typed(t) /\ (Aligned(s) => Aligned(t))
  BY <1>2, <1>3 DEF Typed, Aligned
<1>5. Data(t)
  BY <1>2, <1>3, <1>4 DEF Data, InStep
<1> QED
  BY <1>5 DEF t

\* evhttp_associate_new_request_with_connection
LEMMA AssociateData ==
  ASSUME NEW s, Shape(s), Typed(s), s.eof = TRUE \/ Aligned(s)
  PROVE  Data(evhttp_associate_new_request_with_connection(s))
<1> DEFINE t == evhttp_associate_new_request_with_connection(s)
<1>1. /\ t.inbuf = s.inbuf /\ t.wire = s.wire /\ t.sent = s.sent /\ t.last = s.last
      /\ t.role = s.role /\ t.eof = s.eof /\ t.msg = NoMessage /\ t.ev = "read"
      /\ t.state = "READING_FIRSTLINE"
  BY DEF Shape, evhttp_associate_new_request_with_connection, evhttp_start_read
<1> HIDE DEF t
<1>2. Clean(t) /\ t.msg.body = 0 /\ t.msg.ntoread = 0
  BY <1>1 DEF Clean, NoMessage
<1>3. Typed(t) /\ (Aligned(s) => Aligned(t))
  BY <1>1, <1>2 DEF Typed, Aligned
<1>4. Data(t)
  BY <1>1, <1>2, <1>3 DEF Data, InStep, InMessage
<1> QED
  BY <1>4 DEF t

\* evhttp_send for the request of the connection.
LEMMA SendData ==
  ASSUME NEW s, Server(s), Len(s.queue) = 1, Typed(s), NEW close,
         s.eof = TRUE \/ close = TRUE \/ Aligned(s)
  PROVE  Data(evhttp_send(s, Head(s.queue), close))
<1> DEFINE r == Head(s.queue)
           n == s.out + 1
           t == evhttp_send(s, r, close)
<1>1. Shape(s) /\ Owns(s.queue, s.where) /\ s.role = "server"
  BY DEF Server, Base
<1>2. s.queue # <<>>
  BY <1>1, OnlyOne
<1>3. s.where[r] # "detached"
  BY <1>1, <1>2, HeadOwned
<1>4. t = [s EXCEPT !.where[r] = "queued", !.msg.userdone = TRUE, !.msg.close = close,
                    !.out = n, !.cb = "send_done", !.ev = "write"]
  BY <1>2, <1>3 DEF evhttp_send, evhttp_write_buffer
<1> HIDE DEF t, r, n
<1>5. /\ t.inbuf = s.inbuf /\ t.wire = s.wire /\ t.sent = s.sent /\ t.last = s.last
      /\ t.role = s.role /\ t.eof = s.eof /\ t.ev = "write"
      /\ t.msg = [[s.msg EXCEPT !.userdone = TRUE] EXCEPT !.close = close]
  BY <1>1, <1>4 DEF Shape
<1>6. /\ t.msg.userdone = TRUE /\ t.msg.close = close
      /\ t.msg.body = s.msg.body /\ t.msg.ntoread = s.msg.ntoread
  BY <1>1, <1>5 DEF Shape
<1>7. Typed(t) /\ (Aligned(s) => Aligned(t))
  BY <1>5, <1>6 DEF Typed, Aligned
<1>8. Rejected(t) \/ s.eof = TRUE \/ Aligned(s)
  BY <1>1, <1>5, <1>6 DEF Rejected
<1>9. Data(t)
  BY <1>1, <1>5, <1>7, <1>8 DEF Data, InStep
<1> QED
  BY <1>9 DEF t, r

\* evhttp_handle_request for a message that is whole, or rejected.
LEMMA HandleData ==
  ASSUME NEW s, ServerBusy(s), Typed(s), s.eof = TRUE \/ s.msg.type = "none" \/ Aligned(s)
  PROVE  Data(evhttp_handle_request(s))
<1> DEFINE r == Head(s.queue)
           t == [s EXCEPT !.where[r] = "held"]
<1>1. Shape(s) /\ Server(s) /\ Len(s.queue) = 1 /\ s.ev = "none" /\ s.role = "server"
  BY DEF ServerBusy, Server, Base
<1>2. \/ evhttp_handle_request(s) = t /\ s.msg.type # "none"
      \/ evhttp_handle_request(s) \in {evhttp_connection_drop(s), evhttp_send(s, r, TRUE)}
  BY DEF evhttp_handle_request
<1>3. Data(evhttp_connection_drop(s))
  BY <1>1, DropBlank, BlankData
<1>4. Data(evhttp_send(s, r, TRUE))
  BY <1>1, SendData
<1>5. ASSUME s.msg.type # "none" PROVE Data(t)
  <2>1. SameData(t, s) /\ t.ev = "none" /\ t.role = "server" /\ t.eof = s.eof
    BY <1>1 DEF Shape, SameData
  <2> HIDE DEF t
  <2>2. Typed(t) /\ (Aligned(s) => Aligned(t))
    BY <2>1, SameIsTyped
  <2> QED
    BY <1>5, <2>1, <2>2 DEF Data, InStep
<1> QED
  BY <1>2, <1>3, <1>4, <1>5

\* evhttp_send_done
LEMMA SendDoneData ==
  ASSUME NEW s, Shape(s), Typed(s), s.eof = TRUE \/ Rejected(s) \/ Aligned(s)
  PROVE  Data(evhttp_send_done(s))
<1> DEFINE r == Head(s.queue)
           d == s.started \ {r}
           t == [s EXCEPT !.queue = Tail(@), !.closeEv = FALSE, !.where[r] = "none",
                          !.started = d]
<1>1. Shape(t) /\ SameData(t, s)
  BY DEF Shape, SameData
<1>2. \/ evhttp_send_done(s) = evhttp_connection_free(t)
      \/ evhttp_send_done(s) = evhttp_associate_new_request_with_connection(t) /\ ~s.msg.close
  BY DEF evhttp_send_done
<1> HIDE DEF t
<1>3. Typed(t) /\ (Aligned(s) => Aligned(t)) /\ t.eof = s.eof
  BY <1>1, SameIsTyped DEF SameData
<1>4. Data(evhttp_connection_free(t))
  BY <1>1, <1>3, FreeBlank, BlankData
<1>5. ASSUME ~s.msg.close PROVE Data(evhttp_associate_new_request_with_connection(t))
  <2>1. ~Rejected(s)
    BY <1>5 DEF Rejected
  <2> QED
    BY <1>1, <1>3, <2>1, AssociateData
<1> QED
  BY <1>2, <1>4, <1>5

-----------------------------------------------------------------------------
(* Reading follows the message.                                            *)

\* What a loop over the tokens leaves.
LEMMA StopRest ==
  ASSUME NEW seq \in Tokens, NEW tokens
  PROVE  LET j == StopAt(seq, tokens)
         IN  /\ From(seq, j + 1) \in Tokens /\ SubSeq(seq, 1, j - 1) \in Tokens
             /\ j > Len(seq) => From(seq, j + 1) = <<>>
<1> DEFINE j == StopAt(seq, tokens)
           n == Len(seq)
<1>1. n \in Nat /\ j \in 1 .. n + 1
  BY StopFacts DEF Tokens
<1> HIDE DEF j, n
<1>2. SubSeq(seq, 1, j - 1) \in Tokens
  <2>1. j - 1 \in Nat /\ j - 1 <= n
    BY <1>1
  <2> QED
    BY <2>1, UntilFacts DEF n
<1>3. j <= n => From(seq, j + 1) \in Tokens
  BY <1>1, FromFacts DEF n
<1>4. ASSUME j > n PROVE From(seq, j + 1) = <<>>
  <2>1. j + 1 \in Int /\ n \in Int /\ n < j + 1
    BY <1>1, <1>4
  <2> QED
    BY <2>1, SubSeqEmpty DEF From, n
<1>5. <<>> \in Tokens
  BY DEF Tokens
<1>6. j <= n \/ j > n
  BY <1>1
<1> QED
  BY <1>2, <1>3, <1>4, <1>5, <1>6 DEF j, n

\* evhttp_connection_fail
LEMMA FailData ==
  ASSUME NEW s, Busy(s), Typed(s), NEW why
  PROVE  Data(evhttp_connection_fail(s, why))
<1>1. Shape(s) /\ s.ev = "none" /\ s.queue # <<>>
  BY BusyShape
<1>2. CASE ClientBusy(s)
  <2> DEFINE p == [s EXCEPT !.queue = Tail(@), !.where[Head(s.queue)] = "none"]
             t == evhttp_connection_reset(p)
  <2>1. s.role = "client"
    BY <1>2 DEF ClientBusy, Client
  <2>2. evhttp_connection_fail(s, why) =
          IF t.queue = <<>> THEN t ELSE evhttp_connection_connect(t)
    BY <1>1, <2>1 DEF evhttp_connection_fail
  <2>3. Shape(p) /\ SameData(p, s)
    BY <1>1 DEF Shape, SameData
  <2> HIDE DEF p
  <2>4. Shape(t) /\ t.state = "DISCONNECTED" /\ Blank(t)
    BY <2>3, SameIsTyped, ResetFacts, ResetBlank
  <2> HIDE DEF t
  <2>5. Blank(evhttp_connection_connect(t))
    BY <2>4, ConnectBlank DEF Blank
  <2> QED
    BY <2>2, <2>4, <2>5, BlankData
<1>3. CASE ServerBusy(s)
  <2> DEFINE t == [s EXCEPT !.msg.type = "none"]
  <2>1. s.role = "server"
    BY <1>3 DEF ServerBusy, Server
  <2>2. evhttp_connection_fail(s, why) =
          IF why = "network" THEN evhttp_connection_drop(s) ELSE evhttp_handle_request(t)
    BY <1>1, <2>1 DEF evhttp_connection_fail
  <2>3. Data(evhttp_connection_drop(s))
    BY <1>1, DropBlank, BlankData
  <2>4. Data(evhttp_handle_request(t))
    <3>1. /\ Like(t, s) /\ t.ev = "none" /\ t.role = "server" /\ t.msg.type = "none"
          /\ t.inbuf = s.inbuf /\ t.wire = s.wire /\ t.sent = s.sent /\ t.last = s.last
          /\ t.msg.body = s.msg.body /\ t.msg.ntoread = s.msg.ntoread /\ t.eof = s.eof
      BY <1>1, <2>1 DEF Like, Shape
    <3> HIDE DEF t
    <3>2. ServerBusy(t)
      BY <1>3, <3>1, LikeBusy DEF Busy, ClientBusy, Client
    <3>3. Typed(t)
      BY <2>1, <3>1 DEF Typed
    <3> QED
      BY <3>1, <3>2, <3>3, HandleData
  <2> QED
    BY <2>2, <2>3, <2>4
<1> QED
  BY <1>2, <1>3 DEF Busy

\* A message is over: the input and the wire go on behind it.
Over(s) ==
  \/ s.eof = TRUE
  \/ /\ s.sent # <<>> /\ s.msg.body = Head(s.sent)
     /\ Stream(s.role, s.inbuf \o s.wire, Tail(s.sent))

LEMMA HandOverData ==
  ASSUME NEW s, Shape(s), Typed(s), Over(s)
  PROVE  LET t == HandOver(s)
         IN  /\ Shape(t) /\ Typed(t) /\ (t.eof = TRUE \/ Aligned(t))
             /\ t.queue = s.queue /\ t.where = s.where /\ t.ev = s.ev /\ t.role = s.role
             /\ t.started = s.started
<1> DEFINE l == IF s.eof \/ s.sent = <<>> THEN <<0, 0>> ELSE <<s.msg.body, Head(s.sent)>>
           v == IF s.sent = <<>> THEN s.sent ELSE Tail(s.sent)
           t == HandOver(s)
<1>1. t = [s EXCEPT !.last = l, !.sent = v]
  BY DEF HandOver
<1>2. l[1] = l[2]
  <2>1. CASE s.eof \/ s.sent = <<>>
    BY <2>1
  <2>2. CASE ~(s.eof \/ s.sent = <<>>)
    <3>1. s.msg.body = Head(s.sent)
      BY <2>2 DEF Over, Typed
    <3>2. l = <<s.msg.body, Head(s.sent)>>
      BY <2>2
    <3> QED
      BY <3>1, <3>2
  <2> QED
    BY <2>1, <2>2
<1>3. v \in Seq(Nat)
  BY DEF Typed
<1>4. s.eof = TRUE \/ Stream(s.role, s.inbuf \o s.wire, v)
  BY DEF Over
<1> HIDE DEF l, v, t
<1>5. /\ Shape(t) /\ t.last = l /\ t.sent = v /\ t.inbuf = s.inbuf /\ t.wire = s.wire
      /\ t.msg = s.msg /\ t.role = s.role /\ t.eof = s.eof
      /\ t.queue = s.queue /\ t.where = s.where /\ t.ev = s.ev /\ t.started = s.started
  BY <1>1 DEF Shape
<1>6. Typed(t) /\ (t.eof = TRUE \/ Aligned(t))
  BY <1>2, <1>3, <1>4, <1>5 DEF Typed, Aligned
<1> QED
  BY <1>5, <1>6 DEF t

\* evhttp_connection_done
LEMMA DoneData ==
  ASSUME NEW s, Busy(s), Typed(s), Over(s)
  PROVE  Data(evhttp_connection_done(s))
<1> DEFINE h == HandOver(s)
<1>1. Shape(s) /\ s.ev = "none" /\ s.queue # <<>>
  BY BusyShape
<1>2. /\ Shape(h) /\ Typed(h) /\ (h.eof = TRUE \/ Aligned(h))
      /\ h.queue = s.queue /\ h.where = s.where /\ h.ev = "none" /\ h.role = s.role
      /\ h.started = s.started
  BY <1>1, HandOverData
<1>3. CASE ServerBusy(s)
  <2> DEFINE t == [h EXCEPT !.state = IF @ = "DISCONNECTED" THEN @ ELSE "WRITING"]
  <2>1. s.role = "server"
    BY <1>3 DEF ServerBusy, Server
  <2>2. evhttp_connection_done(s) = evhttp_handle_request(t)
    BY <2>1 DEF evhttp_connection_done
  <2>3. Like(t, s) /\ t.ev = "none" /\ t.role = "server"
    BY <1>1, <2>1 DEF Like, Shape, HandOver
  <2>4. SameData(t, h)
    BY <1>2 DEF Shape, SameData
  <2> HIDE DEF t, h
  <2>5. ServerBusy(t)
    BY <1>3, <2>3, LikeBusy DEF Busy, ClientBusy, Client
  <2>6. Typed(t) /\ (t.eof = TRUE \/ Aligned(t))
    BY <1>2, <2>4, SameIsTyped DEF SameData
  <2> QED
    BY <2>2, <2>5, <2>6, HandleData
<1>4. CASE ClientBusy(s)
  <2> DEFINE needClose == "close" \in s.msg.hdrs \/ Head(s.queue) \in Closers
             idle == [h EXCEPT !.queue = Tail(@), !.where[Head(s.queue)] = "none",
                               !.state = "IDLE"]
             t == IF needClose THEN evhttp_connection_reset(idle) ELSE idle
             z == [t EXCEPT !.closeEv = @ \/ ~needClose]
  <2>1. s.role = "client"
    BY <1>4 DEF ClientBusy, Client
  <2>2. evhttp_connection_done(s) =
          IF t.queue # <<>>
          THEN IF evhttp_connected(t) THEN evhttp_request_dispatch(t)
               ELSE evhttp_connection_connect(t)
          ELSE z
    BY <2>1 DEF evhttp_connection_done
  <2> HIDE DEF h
  <2>3. Shape(idle) /\ SameData(idle, h) /\ idle.state = "IDLE" /\ idle.ev = "none"
    BY <1>2 DEF Shape, SameData
  <2> HIDE DEF idle
  <2>4. Typed(idle) /\ (idle.eof = TRUE \/ Aligned(idle))
    BY <1>2, <2>3, SameIsTyped DEF SameData
  <2>5. /\ Shape(t) /\ Typed(t) /\ (t.eof = TRUE \/ Aligned(t)) /\ t.ev = "none"
        /\ \/ t.state = "IDLE"
           \/ t.state = "DISCONNECTED" /\ Blank(t)
    <3>1. CASE needClose
      <4>1. t = evhttp_connection_reset(idle)
        BY <3>1
      <4> HIDE DEF t, needClose
      <4>2. Shape(t) /\ t.state = "DISCONNECTED" /\ t.ev = "none" /\ Blank(t)
        BY <2>3, <2>4, <4>1, ResetFacts, ResetBlank
      <4> QED
        BY <4>2, BlankData DEF Blank
    <3>2. CASE ~needClose
      <4>1. t = idle
        BY <3>2
      <4> HIDE DEF t, needClose
      <4> QED
        BY <2>3, <2>4, <4>1
    <3> QED
      BY <3>1, <3>2
  <2>6. SameData(z, t) /\ z.ev = "none" /\ z.state = t.state
    <3> DEFINE c == t.closeEv \/ ~needClose
    <3>1. z = [t EXCEPT !.closeEv = c]
      OBVIOUS
    <3> HIDE DEF t, z, c, needClose
    <3> QED
      BY <2>5, <3>1 DEF Shape, SameData
  <2> HIDE DEF t, z, needClose
  <2>7. Data(z)
    <3>1. Typed(z) /\ (z.eof = TRUE \/ Aligned(z)) /\ z.state # "WRITING"
      BY <2>5, <2>6, SameIsTyped DEF SameData
    <3> QED
      BY <2>6, <3>1 DEF Data, InStep
  <2>8. ASSUME t.queue # <<>>, evhttp_connected(t) PROVE Data(evhttp_request_dispatch(t))
    BY <2>5, <2>8, DispatchData DEF evhttp_connected
  <2>9. ASSUME ~evhttp_connected(t) PROVE Data(evhttp_connection_connect(t))
    <3>1. t.state = "DISCONNECTED"
      BY <2>5, <2>9 DEF evhttp_connected
    <3> QED
      BY <2>5, <3>1, ConnectBlank, BlankData
  <2> QED
    BY <2>2, <2>7, <2>8, <2>9
<1> QED
  BY <1>3, <1>4 DEF Busy

\* The event for reading is added again.
LEMMA WaitData ==
  ASSUME NEW s, Shape(s), Typed(s), s.eof = TRUE \/ InMessage(s)
  PROVE  Data(WaitRead(s))
<1> DEFINE t == WaitRead(s)
<1>1. SameData(t, s) /\ t.state = s.state /\ t.ev = "read"
  BY DEF Shape, SameData, WaitRead
<1> HIDE DEF t
<1>2. Typed(t) /\ (t.eof = TRUE \/ InMessage(t))
  BY <1>1, SameIsTyped, SameInMessage DEF SameData
<1>3. Data(t)
  BY <1>1, <1>2 DEF Data, InStep
<1> QED
  BY <1>3 DEF t

\* evhttp_parse_headers takes lines from the input.
LEMMA ParseHeadersFacts ==
  ASSUME NEW s, Busy(s), Typed(s)
  PROVE  LET p == evhttp_parse_headers(s)
             t == p[1]
             j == StopAt(s.inbuf, {"blank", "badheader"})
         IN  /\ Busy(t) /\ Shape(t) /\ Typed(t) /\ t.state = s.state
             /\ t.inbuf = From(s.inbuf, j + 1) /\ t.wire = s.wire /\ t.sent = s.sent
             /\ t.role = s.role /\ t.eof = s.eof
             /\ t.msg.type = s.msg.type /\ t.msg.body = s.msg.body
             /\ t.msg.chunked = s.msg.chunked
             /\ t.msg.hdrs = s.msg.hdrs \cup ToSet(SubSeq(s.inbuf, 1, j - 1))
             /\ j > Len(s.inbuf) => t.inbuf = <<>> /\ p[2] = "MORE_DATA_EXPECTED"
             /\ ~(j > Len(s.inbuf)) => j <= Len(s.inbuf)
                                       /\ p[2] = IF s.inbuf[j] = "blank" THEN "ALL_DATA_READ"
                                                 ELSE "DATA_CORRUPTED"
<1> DEFINE j == StopAt(s.inbuf, {"blank", "badheader"})
           h == s.msg.hdrs \cup ToSet(SubSeq(s.inbuf, 1, j - 1))
           b == From(s.inbuf, j + 1)
           t == evhttp_parse_headers(s)[1]
<1>1. Shape(s)
  BY BusyShape
<1>2. t = [s EXCEPT !.msg.hdrs = h, !.inbuf = b]
  BY DEF evhttp_parse_headers
<1>3. evhttp_parse_headers(s)[2] =
        IF j > Len(s.inbuf) THEN "MORE_DATA_EXPECTED"
        ELSE IF s.inbuf[j] = "blank" THEN "ALL_DATA_READ" ELSE "DATA_CORRUPTED"
  BY DEF evhttp_parse_headers
<1>4. b \in Tokens /\ (j > Len(s.inbuf) => b = <<>>)
  BY StopRest DEF Typed
<1>5. ~(j > Len(s.inbuf)) => j <= Len(s.inbuf)
  <2>1. j \in Nat /\ Len(s.inbuf) \in Nat
    BY StopFacts DEF Typed, Tokens
  <2> QED
    BY <2>1
<1>6. Busy(t) /\ t.state = s.state
  BY ParseHeadersLike
<1> HIDE DEF t, h, b
<1>7. /\ t.inbuf = b /\ t.wire = s.wire /\ t.sent = s.sent /\ t.last = s.last
      /\ t.role = s.role /\ t.eof = s.eof /\ t.msg = [s.msg EXCEPT !.hdrs = h]
  BY <1>1, <1>2 DEF Shape
<1>8. /\ t.msg.type = s.msg.type /\ t.msg.body = s.msg.body /\ t.msg.ntoread = s.msg.ntoread
      /\ t.msg.chunked = s.msg.chunked /\ t.msg.hdrs = h
  BY <1>1, <1>7 DEF Shape
<1>9. Typed(t)
  BY <1>4, <1>7, <1>8 DEF Typed
<1>10. Shape(t)
  BY <1>6, BusyShape
<1> HIDE DEF j
<1> QED
  BY <1>3, <1>4, <1>5, <1>6, <1>7, <1>8, <1>9, <1>10 DEF t, h, b, j

\* evhttp_handle_chunked_read takes chunks.
LEMMA ChunkedFacts ==
  ASSUME NEW s, Busy(s), Typed(s)
  PROVE  LET p == evhttp_handle_chunked_read(s)
             t == p[1]
             j == StopAt(s.inbuf, {"zero", "badsize"})
         IN  /\ Busy(t) /\ Shape(t) /\ Typed(t) /\ t.state = s.state
             /\ t.inbuf = From(s.inbuf, j + 1) /\ t.wire = s.wire /\ t.sent = s.sent
             /\ t.role = s.role /\ t.eof = s.eof
             /\ t.msg.chunked = s.msg.chunked
             /\ t.msg.body = s.msg.body + Units(SubSeq(s.inbuf, 1, j - 1))
             /\ j > Len(s.inbuf) => t.inbuf = <<>> /\ p[2] = "MORE_DATA_EXPECTED"
             /\ ~(j > Len(s.inbuf)) => j <= Len(s.inbuf)
                                       /\ p[2] = IF s.inbuf[j] = "zero" THEN "ALL_DATA_READ"
                                                 ELSE "DATA_CORRUPTED"
<1> DEFINE j == StopAt(s.inbuf, {"zero", "badsize"})
           data == SubSeq(s.inbuf, 1, j - 1)
           n == s.msg.body + Units(data)
           b == From(s.inbuf, j + 1)
           m == CASE data = <<>> -> s.msg.ntoread
                  [] data # <<>> /\ Last(data) = "size" -> 1
                  [] OTHER -> -1
           t == evhttp_handle_chunked_read(s)[1]
<1>1. Shape(s)
  BY BusyShape
<1>2. t = [s EXCEPT !.msg.body = n, !.inbuf = b, !.msg.ntoread = m]
  BY DEF evhttp_handle_chunked_read
<1>3. evhttp_handle_chunked_read(s)[2] =
        IF j > Len(s.inbuf) THEN "MORE_DATA_EXPECTED"
        ELSE IF s.inbuf[j] = "zero" THEN "ALL_DATA_READ" ELSE "DATA_CORRUPTED"
  BY DEF evhttp_handle_chunked_read
<1>4. b \in Tokens /\ data \in Tokens /\ (j > Len(s.inbuf) => b = <<>>)
  BY StopRest DEF Typed
<1>5. ~(j > Len(s.inbuf)) => j <= Len(s.inbuf)
  <2>1. j \in Nat /\ Len(s.inbuf) \in Nat
    BY StopFacts DEF Typed, Tokens
  <2> QED
    BY <2>1
<1>6. Busy(t) /\ t.state = s.state
  BY ChunkedLike
<1>7. n \in Nat /\ m \in Int
  <2>1. Units(data) \in Nat
    BY <1>4, UnitsFacts
  <2> HIDE DEF data
  <2> QED
    BY <2>1 DEF Typed
<1> HIDE DEF t, n, b, m
<1>8. /\ t.inbuf = b /\ t.wire = s.wire /\ t.sent = s.sent /\ t.last = s.last
      /\ t.role = s.role /\ t.eof = s.eof
      /\ t.msg = [[s.msg EXCEPT !.body = n] EXCEPT !.ntoread = m]
  BY <1>1, <1>2 DEF Shape
<1>9. t.msg.body = n /\ t.msg.ntoread = m /\ t.msg.chunked = s.msg.chunked
  BY <1>1, <1>8 DEF Shape
<1>10. Typed(t)
  BY <1>4, <1>7, <1>8, <1>9 DEF Typed
<1>11. Shape(t)
  BY <1>6, BusyShape
<1> HIDE DEF j
<1> QED
  BY <1>3, <1>4, <1>5, <1>6, <1>8, <1>9, <1>10, <1>11 DEF t, n, b, data, j

LEMMA ReadTrailerData ==
  ASSUME NEW s, Busy(s), Typed(s), s.state = "READING_TRAILER", s.eof = TRUE \/ InMessage(s)
  PROVE  Data(evhttp_read_trailer(s))
<1> DEFINE p == evhttp_parse_headers(s)
           t == p[1]
           j == StopAt(s.inbuf, {"blank", "badheader"})
           u == [t EXCEPT !.ev = "none"]
<1>1. /\ Busy(t) /\ Shape(t) /\ Typed(t) /\ t.state = s.state
      /\ t.inbuf = From(s.inbuf, j + 1) /\ t.wire = s.wire /\ t.sent = s.sent
      /\ t.role = s.role /\ t.eof = s.eof /\ t.msg.body = s.msg.body
      /\ j > Len(s.inbuf) => t.inbuf = <<>> /\ p[2] = "MORE_DATA_EXPECTED"
      /\ ~(j > Len(s.inbuf)) => j <= Len(s.inbuf)
                                /\ p[2] = IF s.inbuf[j] = "blank" THEN "ALL_DATA_READ"
                                          ELSE "DATA_CORRUPTED"
  BY ParseHeadersFacts
<1>2. evhttp_read_trailer(s) =
        CASE p[2] = "DATA_CORRUPTED" -> evhttp_connection_fail(t, "header")
          [] p[2] = "ALL_DATA_READ"  -> evhttp_connection_done(u)
          [] OTHER                   -> WaitRead(t)
  BY DEF evhttp_read_trailer
<1>3. ASSUME s.eof # TRUE
      PROVE  /\ j > Len(s.inbuf) =>
                  \E r, q \in Tokens : Fit(t, r, q) /\ TrailerEnds(r, t.msg.body, Head(t.sent))
             /\ j <= Len(s.inbuf) /\ s.inbuf[j] = "blank" => Over(t)
  <2>1. PICK rest \in Tokens, q \in Tokens :
               Fit(s, rest, q) /\ TrailerEnds(rest, s.msg.body, Head(s.sent))
    BY <1>3 DEF InMessage, Expects
  <2> DEFINE n == Head(s.sent)
             body == s.msg.body
             b == s.inbuf
             w == s.wire
  <2>2. /\ b \in Tokens /\ w \in Tokens /\ b \o w = rest \o q
        /\ s.sent # <<>> /\ Stream(s.role, q, Tail(s.sent))
    BY <2>1 DEF Fit, Typed
  <2>3. /\ j > Len(b) => \E r \in Tokens : <<>> \o w = r \o q /\ TrailerEnds(r, body, n)
        /\ j <= Len(b) /\ b[j] = "blank" => body = n /\ From(b, j + 1) \o w = q
    <3>1. Cut(b, w, rest, q) /\ TrailerEnds(rest, body, n)
      BY <2>1, <2>2 DEF Cut
    <3> HIDE DEF n, body, b, w
    <3>2. TrailerParsed(b, w, q, body, n)
      BY <3>1, TrailerLeft
    <3> QED
      BY <3>2 DEF b, TrailerParsed
  <2> HIDE DEF p, t, j
  <2> QED
    BY <1>1, <2>2, <2>3 DEF Fit, Over
<1>4. Data(evhttp_connection_fail(t, "header"))
  BY <1>1, FailData
<1>5. ASSUME j <= Len(s.inbuf), s.inbuf[j] = "blank" PROVE Data(evhttp_connection_done(u))
  <2>1. Over(t)
    BY <1>1, <1>3, <1>5 DEF Over
  <2> HIDE DEF p, t, j
  <2>2. /\ Like(u, t) /\ u.ev = "none" /\ SameData(u, t)
    BY <1>1 DEF Like, Shape, SameData
  <2> HIDE DEF u
  <2>3. Busy(u) /\ Typed(u)
    BY <1>1, <2>2, LikeBusy, SameIsTyped
  <2>4. Over(u)
    BY <2>1, <2>2 DEF Over, SameData
  <2> QED
    BY <2>3, <2>4, DoneData
<1>6. ASSUME j > Len(s.inbuf) PROVE Data(WaitRead(t))
  <2>1. \/ t.eof = TRUE
        \/ \E r, q \in Tokens : Fit(t, r, q) /\ TrailerEnds(r, t.msg.body, Head(t.sent))
    BY <1>1, <1>3, <1>6
  <2> HIDE DEF p, t, j
  <2>2. t.eof = TRUE \/ InMessage(t)
    BY <1>1, <2>1 DEF InMessage, Expects
  <2> QED
    BY <1>1, <2>2, WaitData
<1> HIDE DEF p, t, j, u
<1> QED
  BY <1>1, <1>2, <1>4, <1>5, <1>6

LEMMA ReadBodyData ==
  ASSUME NEW s, Busy(s), Typed(s), s.state = "READING_BODY", s.eof = TRUE \/ InMessage(s)
  PROVE  Data(evhttp_read_body(s))
<1> DEFINE p == evhttp_handle_chunked_read(s)
           t == p[1]
           j == StopAt(s.inbuf, {"zero", "badsize"})
           trailer == [t EXCEPT !.state = "READING_TRAILER"]
           whole == [s EXCEPT !.msg.body = @ + s.msg.ntoread, !.msg.ntoread = 0,
                              !.inbuf = From(@, s.msg.ntoread + 1)]
           part == [s EXCEPT !.msg.body = @ + Units(s.inbuf), !.inbuf = <<>>]
<1>0. Shape(s) /\ s.ev = "none" /\ s.inbuf \in Tokens /\ Len(s.inbuf) \in Nat
      /\ s.msg.ntoread \in Int /\ s.msg.body \in Nat
  BY BusyShape DEF Typed, Tokens
<1>1. CASE s.msg.chunked
  <2>1. /\ Busy(t) /\ Shape(t) /\ Typed(t) /\ t.state = s.state
        /\ t.inbuf = From(s.inbuf, j + 1) /\ t.wire = s.wire /\ t.sent = s.sent
        /\ t.role = s.role /\ t.eof = s.eof /\ t.msg.chunked = s.msg.chunked
        /\ t.msg.body = s.msg.body + Units(SubSeq(s.inbuf, 1, j - 1))
        /\ j > Len(s.inbuf) => t.inbuf = <<>> /\ p[2] = "MORE_DATA_EXPECTED"
        /\ ~(j > Len(s.inbuf)) => j <= Len(s.inbuf)
                                  /\ p[2] = IF s.inbuf[j] = "zero" THEN "ALL_DATA_READ"
                                            ELSE "DATA_CORRUPTED"
    BY ChunkedFacts
  <2>2. evhttp_read_body(s) =
          CASE p[2] = "ALL_DATA_READ"  -> evhttp_read_trailer(trailer)
            [] p[2] = "DATA_CORRUPTED" -> evhttp_connection_fail(t, "header")
            [] OTHER                   -> WaitRead(t)
    BY <1>1 DEF evhttp_read_body
  <2>3. ASSUME s.eof # TRUE
        PROVE  /\ t.msg.chunked = TRUE
               /\ j > Len(s.inbuf) =>
                    \E r, q \in Tokens : Fit(t, r, q) /\ ChunksEnd(r, t.msg.body, Head(t.sent))
               /\ j <= Len(s.inbuf) /\ s.inbuf[j] = "zero" =>
                    \E r, q \in Tokens : Fit(t, r, q) /\ TrailerEnds(r, t.msg.body, Head(t.sent))
    <3>1. PICK rest \in Tokens, q \in Tokens :
                 Fit(s, rest, q) /\ ChunksEnd(rest, s.msg.body, Head(s.sent))
                 /\ s.msg.chunked = TRUE
      BY <1>1, <2>3 DEF InMessage, Expects
    <3> DEFINE n == Head(s.sent)
               body == s.msg.body
               b == s.inbuf
               w == s.wire
               m == body + Units(SubSeq(b, 1, j - 1))
    <3>2. /\ b \in Tokens /\ w \in Tokens /\ b \o w = rest \o q /\ body \in Nat
          /\ s.sent # <<>> /\ Stream(s.role, q, Tail(s.sent))
      BY <3>1 DEF Fit, Typed
    <3>3. /\ j > Len(b) => \E r \in Tokens : <<>> \o w = r \o q /\ ChunksEnd(r, m, n)
          /\ j <= Len(b) /\ b[j] = "zero" =>
               \E r \in Tokens : From(b, j + 1) \o w = r \o q /\ TrailerEnds(r, m, n)
      <4>1. Cut(b, w, rest, q) /\ ChunksEnd(rest, body, n) /\ body \in Nat
        BY <3>1, <3>2 DEF Cut
      <4> HIDE DEF n, body, b, w
      <4>2. ChunksParsed(b, w, q, body, n)
        BY <4>1, ChunksLeft
      <4> QED
        BY <4>2 DEF b, ChunksParsed
    <3> HIDE DEF p, t, j
    <3> QED
      BY <2>1, <3>1, <3>2, <3>3 DEF Fit
  <2> HIDE DEF p, t, j
  <2>4. Data(evhttp_connection_fail(t, "header"))
    BY <2>1, FailData
  <2>5. ASSUME j <= Len(s.inbuf), s.inbuf[j] = "zero" PROVE Data(evhttp_read_trailer(trailer))
    <3>1. /\ Like(trailer, t) /\ trailer.ev = "none" /\ SameData(trailer, t)
          /\ trailer.state = "READING_TRAILER"
      <4>1. t.ev = "none"
        BY <2>1, BusyShape
      <4> QED
        BY <2>1, <4>1 DEF Like, Shape, SameData
    <3> HIDE DEF trailer
    <3>2. Busy(trailer) /\ Typed(trailer)
      BY <2>1, <3>1, LikeBusy, SameIsTyped
    <3>3. trailer.eof = TRUE \/ InMessage(trailer)
      BY <2>1, <2>3, <2>5, <3>1 DEF InMessage, Expects, Fit, SameData
    <3> QED
      BY <3>1, <3>2, <3>3, ReadTrailerData
  <2>6. ASSUME j > Len(s.inbuf) PROVE Data(WaitRead(t))
    <3>1. t.eof = TRUE \/ InMessage(t)
      BY <2>1, <2>3, <2>6 DEF InMessage, Expects
    <3> QED
      BY <2>1, <3>1, WaitData
  <2> HIDE DEF trailer
  <2> QED
    BY <2>1, <2>2, <2>4, <2>5, <2>6
<1>2. CASE ~s.msg.chunked
  <2>1. evhttp_read_body(s) =
          IF s.msg.ntoread < 0 THEN WaitRead(part)
          ELSE IF Len(s.inbuf) >= s.msg.ntoread THEN evhttp_connection_done(whole)
          ELSE WaitRead(s)
    BY <1>2 DEF evhttp_read_body
  <2>2. ASSUME s.msg.ntoread < 0 PROVE Data(WaitRead(part))
    <3> DEFINE n == s.msg.body + Units(s.inbuf)
    <3>1. part = [s EXCEPT !.msg.body = n, !.inbuf = <<>>]
      OBVIOUS
    <3>2. n \in Nat
      <4>1. Units(s.inbuf) \in Nat
        BY <1>0, UnitsFacts
      <4> QED
        BY <1>0, <4>1
    <3> HIDE DEF n, part
    <3>3. /\ Shape(part) /\ part.inbuf = <<>> /\ part.wire = s.wire /\ part.sent = s.sent
          /\ part.last = s.last /\ part.role = s.role /\ part.eof = s.eof
          /\ part.state = s.state /\ part.msg = [s.msg EXCEPT !.body = n]
      BY <1>0, <3>1 DEF Shape
    <3>4. /\ part.msg.body = n /\ part.msg.ntoread = s.msg.ntoread
          /\ part.msg.chunked = s.msg.chunked
      BY <1>0, <3>3 DEF Shape
    <3>5. Typed(part)
      <4>1. <<>> \in Tokens
        BY DEF Tokens
      <4> QED
        BY <3>2, <3>3, <3>4, <4>1 DEF Typed
    <3>6. s.eof = TRUE \/ s.msg.chunked = FALSE
      BY <1>2 DEF InMessage, Expects
    <3>7. part.eof = TRUE \/ InMessage(part)
      BY <2>2, <3>3, <3>4, <3>6 DEF InMessage
    <3> QED
      BY <3>3, <3>5, <3>7, WaitData
  <2>3. ASSUME ~(s.msg.ntoread < 0), Len(s.inbuf) >= s.msg.ntoread
        PROVE  Data(evhttp_connection_done(whole))
    <3> DEFINE k == s.msg.ntoread
               n == s.msg.body + k
               b == From(s.inbuf, k + 1)
    <3>0. k \in Nat /\ k <= Len(s.inbuf) /\ n \in Nat
      BY <1>0, <2>3
    <3>1. whole = [s EXCEPT !.msg.body = n, !.msg.ntoread = 0, !.inbuf = b]
      OBVIOUS
    <3>2. b \in Tokens
      BY <1>0, <3>0, FromFacts
    <3> HIDE DEF n, b, whole
    <3>3. /\ DOMAIN whole = DOMAIN s /\ whole.ev = s.ev /\ whole.cb = s.cb /\ whole.fd = s.fd
          /\ whole.role = s.role /\ whole.fault = s.fault /\ whole.alive = s.alive
          /\ whole.closeEv = s.closeEv /\ whole.started = s.started
          /\ whole.queue = s.queue /\ whole.where = s.where /\ whole.out = s.out
          /\ whole.inbuf = b /\ whole.wire = s.wire /\ whole.sent = s.sent
          /\ whole.last = s.last /\ whole.eof = s.eof
      BY <1>0, <3>1 DEF Shape
    <3>4. whole.msg = [[s.msg EXCEPT !.body = n] EXCEPT !.ntoread = 0]
      BY <1>0, <3>1 DEF Shape
    <3>5. /\ DOMAIN whole.msg = DOMAIN s.msg /\ whole.msg.userdone = s.msg.userdone
          /\ whole.msg.body = n /\ whole.msg.ntoread = 0
      BY <1>0, <3>4 DEF Shape
    <3>6. Busy(whole)
      <4>1. Like(whole, s) /\ whole.ev = "none"
        BY <1>0, <3>3, <3>5 DEF Like, Shape
      <4> QED
        BY <4>1, LikeBusy
    <3>7. Typed(whole)
      BY <3>0, <3>2, <3>3, <3>5 DEF Typed
    <3>8. Over(whole)
      <4>1. CASE s.eof = TRUE
        BY <3>3, <4>1 DEF Over
      <4>2. CASE s.eof # TRUE
        <5>1. PICK rest \in Tokens, q \in Tokens :
                Fit(s, rest, q) /\ Len(rest) = k /\ Head(s.sent) = s.msg.body + k
          BY <1>2, <2>3, <4>2 DEF InMessage, Expects
        <5>2. /\ s.inbuf \o s.wire = rest \o q /\ s.sent # <<>> /\ s.wire \in Tokens
              /\ Stream(s.role, q, Tail(s.sent))
          BY <5>1 DEF Fit, Typed
        <5>3. From(s.inbuf, Len(rest) + 1) \o s.wire = q
          <6>1. Cut(s.inbuf, s.wire, rest, q) /\ Len(rest) <= Len(s.inbuf)
            BY <1>0, <3>0, <5>1, <5>2 DEF Cut
          <6> QED
            BY <6>1, LengthLeft
        <5>4. b \o s.wire = q /\ n = Head(s.sent)
          BY <5>1, <5>3 DEF b, n
        <5> QED
          BY <3>3, <3>5, <5>2, <5>4 DEF Over
      <4> QED
        BY <4>1, <4>2
    <3> QED
      BY <3>6, <3>7, <3>8, DoneData
  <2>4. Data(WaitRead(s))
    BY <1>0, WaitData
  <2> HIDE DEF part, whole
  <2> QED
    BY <2>1, <2>2, <2>3, <2>4
<1> QED
  BY <1>1, <1>2

\* The headers are read.
InBody(s) ==
  /\ s.msg.body = 0 /\ s.msg.chunked = FALSE
  /\ \E rest, q \in Tokens :
       Fit(s, rest, q) /\ BodyEnds(s.msg.type, s.msg.hdrs, rest, Head(s.sent))

LEMMA NoBodyOver ==
  ASSUME NEW s, s.eof = TRUE \/ InBody(s), s.msg.type \in NoBody
  PROVE  Over(s)
<1>1. CASE s.eof = TRUE
  BY <1>1 DEF Over
<1>2. CASE InBody(s)
  <2>1. PICK rest \in Tokens, q \in Tokens :
               Fit(s, rest, q) /\ BodyEnds(s.msg.type, s.msg.hdrs, rest, Head(s.sent))
    BY <1>2 DEF InBody
  <2>2. rest = <<>> /\ Head(s.sent) = 0
    BY <2>1 DEF BodyEnds
  <2>3. <<>> \o q = q
    BY ConcatEmptySeq DEF Tokens
  <2>4. /\ s.inbuf \o s.wire = q /\ s.sent # <<>> /\ Stream(s.role, q, Tail(s.sent))
    BY <2>1, <2>2, <2>3 DEF Fit
  <2> QED
    BY <1>2, <2>2, <2>4 DEF InBody, Over
<1> QED
  BY <1>1, <1>2

LEMMA GetBodyData ==
  ASSUME NEW s, Busy(s), Typed(s), s.msg.type # "nocontent", s.eof = TRUE \/ InBody(s)
  PROVE  Data(evhttp_get_body(s))
<1> DEFINE n == evhttp_get_body_length(s.msg.hdrs)
           t == [s EXCEPT !.state = "READING_BODY"]
           chunks == [t EXCEPT !.msg.chunked = TRUE, !.msg.ntoread = -1]
           length == [t EXCEPT !.msg.ntoread = n]
<1>1. evhttp_get_body(s) =
        CASE s.msg.type \in {"get", "get10"} -> evhttp_connection_done(s)
          [] s.msg.type \notin {"get", "get10"} /\ "chunked" \in s.msg.hdrs ->
               evhttp_read_body(chunks)
          [] OTHER -> IF n = -2 THEN evhttp_connection_fail(t, "header")
                      ELSE evhttp_read_body(length)
  BY DEF evhttp_get_body
<1>2. Shape(s) /\ s.ev = "none"
  BY BusyShape
<1>3. /\ n = IF "length" \in s.msg.hdrs THEN 1 ELSE IF "keep" \in s.msg.hdrs THEN -2 ELSE -1
      /\ n \in Int
  BY DEF evhttp_get_body_length
<1> HIDE DEF n
<1>4. /\ Busy(t) /\ Shape(t) /\ t.ev = "none" /\ SameData(t, s) /\ t.state = "READING_BODY"
      /\ Typed(t)
  <2>1. Like(t, s) /\ t.ev = "none" /\ t.state = "READING_BODY" /\ SameData(t, s)
    BY <1>2 DEF Like, Shape, SameData
  <2> HIDE DEF t
  <2>2. Busy(t)
    BY <2>1, LikeBusy
  <2> QED
    BY <2>1, <2>2, BusyShape, SameIsTyped
<1> HIDE DEF t
<1>5. ASSUME s.msg.type \in {"get", "get10"} PROVE Data(evhttp_connection_done(s))
  BY <1>5, NoBodyOver, DoneData DEF NoBody
<1>6. ASSUME s.msg.type \notin {"get", "get10"}, "chunked" \in s.msg.hdrs
      PROVE  Data(evhttp_read_body(chunks))
  <2>1. /\ DOMAIN chunks = DOMAIN t /\ chunks.ev = t.ev /\ chunks.cb = t.cb /\ chunks.fd = t.fd
        /\ chunks.role = t.role /\ chunks.fault = t.fault /\ chunks.alive = t.alive
        /\ chunks.closeEv = t.closeEv /\ chunks.started = t.started
        /\ chunks.queue = t.queue /\ chunks.where = t.where /\ chunks.state = t.state
        /\ chunks.out = t.out
        /\ chunks.inbuf = t.inbuf /\ chunks.wire = t.wire /\ chunks.sent = t.sent
        /\ chunks.last = t.last /\ chunks.eof = t.eof
    BY <1>4 DEF Shape
  <2>2. chunks.msg = [[t.msg EXCEPT !.chunked = TRUE] EXCEPT !.ntoread = -1]
    BY <1>4 DEF Shape
  <2> HIDE DEF chunks
  <2>3. /\ DOMAIN chunks.msg = DOMAIN t.msg /\ chunks.msg.userdone = t.msg.userdone
        /\ chunks.msg.chunked = TRUE /\ chunks.msg.ntoread = -1 /\ chunks.msg.body = t.msg.body
    BY <1>4, <2>2 DEF Shape
  <2>4. Busy(chunks)
    <3>1. Like(chunks, t) /\ chunks.ev = "none"
      BY <1>4, <2>1, <2>3 DEF Like, Shape
    <3> QED
      BY <1>4, <3>1, LikeBusy
  <2>5. Typed(chunks)
    BY <1>4, <2>1, <2>3 DEF Typed
  <2>6. chunks.eof = TRUE \/ InMessage(chunks)
    <3>1. CASE s.eof = TRUE
      BY <1>4, <2>1, <3>1 DEF SameData
    <3>2. CASE InBody(s)
      <4>1. PICK rest \in Tokens, q \in Tokens :
              Fit(s, rest, q) /\ BodyEnds(s.msg.type, s.msg.hdrs, rest, Head(s.sent))
        BY <3>2 DEF InBody
      <4>2. ChunksEnd(rest, 0, Head(s.sent))
        BY <1>6, <4>1 DEF BodyEnds, NoBody
      <4>3. chunks.msg.body = 0
        BY <1>4, <2>3, <3>2 DEF InBody, SameData
      <4>4. Fit(chunks, rest, q)
        BY <1>4, <2>1, <4>1 DEF Fit, SameData
      <4>5. Expects(chunks, rest)
        BY <1>4, <2>1, <2>3, <4>2, <4>3 DEF Expects, SameData
      <4> QED
        BY <4>4, <4>5 DEF InMessage
    <3> QED
      BY <3>1, <3>2
  <2>7. chunks.state = "READING_BODY"
    BY <1>4, <2>1
  <2> QED
    BY <2>4, <2>5, <2>6, <2>7, ReadBodyData
<1>7. Data(evhttp_connection_fail(t, "header"))
  BY <1>4, FailData
<1>8. ASSUME s.msg.type \notin {"get", "get10"}, "chunked" \notin s.msg.hdrs, n # -2
      PROVE  Data(evhttp_read_body(length))
  <2>1. /\ Like(length, t) /\ length.ev = "none" /\ length.state = "READING_BODY"
        /\ length.inbuf = t.inbuf /\ length.wire = t.wire /\ length.sent = t.sent
        /\ length.last = t.last /\ length.eof = t.eof /\ length.role = t.role
        /\ length.msg = [t.msg EXCEPT !.ntoread = n]
    BY <1>4 DEF Like, Shape
  <2> HIDE DEF length
  <2>2. /\ length.msg.ntoread = n /\ length.msg.body = t.msg.body
        /\ length.msg.chunked = t.msg.chunked
    BY <1>4, <2>1 DEF Shape
  <2>3. Busy(length)
    BY <1>4, <2>1, LikeBusy
  <2>4. Typed(length)
    BY <1>3, <1>4, <2>1, <2>2 DEF Typed
  <2>5. length.eof = TRUE \/ InMessage(length)
    <3>1. CASE s.eof = TRUE
      BY <1>4, <2>1, <3>1 DEF SameData
    <3>2. CASE InBody(s)
      <4>1. length.msg.chunked = FALSE /\ length.msg.body = 0
        BY <1>4, <2>2, <3>2 DEF InBody, SameData
      <4>2. CASE "length" \notin s.msg.hdrs
        <5>1. length.msg.ntoread < 0
          BY <1>3, <1>8, <2>2, <4>2
        <5> QED
          BY <2>1, <4>1, <5>1 DEF InMessage
      <4>3. CASE "length" \in s.msg.hdrs
        <5>1. PICK rest \in Tokens, q \in Tokens :
                Fit(s, rest, q) /\ BodyEnds(s.msg.type, s.msg.hdrs, rest, Head(s.sent))
          BY <3>2 DEF InBody
        <5>2. Len(rest) = 1 /\ Head(s.sent) = 1
          BY <1>8, <4>3, <5>1 DEF BodyEnds, NoBody
        <5>3. n = 1
          BY <1>3, <4>3
        <5>4. Fit(length, rest, q)
          BY <1>4, <2>1, <5>1 DEF Fit, SameData
        <5>5. Head(length.sent) = 1
          BY <1>4, <2>1, <5>2 DEF SameData
        <5>6. Expects(length, rest)
          BY <2>1, <2>2, <4>1, <5>2, <5>3, <5>5 DEF Expects
        <5> QED
          BY <5>4, <5>6 DEF InMessage
      <4> QED
        BY <4>2, <4>3
    <3> QED
      BY <3>1, <3>2
  <2> QED
    BY <2>1, <2>3, <2>4, <2>5, ReadBodyData
<1> HIDE DEF chunks, length
<1> QED
  BY <1>1, <1>5, <1>6, <1>7, <1>8

LEMMA ReadHeaderData ==
  ASSUME NEW s, Busy(s), Typed(s), s.state = "READING_HEADERS", s.eof = TRUE \/ InMessage(s)
  PROVE  Data(evhttp_read_header(s))
<1> DEFINE p == evhttp_parse_headers(s)
           t == p[1]
           j == StopAt(s.inbuf, {"blank", "badheader"})
<1>1. /\ Busy(t) /\ Shape(t) /\ Typed(t) /\ t.state = s.state
      /\ t.inbuf = From(s.inbuf, j + 1) /\ t.wire = s.wire /\ t.sent = s.sent
      /\ t.role = s.role /\ t.eof = s.eof
      /\ t.msg.type = s.msg.type /\ t.msg.body = s.msg.body /\ t.msg.chunked = s.msg.chunked
      /\ t.msg.hdrs = s.msg.hdrs \cup ToSet(SubSeq(s.inbuf, 1, j - 1))
      /\ j > Len(s.inbuf) => t.inbuf = <<>> /\ p[2] = "MORE_DATA_EXPECTED"
      /\ ~(j > Len(s.inbuf)) => j <= Len(s.inbuf)
                                /\ p[2] = IF s.inbuf[j] = "blank" THEN "ALL_DATA_READ"
                                          ELSE "DATA_CORRUPTED"
  BY ParseHeadersFacts
<1>2. evhttp_read_header(s) =
        CASE p[2] = "DATA_CORRUPTED"     -> evhttp_connection_fail(t, "header")
          [] p[2] = "MORE_DATA_EXPECTED" -> WaitRead(t)
          [] OTHER -> IF s.msg.type = "nocontent" THEN evhttp_connection_done(t)
                      ELSE evhttp_get_body(t)
  BY DEF evhttp_read_header
<1>3. ASSUME s.eof # TRUE
      PROVE  /\ s.msg.body = 0 /\ s.msg.chunked = FALSE
             /\ j > Len(s.inbuf) =>
                  \E r, q \in Tokens :
                    Fit(t, r, q) /\ HeadersEnd(t.msg.type, t.msg.hdrs, r, Head(t.sent))
             /\ j <= Len(s.inbuf) /\ s.inbuf[j] = "blank" =>
                  \E r, q \in Tokens :
                    Fit(t, r, q) /\ BodyEnds(t.msg.type, t.msg.hdrs, r, Head(t.sent))
  <2> DEFINE n == Head(s.sent)
             type == s.msg.type
             hdrs == s.msg.hdrs
             b == s.inbuf
             w == s.wire
  <2>1. PICK rest \in Tokens, q \in Tokens :
               /\ Fit(s, rest, q) /\ HeadersEnd(s.msg.type, s.msg.hdrs, rest, Head(s.sent))
               /\ s.msg.body = 0 /\ s.msg.chunked = FALSE
    BY <1>3 DEF InMessage, Expects
  <2>2. /\ b \in Tokens /\ w \in Tokens /\ b \o w = rest \o q
        /\ s.sent # <<>> /\ Stream(s.role, q, Tail(s.sent))
    BY <2>1 DEF Fit, Typed
  <2>3. HeadersParsed(b, w, q, type, hdrs, n)
    <3>1. Cut(b, w, rest, q) /\ HeadersEnd(type, hdrs, rest, n)
      BY <2>1, <2>2 DEF Cut
    <3> HIDE DEF n, type, hdrs, b, w
    <3> QED
      BY <3>1, HeadersLeft
  <2> DEFINE h == hdrs \cup ToSet(SubSeq(b, 1, j - 1))
  <2>4. /\ j > Len(b) => \E r \in Tokens : <<>> \o w = r \o q /\ HeadersEnd(type, h, r, n)
        /\ j <= Len(b) /\ b[j] = "blank" =>
             \E r \in Tokens : From(b, j + 1) \o w = r \o q /\ BodyEnds(type, h, r, n)
    BY <2>3 DEF HeadersParsed
  <2> HIDE DEF p, t, j
  <2> QED
    BY <1>1, <2>1, <2>2, <2>4 DEF Fit
<1> HIDE DEF p, t, j
<1>4. Data(evhttp_connection_fail(t, "header"))
  BY <1>1, FailData
<1>5. ASSUME j > Len(s.inbuf) PROVE Data(WaitRead(t))
  <2>1. t.eof = TRUE \/ InMessage(t)
    BY <1>1, <1>3, <1>5 DEF InMessage, Expects
  <2> QED
    BY <1>1, <2>1, WaitData
<1>6. ASSUME j <= Len(s.inbuf), s.inbuf[j] = "blank"
      PROVE  IF s.msg.type = "nocontent" THEN Data(evhttp_connection_done(t))
             ELSE Data(evhttp_get_body(t))
  <2>1. t.eof = TRUE \/ InBody(t)
    BY <1>1, <1>3, <1>6 DEF InBody
  <2>2. s.msg.type = "nocontent" => Over(t)
    BY <1>1, <2>1, NoBodyOver DEF NoBody
  <2> QED
    BY <1>1, <2>1, <2>2, DoneData, GetBodyData
<1> QED
  BY <1>1, <1>2, <1>4, <1>5, <1>6

\* The first line begins a message.
LEMMA ReadFirstlineData ==
  ASSUME NEW s, Busy(s), Typed(s), s.state = "READING_FIRSTLINE",
         s.eof = TRUE \/ InMessage(s)
  PROVE  Data(evhttp_read_firstline(s))
<1> DEFINE f == Head(s.inbuf)
           t == [s EXCEPT !.inbuf = Tail(@)]
           u == [t EXCEPT !.msg.type = f, !.state = "READING_HEADERS"]
<1>1. evhttp_read_firstline(s) =
        IF s.inbuf = <<>> THEN WaitRead(s)
        ELSE IF f \notin FirstLines THEN evhttp_connection_fail(t, "header")
        ELSE evhttp_read_header(u)
  BY DEF evhttp_read_firstline
<1>2. Shape(s) /\ s.ev = "none"
  BY BusyShape
<1>3. Data(WaitRead(s))
  BY <1>2, WaitData
<1>4. ASSUME s.inbuf # <<>>
      PROVE  /\ Busy(t) /\ Shape(t) /\ t.ev = "none" /\ Typed(t)
             /\ t.inbuf = Tail(s.inbuf) /\ t.wire = s.wire /\ t.sent = s.sent
             /\ t.msg = s.msg /\ t.last = s.last /\ t.role = s.role /\ t.eof = s.eof
  <2>1. Tail(s.inbuf) \in Tokens
    <3> DEFINE b == s.inbuf
    <3>1. b \in Seq(STRING) /\ b # <<>>
      BY <1>4 DEF Typed, Tokens
    <3> HIDE DEF b
    <3>2. Tail(b) \in Seq(STRING)
      BY <3>1, HeadTailProperties
    <3> QED
      BY <3>2 DEF b, Tokens
  <2>2. /\ Like(t, s) /\ t.ev = "none"
        /\ t.inbuf = Tail(s.inbuf) /\ t.wire = s.wire /\ t.sent = s.sent
        /\ t.msg = s.msg /\ t.last = s.last /\ t.role = s.role /\ t.eof = s.eof
    BY <1>2 DEF Like, Shape
  <2> HIDE DEF t
  <2>3. Typed(t)
    BY <2>1, <2>2 DEF Typed
  <2>4. Busy(t)
    BY <2>2, LikeBusy
  <2> QED
    BY <2>2, <2>3, <2>4, BusyShape
<1> HIDE DEF t
<1>5. ASSUME s.inbuf # <<>> PROVE Data(evhttp_connection_fail(t, "header"))
  BY <1>4, <1>5, FailData
<1>6. ASSUME s.inbuf # <<>>, f \in FirstLines PROVE Data(evhttp_read_header(u))
  <2>1. /\ Like(u, t) /\ u.ev = "none" /\ u.state = "READING_HEADERS"
        /\ u.inbuf = t.inbuf /\ u.wire = t.wire /\ u.sent = t.sent /\ u.last = t.last
        /\ u.role = t.role /\ u.eof = t.eof /\ u.msg = [t.msg EXCEPT !.type = f]
    BY <1>4, <1>6 DEF Like, Shape
  <2> HIDE DEF u
  <2>2. /\ u.msg.type = f /\ u.msg.hdrs = s.msg.hdrs /\ u.msg.body = s.msg.body
        /\ u.msg.ntoread = s.msg.ntoread /\ u.msg.chunked = s.msg.chunked
    BY <1>4, <1>6, <2>1 DEF Shape
  <2>3. Busy(u) /\ Typed(u)
    <3>1. Busy(u)
      BY <1>4, <1>6, <2>1, LikeBusy
    <3> QED
      BY <1>4, <1>6, <2>1, <2>2, <3>1 DEF Typed
  <2>4. u.eof = TRUE \/ InMessage(u)
    <3>1. CASE s.eof = TRUE
      BY <1>4, <1>6, <2>1, <3>1
    <3>2. CASE s.eof # TRUE
      <4>1. Clean(s) /\ Aligned(s) /\ s.role \in Roles
        BY <3>2 DEF InMessage, Expects, Typed
      <4> DEFINE b == s.inbuf
                 w == s.wire
                 x == b \o w
      <4>2. b \in Tokens /\ w \in Tokens /\ b # <<>> /\ Len(b) \in Nat /\ 1 <= Len(b)
        BY <1>6 DEF Typed, Tokens
      <4>3. x \in Tokens /\ x[1] = b[1] /\ x # <<>>
        <5> HIDE DEF b, w
        <5>1. /\ x \in Tokens /\ Len(x) = Len(b) + Len(w) /\ 1 \in 1 .. Len(b) /\ Len(w) \in Nat
              /\ \A i \in 1 .. Len(b) : x[i] = b[i]
          BY <4>2, JoinFacts DEF Tokens
        <5>2. Len(x) # 0
          BY <4>2, <5>1
        <5> QED
          BY <5>1, <5>2
      <4>4. PICK m \in Messages[s.role], q \in Tokens :
              /\ m \in Tokens /\ WellFramed(m)
              /\ x = m \o q /\ Head(s.sent) = Units(m) /\ Stream(s.role, q, Tail(s.sent))
              /\ s.sent # <<>>
        <5>1. Stream(s.role, x, s.sent)
          BY <4>1 DEF Aligned
        <5> HIDE DEF x
        <5> QED
          BY <4>1, <4>3, <5>1, StreamBegins
      <4>5. m # <<>> /\ Len(m) \in Nat /\ 1 <= Len(m)
        BY <4>4 DEF WellFramed, Tokens
      <4>6. m[1] = f
        <5>1. (m \o q)[1] = m[1]
          BY <4>4, <4>5, JoinFacts
        <5>2. f = b[1]
          BY <4>2 DEF Tokens
        <5> HIDE DEF x, b, w
        <5> QED
          BY <4>3, <4>4, <5>1, <5>2
      <4>7. HeadersEnd(f, {}, Tail(m), Head(s.sent))
        BY <1>6, <4>4, <4>6 DEF WellFramed
      <4>8. Tail(m) \in Tokens /\ Tail(b) \o w = Tail(m) \o q
        <5>1. Tail(m) = From(m, 2) /\ Tail(b) = From(b, 2)
          BY <4>2, <4>4, <4>5 DEF From, Tokens
        <5>2. Tail(m) \in Tokens
          BY <4>4, <4>5 DEF Tokens
        <5> HIDE DEF b, w
        <5>3. From(b \o w, 1 + 1) = From(b, 1 + 1) \o w
          BY <4>2, FromJoin
        <5>4. From(m \o q, 1 + 1) = From(m, 1 + 1) \o q
          BY <4>4, <4>5, FromJoin
        <5>5. 1 + 1 = 2
          OBVIOUS
        <5> QED
          BY <4>4, <5>1, <5>2, <5>3, <5>4, <5>5 DEF x
      <4>9. Fit(u, Tail(m), q)
        BY <1>4, <1>6, <2>1, <4>4, <4>8 DEF Fit
      <4>10. Expects(u, Tail(m))
        <5>1. Head(u.sent) = Head(s.sent)
          BY <1>4, <1>6, <2>1
        <5>2. u.msg.hdrs = {} /\ u.msg.body = 0 /\ u.msg.chunked = FALSE
          BY <2>2, <4>1 DEF Clean
        <5> QED
          BY <2>1, <2>2, <4>7, <5>1, <5>2 DEF Expects
      <4> QED
        BY <4>8, <4>9, <4>10 DEF InMessage
    <3> QED
      BY <3>1, <3>2
  <2> QED
    BY <2>1, <2>3, <2>4, ReadHeaderData
<1> HIDE DEF u
<1> QED
  BY <1>1, <1>3, <1>5, <1>6

\* evhttp_read after evbuffer_read
LEMMA ParseData ==
  ASSUME NEW s, Busy(s), Typed(s), s.state \in Reading,
         s.eof = TRUE \/ InMessage(s)
  PROVE  Data(Parse(s))
<1>1. s.state = "READING_FIRSTLINE" => Parse(s) = evhttp_read_firstline(s)
  BY DEF Parse
<1>2. s.state = "READING_HEADERS" => Parse(s) = evhttp_read_header(s)
  BY DEF Parse
<1>3. s.state = "READING_BODY" => Parse(s) = evhttp_read_body(s)
  BY DEF Parse
<1>4. s.state = "READING_TRAILER" => Parse(s) = evhttp_read_trailer(s)
  BY DEF Parse
<1> QED
  BY <1>1, <1>2, <1>3, <1>4, ReadFirstlineData, ReadHeaderData, ReadBodyData, ReadTrailerData
     DEF Reading

-----------------------------------------------------------------------------
(* Every step keeps in step with the messages.                             *)

\* The end of Handle.
LEMMA SettleData ==
  ASSUME NEW s, Data(s), NEW t, t = [s EXCEPT !.refuse = FALSE], Shape(t)
  PROVE  Data(t)
<1>1. SameData(t, s) /\ t.state = s.state /\ t.ev = s.ev
  BY DEF Shape, SameData
<1> QED
  BY <1>1, SameIsData

LEMMA RunData ==
  ASSUME HttpInv, Data(con), NEW no
  PROVE  SameData(Run(no), con) /\ Typed(Run(no)) /\ Shape(Run(no))
<1>1. Shape(con)
  BY OKShape DEF HttpInv
<1>2. SameData(Run(no), con) /\ Shape(Run(no))
  BY <1>1 DEF Run, SameData, Shape
<1> QED
  BY <1>2, SameIsTyped DEF Data

\* evhttp_read
LEMMA ReadData ==
  ASSUME HttpInv, Data(con), NEW k, EvhttpRead(k)
  PROVE  Data(con')
<1> DEFINE new == con.inbuf \o SubSeq(con.wire, 1, k)
           left == From(con.wire, k + 1)
           t(no) == [Run(no) EXCEPT !.inbuf = new, !.wire = From(@, k + 1),
                                    !.ran = IF new = <<>> THEN ~@ ELSE @]
<1>1. PICK no : con' = [Parse(t(no)) EXCEPT !.refuse = FALSE]
  BY DEF EvhttpRead, OnEvent, Handle, Run
<1>2. con.ev = "read" /\ k \in 0 .. Len(con.wire)
  BY DEF EvhttpRead, OnEvent
<1>3. Busy(Run(no)) /\ Run(no).state \in Reading
  BY <1>2, ReadRuns
<1>4. /\ new \in Tokens /\ left \in Tokens /\ new \o left = con.inbuf \o con.wire
  <2> DEFINE b == con.inbuf
             w == con.wire
             x == SubSeq(w, 1, k)
             y == From(w, k + 1)
  <2>1. b \in Tokens /\ w \in Tokens /\ k \in Nat /\ k <= Len(w)
    BY <1>2 DEF Data, Typed, Tokens
  <2> HIDE DEF b, w
  <2>2. x \in Tokens /\ y \in Tokens /\ w = x \o y
    BY <2>1, UntilFacts, FromFacts, CutJoin
  <2> HIDE DEF x, y
  <2>3. (b \o x) \o y = b \o (x \o y)
    BY <2>1, <2>2, ConcatAssociative DEF Tokens
  <2>4. b \o x \in Tokens
    BY <2>1, <2>2, JoinFacts
  <2> QED
    BY <2>2, <2>3, <2>4 DEF b, w, x, y
<1> HIDE DEF new
<1>5. /\ Like(t(no), Run(no)) /\ t(no).ev = "none" /\ t(no).state = Run(no).state
      /\ t(no).inbuf = new /\ t(no).wire = From(Run(no).wire, k + 1)
      /\ t(no).sent = Run(no).sent
      /\ t(no).msg = Run(no).msg /\ t(no).last = Run(no).last /\ t(no).role = Run(no).role
      /\ t(no).eof = Run(no).eof
  <2>1. Shape(Run(no)) /\ Run(no).ev = "none"
    BY <1>3, BusyShape
  <2> QED
    BY <2>1 DEF Like, Shape
<1> HIDE DEF t
<1>6. Busy(t(no)) /\ t(no).state \in Reading
  BY <1>3, <1>5, LikeBusy
<1>7. SameData(Run(no), con) /\ Run(no).state = con.state /\ t(no).wire = left
  BY <1>5, RunData, RunFacts DEF SameData
<1> HIDE DEF left
<1>8. Typed(t(no))
  BY <1>4, <1>5, <1>7 DEF Data, Typed, SameData
<1>9. con.eof = TRUE \/ InMessage(con)
  <2>1. ~Rejected(con)
    BY <1>3, <1>7 DEF Busy, ClientBusy, Client, ServerBusy, Rejected, SameData
  <2> QED
    BY <1>2, <2>1 DEF Data, InStep
<1>10. t(no).eof = TRUE \/ InMessage(t(no))
  <2>1. /\ t(no).inbuf \o t(no).wire = con.inbuf \o con.wire /\ t(no).sent = con.sent
        /\ t(no).msg = con.msg /\ t(no).role = con.role /\ t(no).state = con.state
        /\ t(no).eof = con.eof
    BY <1>4, <1>5, <1>7 DEF SameData
  <2> QED
    BY <1>9, <2>1, FlowInMessage
<1>11. Data(Parse(t(no)))
  BY <1>6, <1>8, <1>10, ParseData
<1>12. Shape(con')
  BY ReadStep, OKShape DEF HttpInv
<1> QED
  BY <1>1, <1>11, <1>12, SettleData

LEMMA ReadEOFData ==
  ASSUME HttpInv, Data(con), EvhttpReadEOF
  PROVE  Data(con')
<1> DEFINE t(no) == [Run(no) EXCEPT !.state = "DISCONNECTED", !.eof = TRUE]
<1>1. PICK no : con' = [evhttp_connection_done(t(no)) EXCEPT !.refuse = FALSE]
  BY DEF EvhttpReadEOF, OnEvent, Handle, Run
<1>2. Busy(Run(no))
  BY ReadRuns DEF EvhttpReadEOF, OnEvent
<1>3. /\ Like(t(no), Run(no)) /\ t(no).ev = "none" /\ t(no).eof = TRUE
      /\ t(no).inbuf = Run(no).inbuf /\ t(no).wire = Run(no).wire
      /\ t(no).sent = Run(no).sent /\ t(no).msg = Run(no).msg
      /\ t(no).last = Run(no).last /\ t(no).role = Run(no).role
  <2>1. Shape(Run(no)) /\ Run(no).ev = "none"
    BY <1>2, BusyShape
  <2> QED
    BY <2>1 DEF Like, Shape
<1> HIDE DEF t
<1>4. Busy(t(no))
  BY <1>2, <1>3, LikeBusy
<1>5. Typed(t(no)) /\ Over(t(no))
  BY <1>3, RunData DEF Typed, Over
<1>6. Data(evhttp_connection_done(t(no)))
  BY <1>4, <1>5, DoneData
<1>7. Shape(con')
  BY ReadEOFStep, OKShape DEF HttpInv
<1> QED
  BY <1>1, <1>6, <1>7, SettleData

LEMMA ReadFailsData ==
  ASSUME HttpInv, Data(con), EvhttpReadFails
  PROVE  Data(con')
<1>1. PICK no : con' = [evhttp_connection_fail(Run(no), "network") EXCEPT !.refuse = FALSE]
  BY DEF EvhttpReadFails, OnEvent, Handle, Run
<1>2. Busy(Run(no))
  BY ReadRuns DEF EvhttpReadFails, OnEvent
<1>3. Data(evhttp_connection_fail(Run(no), "network"))
  BY <1>2, RunData, FailData
<1>4. Shape(con')
  BY ReadFailsStep, OKShape DEF HttpInv
<1> QED
  BY <1>1, <1>3, <1>4, SettleData

LEMMA WriteFailsData ==
  ASSUME HttpInv, Data(con), EvhttpWriteFails
  PROVE  Data(con')
<1>1. PICK no : con' = [evhttp_connection_fail(Run(no), "network") EXCEPT !.refuse = FALSE]
  BY DEF EvhttpWriteFails, OnEvent, Handle, Run
<1> DEFINE t == Run(no)
<1>2. Like(t, con) /\ t.state = con.state /\ t.ev = "none" /\ con.ev = "write"
  BY RunFacts DEF EvhttpWriteFails, OnEvent
<1>3. Typed(t) /\ Shape(t)
  BY RunData
<1> HIDE DEF t
<1>4. ASSUME ClientBusy(t) PROVE Data(evhttp_connection_fail(t, "network"))
  BY <1>3, <1>4, FailData DEF Busy
<1>5. ASSUME Server(t), Len(t.queue) = 1 PROVE Data(evhttp_connection_fail(t, "network"))
  <2>1. t.queue # <<>> /\ t.role = "server"
    BY <1>5, OnlyOne DEF Server, Base
  <2>2. evhttp_connection_fail(t, "network") = evhttp_connection_drop(t)
    BY <2>1 DEF evhttp_connection_fail
  <2> QED
    BY <1>3, <2>2, DropBlank, BlankData
<1>6. Data(evhttp_connection_fail(t, "network"))
  BY <1>2, <1>4, <1>5, WriteRuns
<1>7. Shape(con')
  BY WriteFailsStep, OKShape DEF HttpInv
<1> QED
  BY <1>1, <1>6, <1>7, SettleData DEF t

\* evhttp_write: the client reads the answer, the server the next request.
LEMMA WriteData ==
  ASSUME HttpInv, Data(con), NEW k, EvhttpWrite(k)
  PROVE  Data(con')
<1> DEFINE t(no) == [Run(no) EXCEPT !.out = @ - k]
           w(no) == [t(no) EXCEPT !.ev = "write"]
           z(no) == CASE t(no).out > 0 -> w(no)
                      [] t(no).out = 0 /\ Run(no).cb = "connectioncb" ->
                           evhttp_write_connectioncb(t(no))
                      [] t(no).out = 0 /\ Run(no).cb = "send_done" -> evhttp_send_done(t(no))
                      [] OTHER -> t(no)
<1>1. PICK no : con' = [z(no) EXCEPT !.refuse = FALSE]
  BY DEF EvhttpWrite, OnEvent, Handle, Run
<1>2. k \in 1 .. con.out /\ con.ev = "write"
  BY DEF EvhttpWrite, OnEvent
<1>3. /\ Like(Run(no), con) /\ Run(no).state = con.state /\ Run(no).ev = "none"
      /\ Run(no).out = con.out /\ Shape(con)
  BY RunFacts
<1>4. SameData(Run(no), con) /\ con.out - k \in Nat
  BY <1>2, <1>3, RunData DEF Shape
<1>5. /\ Like(t(no), con) /\ t(no).state = con.state /\ t(no).ev = "none"
      /\ t(no).out = con.out - k /\ t(no).cb = con.cb /\ Run(no).cb = con.cb
      /\ SameData(t(no), con)
  BY <1>3, <1>4 DEF Like, Shape, SameData
<1>6. SameData(w(no), con) /\ w(no).ev = "write" /\ w(no).state = con.state
  <2> HIDE DEF t
  <2> QED
    BY <1>5 DEF Like, Shape, SameData
<1>7. z(no) = IF t(no).out > 0 THEN w(no)
              ELSE IF con.cb = "connectioncb" THEN evhttp_write_connectioncb(t(no))
              ELSE IF con.cb = "send_done" THEN evhttp_send_done(t(no)) ELSE t(no)
  <2> HIDE DEF t, w
  <2> QED
    BY <1>4, <1>5
<1> HIDE DEF t, w, z
<1>8. Data(w(no)) /\ Data(t(no))
  BY <1>2, <1>5, <1>6, SameIsIdle
<1>9. Shape(t(no)) /\ Typed(t(no)) /\ InStep(t(no))
  BY <1>5, <1>8 DEF Data, Like, Shape
<1>10. ASSUME con.cb = "connectioncb" PROVE Data(evhttp_write_connectioncb(t(no)))
  <2> DEFINE u == evhttp_write_connectioncb(t(no))
  <2>1. ClientBusy(t(no)) /\ t(no).state = "WRITING"
    BY <1>2, <1>5, <1>10, WriteRuns DEF Server
  <2>2. t(no).queue # <<>> /\ t(no).role = "client"
    BY <2>1 DEF ClientBusy, Client
  <2>3. SameData(u, t(no)) /\ u.ev = "read" /\ u.state = "READING_FIRSTLINE"
    BY <1>9, <2>1, <2>2 DEF evhttp_write_connectioncb, evhttp_start_read, Shape, SameData
  <2> HIDE DEF u
  <2>4. t(no).eof = TRUE \/ (Clean(t(no)) /\ Aligned(t(no)))
    BY <1>5, <1>9, <2>1, <2>2 DEF InStep, Rejected
  <2>5. Typed(u) /\ (u.eof = TRUE \/ InMessage(u))
    BY <1>9, <2>3, <2>4, SameIsTyped DEF InMessage, Clean, SameData
  <2>6. Data(u)
    BY <2>3, <2>5 DEF Data, InStep
  <2> QED
    BY <2>6 DEF u
<1>11. Data(evhttp_send_done(t(no)))
  <2>1. t(no).eof = TRUE \/ Rejected(t(no)) \/ Aligned(t(no))
    BY <1>5, <1>9 DEF InStep
  <2> QED
    BY <1>9, <2>1, SendDoneData
<1>12. Data(z(no))
  BY <1>7, <1>8, <1>10, <1>11
<1>13. Shape(con')
  BY WriteStep, OKShape DEF HttpInv
<1> QED
  BY <1>1, <1>12, <1>13, SettleData

LEMMA ConnectedData ==
  ASSUME HttpInv, Data(con), Connected
  PROVE  Data(con')
<1> DEFINE t(no) == [Run(no) EXCEPT !.retryCnt = 0, !.state = "IDLE"]
<1>1. PICK no : con' = [evhttp_request_dispatch(t(no)) EXCEPT !.refuse = FALSE]
  BY DEF Connected, OnEvent, Handle, Run
<1>2. con.ev = "connect" /\ ClientOK(con) /\ Run(no).ev = "none"
  BY ConnectRuns DEF Connected, OnEvent
<1>3. SameData(t(no), con) /\ Shape(t(no)) /\ t(no).state = "IDLE" /\ t(no).ev = "none"
  <2>1. SameData(Run(no), con) /\ Shape(Run(no))
    BY RunData
  <2> QED
    BY <1>2, <2>1 DEF Shape, SameData
<1> HIDE DEF t
<1>4. Data(t(no))
  BY <1>2, <1>3, SameIsIdle
<1>5. t(no).eof = TRUE \/ Aligned(t(no))
  BY <1>2, <1>3, <1>4 DEF Data, InStep, Rejected, SameData, ClientOK, Client
<1>6. ASSUME t(no).queue # <<>> PROVE Data(evhttp_request_dispatch(t(no)))
  BY <1>3, <1>4, <1>5, <1>6, DispatchData DEF Data
<1>7. ASSUME t(no).queue = <<>> PROVE Data(evhttp_request_dispatch(t(no)))
  BY <1>4, <1>7 DEF evhttp_request_dispatch
<1>8. Shape(con')
  BY ConnectedStep, OKShape DEF HttpInv
<1> QED
  BY <1>1, <1>6, <1>7, <1>8, SettleData

LEMMA ConnectAgainData ==
  ASSUME HttpInv, Data(con), ConnectAgain
  PROVE  Data(con')
<1> DEFINE t(no) == [Run(no) EXCEPT !.ev = "retry", !.retryCnt = @ + 1]
<1>1. PICK no : con' = [t(no) EXCEPT !.refuse = FALSE]
  BY DEF ConnectAgain, OnEvent, Handle, Run
<1>2. con.ev = "connect" /\ Run(no).state = con.state
  BY RunFacts DEF ConnectAgain, OnEvent
<1>3. SameData(t(no), con) /\ t(no).state = con.state /\ t(no).ev = "retry"
  <2>1. SameData(Run(no), con) /\ Shape(Run(no))
    BY RunData
  <2> QED
    BY <1>2, <2>1 DEF Shape, SameData
<1> HIDE DEF t
<1>4. Data(t(no))
  BY <1>2, <1>3, SameIsIdle
<1>5. Shape(con')
  BY ConnectAgainStep, OKShape DEF HttpInv
<1> QED
  BY <1>1, <1>4, <1>5, SettleData

LEMMA RetryData ==
  ASSUME HttpInv, Data(con), ConnectionRetry
  PROVE  Data(con')
<1> DEFINE t(no) == [Run(no) EXCEPT !.state = "DISCONNECTED"]
<1>1. PICK no : con' = [evhttp_connection_connect(t(no)) EXCEPT !.refuse = FALSE]
  BY DEF ConnectionRetry, OnEvent, Handle, Run
<1>2. SameData(t(no), con) /\ Shape(t(no)) /\ t(no).state = "DISCONNECTED"
  <2>1. SameData(Run(no), con) /\ Shape(Run(no))
    BY RunData
  <2> QED
    BY <2>1 DEF Shape, SameData
<1> HIDE DEF t
<1>3. Typed(t(no))
  BY <1>2, SameIsTyped DEF Data
<1>4. Data(evhttp_connection_connect(t(no)))
  BY <1>2, <1>3, ConnectBlank, BlankData
<1>5. Shape(con')
  BY RetryStep, OKShape DEF HttpInv
<1> QED
  BY <1>1, <1>4, <1>5, SettleData

\* evhttp_make_request
LEMMA MakeData ==
  ASSUME NEW s, ClientOK(s), Data(s), NEW r \in Requests
  PROVE  Data(evhttp_make_request(s, r))
<1> DEFINE t == [s EXCEPT !.queue = Append(@, r), !.where[r] = "queued"]
<1>1. Shape(s) /\ s.queue \in Seq(Requests) /\ s.role = "client"
  BY DEF ClientOK, Client, Base, Owns
<1>2. /\ Shape(t) /\ SameData(t, s) /\ t.state = s.state /\ t.ev = s.ev
      /\ t.queue = Append(s.queue, r)
  BY <1>1 DEF Shape, SameData
<1>3. evhttp_make_request(s, r) =
        IF ~evhttp_connected(s) THEN evhttp_connection_connect(t)
        ELSE IF s.queue = <<>> THEN evhttp_request_dispatch(t) ELSE t
  BY DEF evhttp_make_request
<1> HIDE DEF t
<1>4. Data(t) /\ Typed(t)
  BY <1>2, SameIsData DEF Data
<1>5. Data(evhttp_connection_connect(t))
  <2>1. CASE t.state = "CONNECTING"
    BY <1>4, <2>1 DEF evhttp_connection_connect
  <2>2. CASE t.state # "CONNECTING"
    BY <1>2, <1>4, <2>2, ConnectBlank, BlankData
  <2> QED
    BY <2>1, <2>2
<1>6. ASSUME evhttp_connected(s), s.queue = <<>> PROVE Data(evhttp_request_dispatch(t))
  <2>1. s.state = "IDLE" /\ s.ev = "none"
    BY <1>6 DEF evhttp_connected, ClientOK, Reading
  <2>2. t.eof = TRUE \/ Aligned(t)
    BY <1>1, <1>2, <1>4, <2>1 DEF Data, InStep, Rejected, SameData
  <2>3. t.queue # <<>>
    BY <1>1, <1>2, AppendFacts
  <2> QED
    BY <1>2, <1>4, <2>1, <2>2, <2>3, DispatchData
<1> QED
  BY <1>3, <1>4, <1>5, <1>6

LEMMA MakeRequestData ==
  ASSUME HttpInv, Data(con), NEW r \in Requests, MakeRequest(r)
  PROVE  Data(con')
<1> DEFINE t(no) == [con EXCEPT !.refuse = no]
<1>1. PICK no : con' = [evhttp_make_request(t(no), r) EXCEPT !.refuse = FALSE]
  BY DEF MakeRequest, Handle
<1>2. HttpOK(t(no)) /\ Like(t(no), con) /\ t(no).state = con.state /\ t(no).ev = con.ev
  BY Prepare
<1>3. SameData(t(no), con)
  <2>1. Shape(con)
    BY OKShape DEF HttpInv
  <2> QED
    BY <2>1 DEF Shape, SameData
<1> HIDE DEF t
<1>4. ClientOK(t(no))
  BY <1>2 DEF MakeRequest, Like, HttpOK, ServerOK, Server
<1>5. Data(evhttp_make_request(t(no), r))
  BY <1>2, <1>3, <1>4, SameIsData, MakeData
<1>6. Shape(con')
  BY MakeRequestStep, OKShape DEF HttpInv
<1> QED
  BY <1>1, <1>5, <1>6, SettleData

LEMMA ConnectFailedData ==
  ASSUME HttpInv, Data(con), NEW again \in Requests \cup {Null}, ConnectFailed(again)
  PROVE  Data(con')
<1> DEFINE t(no) == evhttp_connection_reset(Run(no))
           u(no) == [t(no) EXCEPT !.queue = Tail(@), !.where[Head(t(no).queue)] = "none"]
           v(no) == IF again = Null THEN t(no) ELSE evhttp_make_request(u(no), again)
           z(no) == [v(no) EXCEPT !.queue = <<>>, !.where = [r \in Requests |-> "none"]]
<1>1. PICK no : con' = [z(no) EXCEPT !.refuse = FALSE]
  BY DEF ConnectFailed, OnEvent, Handle, Run
<1>2. Shape(t(no)) /\ Blank(t(no)) /\ t(no).state = "DISCONNECTED"
  BY RunData, ResetFacts, ResetBlank
<1> HIDE DEF t
<1>3. ASSUME again # Null PROVE Blank(v(no))
  <2> DEFINE a == [u(no) EXCEPT !.queue = Append(@, again), !.where[again] = "queued"]
  <2>1. Shape(u(no)) /\ SameData(u(no), t(no)) /\ u(no).state = "DISCONNECTED"
    BY <1>2 DEF Shape, SameData
  <2>2. v(no) = evhttp_make_request(u(no), again)
    BY <1>3
  <2> HIDE DEF u, v
  <2>3. Shape(a) /\ SameData(a, u(no)) /\ a.state = "DISCONNECTED"
    BY <2>1 DEF Shape, SameData
  <2>4. v(no) = evhttp_connection_connect(a)
    BY <2>1, <2>2 DEF evhttp_make_request, evhttp_connected
  <2> HIDE DEF a
  <2>5. Typed(a)
    BY <1>2, <2>1, <2>3, SameIsTyped DEF Blank
  <2> QED
    BY <2>3, <2>4, <2>5, ConnectBlank
<1>4. Blank(v(no))
  <2>1. again = Null => v(no) = t(no)
    OBVIOUS
  <2> HIDE DEF v
  <2> QED
    BY <1>2, <1>3, <2>1
<1> HIDE DEF v
<1>5. Shape(con')
  BY ConnectFailedStep, OKShape DEF HttpInv
<1>6. SameData(con', v(no)) /\ con'.state = v(no).state /\ con'.ev = v(no).ev
  BY <1>1, <1>5 DEF Shape, SameData
<1> QED
  BY <1>4, <1>6, BlankData, SameIsData

LEMMA DetectCloseData ==
  ASSUME HttpInv, Data(con), DetectClose
  PROVE  Data(con')
<1> DEFINE s(no) == [[con EXCEPT !.refuse = no] EXCEPT !.closeEv = FALSE, !.ran = ~@]
           t(no) == evhttp_connection_reset(s(no))
<1>1. PICK no : con' = [t(no) EXCEPT !.refuse = FALSE]
  BY DEF DetectClose, Handle
<1>2. Shape(s(no)) /\ SameData(s(no), con)
  <2>1. Shape(con)
    BY OKShape DEF HttpInv
  <2> QED
    BY <2>1 DEF Shape, SameData
<1> HIDE DEF s
<1>3. Data(t(no))
  BY <1>2, SameIsTyped, ResetBlank, BlankData DEF Data
<1>4. Shape(con')
  BY DetectCloseStep, OKShape DEF HttpInv
<1> QED
  BY <1>1, <1>3, <1>4, SettleData

\* Nothing has come over a new connection.
LEMMA FreshBlank == ASSUME NEW role \in Roles PROVE Blank(Fresh(role)) /\ Fresh(role).eof = FALSE
<1> DEFINE f == Fresh(role)
<1>1. /\ f.inbuf = <<>> /\ f.wire = <<>> /\ f.sent = <<>> /\ f.last = <<0, 0>>
      /\ f.role = role /\ f.eof = FALSE /\ f.ev = "none" /\ f.state = "DISCONNECTED"
      /\ f.msg.body = 0 /\ f.msg.ntoread = 0
  BY DEF Fresh, NoMessage
<1> HIDE DEF f
<1>2. <<>> \in Tokens /\ <<>> \in Seq(Nat) /\ f.last[1] = f.last[2]
  BY <1>1 DEF Tokens
<1>3. f.eof \in BOOLEAN
  BY <1>1, Zenon
<1>4. f.msg.body \in Nat /\ f.msg.ntoread \in Int
  BY <1>1
<1>5. f.inbuf \in Tokens /\ f.wire \in Tokens /\ f.sent \in Seq(Nat)
  BY <1>1, <1>2
<1>6. Typed(f)
  BY <1>1, <1>2, <1>3, <1>4, <1>5, Zenon DEF Typed
<1>7. Blank(f)
  BY <1>1, <1>6 DEF Blank
<1> QED
  BY <1>1, <1>7 DEF f

LEMMA ReplaceData ==
  ASSUME HttpInv, Data(con), ReplaceConnection
  PROVE  Data(con')
<1> DEFINE f == Fresh("client")
           t(no) == [f EXCEPT !.ran = [con EXCEPT !.refuse = no].ran]
<1>1. PICK no : con' = [t(no) EXCEPT !.refuse = FALSE]
  BY DEF ReplaceConnection, Handle
<1>2. Data(f)
  <2>1. con.role = "client" /\ con.role \in Roles
    BY DEF ReplaceConnection, Data, Typed
  <2> QED
    BY <2>1, FreshBlank, BlankData
<1> HIDE DEF f
<1>3. Shape(con')
  BY ReplaceStep, OKShape DEF HttpInv
<1>4. SameData(con', f) /\ con'.state = f.state /\ con'.ev = f.ev
  BY <1>1, <1>3 DEF Shape, SameData
<1> QED
  BY <1>2, <1>4, SameIsData

LEMMA AcceptData ==
  ASSUME HttpInv, Data(con), Accept
  PROVE  Data(con')
<1> DEFINE f == Fresh("server")
           t == [f EXCEPT !.fd = TRUE, !.may = MaxSent, !.where = con.where,
                          !.started = con.started, !.ran = con.ran]
<1>1. con' = evhttp_associate_new_request_with_connection(t)
  BY DEF Accept
<1>2. Shape(f) /\ Blank(f)
  <2>1. con.role = "server" /\ con.role \in Roles
    BY DEF Accept, Data, Typed
  <2> QED
    BY <2>1, FreshFacts, FreshBlank
<1> HIDE DEF f
<1>3. Shape(t) /\ SameData(t, f)
  BY <1>2 DEF Shape, SameData
<1> HIDE DEF t
<1>4. Typed(t) /\ Aligned(t)
  BY <1>2, <1>3, BlankData, SameIsTyped DEF Blank
<1> QED
  BY <1>1, <1>3, <1>4, AssociateData

LEMMA FreeData ==
  ASSUME HttpInv, Data(con), EvhttpFree
  PROVE  Data(con')
<1> DEFINE t(no) == [con EXCEPT !.refuse = no]
<1>1. PICK no : con' = [evhttp_connection_free(t(no)) EXCEPT !.refuse = FALSE]
  BY DEF EvhttpFree, Handle
<1>2. Shape(t(no)) /\ SameData(t(no), con)
  <2>1. Shape(con)
    BY OKShape DEF HttpInv
  <2> QED
    BY <2>1 DEF Shape, SameData
<1> HIDE DEF t
<1>3. Data(evhttp_connection_free(t(no)))
  BY <1>2, SameIsTyped, FreeBlank, BlankData DEF Data
<1>4. Shape(con')
  BY FreeStep, OKShape DEF HttpInv
<1> QED
  BY <1>1, <1>3, <1>4, SettleData

\* While user code holds the request of the connection its message is whole.
LEMMA HeldData ==
  ASSUME HttpInv, Data(con), NEW r \in Requests, con.where[r] = "held"
  PROVE  con.eof = TRUE \/ Aligned(con)
<1>1. con.ev # "read" /\ ~con.msg.userdone
  BY HeldFacts
<1> QED
  BY <1>1 DEF Data, InStep, Rejected

\* An answer leaves what is read alone.
LEMMA AnswerData ==
  ASSUME HttpInv, Data(con), NEW r \in Requests, con.where[r] = "held", NEW t,
         t.inbuf = con.inbuf, t.wire = con.wire, t.sent = con.sent, t.last = con.last,
         t.role = con.role, t.eof = con.eof, t.msg.body = con.msg.body,
         t.msg.ntoread = con.msg.ntoread, t.ev # "read"
  PROVE  Data(t) /\ (t.eof = TRUE \/ Aligned(t))
<1>1. con.eof = TRUE \/ Aligned(con)
  BY HeldData
<1>2. con.role = "server"
  BY HeldFacts DEF ServerOK, Server
<1>3. Typed(t) /\ (Aligned(con) => Aligned(t))
  BY DEF Data, Typed, Aligned
<1> QED
  BY <1>1, <1>2, <1>3 DEF Data, InStep

LEMMA SendReplyData ==
  ASSUME HttpInv, Data(con), NEW r \in Requests, SendReply(r)
  PROVE  Data(con')
<1>1. PICK close : con' = evhttp_send(con, r, close)
  BY DEF SendReply, Answer
<1>2. con.where[r] = "held"
  BY DetachedFacts DEF SendReply, Answer
<1>3. Server(con) /\ Len(con.queue) = 1 /\ r = Head(con.queue)
  BY <1>2, HeldFacts DEF ServerOK
<1>4. con.eof = TRUE \/ Aligned(con)
  BY <1>2, HeldData
<1> QED
  BY <1>1, <1>3, <1>4, SendData DEF Data

LEMMA SendReplyStartData ==
  ASSUME HttpInv, Data(con), NEW r \in Requests, SendReplyStart(r)
  PROVE  Data(con')
<1> DEFINE n == con.out + 1
           c == con.msg.chunked \/ con.msg.type # "get10"
           t == [con EXCEPT !.started = @ \cup {r}, !.out = n, !.msg.chunked = c,
                            !.cb = "null", !.ev = "write"]
<1>1. con.where[r] = "held"
  BY DetachedFacts DEF SendReplyStart, Answer
<1>2. con' = t
  BY <1>1 DEF SendReplyStart, Answer, evhttp_write_buffer
<1>3. Shape(con)
  BY <1>1, HeldFacts
<1> HIDE DEF n, c
<1>4. /\ t.inbuf = con.inbuf /\ t.wire = con.wire /\ t.sent = con.sent /\ t.last = con.last
      /\ t.role = con.role /\ t.eof = con.eof /\ t.msg.body = con.msg.body
      /\ t.msg.ntoread = con.msg.ntoread /\ t.ev = "write"
  BY <1>3 DEF Shape
<1> HIDE DEF t
<1> QED
  BY <1>1, <1>2, <1>4, AnswerData

LEMMA SendReplyChunkData ==
  ASSUME HttpInv, Data(con), NEW r \in Requests, NEW k \in {0, 1}, SendReplyChunk(r, k)
  PROVE  Data(con')
<1> DEFINE n == IF con.msg.chunked THEN con.out + 1 ELSE con.out + k
           t == [con EXCEPT !.out = n, !.cb = "null", !.ev = "write"]
<1>1. con.where[r] = "held"
  BY DEF SendReplyChunk
<1>2. con' = t
  BY DEF SendReplyChunk, Answer, evhttp_write_buffer
<1>3. Shape(con)
  BY <1>1, HeldFacts
<1> HIDE DEF n
<1>4. /\ t.inbuf = con.inbuf /\ t.wire = con.wire /\ t.sent = con.sent /\ t.last = con.last
      /\ t.role = con.role /\ t.eof = con.eof /\ t.msg.body = con.msg.body
      /\ t.msg.ntoread = con.msg.ntoread /\ t.ev = "write"
  BY <1>3 DEF Shape
<1> HIDE DEF t
<1> QED
  BY <1>1, <1>2, <1>4, AnswerData

LEMMA SendReplyEndData ==
  ASSUME HttpInv, Data(con), NEW r \in Requests, SendReplyEnd(r)
  PROVE  Data(con')
<1> DEFINE d == [con EXCEPT !.where[r] = "queued", !.msg.userdone = TRUE]
           chunk == [d EXCEPT !.out = @ + 1, !.msg.chunked = FALSE, !.cb = "send_done",
                              !.ev = "write"]
           last == [d EXCEPT !.cb = "send_done"]
<1>1. CASE con.where[r] = "detached"
  <2> DEFINE t == [con EXCEPT !.where[r] = "none", !.started = @ \ {r}]
  <2>1. con' = t
    BY <1>1 DEF SendReplyEnd, Answer
  <2>2. SameData(t, con) /\ t.state = con.state /\ t.ev = con.ev
    <3>1. Shape(con)
      BY OKShape DEF HttpInv
    <3> QED
      BY <3>1 DEF Shape, SameData
  <2> HIDE DEF t
  <2> QED
    BY <2>1, <2>2, SameIsData
<1>2. CASE con.where[r] = "held"
  <2>1. con' = IF con.msg.chunked THEN chunk
               ELSE IF con.ev = "none" THEN evhttp_send_done(d) ELSE last
    BY <1>2 DEF SendReplyEnd, Answer, evhttp_write_buffer
  <2>2. Shape(con) /\ con.ev \in {"none", "write"}
    BY <1>2, HeldFacts
  <2>3. /\ Shape(d) /\ d.inbuf = con.inbuf /\ d.wire = con.wire /\ d.sent = con.sent
        /\ d.last = con.last /\ d.role = con.role /\ d.eof = con.eof
        /\ d.msg.body = con.msg.body /\ d.msg.ntoread = con.msg.ntoread /\ d.ev = con.ev
    BY <2>2 DEF Shape
  <2> HIDE DEF d
  <2>4. Data(d) /\ (d.eof = TRUE \/ Aligned(d))
    BY <1>2, <2>2, <2>3, AnswerData
  <2>5. Data(evhttp_send_done(d))
    BY <2>3, <2>4, SendDoneData DEF Data
  <2>6. Data(chunk)
    <3>1. /\ chunk.inbuf = d.inbuf /\ chunk.wire = d.wire /\ chunk.sent = d.sent
          /\ chunk.last = d.last /\ chunk.role = d.role /\ chunk.eof = d.eof
          /\ chunk.msg.body = d.msg.body /\ chunk.msg.ntoread = d.msg.ntoread
          /\ chunk.ev = "write"
      BY <2>3 DEF Shape
    <3> HIDE DEF chunk
    <3> QED
      BY <1>2, <2>3, <3>1, AnswerData
  <2>7. Data(last)
    <3>1. SameData(last, d) /\ last.state = d.state /\ last.ev = d.ev
      BY <2>3 DEF Shape, SameData
    <3> HIDE DEF last
    <3> QED
      BY <2>4, <3>1, SameIsData
  <2> HIDE DEF chunk, last
  <2> QED
    BY <2>1, <2>5, <2>6, <2>7
<1> QED
  BY <1>1, <1>2 DEF SendReplyEnd, Answer

\* The peer sends a message of its own, behind those it has sent.
LEMMA PeerSendsData ==
  ASSUME HttpInv, Data(con), NEW m \in Messages[con.role], PeerSends(m)
  PROVE  Data(con')
<1> DEFINE w == con.wire \o m
           v == Append(con.sent, Units(m))
           n == con.may - 1
           c == con'
<1>1. c = [con EXCEPT !.wire = w, !.sent = v, !.may = n]
  BY DEF PeerSends
<1>2. Shape(con)
  BY OKShape DEF HttpInv
<1> HIDE DEF w, v, n, c
<1>3. /\ c.wire = w /\ c.sent = v /\ c.inbuf = con.inbuf /\ c.msg = con.msg
      /\ c.last = con.last /\ c.role = con.role /\ c.eof = con.eof /\ c.state = con.state
      /\ c.ev = con.ev
  BY <1>1, <1>2 DEF Shape
<1>4. /\ con.inbuf \in Tokens /\ con.wire \in Tokens /\ con.sent \in Seq(Nat)
      /\ con.role \in Roles
  BY DEF Data, Typed
<1>5. m \in Tokens /\ Units(m) \in Nat
  <2>1. m \in Tokens
    BY <1>4, MessagesAssumption DEF WellFramed, Tokens
  <2> QED
    BY <2>1, UnitsFacts
<1>6. w \in Tokens /\ v \in Seq(Nat)
  BY <1>4, <1>5, JoinFacts, AppendProperties DEF w, v
<1>7. con.inbuf \o w = (con.inbuf \o con.wire) \o m
  <2> DEFINE x == con.inbuf
             y == con.wire
  <2>1. x \in Seq(STRING) /\ y \in Seq(STRING) /\ m \in Seq(STRING)
    BY <1>4, <1>5 DEF Tokens
  <2> HIDE DEF x, y
  <2>2. (x \o y) \o m = x \o (y \o m)
    BY <2>1, ConcatAssociative
  <2> QED
    BY <2>2 DEF x, y, w
<1>8. Aligned(con) => Aligned(c)
  <2>1. ASSUME Aligned(con) PROVE Stream(con.role, (con.inbuf \o con.wire) \o m, v)
    <3> DEFINE seq == con.inbuf \o con.wire
               role == con.role
               sent == con.sent
    <3>1. Stream(role, seq, sent) /\ role \in Roles /\ m \in Messages[role]
      BY <1>4, <2>1 DEF Aligned
    <3> HIDE DEF seq, role, sent
    <3>2. Stream(role, seq \o m, Append(sent, Units(m)))
      BY <3>1, StreamGrows
    <3> QED
      BY <3>2 DEF seq, role, sent, v
  <2> QED
    BY <1>3, <1>7, <2>1 DEF Aligned
<1>9. ASSUME NEW rest \in Tokens, NEW u \in Tokens, Fit(con, rest, u), Expects(con, rest)
      PROVE  u \o m \in Tokens /\ Fit(c, rest, u \o m) /\ Expects(c, rest)
  <2>1. /\ con.inbuf \o con.wire = rest \o u /\ con.sent # <<>>
        /\ Stream(con.role, u, Tail(con.sent))
    BY <1>9 DEF Fit
  <2>2. v # <<>> /\ Head(v) = Head(con.sent) /\ Tail(v) = Append(Tail(con.sent), Units(m))
    <3> DEFINE s == con.sent
               x == Units(m)
    <3>1. s \in Seq(Nat) /\ s # <<>> /\ x \in Nat
      BY <1>4, <1>5, <2>1
    <3> HIDE DEF s, x
    <3>2. Append(s, x) # <<>> /\ Head(Append(s, x)) = Head(s)
          /\ Tail(Append(s, x)) = Append(Tail(s), x)
      BY <3>1, HeadTailAppend, AppendProperties
    <3> QED
      BY <3>2 DEF s, x, v
  <2>3. u \o m \in Tokens
    BY <1>5, <1>9, JoinFacts
  <2>4. (rest \o u) \o m = rest \o (u \o m)
    <3>1. rest \in Seq(STRING) /\ u \in Seq(STRING) /\ m \in Seq(STRING)
      BY <1>5 DEF Tokens
    <3> QED
      BY <3>1, ConcatAssociative
  <2>5. Stream(con.role, u \o m, Append(Tail(con.sent), Units(m)))
    <3> DEFINE role == con.role
               tail == Tail(con.sent)
    <3>1. Stream(role, u, tail) /\ role \in Roles /\ m \in Messages[role]
      BY <1>4, <2>1
    <3> HIDE DEF role, tail
    <3>2. Stream(role, u \o m, Append(tail, Units(m)))
      BY <3>1, StreamGrows
    <3> QED
      BY <3>2 DEF role, tail
  <2>6. Fit(c, rest, u \o m)
    BY <1>3, <1>7, <1>9, <2>1, <2>2, <2>3, <2>4, <2>5 DEF Fit
  <2>7. Expects(c, rest)
    BY <1>3, <1>9, <2>2 DEF Expects
  <2> QED
    BY <2>3, <2>6, <2>7
<1>10. Clean(con) => Clean(c)
  BY <1>3 DEF Clean
<1>11. InMessage(con) => InMessage(c)
  BY <1>3, <1>8, <1>9, <1>10 DEF InMessage
<1>12. Typed(c)
  BY <1>3, <1>6 DEF Data, Typed
<1>13. InStep(c)
  BY <1>3, <1>8, <1>10, <1>11 DEF Data, InStep, Rejected
<1> QED
  BY <1>12, <1>13 DEF Data, c

LEMMA PeerClosesData ==
  ASSUME HttpInv, Data(con), PeerCloses
  PROVE  Data(con')
<1>1. Shape(con)
  BY OKShape DEF HttpInv
<1>2. SameData(con', con) /\ con'.state = con.state /\ con'.ev = con.ev
  BY <1>1 DEF PeerCloses, Shape, SameData
<1> QED
  BY <1>2, SameIsData

\* Reading never falls out of step with the messages of the peer.
LEMMA DataInvariance == Spec => [](HttpInv /\ Data(con))
<1>1. Init => Data(con)
  <2> SUFFICES ASSUME NEW role \in Roles,
                      con \in {Fresh(role), [Fresh(role) EXCEPT !.alive = FALSE]}
               PROVE  Data(con)
    BY DEF Init
  <2> DEFINE f == Fresh(role)
             d == [f EXCEPT !.alive = FALSE]
  <2>1. Data(f) /\ Shape(f)
    BY FreshBlank, BlankData, FreshFacts
  <2> HIDE DEF f
  <2>2. SameData(d, f) /\ d.state = f.state /\ d.ev = f.ev
    BY <2>1 DEF Shape, SameData
  <2>3. Data(d)
    <3> HIDE DEF d
    <3> QED
      BY <2>1, <2>2, SameIsData
  <2> QED
    BY <2>1, <2>3 DEF f
<1>2. HttpInv /\ Data(con) /\ [Next]_con => Data(con')
  <2> SUFFICES ASSUME HttpInv, Data(con), [Next]_con PROVE Data(con')
    OBVIOUS
  <2>1. CASE EventStep
    BY <2>1, ConnectedData, ConnectAgainData, RetryData, ConnectFailedData, WriteData,
       WriteFailsData, ReadData, ReadEOFData, ReadFailsData, DetectCloseData DEF EventStep
  <2>2. CASE \E r \in Requests : MakeRequest(r)
    BY <2>2, MakeRequestData
  <2>3. CASE ReplaceConnection \/ Accept \/ EvhttpFree
    BY <2>3, ReplaceData, AcceptData, FreeData
  <2>4. CASE \E r \in Requests : SendReply(r) \/ SendReplyStart(r) \/ SendReplyEnd(r)
    BY <2>4, SendReplyData, SendReplyStartData, SendReplyEndData
  <2>5. CASE \E r \in Requests, k \in {0, 1} : SendReplyChunk(r, k)
    BY <2>5, SendReplyChunkData
  <2>6. CASE (\E m \in Messages[con.role] : PeerSends(m)) \/ PeerCloses
    BY <2>6, PeerSendsData, PeerClosesData
  <2>7. CASE UNCHANGED con
    BY <2>7
  <2> QED
    BY <2>1, <2>2, <2>3, <2>4, <2>5, <2>6, <2>7 DEF Next
<1>3. HttpInv /\ Data(con) /\ [Next]_con => (Data(con))'
  BY <1>2
<1> QED
  BY <1>1, <1>3, HttpInvariance, PTL DEF Spec

\* The body that user code is handed is the one the peer sent, wherever the
\* reads cut its message, however that is framed and whatever follows it, for
\* any messages that are framed as they say.
THEOREM BodyAlwaysWhole == Spec => []WholeBody
<1>1. Data(con) => WholeBody
  BY DEF Data, Typed, WholeBody
<1> QED
  BY <1>1, DataInvariance, PTL
=============================================================================
