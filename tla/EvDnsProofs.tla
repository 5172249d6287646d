----------------------------- MODULE EvDnsProofs -----------------------------
(***************************************************************************)
(* The resolver of evdns.c keeps its counters exact, carries every query   *)
(* by one request, goes on sending, probes every server that is down, and  *)
(* fails no assertion: for any servers, queries, search lists, limits and  *)
(* losses, as long as user code is careful (Careful).                      *)
(***************************************************************************)
EXTENDS EvDns, FiniteSetTheorems, SequenceTheorems, WellFoundedInduction, TLAPS

\* The fields of the record.
Shape(s) ==
  DOMAIN s = {"ring", "up", "good", "timedout", "timer", "choked", "writing", "inflight",
              "waiting", "nInflight", "nWaiting", "limit", "search", "states", "pending",
              "turn", "left", "fault", "net", "again", "picked"}

Requests ==
  [who : Queries \cup Servers \cup {Freed}, ns : Servers \cup {Null}, id : BOOLEAN,
   tx : Nat, reissue : Nat, transmit : BOOLEAN, timer : BOOLEAN,
   state : States \cup {Null}, index : Int]

Elements(q) == {q[i] : i \in 1 .. Len(q)}
Ring(s) == Elements(s.ring)

\* The servers: good counts those that are up, only one that is down has a
\* timer, and a socket that is choked is waited for.
ServersOK(s) ==
  /\ s.ring \in Seq(Servers)
  /\ s.up \subseteq Ring(s) /\ IsFiniteSet(s.up) /\ s.good = Cardinality(s.up)
  /\ s.timer \subseteq Ring(s) \ s.up
  /\ s.choked \subseteq s.writing

\* A probe is of a server in the list, and is no part of a search.
Plain(r, ring) ==
  /\ r.who \in Servers => r.who \in ring
  /\ r.state # Null => r.who \in Queries

\* A request in flight has what it takes to be sent, and will be.
Sendable(r, ring) == r.id /\ r.ns \in ring
Going(r, writing) == r.timer \/ (r.transmit /\ writing # {})

\* Those at the places in held are with a handler, which will see to them.
FlightOK(inflight, ring, writing, held) ==
  /\ inflight \in Seq(Requests)
  /\ \A i \in 1 .. Len(inflight) :
       /\ Plain(inflight[i], ring) /\ Sendable(inflight[i], ring)
       /\ i \in held \/ Going(inflight[i], writing)

\* No probe waits: it goes out at once, or its server has been freed.
WaitingOK(waiting) ==
  waiting \in Seq(Requests) /\ \A i \in 1 .. Len(waiting) : Plain(waiting[i], {})

Base(s, held) ==
  /\ Shape(s) /\ ServersOK(s)
  /\ FlightOK(s.inflight, Ring(s), s.writing, held) /\ WaitingOK(s.waiting)
  /\ s.nInflight = Len(s.inflight) /\ s.nWaiting = Len(s.waiting)
  /\ s.limit \in Nat \ {0}
  /\ s.net \in Seq(Outcomes) /\ s.again \in Queries \cup {Null}
  /\ s.fault \in {"none", "freed"}

\* All requests, and those of them that carry x: the one at place d is over.
Listed(s) == s.inflight \o s.waiting
Carries(list, d, x) == \E p \in 1 .. Len(list) : p # d /\ list[p].who = x

\* Queries and requests.  Who is in limbo is with a handler: a query that is
\* pending but carried by nobody, a server whose probe is to be sent.
Live(list, d, limbo, pending, unwatched) ==
  /\ pending \in [Queries -> {0, 1}]
  /\ \A q \in Queries :
       Carries(list, d, q) <=> pending[q] = 1 /\ q \notin limbo
  /\ \A q \in Queries \cap limbo : pending[q] = 1
  /\ \A p, r \in 1 .. Len(list) :
       p # d /\ r # d /\ list[p].who = list[r].who /\ list[p].who \in Queries => p = r
  /\ \A n \in unwatched : n \in limbo \/ Carries(list, d, n)

\* The servers that only a probe under way will try.
Unwatched(s) == Ring(s) \ (s.up \cup s.timer)

\* The queries a search state is held for, the request at place d aside.
HeldFor(list, d, k) ==
  {q \in Queries : \E p \in 1 .. Len(list) : p # d /\ list[p].who = q /\ list[p].state = k}

One(b) == IF b THEN 1 ELSE 0

\* What the search of a request would still try.
Tries(r, states) ==
  IF r.state = Null THEN <<>>
  ELSE SubSeq(states[r.state].domains, r.index + 2, Len(states[r.state].domains)) \o
       (IF Dots(r.who) < states[r.state].ndots THEN <<Null>> ELSE <<>>)

SearchStates == [refcount : Nat, ndots : Nat, domains : Seq(Domains)]

\* The count of a state is exact, so that it is freed with its last holder; and
\* each request that goes on will try what is left.
Tracked(list, d, states, search, left) ==
  /\ states \in [States -> SearchStates] /\ search \in States \cup {Null}
  /\ left \in [Queries -> Seq(Domains \cup {Null})]
  /\ \A k \in States :
       states[k].refcount =
         Cardinality(HeldFor(list, d, k)) + One(search = k)
           + One(d \in 1 .. Len(list) /\ list[d].state = k)
  /\ \A p \in 1 .. Len(list) :
       list[p].index >= -1 /\
       (p # d /\ list[p].who \in Queries => Tries(list[p], states) = left[list[p].who])

Resolver(s, held, d, limbo) ==
  /\ Base(s, held)
  /\ Live(Listed(s), d, limbo, s.pending, Unwatched(s))
  /\ Tracked(Listed(s), d, s.states, s.search, s.left)

DnsInv == dns.fault = "freed" \/ (dns.fault = "none" /\ Resolver(dns, {}, 0, {}))

-----------------------------------------------------------------------------
(* Sequences and least elements.                                           *)

\* A set of natural numbers has a least element.
LEMMA LeastExists ==
  ASSUME NEW P \in SUBSET Nat, P # {}
  PROVE  \E m \in P : \A k \in P : m <= k
<1>1. PICK m \in P : \A k \in P : <<k, m>> \notin OpToRel(<, Nat)
  BY WFMin, NatLessThanWellFounded, Zenon
<1>2. \A k \in P : ~(k < m)
  BY <1>1, Zenon DEF OpToRel
<1> QED
  BY <1>2

LEMMA MinFacts ==
  ASSUME NEW P \in SUBSET Nat, P # {}
  PROVE  Min(P) \in P /\ \A k \in P : Min(P) <= k
  BY LeastExists, Zenon DEF Min

\* One element is replaced.
LEMMA PlaceFacts ==
  ASSUME NEW S, NEW q \in Seq(S), NEW i \in 1 .. Len(q), NEW r \in S
  PROVE  LET t == [q EXCEPT ![i] = r]
         IN  /\ t \in Seq(S) /\ Len(t) = Len(q) /\ t[i] = r
             /\ \A j \in 1 .. Len(q) : j # i => t[j] = q[j]
  BY ExceptSeq

\* The ring turns.
LEMMA RotateFacts ==
  ASSUME NEW S, NEW q \in Seq(S), NEW k \in 1 .. Len(q)
  PROVE  /\ Rotate(q, k) \in Seq(S) /\ Len(Rotate(q, k)) = Len(q)
         /\ Elements(Rotate(q, k)) = Elements(q)
<1> DEFINE a == SubSeq(q, k + 1, Len(q))
           b == SubSeq(q, 1, k)
<1>1. Len(q) \in Nat /\ k \in Int /\ 1 <= k /\ k <= Len(q)
  OBVIOUS
<1>2. /\ a \in Seq(S) /\ Len(a) = Len(q) - k
      /\ \A i \in 1 .. Len(q) - k : a[i] = q[k + i]
  <2>1. \A i \in k + 1 .. Len(q) : q[i] \in S
    BY <1>1
  <2> QED
    BY <1>1, <2>1, SubSeqProperties
<1>3. b \in Seq(S) /\ Len(b) = k /\ \A i \in 1 .. k : b[i] = q[i]
  <2>1. \A i \in 1 .. k : q[i] \in S
    BY <1>1
  <2> QED
    BY <1>1, <2>1, SubSeqProperties
<1> HIDE DEF a, b
<1> DEFINE t == a \o b
<1>4. /\ t \in Seq(S) /\ Len(t) = Len(q)
      /\ \A i \in 1 .. Len(q) : t[i] = IF i <= Len(a) THEN a[i] ELSE b[i - Len(a)]
  <2>1. /\ t \in Seq(S) /\ Len(t) = Len(a) + Len(b)
        /\ \A i \in 1 .. Len(a) + Len(b) : t[i] = IF i <= Len(a) THEN a[i] ELSE b[i - Len(a)]
    BY <1>2, <1>3, ConcatProperties
  <2>2. Len(a) + Len(b) = Len(q)
    BY <1>1, <1>2, <1>3
  <2> QED
    BY <2>1, <2>2
<1> HIDE DEF t
<1>5. \A i \in 1 .. Len(q) : t[i] \in Elements(q)
  <2> SUFFICES ASSUME NEW i \in 1 .. Len(q) PROVE \E j \in 1 .. Len(q) : t[i] = q[j]
    BY DEF Elements
  <2>1. CASE i <= Len(a)
    <3>1. i \in 1 .. Len(q) - k /\ k + i \in 1 .. Len(q)
      BY <1>1, <1>2, <2>1
    <3> QED
      BY <1>2, <1>4, <2>1, <3>1
  <2>2. CASE ~(i <= Len(a))
    <3>1. i - Len(a) \in 1 .. k
      BY <1>1, <1>2, <2>2
    <3>2. t[i] = q[i - Len(a)]
      BY <1>3, <1>4, <2>2, <3>1
    <3> QED
      BY <1>1, <3>1, <3>2
  <2> QED
    BY <2>1, <2>2
<1>6. \A j \in 1 .. Len(q) : q[j] \in Elements(t)
  <2> SUFFICES ASSUME NEW j \in 1 .. Len(q) PROVE \E i \in 1 .. Len(t) : t[i] = q[j]
    BY DEF Elements
  <2>1. CASE j <= k
    <3>1. j + Len(a) \in 1 .. Len(q) /\ ~(j + Len(a) <= Len(a)) /\ (j + Len(a)) - Len(a) = j
      BY <1>1, <1>2, <2>1
    <3>2. t[j + Len(a)] = b[j]
      BY <1>4, <3>1
    <3> QED
      BY <1>1, <1>3, <1>4, <2>1, <3>1, <3>2
  <2>2. CASE ~(j <= k)
    <3>1. j - k \in 1 .. Len(q) - k /\ j - k <= Len(a) /\ j - k \in 1 .. Len(q) /\ k + (j - k) = j
      BY <1>1, <1>2, <2>2
    <3>2. t[j - k] = a[j - k] /\ a[j - k] = q[k + (j - k)]
      BY <1>2, <1>4, <3>1
    <3> QED
      BY <1>4, <3>1, <3>2
  <2> QED
    BY <2>1, <2>2
<1>7. Elements(t) = Elements(q)
  BY <1>4, <1>5, <1>6 DEF Elements
<1>8. Rotate(q, k) = t
  BY DEF Rotate, t, a, b
<1> QED
  BY <1>4, <1>7, <1>8

-----------------------------------------------------------------------------
(* Functions that leave the requests to those they are for.                *)

\* The fields that belong to user code and its searches.
SameUser(s, t) ==
  /\ t.limit = s.limit /\ t.search = s.search /\ t.states = s.states
  /\ t.pending = s.pending /\ t.turn = s.turn /\ t.left = s.left /\ t.again = s.again

SameLists(s, t) ==
  /\ t.inflight = s.inflight /\ t.waiting = s.waiting
  /\ t.nInflight = s.nInflight /\ t.nWaiting = s.nWaiting

SameServers(s, t) == t.up = s.up /\ t.good = s.good /\ t.timer = s.timer
SameSockets(s, t) == t.choked = s.choked /\ t.writing = s.writing /\ t.net = s.net

\* nameserver_pick turns the ring to a server, unless there is none.
Picks(s, t) ==
  /\ Shape(t) /\ SameUser(s, t) /\ SameLists(s, t) /\ SameServers(s, t) /\ SameSockets(s, t)
  /\ t.fault = s.fault
  /\ t.ring \in Seq(Servers) /\ Ring(t) = Ring(s)
  /\ IF s.ring = <<>> THEN t.picked = Null ELSE t.picked \in Ring(s)

LEMMA PickFacts ==
  ASSUME NEW s, Shape(s), ServersOK(s)
  PROVE  Picks(s, nameserver_pick(s))
<1> DEFINE t == nameserver_pick(s)
           good == {i \in DOMAIN s.ring : s.ring[i] \in s.up}
<1>1. s.ring \in Seq(Servers) /\ DOMAIN s.ring = 1 .. Len(s.ring) /\ Len(s.ring) \in Nat
  BY DEF ServersOK
<1>2. CASE s.ring = <<>>
  <2>1. t = [s EXCEPT !.picked = Null]
    BY <1>2 DEF nameserver_pick
  <2> QED
    BY <1>1, <1>2, <2>1 DEF Picks, Shape, SameUser, SameLists, SameServers, SameSockets, Ring
<1>3. ASSUME s.ring # <<>>, NEW k \in 1 .. Len(s.ring), NEW n \in Ring(s),
             t = [s EXCEPT !.ring = Rotate(s.ring, k), !.picked = n]
      PROVE  Picks(s, t)
  <2>1. Rotate(s.ring, k) \in Seq(Servers) /\ Elements(Rotate(s.ring, k)) = Ring(s)
    BY <1>1, RotateFacts DEF Ring
  <2>2. /\ Shape(t) /\ SameUser(s, t) /\ SameLists(s, t) /\ SameServers(s, t)
        /\ SameSockets(s, t) /\ t.fault = s.fault
        /\ t.ring = Rotate(s.ring, k) /\ t.picked = n
    BY <1>3 DEF Shape, SameUser, SameLists, SameServers, SameSockets
  <2> HIDE DEF t
  <2> QED
    BY <1>3, <2>1, <2>2 DEF Picks, Ring
<1>4. CASE s.ring # <<>> /\ s.good = 0
  <2>1. 1 \in 1 .. Len(s.ring)
    BY <1>1, <1>4
  <2> DEFINE r == Rotate(s.ring, 1)
  <2>2. r \in Seq(Servers) /\ Len(r) = Len(s.ring) /\ Elements(r) = Ring(s)
    BY <1>1, <2>1, RotateFacts DEF Ring
  <2> HIDE DEF r
  <2>3. Head(r) = r[1] /\ r[1] \in Elements(r)
    BY <2>1, <2>2 DEF Elements
  <2>4. t = [s EXCEPT !.ring = Rotate(s.ring, 1), !.picked = Head(r)]
    BY <1>4 DEF nameserver_pick, r
  <2>5. Head(r) \in Ring(s)
    BY <2>2, <2>3
  <2> DEFINE n == Head(r)
  <2>6. t = [s EXCEPT !.ring = Rotate(s.ring, 1), !.picked = n] /\ n \in Ring(s)
    BY <2>4, <2>5
  <2> HIDE DEF n
  <2> QED
    BY <1>3, <1>4, <2>1, <2>6
<1>5. CASE s.ring # <<>> /\ s.good # 0
  <2>1. good # {} /\ good \in SUBSET Nat
    <3>1. s.up # {}
      BY <1>5, FS_EmptySet DEF ServersOK
    <3>2. PICK n \in s.up : \E i \in 1 .. Len(s.ring) : n = s.ring[i]
      BY <3>1 DEF ServersOK, Ring, Elements
    <3> QED
      BY <1>1, <3>2
  <2>2. Min(good) \in good
    <3> HIDE DEF good
    <3> QED
      BY <2>1, MinFacts
  <2>3. Min(good) \in 1 .. Len(s.ring) /\ s.ring[Min(good)] \in Ring(s)
    <3> DEFINE k == Min(good)
    <3>1. k \in DOMAIN s.ring
      BY <2>2
    <3> HIDE DEF k
    <3> QED
      BY <1>1, <3>1 DEF Ring, Elements, k
  <2>4. t = [s EXCEPT !.ring = Rotate(s.ring, Min(good)), !.picked = s.ring[Min(good)]]
    BY <1>5, <2>1 DEF nameserver_pick
  <2> QED
    BY <1>3, <1>5, <2>3, <2>4
<1> QED
  BY <1>2, <1>4, <1>5

\* Who a request is for, and where its search stands.
SameName(r, u) == u.who = r.who /\ u.state = r.state /\ u.index = r.index

OnlyMarks(a, b) ==
  /\ b \in Seq(Requests) /\ Len(b) = Len(a)
  /\ \A i \in 1 .. Len(a) : SameName(a[i], b[i])

\* The requests are the same but for how they are being sent, and no server
\* is watched less.
Keeps(s, t) ==
  /\ SameUser(s, t) /\ t.fault = s.fault /\ t.waiting = s.waiting
  /\ Ring(t) = Ring(s) /\ Unwatched(t) \subseteq Unwatched(s)
  /\ OnlyMarks(s.inflight, t.inflight)

LEMMA KeepsSelf ==
  ASSUME NEW s, s.inflight \in Seq(Requests)
  PROVE  Keeps(s, s)
  BY DEF Keeps, SameUser, OnlyMarks, SameName

LEMMA KeepsAgain ==
  ASSUME NEW s, NEW t, NEW u, Keeps(s, t), Keeps(t, u)
  PROVE  Keeps(s, u)
  BY DEF Keeps, SameUser, OnlyMarks, SameName

LEMMA HeldMore ==
  ASSUME NEW s, NEW held, NEW more, Base(s, held), held \subseteq more
  PROVE  Base(s, more)
  BY DEF Base, FlightOK

\* The requests in flight of a state that satisfies Base.
LEMMA FlightFacts ==
  ASSUME NEW s, NEW held, Base(s, held)
  PROVE  /\ s.inflight \in Seq(Requests) /\ Len(s.inflight) \in Nat
         /\ DOMAIN s.inflight = 1 .. Len(s.inflight)
         /\ \A i \in 1 .. Len(s.inflight) :
              /\ s.inflight[i] \in Requests /\ Plain(s.inflight[i], Ring(s))
              /\ s.inflight[i].id /\ s.inflight[i].ns \in Ring(s)
         /\ s.waiting \in Seq(Requests) /\ Len(s.waiting) \in Nat
         /\ s.ring \in Seq(Servers) /\ Ring(s) \subseteq Servers
<1>1. s.inflight \in Seq(Requests) /\ s.waiting \in Seq(Requests) /\ s.ring \in Seq(Servers)
  BY DEF Base, FlightOK, WaitingOK, ServersOK
<1>2. /\ Len(s.inflight) \in Nat /\ DOMAIN s.inflight = 1 .. Len(s.inflight)
      /\ \A i \in 1 .. Len(s.inflight) : s.inflight[i] \in Requests
      /\ Len(s.waiting) \in Nat
  BY <1>1
<1>3. \A i \in 1 .. Len(s.inflight) :
        /\ Plain(s.inflight[i], Ring(s))
        /\ s.inflight[i].id /\ s.inflight[i].ns \in Ring(s)
  BY DEF Base, FlightOK, Sendable
<1>4. Ring(s) \subseteq Servers
  BY <1>1 DEF Ring, Elements
<1> QED
  BY <1>1, <1>2, <1>3, <1>4

\* Request i is replaced by r, and the rest left alone but for the ring.
Replaces(s, t, i, r) ==
  /\ Shape(t) /\ SameUser(s, t) /\ SameServers(s, t) /\ t.fault = s.fault
  /\ t.ring \in Seq(Servers) /\ Ring(t) = Ring(s)
  /\ t.waiting = s.waiting /\ t.nInflight = s.nInflight /\ t.nWaiting = s.nWaiting
  /\ t.inflight = [s.inflight EXCEPT ![i] = r]
  /\ t.net \in Seq(Outcomes) /\ t.choked \subseteq t.writing /\ s.writing \subseteq t.writing

LEMMA ReplaceBase ==
  ASSUME NEW s, NEW held, Base(s, held), NEW i \in 1 .. Len(s.inflight), NEW r \in Requests,
         SameName(s.inflight[i], r), Sendable(r, Ring(s)),
         NEW t, Replaces(s, t, i, r), NEW now, held \ {i} \subseteq now,
         i \in now \/ Going(r, t.writing)
  PROVE  Base(t, now) /\ Keeps(s, t)
<1>1. s.inflight \in Seq(Requests)
  BY FlightFacts
<1>2. /\ t.inflight \in Seq(Requests) /\ Len(t.inflight) = Len(s.inflight) /\ t.inflight[i] = r
      /\ \A j \in 1 .. Len(s.inflight) : j # i => t.inflight[j] = s.inflight[j]
  <2>1. t.inflight = [s.inflight EXCEPT ![i] = r]
    BY DEF Replaces
  <2> QED
    BY <1>1, <2>1, PlaceFacts
<1>3. ServersOK(t)
  BY DEF Base, ServersOK, Replaces, SameServers
<1>4. FlightOK(t.inflight, Ring(t), t.writing, now)
  <2> SUFFICES ASSUME NEW j \in 1 .. Len(s.inflight)
               PROVE  /\ Plain(t.inflight[j], Ring(s)) /\ Sendable(t.inflight[j], Ring(s))
                      /\ j \in now \/ Going(t.inflight[j], t.writing)
    BY <1>2 DEF FlightOK, Replaces
  <2>1. /\ Plain(s.inflight[j], Ring(s)) /\ Sendable(s.inflight[j], Ring(s))
        /\ j \in held \/ Going(s.inflight[j], s.writing)
    BY DEF Base, FlightOK
  <2>2. CASE j = i
    BY <1>2, <2>1, <2>2 DEF Plain, SameName
  <2>3. CASE j # i
    BY <1>2, <2>1, <2>3 DEF Going, Replaces
  <2> QED
    BY <2>2, <2>3
<1>5. WaitingOK(t.waiting)
  BY DEF Base, Replaces
<1>6. Base(t, now)
  BY <1>2, <1>3, <1>4, <1>5 DEF Base, Replaces, SameUser
<1>7. Keeps(s, t)
  BY <1>2 DEF Keeps, Replaces, OnlyMarks, SameName, Unwatched, SameServers
<1> QED
  BY <1>6, <1>7

\* A server picked for a request in flight is one of the list.
LEMMA PickFlight ==
  ASSUME NEW s, NEW held, Base(s, held), NEW i \in 1 .. Len(s.inflight)
  PROVE  LET p == nameserver_pick(s)
         IN  Picks(s, p) /\ p.picked \in Ring(s) /\ Base(p, held) /\ Keeps(s, p)
<1> DEFINE p == nameserver_pick(s)
<1>1. Picks(s, p)
  BY PickFacts DEF Base
<1> HIDE DEF p
<1>2. s.ring # <<>>
  <2>1. s.inflight[i].ns \in Ring(s)
    BY FlightFacts
  <2>2. PICK j \in 1 .. Len(s.ring) : s.inflight[i].ns = s.ring[j]
    BY <2>1 DEF Ring, Elements
  <2> QED
    BY <2>2
<1>3. Base(p, held)
  BY <1>1 DEF Base, Picks, ServersOK, SameServers, SameSockets, SameLists, SameUser
<1>4. Keeps(s, p)
  BY <1>1, FlightFacts
     DEF Keeps, Picks, SameServers, SameLists, OnlyMarks, SameName, Unwatched
<1> QED
  BY <1>1, <1>2, <1>3, <1>4 DEF p, Picks

LEMMA ReassignKeeps ==
  ASSUME NEW s, NEW held, Base(s, held), NEW i \in 1 .. Len(s.inflight), NEW n
  PROVE  Base(Reassign(s, i, n), held) /\ Keeps(s, Reassign(s, i, n))
<1> DEFINE p == nameserver_pick(s)
           r == [p.inflight[i] EXCEPT !.ns = p.picked]
           t == [p EXCEPT !.inflight[i].ns = p.picked]
<1>1. Picks(s, p) /\ p.picked \in Ring(s) /\ Base(p, held) /\ Keeps(s, p)
  BY PickFlight
<1> HIDE DEF p
<1>2. p.inflight = s.inflight /\ Ring(p) = Ring(s) /\ Shape(p)
  BY <1>1 DEF Picks, SameLists
<1>3. r \in Requests /\ SameName(p.inflight[i], r) /\ Sendable(r, Ring(p))
      /\ (i \in held \/ Going(r, p.writing))
  <2>1. /\ p.inflight[i] \in Requests /\ p.inflight[i].id /\ p.picked \in Servers
        /\ i \in held \/ Going(p.inflight[i], p.writing)
    BY <1>1, <1>2, FlightFacts DEF Base, FlightOK
  <2> QED
    BY <1>1, <1>2, <2>1 DEF Requests, SameName, Sendable, Going
<1>4. Replaces(p, t, i, r)
  <2>1. p.ring \in Seq(Servers) /\ p.net \in Seq(Outcomes) /\ p.choked \subseteq p.writing
    BY <1>1 DEF Base, ServersOK
  <2>2. /\ Shape(t) /\ SameUser(p, t) /\ SameServers(p, t) /\ SameSockets(p, t)
        /\ t.fault = p.fault /\ t.ring = p.ring
        /\ t.waiting = p.waiting /\ t.nInflight = p.nInflight /\ t.nWaiting = p.nWaiting
        /\ t.inflight = [p.inflight EXCEPT ![i] = r]
    BY <1>2 DEF Shape, SameUser, SameServers, SameSockets
  <2> QED
    BY <2>1, <2>2 DEF Replaces, SameSockets, Ring
<1> HIDE DEF r, t
<1>5. Base(t, held) /\ Keeps(p, t)
  <2>1. i \in 1 .. Len(p.inflight) /\ held \ {i} \subseteq held
    BY <1>2
  <2>2. i \in held \/ Going(r, t.writing)
    BY <1>3, <1>4 DEF Replaces, Going
  <2> QED
    BY <1>1, <1>3, <1>4, <2>1, <2>2, ReplaceBase
<1>6. Reassign(s, i, n) \in {s, t}
  BY DEF Reassign, t, p
<1>7. Keeps(s, s)
  BY FlightFacts, KeepsSelf
<1> QED
  BY <1>1, <1>5, <1>6, <1>7, KeepsAgain

-----------------------------------------------------------------------------
(* The loops of the file.                                                  *)

\* One turn of a loop, the number of its turns and its argument.
Turn(loop, x, i, arg) ==
  CASE loop = "walk"    -> Reassign(x, i, arg)
    [] loop = "send"    -> TransmitMarked(x, i)
    [] loop = "pump"    -> Pump(x)
    [] loop = "discard" -> Discard(x, arg)

Loops(loop, s, n, arg, f) ==
  f = [i \in 0 .. n |-> IF i = 0 THEN s ELSE Turn(loop, f[i - 1], i, arg)]

\* The states f[0], f[1] ... that a loop passes through.
Passes(loop, s, n, arg, f) ==
  f[0] = s /\ \A i \in 1 .. n : f[i] = Turn(loop, f[i - 1], i, arg)

LEMMA LoopExists ==
  ASSUME NEW loop, NEW s, NEW arg, NEW n \in Nat
  PROVE  \E f : Loops(loop, s, n, arg, f)
<1> DEFINE P == {k \in Nat : ~ \E f : Loops(loop, s, k, arg, f)}
<1> SUFFICES ASSUME P # {} PROVE FALSE
  OBVIOUS
<1>1. P \in SUBSET Nat
  OBVIOUS
<1>2. PICK m \in P : \A k \in P : m <= k
  <2> HIDE DEF P
  <2> QED
    BY <1>1, LeastExists
<1>3. CASE m = 0
  <2> DEFINE f == [i \in 0 .. 0 |-> s]
  <2>1. f = [i \in 0 .. 0 |-> IF i = 0 THEN s ELSE Turn(loop, f[i - 1], i, arg)]
    OBVIOUS
  <2>2. Loops(loop, s, m, arg, f)
    BY <1>3, <2>1 DEF Loops
  <2> QED
    BY <1>2, <2>2
<1>4. CASE m # 0
  <2>1. m \in Nat /\ m - 1 \in Nat /\ m - 1 \notin P
    BY <1>2, <1>4
  <2>2. PICK f : Loops(loop, s, m - 1, arg, f)
    BY <2>1
  <2> DEFINE g == [i \in 0 .. m |-> IF i = m THEN Turn(loop, f[m - 1], m, arg) ELSE f[i]]
  <2>3. \A i \in 0 .. m - 1 : f[i] = IF i = 0 THEN s ELSE Turn(loop, f[i - 1], i, arg)
    BY <2>1, <2>2 DEF Loops
  <2>4. ASSUME NEW i \in 0 .. m
        PROVE  g[i] = IF i = 0 THEN s ELSE Turn(loop, g[i - 1], i, arg)
    <3>1. CASE i = m
      <4>1. i - 1 \in 0 .. m /\ i - 1 # m /\ i # 0 /\ i - 1 = m - 1
        BY <1>4, <2>1, <3>1
      <4>2. g[i - 1] = f[m - 1] /\ g[i] = Turn(loop, f[m - 1], i, arg)
        BY <3>1, <4>1
      <4> QED
        BY <4>1, <4>2
    <3>2. CASE i # m /\ i # 0
      <4>1. i \in 0 .. m - 1 /\ i - 1 \in 0 .. m /\ i - 1 # m
        BY <2>1, <3>2
      <4>2. g[i - 1] = f[i - 1] /\ g[i] = f[i]
        BY <3>2, <4>1
      <4> QED
        BY <2>3, <3>2, <4>1, <4>2
    <3>3. CASE i # m /\ i = 0
      <4>1. i \in 0 .. m - 1 /\ g[i] = f[i]
        BY <2>1, <3>3
      <4> QED
        BY <2>3, <3>3, <4>1
    <3> QED
      BY <3>1, <3>2, <3>3
  <2>5. g = [i \in 0 .. m |-> g[i]]
    OBVIOUS
  <2> HIDE DEF g
  <2>6. g = [i \in 0 .. m |-> IF i = 0 THEN s ELSE Turn(loop, g[i - 1], i, arg)]
    BY <2>4, <2>5, Zenon
  <2>7. Loops(loop, s, m, arg, g)
    BY <2>6 DEF Loops
  <2> QED
    BY <1>2, <2>7
<1> QED
  BY <1>3, <1>4

\* What holds at first and survives each turn holds at the end.
LEMMA Climb ==
  ASSUME NEW n \in Nat, NEW P \in SUBSET (0 .. n), 0 \in P,
         \A i \in 1 .. n : i - 1 \in P => i \in P
  PROVE  n \in P
<1> DEFINE Q == {i \in 0 .. n : i \notin P}
<1> SUFFICES ASSUME Q # {} PROVE FALSE
  OBVIOUS
<1>1. Q \in SUBSET Nat
  OBVIOUS
<1>2. PICK m \in Q : \A k \in Q : m <= k
  <2> HIDE DEF Q
  <2> QED
    BY <1>1, LeastExists
<1>3. m \in 1 .. n /\ m - 1 \in 0 .. n /\ m - 1 \notin Q
  BY <1>2
<1> QED
  BY <1>2, <1>3

LEMMA WalkPasses ==
  ASSUME NEW s, NEW n, Len(s.inflight) \in Nat
  PROVE  \E f : /\ Passes("walk", s, Len(s.inflight), n, f)
                /\ ReassignAll(s, n) = f[Len(s.inflight)]
<1> DEFINE W(f) == f = [i \in 0 .. Len(s.inflight) |-> IF i = 0 THEN s
                                                      ELSE Reassign(f[i - 1], i, n)]
           w == CHOOSE f : W(f)
<1>1. PICK f : Loops("walk", s, Len(s.inflight), n, f)
  BY LoopExists
<1>2. W(f)
  BY <1>1 DEF Loops, Turn
<1>3. W(w)
  BY <1>2, Zenon
<1>4. ReassignAll(s, n) = w[Len(s.inflight)]
  BY Zenon DEF ReassignAll
<1> HIDE DEF w
<1>5. Passes("walk", s, Len(s.inflight), n, w)
  BY <1>3 DEF Passes, Turn
<1> QED
  BY <1>4, <1>5

LEMMA SendPasses ==
  ASSUME NEW s, Len(s.inflight) \in Nat
  PROVE  \E f : /\ Passes("send", s, Len(s.inflight), Null, f)
                /\ evdns_transmit(s) = f[Len(s.inflight)]
<1> DEFINE W(f) == f = [i \in 0 .. Len(s.inflight) |-> IF i = 0 THEN s
                                                      ELSE TransmitMarked(f[i - 1], i)]
           w == CHOOSE f : W(f)
<1>1. PICK f : Loops("send", s, Len(s.inflight), Null, f)
  BY LoopExists
<1>2. W(f)
  BY <1>1 DEF Loops, Turn
<1>3. W(w)
  BY <1>2, Zenon
<1>4. evdns_transmit(s) = w[Len(s.inflight)]
  BY Zenon DEF evdns_transmit
<1> HIDE DEF w
<1>5. Passes("send", s, Len(s.inflight), Null, w)
  BY <1>3 DEF Passes, Turn
<1> QED
  BY <1>4, <1>5

LEMMA PumpPasses ==
  ASSUME NEW s, Len(s.waiting) \in Nat
  PROVE  \E f : /\ Passes("pump", s, Len(s.waiting) + 1, Null, f)
                /\ evdns_requests_pump_waiting_queue(s) = f[Len(s.waiting) + 1]
<1> DEFINE n == Len(s.waiting) + 1
           W(f) == f = [i \in 0 .. n |-> IF i = 0 THEN s ELSE Pump(f[i - 1])]
           w == CHOOSE f : W(f)
<1>1. PICK f : Loops("pump", s, n, Null, f)
  <2>1. n \in Nat
    OBVIOUS
  <2> HIDE DEF n
  <2> QED
    BY <2>1, LoopExists
<1>2. W(f)
  BY <1>1 DEF Loops, Turn
<1>3. W(w)
  BY <1>2, Zenon
<1>4. evdns_requests_pump_waiting_queue(s) = w[n]
  BY Zenon DEF evdns_requests_pump_waiting_queue
<1> HIDE DEF w
<1>5. Passes("pump", s, n, Null, w)
  BY <1>3 DEF Passes, Turn
<1> QED
  BY <1>4, <1>5

LEMMA DiscardPasses ==
  ASSUME NEW s, NEW failRequests, Len(s.inflight) \in Nat, Len(s.waiting) \in Nat
  PROVE  \E f : /\ Passes("discard", s, Len(s.inflight) + Len(s.waiting) + 1, failRequests, f)
                /\ DiscardAll(s, failRequests) = f[Len(s.inflight) + Len(s.waiting) + 1]
<1> DEFINE n == Len(s.inflight) + Len(s.waiting) + 1
           W(f) == f = [i \in 0 .. n |-> IF i = 0 THEN s ELSE Discard(f[i - 1], failRequests)]
           w == CHOOSE f : W(f)
<1>0. n \in Nat
  <2>1. \A a, b \in Nat : a + b + 1 \in Nat
    OBVIOUS
  <2> QED
    BY <2>1, Zenon
<1>1. PICK f : Loops("discard", s, n, failRequests, f)
  <2> HIDE DEF n
  <2> QED
    BY <1>0, LoopExists
<1>2. W(f)
  BY <1>1 DEF Loops, Turn
<1>3. W(w)
  BY <1>2, Zenon
<1>4. DiscardAll(s, failRequests) = w[n]
  BY Zenon DEF DiscardAll
<1>5. Passes("discard", s, n, failRequests, w)
  <2> HIDE DEF w, n
  <2> QED
    BY <1>0, <1>3 DEF Passes, Turn
<1> QED
  BY <1>4, <1>5

-----------------------------------------------------------------------------
(* What the functions on name servers and sending keep.                    *)

LEMMA ReassignAllKeeps ==
  ASSUME NEW s, NEW held, Base(s, held), NEW n
  PROVE  Base(ReassignAll(s, n), held) /\ Keeps(s, ReassignAll(s, n))
<1> DEFINE len == Len(s.inflight)
<1>1. len \in Nat /\ s.inflight \in Seq(Requests)
  BY FlightFacts
<1>2. PICK f : Passes("walk", s, len, n, f) /\ ReassignAll(s, n) = f[len]
  BY <1>1, WalkPasses
<1> DEFINE P == {i \in 0 .. len : Base(f[i], held) /\ Keeps(s, f[i])}
<1> HIDE DEF len
<1>3. 0 \in P
  BY <1>1, <1>2, KeepsSelf DEF Passes
<1>4. ASSUME NEW i \in 1 .. len, i - 1 \in P PROVE i \in P
  <2>1. Base(f[i - 1], held) /\ Keeps(s, f[i - 1]) /\ f[i] = Reassign(f[i - 1], i, n)
    BY <1>2, <1>4 DEF Passes, Turn
  <2>2. i \in 1 .. Len(f[i - 1].inflight)
    BY <2>1 DEF Keeps, OnlyMarks, len
  <2>3. Base(f[i], held) /\ Keeps(f[i - 1], f[i])
    BY <2>1, <2>2, ReassignKeeps
  <2>4. Keeps(s, f[i])
    BY <2>1, <2>3, KeepsAgain
  <2> QED
    BY <1>1, <2>3, <2>4
<1>5. len \in P
  <2>1. P \in SUBSET (0 .. len)
    OBVIOUS
  <2> HIDE DEF P
  <2> QED
    BY <1>1, <1>3, <1>4, <2>1, Climb
<1> QED
  BY <1>2, <1>5

\* A server goes down: it gets a timer, and requests not yet sent to it others.
LEMMA FailedKeeps ==
  ASSUME NEW s, NEW held, Base(s, held), NEW n
  PROVE  Base(nameserver_failed(s, n), held) /\ Keeps(s, nameserver_failed(s, n))
<1> DEFINE down == [s EXCEPT !.good = @ - 1, !.up = @ \ {n}, !.timer = @ \cup {n},
                             !.fault = IF s.good = 0 THEN "assert" ELSE @]
<1>1. CASE n \notin s.up
  BY <1>1, FlightFacts, KeepsSelf DEF nameserver_failed
<1>2. CASE n \in s.up
  <2>1. /\ IsFiniteSet(s.up \ {n}) /\ Cardinality(s.up \ {n}) = Cardinality(s.up) - 1
        /\ Cardinality(s.up) \in Nat /\ Cardinality(s.up \ {n}) \in Nat
    <3>1. IsFiniteSet(s.up)
      BY DEF Base, ServersOK
    <3>2. IsFiniteSet(s.up \ {n}) /\ Cardinality(s.up \ {n}) = Cardinality(s.up) - 1
      BY <1>2, <3>1, FS_RemoveElement
    <3> QED
      BY <3>1, <3>2, FS_CardinalityType
  <2>2. s.good # 0 /\ s.good = Cardinality(s.up)
    BY <2>1 DEF Base, ServersOK
  <2>3. /\ Shape(down) /\ SameUser(s, down) /\ SameLists(s, down) /\ SameSockets(s, down)
        /\ down.fault = s.fault /\ down.ring = s.ring
        /\ down.good = s.good - 1 /\ down.up = s.up \ {n} /\ down.timer = s.timer \cup {n}
    BY <2>2 DEF Base, Shape, SameUser, SameLists, SameSockets
  <2>4. nameserver_failed(s, n) \in {down, ReassignAll(down, n)}
    BY <1>2 DEF nameserver_failed
  <2> HIDE DEF down
  <2>5. ServersOK(down)
    BY <1>2, <2>1, <2>2, <2>3 DEF Base, ServersOK, SameSockets, Ring
  <2>6. Base(down, held)
    BY <2>3, <2>5 DEF Base, SameUser, SameLists, SameSockets, Ring
  <2>7. Keeps(s, down)
    BY <2>3, FlightFacts DEF Keeps, SameLists, OnlyMarks, SameName, Unwatched, Ring
  <2> QED
    BY <2>4, <2>6, <2>7, ReassignAllKeeps, KeepsAgain
<1> QED
  BY <1>1, <1>2

\* A server comes up: its timer is taken from it.
LEMMA UpKeeps ==
  ASSUME NEW s, NEW held, Base(s, held), NEW n \in Ring(s)
  PROVE  /\ Base(nameserver_up(s, n), held) /\ Keeps(s, nameserver_up(s, n))
         /\ n \notin Unwatched(nameserver_up(s, n))
         /\ nameserver_up(s, n).inflight = s.inflight
<1> DEFINE t == [s EXCEPT !.timer = @ \ {n}, !.up = @ \cup {n}, !.timedout[n] = 0,
                          !.good = @ + 1]
<1>1. CASE n \in s.up
  BY <1>1, FlightFacts, KeepsSelf DEF nameserver_up, Unwatched
<1>2. CASE n \notin s.up
  <2>1. IsFiniteSet(s.up \cup {n}) /\ Cardinality(s.up \cup {n}) = Cardinality(s.up) + 1
    <3>1. IsFiniteSet(s.up)
      BY DEF Base, ServersOK
    <3> QED
      BY <1>2, <3>1, FS_AddElement
  <2>2. /\ Shape(t) /\ SameUser(s, t) /\ SameLists(s, t) /\ SameSockets(s, t)
        /\ t.fault = s.fault /\ t.ring = s.ring
        /\ t.good = s.good + 1 /\ t.up = s.up \cup {n} /\ t.timer = s.timer \ {n}
    BY DEF Base, Shape, SameUser, SameLists, SameSockets
  <2>3. nameserver_up(s, n) = t
    BY <1>2 DEF nameserver_up
  <2> HIDE DEF t
  <2>4. ServersOK(t)
    BY <2>1, <2>2 DEF Base, ServersOK, SameSockets, Ring
  <2>5. Base(t, held)
    BY <2>2, <2>4 DEF Base, SameUser, SameLists, SameSockets, Ring
  <2>6. Keeps(s, t)
    BY <2>2, FlightFacts DEF Keeps, SameLists, OnlyMarks, SameName, Unwatched, Ring
  <2> QED
    BY <2>2, <2>3, <2>5, <2>6 DEF Unwatched, SameLists
<1> QED
  BY <1>1, <1>2

\* A probe failed: a server that is still down is probed again.
LEMMA ProbeFailedKeeps ==
  ASSUME NEW s, NEW held, Base(s, held), NEW n \in Ring(s)
  PROVE  /\ Base(nameserver_probe_failed(s, n), held)
         /\ Keeps(s, nameserver_probe_failed(s, n))
         /\ n \notin Unwatched(nameserver_probe_failed(s, n))
         /\ nameserver_probe_failed(s, n).inflight = s.inflight
<1> DEFINE t == nameserver_probe_failed(s, n)
<1>1. /\ Shape(t) /\ SameUser(s, t) /\ SameLists(s, t) /\ SameSockets(s, t)
      /\ t.fault = s.fault /\ t.ring = s.ring /\ t.good = s.good /\ t.up = s.up
      /\ t.timer = IF n \in s.up THEN s.timer \ {n} ELSE s.timer \cup {n}
  BY DEF Base, Shape, SameUser, SameLists, SameSockets, nameserver_probe_failed
<1> HIDE DEF t
<1>2. ServersOK(t)
  BY <1>1 DEF Base, ServersOK, SameSockets, Ring
<1>3. Base(t, held)
  BY <1>1, <1>2 DEF Base, SameUser, SameLists, SameSockets, Ring
<1>4. Keeps(s, t)
  BY <1>1, FlightFacts DEF Keeps, SameLists, OnlyMarks, SameName, Unwatched, Ring
<1>5. n \notin Unwatched(t)
  BY <1>1 DEF Unwatched
<1> QED
  BY <1>1, <1>3, <1>4, <1>5 DEF t, SameLists

LEMMA SentRequest ==
  ASSUME NEW r \in Requests
  PROVE  LET u == [r EXCEPT !.timer = TRUE, !.tx = @ + 1, !.transmit = FALSE]
         IN  /\ u \in Requests /\ SameName(r, u) /\ u.timer
             /\ u.id = r.id /\ u.ns = r.ns
<1> DEFINE tx == r.tx + 1
           u == [r EXCEPT !.timer = TRUE, !.tx = tx, !.transmit = FALSE]
<1>1. tx \in Nat
  BY DEF Requests
<1> HIDE DEF tx
<1>2. u \in Requests
  BY <1>1 DEF Requests
<1>3. SameName(r, u) /\ u.timer /\ u.id = r.id /\ u.ns = r.ns
  BY DEF Requests, SameName
<1> QED
  BY <1>2, <1>3 DEF tx

\* A request that is transmitted has a timer, or is marked and its server's
\* socket is waited for.
LEMMA TransmitBase ==
  ASSUME NEW s, NEW held, Base(s, held), NEW i \in 1 .. Len(s.inflight)
  PROVE  LET t == evdns_request_transmit(s, i)
         IN  Base(t, held \ {i}) /\ Keeps(s, t)
<1> DEFINE q == s.inflight[i]
           marked == [q EXCEPT !.transmit = TRUE]
           mark == [s EXCEPT !.inflight[i].transmit = TRUE]
           sent == [mark EXCEPT !.net = IF @ = <<>> THEN @ ELSE Tail(@)]
           choked == [sent EXCEPT !.choked  = @ \cup {q.ns}, !.writing = @ \cup {q.ns}]
           failed == nameserver_failed(sent, q.ns)
           Sent(r) == [r EXCEPT !.timer = TRUE, !.tx = @ + 1, !.transmit = FALSE]
           Arm(t) == [t EXCEPT !.inflight[i].timer = TRUE, !.inflight[i].tx = @ + 1,
                               !.inflight[i].transmit = FALSE]
<1>1. q \in Requests /\ q.id /\ q.ns \in Ring(s) /\ q.ns # Null
  <2>1. q \in Requests /\ q.id /\ q.ns \in Ring(s) /\ Ring(s) \subseteq Servers
    BY FlightFacts
  <2> QED
    BY <2>1, EvDnsAssumption
<1>2. /\ marked \in Requests /\ SameName(q, marked) /\ Sendable(marked, Ring(s))
      /\ marked.transmit
  BY <1>1 DEF Requests, SameName, Sendable
<1>3. s.ring \in Seq(Servers) /\ s.choked \subseteq s.writing /\ s.net \in Seq(Outcomes)
  BY DEF Base, ServersOK
<1>4. sendto(s) \in {"ok", "again", "error"} /\ (s.net # <<>> => Tail(s.net) \in Seq(Outcomes))
  <2>1. CASE s.net = <<>>
    BY <2>1 DEF sendto
  <2>2. CASE s.net # <<>>
    <3>1. Head(s.net) \in Outcomes /\ Tail(s.net) \in Seq(Outcomes)
      BY <1>3, <2>2, HeadTailProperties
    <3> QED
      BY <2>2, <3>1, EvDnsAssumption DEF sendto
  <2> QED
    BY <2>1, <2>2
<1> DEFINE Marks(t) == Replaces(s, t, i, marked)
<1>5. Marks(mark)
  BY <1>3 DEF Base, Replaces, Shape, SameUser, SameServers, Ring
<1>6. Marks(sent)
  <2>1. sent.net \in Seq(Outcomes)
    BY <1>3, <1>4, <1>5 DEF Replaces, Shape, Base
  <2> DEFINE net == IF s.net = <<>> THEN s.net ELSE Tail(s.net)
  <2>2. sent = [mark EXCEPT !.net = net] /\ net \in Seq(Outcomes)
    BY <1>3, <1>4, <1>5 DEF Base, Shape
  <2> HIDE DEF net, mark
  <2> QED
    BY <1>5, <2>2 DEF Replaces, Shape, SameUser, SameServers, Ring
<1>7. Marks(choked) /\ choked.writing # {}
  <2> HIDE DEF sent
  <2> QED
    BY <1>6 DEF Replaces, Shape, SameUser, SameServers, Ring
<1> HIDE DEF mark, choked, sent, marked
<1>8. CASE q.ns \in s.choked
  <2>1. evdns_request_transmit(s, i) = mark
    BY <1>1, <1>8 DEF evdns_request_transmit, mark
  <2>2. Going(marked, mark.writing)
    BY <1>2, <1>3, <1>5, <1>8 DEF Replaces, Going
  <2> QED
    BY <1>2, <1>5, <2>1, <2>2, ReplaceBase
<1>9. CASE q.ns \notin s.choked /\ sendto(s) = "again"
  <2>1. evdns_request_transmit(s, i) = choked
    BY <1>1, <1>9 DEF evdns_request_transmit, choked, sent, mark
  <2>2. Going(marked, choked.writing)
    BY <1>2, <1>7 DEF Going
  <2> QED
    BY <1>2, <1>7, <2>1, <2>2, ReplaceBase
<1>10. Base(sent, held \cup {i}) /\ Keeps(s, sent)
  <2>1. held \ {i} \subseteq held \cup {i} /\ i \in held \cup {i}
    OBVIOUS
  <2> QED
    BY <1>2, <1>6, <2>1, ReplaceBase
<1>11. ASSUME NEW t, Base(t, held \cup {i}), Keeps(s, t)
       PROVE  Base(Arm(t), held \ {i}) /\ Keeps(s, Arm(t))
  <2>1. i \in 1 .. Len(t.inflight)
    BY <1>11 DEF Keeps, OnlyMarks
  <2>2. /\ t.inflight[i] \in Requests /\ Sendable(t.inflight[i], Ring(t))
        /\ t.ring \in Seq(Servers) /\ Shape(t) /\ t.net \in Seq(Outcomes)
        /\ t.choked \subseteq t.writing
    BY <1>11, <2>1, FlightFacts DEF Base, ServersOK, Sendable
  <2> DEFINE r == Sent(t.inflight[i])
             u == Arm(t)
  <2>3. /\ r \in Requests /\ SameName(t.inflight[i], r) /\ Sendable(r, Ring(t))
        /\ Going(r, u.writing)
    <3>1. /\ r \in Requests /\ SameName(t.inflight[i], r) /\ r.timer
          /\ r.id = t.inflight[i].id /\ r.ns = t.inflight[i].ns
      BY <2>2, SentRequest, Zenon
    <3> HIDE DEF r, u
    <3> QED
      BY <2>2, <3>1 DEF Sendable, Going
  <2>4. Replaces(t, u, i, r)
    BY <2>2 DEF Replaces, Shape, SameUser, SameServers, Ring
  <2> HIDE DEF r, u
  <2>5. Base(u, held \ {i}) /\ Keeps(t, u)
    <3>1. (held \cup {i}) \ {i} \subseteq held \ {i}
      OBVIOUS
    <3> QED
      BY <1>11, <2>1, <2>3, <2>4, <3>1, ReplaceBase
  <2>6. Keeps(s, u)
    BY <1>11, <2>5, KeepsAgain
  <2> QED
    BY <2>5, <2>6 DEF u
<1>12. CASE q.ns \notin s.choked /\ sendto(s) = "ok"
  <2>1. evdns_request_transmit(s, i) = Arm(sent)
    BY <1>1, <1>12 DEF evdns_request_transmit, sent, mark
  <2> QED
    BY <1>10, <1>11, <2>1
<1>13. CASE q.ns \notin s.choked /\ sendto(s) = "error"
  <2>1. evdns_request_transmit(s, i) = Arm(failed)
    BY <1>1, <1>13 DEF evdns_request_transmit, sent, mark
  <2>2. Base(failed, held \cup {i}) /\ Keeps(sent, failed)
    BY <1>10, FailedKeeps
  <2>3. Keeps(s, failed)
    BY <1>10, <2>2, KeepsAgain
  <2> HIDE DEF failed
  <2> QED
    BY <1>11, <2>1, <2>2, <2>3
<1> QED
  BY <1>4, <1>8, <1>9, <1>12, <1>13

LEMMA TransmitMarkedKeeps ==
  ASSUME NEW s, NEW held, Base(s, held), NEW i \in 1 .. Len(s.inflight)
  PROVE  Base(TransmitMarked(s, i), held) /\ Keeps(s, TransmitMarked(s, i))
<1>1. Base(evdns_request_transmit(s, i), held \ {i}) /\ Keeps(s, evdns_request_transmit(s, i))
  BY TransmitBase
<1>2. Base(evdns_request_transmit(s, i), held)
  BY <1>1, HeldMore
<1>3. Keeps(s, s)
  BY FlightFacts, KeepsSelf
<1> QED
  BY <1>1, <1>2, <1>3 DEF TransmitMarked

\* evdns_transmit keeps what it finds, and does nothing if nothing is marked.
LEMMA TransmitAllKeeps ==
  ASSUME NEW s, NEW held, Base(s, held)
  PROVE  /\ Base(evdns_transmit(s), held) /\ Keeps(s, evdns_transmit(s))
         /\ (\A i \in 1 .. Len(s.inflight) : ~s.inflight[i].transmit) => evdns_transmit(s) = s
<1> DEFINE len == Len(s.inflight)
           quiet == \A i \in 1 .. len : ~s.inflight[i].transmit
<1>1. len \in Nat /\ s.inflight \in Seq(Requests)
  BY FlightFacts
<1>2. PICK f : Passes("send", s, len, Null, f) /\ evdns_transmit(s) = f[len]
  BY <1>1, SendPasses
<1> DEFINE P == {i \in 0 .. len : /\ Base(f[i], held) /\ Keeps(s, f[i])
                                  /\ quiet => f[i] = s}
<1> HIDE DEF len
<1>3. 0 \in P
  BY <1>1, <1>2, KeepsSelf DEF Passes
<1>4. ASSUME NEW i \in 1 .. len, i - 1 \in P PROVE i \in P
  <2>1. /\ Base(f[i - 1], held) /\ Keeps(s, f[i - 1]) /\ (quiet => f[i - 1] = s)
        /\ f[i] = TransmitMarked(f[i - 1], i)
    BY <1>2, <1>4 DEF Passes, Turn
  <2>2. i \in 1 .. Len(f[i - 1].inflight)
    BY <2>1 DEF Keeps, OnlyMarks, len
  <2>3. Base(f[i], held) /\ Keeps(f[i - 1], f[i])
    BY <2>1, <2>2, TransmitMarkedKeeps
  <2>4. Keeps(s, f[i])
    BY <2>1, <2>3, KeepsAgain
  <2>5. quiet => f[i] = s
    BY <2>1 DEF TransmitMarked
  <2> HIDE DEF quiet
  <2> QED
    BY <1>1, <2>3, <2>4, <2>5
<1>5. len \in P
  <2>1. P \in SUBSET (0 .. len)
    OBVIOUS
  <2> HIDE DEF P
  <2> QED
    BY <1>1, <1>3, <1>4, <2>1, Climb
<1> QED
  BY <1>2, <1>5 DEF len

\* A request that is sent again has a server still.
LEMMA ReissueKeeps ==
  ASSUME NEW s, NEW held, Base(s, held), NEW i \in 1 .. Len(s.inflight)
  PROVE  Base(request_reissue(s, i), held) /\ Keeps(s, request_reissue(s, i))
<1> DEFINE p == nameserver_pick(s)
           q == s.inflight[i]
           moved == [q EXCEPT !.ns = p.picked]
           fresh == [moved EXCEPT !.reissue = @ + 1, !.tx = 0, !.transmit = TRUE]
           t == [p EXCEPT !.inflight[i].ns = p.picked]
           u == [t EXCEPT !.inflight[i].reissue = @ + 1, !.inflight[i].tx = 0,
                          !.inflight[i].transmit = TRUE]
<1>1. Picks(s, p) /\ p.picked \in Ring(s) /\ Base(p, held) /\ Keeps(s, p)
  BY PickFlight
<1> HIDE DEF p
<1>2. p.inflight = s.inflight /\ Ring(p) = Ring(s) /\ Shape(p) /\ p.writing = s.writing
  BY <1>1 DEF Picks, SameLists, SameSockets
<1>3. q \in Requests /\ q.id /\ p.picked \in Servers /\ (i \in held \/ Going(q, s.writing))
  BY <1>1, FlightFacts DEF Base, FlightOK
<1>4. /\ moved \in Requests /\ SameName(q, moved) /\ Sendable(moved, Ring(p))
      /\ i \in held \/ Going(moved, s.writing)
  BY <1>1, <1>2, <1>3 DEF Requests, SameName, Sendable, Going
<1>5. /\ fresh \in Requests /\ SameName(q, fresh) /\ Sendable(fresh, Ring(p))
      /\ i \in held \/ Going(fresh, s.writing)
  <2> HIDE DEF moved
  <2>1. moved \in Requests /\ moved.reissue + 1 \in Nat
    BY <1>4 DEF Requests
  <2> DEFINE n == moved.reissue + 1
  <2>2. n \in Nat /\ fresh = [moved EXCEPT !.reissue = n, !.tx = 0, !.transmit = TRUE]
    BY <2>1
  <2> HIDE DEF n, fresh
  <2>3. fresh \in Requests
    BY <2>1, <2>2 DEF Requests
  <2> QED
    BY <1>4, <2>1, <2>2, <2>3 DEF Requests, SameName, Sendable, Going
<1> DEFINE Sets(x, r) == /\ x.inflight = [s.inflight EXCEPT ![i] = r]
                         /\ Shape(x) /\ SameUser(p, x) /\ SameServers(p, x)
                         /\ SameSockets(p, x) /\ x.fault = p.fault /\ x.ring = p.ring
                         /\ x.waiting = p.waiting /\ x.nInflight = p.nInflight
                         /\ x.nWaiting = p.nWaiting
<1>6. Sets(t, moved)
  BY <1>2 DEF Shape, SameUser, SameServers, SameSockets
<1>7. Sets(u, fresh)
  <2>1. s.inflight \in Seq(Requests)
    BY FlightFacts
  <2> DEFINE a == t.inflight
  <2>2. a \in Seq(Requests) /\ i \in 1 .. Len(a) /\ a[i] = moved
    <3> HIDE DEF moved, t
    <3> QED
      BY <1>4, <1>6, <2>1, PlaceFacts
  <2>3. u.inflight = [s.inflight EXCEPT ![i] = fresh]
    <3> DEFINE b == [a EXCEPT ![i].reissue = @ + 1, ![i].tx = 0, ![i].transmit = TRUE]
               r == [a[i] EXCEPT !.reissue = @ + 1, !.tx = 0, !.transmit = TRUE]
    <3>1. u.inflight = b
      <4> HIDE DEF t
      <4> QED
        BY <1>6 DEF Shape
    <3>2. b = [a EXCEPT ![i] = r]
      <4> HIDE DEF a
      <4> QED
        BY <2>2
    <3>3. r = fresh
      BY <2>2
    <3>4. [a EXCEPT ![i] = fresh] = [s.inflight EXCEPT ![i] = fresh]
      <4> HIDE DEF t, moved, fresh
      <4> QED
        BY <1>6, <2>1
    <3> HIDE DEF a, b, r, u, fresh
    <3> QED
      BY <3>1, <3>2, <3>3, <3>4
  <2> HIDE DEF t, fresh, moved
  <2> QED
    BY <1>6, <2>3 DEF Shape, SameUser, SameServers, SameSockets
<1> HIDE DEF moved, fresh, t, u
<1>8. ASSUME NEW x, NEW r \in Requests, Sets(x, r), SameName(q, r), Sendable(r, Ring(p)),
             i \in held \/ Going(r, s.writing)
      PROVE  Base(x, held) /\ Keeps(s, x)
  <2>1. Replaces(p, x, i, r)
    <3>1. p.ring \in Seq(Servers) /\ p.net \in Seq(Outcomes) /\ p.choked \subseteq p.writing
      BY <1>1 DEF Base, ServersOK
    <3> QED
      BY <1>2, <1>8, <3>1 DEF Replaces, SameSockets, Ring
  <2>2. i \in 1 .. Len(p.inflight) /\ held \ {i} \subseteq held /\ SameName(p.inflight[i], r)
    BY <1>2, <1>8
  <2>3. i \in held \/ Going(r, x.writing)
    BY <1>2, <1>8 DEF SameSockets
  <2>4. Base(x, held) /\ Keeps(p, x)
    BY <1>1, <1>8, <2>1, <2>2, <2>3, ReplaceBase
  <2> QED
    BY <1>1, <2>4, KeepsAgain
<1>9. request_reissue(s, i) \in {t, u}
  BY DEF request_reissue, t, u, p
<1> QED
  BY <1>4, <1>5, <1>6, <1>7, <1>8, <1>9

-----------------------------------------------------------------------------
(* All requests, and the loop that moves those that wait into flight.      *)

\* The same requests in the same order, however they are being sent.
SameNames(a, b) ==
  /\ b \in Seq(Requests) /\ Len(b) = Len(a)
  /\ \A p \in 1 .. Len(a) : SameName(a[p], b[p])

Alike(s, t) ==
  /\ SameUser(s, t) /\ t.fault = s.fault
  /\ Ring(t) = Ring(s) /\ Unwatched(t) \subseteq Unwatched(s)
  /\ SameNames(Listed(s), Listed(t))

LEMMA ListedFacts ==
  ASSUME NEW s, NEW held, Base(s, held)
  PROVE  /\ Listed(s) \in Seq(Requests)
         /\ Len(Listed(s)) \in Nat /\ Len(Listed(s)) = Len(s.inflight) + Len(s.waiting)
         /\ \A p \in 1 .. Len(Listed(s)) :
              Listed(s)[p] = IF p <= Len(s.inflight) THEN s.inflight[p]
                             ELSE s.waiting[p - Len(s.inflight)]
         /\ \A p \in 1 .. Len(Listed(s)) :
              Listed(s)[p] \in Requests /\ Plain(Listed(s)[p], Ring(s))
<1> DEFINE l == Listed(s)
           m == Len(s.inflight)
           w == Len(s.waiting)
<1>1. s.inflight \in Seq(Requests) /\ s.waiting \in Seq(Requests) /\ m \in Nat /\ w \in Nat
  BY FlightFacts
<1>2. /\ l \in Seq(Requests) /\ Len(l) = m + w
      /\ \A p \in 1 .. m + w : l[p] = IF p <= m THEN s.inflight[p] ELSE s.waiting[p - m]
  BY <1>1, ConcatProperties DEF Listed
<1>3. /\ \A p \in 1 .. m : s.inflight[p] \in Requests /\ Plain(s.inflight[p], Ring(s))
      /\ \A p \in 1 .. w : s.waiting[p] \in Requests /\ Plain(s.waiting[p], {})
  <2>1. \A p \in 1 .. m : s.inflight[p] \in Requests /\ Plain(s.inflight[p], Ring(s))
    BY FlightFacts
  <2>2. \A p \in 1 .. w : s.waiting[p] \in Requests
    BY <1>1
  <2>3. \A p \in 1 .. w : Plain(s.waiting[p], {})
    BY DEF Base, WaitingOK
  <2> QED
    BY <2>1, <2>2, <2>3
<1> HIDE DEF l, m, w
<1>4. m + w \in Nat
  BY <1>1
<1>5. ASSUME NEW p \in 1 .. m + w PROVE l[p] \in Requests /\ Plain(l[p], Ring(s))
  <2>1. CASE p <= m
    <3>1. p \in 1 .. m
      BY <1>1, <2>1
    <3> QED
      BY <1>2, <1>3, <2>1, <3>1
  <2>2. CASE ~(p <= m)
    <3>1. p - m \in 1 .. w
      BY <1>1, <2>2
    <3> QED
      BY <1>2, <1>3, <2>2, <3>1 DEF Plain
  <2> QED
    BY <2>1, <2>2
<1>6. \A p \in 1 .. Len(l) : l[p] \in Requests /\ Plain(l[p], Ring(s))
  BY <1>2, <1>5
<1>7. Len(l) \in Nat /\ Len(l) = m + w
  BY <1>2, <1>4
<1>8. \A p \in 1 .. Len(l) : l[p] = IF p <= m THEN s.inflight[p] ELSE s.waiting[p - m]
  BY <1>2
<1> QED
  BY <1>2, <1>6, <1>7, <1>8 DEF l, m, w

LEMMA AlikeSelf ==
  ASSUME NEW s, NEW held, Base(s, held)
  PROVE  Alike(s, s)
  BY ListedFacts DEF Alike, SameUser, SameNames, SameName

LEMMA AlikeAgain ==
  ASSUME NEW s, NEW t, NEW u, Alike(s, t), Alike(t, u)
  PROVE  Alike(s, u)
<1>1. SameNames(Listed(s), Listed(u))
  BY DEF Alike, SameNames, SameName
<1> QED
  BY <1>1 DEF Alike, SameUser

LEMMA KeepsAlike ==
  ASSUME NEW s, NEW held, Base(s, held), NEW t, NEW now, Base(t, now), Keeps(s, t)
  PROVE  Alike(s, t)
<1> DEFINE a == Listed(s)
           b == Listed(t)
<1>1. /\ t.waiting = s.waiting /\ Len(t.inflight) = Len(s.inflight)
      /\ \A i \in 1 .. Len(s.inflight) : SameName(s.inflight[i], t.inflight[i])
  BY DEF Keeps, OnlyMarks
<1>2. /\ b \in Seq(Requests) /\ Len(b) = Len(a) /\ Len(a) \in Nat
      /\ Len(s.inflight) \in Nat
  BY <1>1, ListedFacts, FlightFacts
<1>3. ASSUME NEW p \in 1 .. Len(a) PROVE SameName(a[p], b[p])
  <2>1. /\ a[p] = IF p <= Len(s.inflight) THEN s.inflight[p]
                  ELSE s.waiting[p - Len(s.inflight)]
        /\ b[p] = IF p <= Len(s.inflight) THEN t.inflight[p]
                  ELSE s.waiting[p - Len(s.inflight)]
    BY <1>1, <1>2, ListedFacts
  <2>2. CASE p <= Len(s.inflight)
    BY <1>1, <1>2, <2>1, <2>2
  <2>3. CASE ~(p <= Len(s.inflight))
    BY <2>1, <2>3 DEF SameName
  <2> QED
    BY <2>2, <2>3
<1>4. SameNames(a, b)
  BY <1>2, <1>3 DEF SameNames
<1> QED
  BY <1>4 DEF Alike, Keeps

\* Request r goes from the head of those that wait to the end of those in flight.
LEMMA PromoteFacts ==
  ASSUME NEW s, Base(s, {}), s.ring # <<>>, s.waiting # <<>>
  PROVE  /\ Base(Promote(s), {}) /\ Alike(s, Promote(s))
         /\ Len(Promote(s).waiting) = Len(s.waiting) - 1
<1> DEFINE p == nameserver_pick(s)
           h == Head(s.waiting)
           r == [h EXCEPT !.ns = p.picked, !.id = TRUE]
           n == Len(s.inflight) + 1
           t == [p EXCEPT !.waiting = Tail(@), !.nWaiting = @ - 1, !.nInflight = @ + 1,
                          !.inflight = Append(@, r)]
           u == evdns_request_transmit(t, n)
           v == evdns_transmit(u)
<1>1. Picks(s, p) /\ p.picked \in Ring(s) /\ p.picked \in Servers
  <2>1. Picks(s, p)
    BY PickFacts DEF Base
  <2> QED
    BY <2>1, FlightFacts DEF Picks
<1> HIDE DEF p
<1>2. /\ s.inflight \in Seq(Requests) /\ s.waiting \in Seq(Requests)
      /\ Len(s.inflight) \in Nat /\ Len(s.waiting) \in Nat \ {0} /\ n \in Nat
  BY FlightFacts
<1>3. h \in Requests /\ h = s.waiting[1] /\ Plain(h, {})
  <2>1. 1 \in 1 .. Len(s.waiting) /\ h = s.waiting[1]
    BY <1>2
  <2> QED
    BY <1>2, <2>1 DEF Base, WaitingOK
<1>4. r \in Requests /\ SameName(h, r) /\ Sendable(r, Ring(s)) /\ Plain(r, Ring(s))
  <2> HIDE DEF h
  <2> QED
    BY <1>1, <1>3 DEF Requests, SameName, Sendable, Plain
<1> HIDE DEF h, r
<1>5. /\ Tail(s.waiting) \in Seq(Requests) /\ Len(Tail(s.waiting)) = Len(s.waiting) - 1
      /\ \A j \in 1 .. Len(s.waiting) - 1 : Tail(s.waiting)[j] = s.waiting[j + 1]
  BY <1>2, HeadTailProperties
<1>6. /\ Append(s.inflight, r) \in Seq(Requests) /\ Len(Append(s.inflight, r)) = n
      /\ \A j \in 1 .. n - 1 : Append(s.inflight, r)[j] = s.inflight[j]
      /\ Append(s.inflight, r)[n] = r
  BY <1>2, <1>4, AppendProperties
<1>7. /\ Shape(t) /\ SameUser(s, t) /\ SameServers(s, t) /\ SameSockets(s, t)
      /\ t.fault = s.fault /\ t.ring = p.ring
      /\ t.inflight = Append(s.inflight, r) /\ t.waiting = Tail(s.waiting)
      /\ t.nInflight = s.nInflight + 1 /\ t.nWaiting = s.nWaiting - 1
  BY <1>1 DEF Picks, Shape, SameUser, SameServers, SameSockets, SameLists
<1> HIDE DEF t
<1>8. t.ring \in Seq(Servers) /\ Ring(t) = Ring(s)
  BY <1>1, <1>7 DEF Picks, Ring
<1>9. ServersOK(t)
  BY <1>7, <1>8 DEF Base, ServersOK, SameServers, SameSockets
<1>10. FlightOK(t.inflight, Ring(t), t.writing, {n})
  <2> SUFFICES ASSUME NEW j \in 1 .. n
               PROVE  /\ Plain(t.inflight[j], Ring(s)) /\ Sendable(t.inflight[j], Ring(s))
                      /\ j \in {n} \/ Going(t.inflight[j], t.writing)
    BY <1>6, <1>7, <1>8 DEF FlightOK
  <2>1. CASE j = n
    BY <1>4, <1>6, <1>7, <2>1
  <2>2. CASE j # n
    <3>1. j \in 1 .. Len(s.inflight) /\ t.inflight[j] = s.inflight[j] /\ t.writing = s.writing
      BY <1>2, <1>6, <1>7, <2>2 DEF SameSockets
    <3> QED
      BY <3>1 DEF Base, FlightOK
  <2> QED
    BY <2>1, <2>2
<1>11. WaitingOK(t.waiting)
  <2> SUFFICES ASSUME NEW j \in 1 .. Len(s.waiting) - 1 PROVE Plain(t.waiting[j], {})
    BY <1>5, <1>7 DEF WaitingOK
  <2>1. j + 1 \in 1 .. Len(s.waiting) /\ t.waiting[j] = s.waiting[j + 1]
    BY <1>2, <1>5, <1>7
  <2> QED
    BY <2>1 DEF Base, WaitingOK
<1>12. Base(t, {n})
  BY <1>2, <1>5, <1>6, <1>7, <1>9, <1>10, <1>11 DEF Base, SameUser, SameSockets
<1>13. Alike(s, t)
  <2> DEFINE a == Listed(s)
             b == Listed(t)
             m == Len(s.inflight)
             w == Len(s.waiting)
  <2>1. /\ Len(a) = m + w /\ a \in Seq(Requests) /\ Len(a) \in Nat
        /\ \A k \in 1 .. Len(a) : a[k] = IF k <= m THEN s.inflight[k] ELSE s.waiting[k - m]
    BY ListedFacts
  <2>2. /\ Len(b) = Len(t.inflight) + Len(t.waiting) /\ b \in Seq(Requests)
        /\ \A k \in 1 .. Len(b) : b[k] = IF k <= Len(t.inflight) THEN t.inflight[k]
                                         ELSE t.waiting[k - Len(t.inflight)]
    BY <1>12, ListedFacts
  <2>3. Len(t.inflight) = n /\ Len(t.waiting) = w - 1 /\ m \in Nat /\ w \in Nat \ {0}
    BY <1>2, <1>5, <1>6, <1>7
  <2>4. /\ n = m + 1
        /\ \A k \in 1 .. m : t.inflight[k] = s.inflight[k]
        /\ t.inflight[n] = r /\ SameName(s.waiting[1], r)
        /\ \A k \in 1 .. w - 1 : t.waiting[k] = s.waiting[k + 1]
    <3>1. n - 1 = m
      BY <1>2
    <3> QED
      BY <1>3, <1>4, <1>5, <1>6, <1>7, <3>1
  <2> HIDE DEF a, b, m, w, n
  <2>5. Len(b) = Len(a)
    BY <2>1, <2>2, <2>3, <2>4
  <2>6. ASSUME NEW k \in 1 .. Len(a) PROVE SameName(a[k], b[k])
    <3>1. /\ a[k] = IF k <= m THEN s.inflight[k] ELSE s.waiting[k - m]
          /\ b[k] = IF k <= n THEN t.inflight[k] ELSE t.waiting[k - n]
      BY <2>1, <2>2, <2>3, <2>5
    <3>2. CASE k <= m
      <4>1. k \in 1 .. m /\ k <= n
        BY <2>3, <2>4, <3>2
      <4> QED
        BY <2>4, <3>1, <3>2, <4>1 DEF SameName
    <3>3. CASE k = n
      <4>1. ~(k <= m) /\ k <= n /\ k - m = 1
        BY <2>3, <2>4, <3>3
      <4> QED
        BY <2>4, <3>1, <3>3, <4>1
    <3>4. CASE k > n
      <4>1. ~(k <= m) /\ ~(k <= n) /\ k - n \in 1 .. w - 1 /\ (k - n) + 1 = k - m
        BY <2>1, <2>3, <2>4, <3>4
      <4> QED
        BY <2>4, <3>1, <4>1 DEF SameName
    <3> QED
      BY <2>1, <2>3, <2>4, <3>2, <3>3, <3>4
  <2>7. SameNames(a, b)
    BY <2>2, <2>5, <2>6 DEF SameNames
  <2> QED
    BY <1>7, <1>8, <2>7 DEF Alike, SameServers, Unwatched, a, b
<1>14. Base(u, {}) /\ Keeps(t, u)
  <2>1. n \in 1 .. Len(t.inflight)
    BY <1>2, <1>6, <1>7
  <2>2. Base(u, {n} \ {n}) /\ Keeps(t, u)
    BY <1>12, <2>1, TransmitBase
  <2>3. {n} \ {n} = {}
    OBVIOUS
  <2> QED
    BY <2>2, <2>3
<1>15. Base(v, {}) /\ Keeps(u, v)
  BY <1>14, TransmitAllKeeps
<1>16. Alike(s, v)
  BY <1>12, <1>13, <1>14, <1>15, KeepsAlike, AlikeAgain
<1>17. Len(v.waiting) = Len(s.waiting) - 1
  BY <1>5, <1>7, <1>14, <1>15 DEF Keeps
<1>18. Promote(s) = v
  <2>1. Promote(s) = evdns_transmit(evdns_request_transmit(t, Len(t.inflight)))
    BY DEF Promote, t, r, h, p
  <2> QED
    BY <1>6, <1>7, <2>1
<1> QED
  BY <1>15, <1>16, <1>17, <1>18

\* The loop goes on while there is room, and a request for it.
LEMMA PumpAllFacts ==
  ASSUME NEW s, Base(s, {}), s.ring # <<>>
  PROVE  LET t == evdns_requests_pump_waiting_queue(s)
         IN  Base(t, {}) /\ Alike(s, t) /\ ~MayPump(t)
<1> DEFINE len == Len(s.waiting)
           n == len + 1
<1>1. len \in Nat /\ n \in Nat
  BY FlightFacts
<1>2. PICK f : /\ Passes("pump", s, n, Null, f)
               /\ evdns_requests_pump_waiting_queue(s) = f[n]
  BY <1>1, PumpPasses
<1> DEFINE P == {i \in 0 .. n : /\ Base(f[i], {}) /\ Alike(s, f[i])
                                /\ MayPump(f[i]) => Len(f[i].waiting) <= len - i}
<1> HIDE DEF n
<1>3. 0 \in P
  BY <1>1, <1>2, AlikeSelf DEF Passes
<1>4. ASSUME NEW i \in 1 .. n, i - 1 \in P PROVE i \in P
  <2> DEFINE x == f[i - 1]
             y == f[i]
  <2>1. /\ Base(x, {}) /\ Alike(s, x) /\ (MayPump(x) => Len(x.waiting) <= len - (i - 1))
        /\ y = Pump(x)
    BY <1>2, <1>4 DEF Passes, Turn
  <2> HIDE DEF x, y
  <2>2. CASE ~MayPump(x)
    BY <1>1, <2>1, <2>2 DEF Pump, x, y
  <2>3. CASE MayPump(x)
    <3>1. x.ring # <<>> /\ x.waiting # <<>> /\ Len(x.waiting) \in Nat
      <4>1. Ring(x) # {}
        <5>1. Ring(s) # {}
          <6>1. s.ring \in Seq(Servers)
            BY FlightFacts
          <6>2. 1 \in 1 .. Len(s.ring)
            BY <6>1
          <6> QED
            BY <6>2 DEF Ring, Elements
        <5> QED
          BY <2>1, <5>1 DEF Alike
      <4>2. x.ring # <<>>
        BY <4>1 DEF Ring, Elements
      <4>3. x.nWaiting = Len(x.waiting) /\ x.nWaiting > 0
        BY <2>1, <2>3 DEF Base, MayPump
      <4> QED
        BY <2>1, <4>2, <4>3, FlightFacts
    <3>2. /\ Base(y, {}) /\ Alike(x, y) /\ Len(y.waiting) = Len(x.waiting) - 1
      BY <2>1, <2>3, <3>1, PromoteFacts DEF Pump
    <3>3. Alike(s, y)
      BY <2>1, <3>2, AlikeAgain
    <3>4. Len(y.waiting) <= len - i
      BY <1>1, <2>1, <2>3, <3>1, <3>2
    <3> QED
      BY <1>1, <3>2, <3>3, <3>4 DEF y
  <2> QED
    BY <2>2, <2>3
<1>5. n \in P
  <2>1. P \in SUBSET (0 .. n)
    OBVIOUS
  <2> HIDE DEF P
  <2> QED
    BY <1>1, <1>3, <1>4, <2>1, Climb
<1>6. ~MayPump(f[n])
  <2> SUFFICES ASSUME MayPump(f[n]) PROVE FALSE
    OBVIOUS
  <2>1. Len(f[n].waiting) <= len - n /\ Base(f[n], {})
    BY <1>5
  <2>2. Len(f[n].waiting) \in Nat
    BY <2>1, FlightFacts
  <2> QED
    BY <1>1, <2>1, <2>2 DEF n
<1> QED
  BY <1>2, <1>5, <1>6

-----------------------------------------------------------------------------
(* How the lists of requests change, and what it means for queries, servers *)
(* and search states.                                                      *)

\* b is a with a request r put at place e.
Past(p, e) == IF p < e THEN p ELSE p + 1

Inserts(a, b, e, r) ==
  /\ a \in Seq(Requests) /\ b \in Seq(Requests) /\ Len(b) = Len(a) + 1
  /\ e \in 1 .. Len(b) /\ SameName(r, b[e])
  /\ \A p \in 1 .. Len(a) : SameName(a[p], b[Past(p, e)])

LEMMA PastFacts ==
  ASSUME NEW n \in Nat, NEW e \in 1 .. n + 1
  PROVE  /\ \A p \in 1 .. n : Past(p, e) \in 1 .. n + 1 /\ Past(p, e) # e
         /\ \A p, r \in 1 .. n : Past(p, e) = Past(r, e) => p = r
         /\ \A j \in 1 .. n + 1 : j # e => \E p \in 1 .. n : j = Past(p, e)
         /\ \A d \in 0 .. e - 1, p \in 1 .. n : Past(p, e) = d <=> p = d
<1>1. \A p \in 1 .. n : Past(p, e) \in 1 .. n + 1 /\ Past(p, e) # e
  BY DEF Past
<1>2. \A p, r \in 1 .. n : Past(p, e) = Past(r, e) => p = r
  BY DEF Past
<1>3. ASSUME NEW j \in 1 .. n + 1, j # e PROVE \E p \in 1 .. n : j = Past(p, e)
  <2>1. CASE j < e
    <3>1. j \in 1 .. n /\ j = Past(j, e)
      BY <2>1 DEF Past
    <3> QED
      BY <3>1
  <2>2. CASE j > e
    <3>1. j - 1 \in 1 .. n /\ j = Past(j - 1, e)
      BY <2>2 DEF Past
    <3> QED
      BY <3>1
  <2> QED
    BY <1>3, <2>1, <2>2
<1>4. \A d \in 0 .. e - 1, p \in 1 .. n : Past(p, e) = d <=> p = d
  BY DEF Past
<1> QED
  BY <1>1, <1>2, <1>3, <1>4

\* Requests are counted by what they carry: SetAside, Join and Leave.
Sound(list) ==
  /\ list \in Seq(Requests)
  /\ \A p \in 1 .. Len(list) : list[p].state # Null => list[p].who \in Queries

LEMMA ListedSound ==
  ASSUME NEW s, NEW held, Base(s, held)
  PROVE  Sound(Listed(s))
  BY ListedFacts DEF Sound, Plain

LEMMA NoNames ==
  /\ Null \notin Servers /\ Null \notin Queries /\ Null \notin States
  /\ Freed \notin Servers /\ Freed \notin Queries
  /\ IsFiniteSet(Queries) /\ Servers \cap Queries = {}
  BY EvDnsAssumption

\* Those a search state is held for are few, and with one more are one more.
LEMMA HeldCount ==
  ASSUME NEW H \in SUBSET Queries, NEW q \in Queries \ H
  PROVE  /\ Cardinality(H) \in Nat /\ Cardinality(H \cup {q}) = Cardinality(H) + 1
<1>1. IsFiniteSet(H)
  BY NoNames, FS_Subset
<1> QED
  BY <1>1, FS_CardinalityType, FS_AddElement

LEMMA SameNamesLive ==
  ASSUME NEW a, NEW b, SameNames(a, b), NEW d, NEW limbo, NEW pending, NEW more, NEW less,
         less \subseteq more, Live(a, d, limbo, pending, more)
  PROVE  Live(b, d, limbo, pending, less)
<1>1. \A x : Carries(b, d, x) <=> Carries(a, d, x)
  BY DEF SameNames, SameName, Carries
<1>2. \A p, r \in 1 .. Len(b) :
        p # d /\ r # d /\ b[p].who = b[r].who /\ b[p].who \in Queries => p = r
  BY DEF SameNames, SameName, Live
<1> QED
  BY <1>1, <1>2 DEF Live

LEMMA SameNamesTracked ==
  ASSUME NEW a, NEW b, SameNames(a, b), NEW d, NEW states, NEW search, NEW left,
         Tracked(a, d, states, search, left)
  PROVE  Tracked(b, d, states, search, left)
<1>1. Len(b) = Len(a) /\ \A p \in 1 .. Len(a) : SameName(a[p], b[p])
  BY DEF SameNames
<1>2. \A k : HeldFor(b, d, k) = HeldFor(a, d, k)
  BY <1>1 DEF HeldFor, SameName
<1>3. \A k : One(d \in 1 .. Len(b) /\ b[d].state = k) = One(d \in 1 .. Len(a) /\ a[d].state = k)
  BY <1>1 DEF One, SameName
<1>4. \A p \in 1 .. Len(a) : /\ Tries(b[p], states) = Tries(a[p], states)
                             /\ b[p].index = a[p].index /\ b[p].who = a[p].who
  BY <1>1 DEF Tries, SameName
<1>5. \A k \in States :
        states[k].refcount =
          Cardinality(HeldFor(b, d, k)) + One(search = k)
            + One(d \in 1 .. Len(b) /\ b[d].state = k)
  <2> SUFFICES ASSUME NEW k \in States
               PROVE  states[k].refcount =
                        Cardinality(HeldFor(b, d, k)) + One(search = k)
                          + One(d \in 1 .. Len(b) /\ b[d].state = k)
    OBVIOUS
  <2>1. states[k].refcount =
          Cardinality(HeldFor(a, d, k)) + One(search = k)
            + One(d \in 1 .. Len(a) /\ a[d].state = k)
    BY DEF Tracked
  <2> QED
    BY <1>2, <1>3, <2>1
<1>6. \A p \in 1 .. Len(b) :
        b[p].index >= -1 /\
        (p # d /\ b[p].who \in Queries => Tries(b[p], states) = left[b[p].who])
  BY <1>1, <1>4 DEF Tracked
<1> QED
  BY <1>5, <1>6 DEF Tracked

LEMMA AlikeResolver ==
  ASSUME NEW s, NEW held, NEW d, NEW limbo, Resolver(s, held, d, limbo),
         NEW t, NEW now, Base(t, now), Alike(s, t)
  PROVE  Resolver(t, now, d, limbo)
<1>1. Live(Listed(t), d, limbo, s.pending, Unwatched(t))
  BY SameNamesLive DEF Alike, Resolver
<1>2. Tracked(Listed(t), d, s.states, s.search, s.left)
  BY SameNamesTracked DEF Alike, Resolver
<1> QED
  BY <1>1, <1>2 DEF Alike, SameUser, Resolver

\* The request at place i is set aside, to be finished.
LEMMA SetAside ==
  ASSUME NEW s, NEW held, NEW limbo, Resolver(s, held, 0, limbo),
         NEW i \in 1 .. Len(s.inflight)
  PROVE  Resolver(s, held \cup {i}, i, limbo \cup {s.inflight[i].who})
<1> DEFINE list == Listed(s)
           x == s.inflight[i].who
<1>1. Base(s, held) /\ Sound(list)
  BY ListedSound DEF Resolver
<1>2. i \in 1 .. Len(list) /\ list[i] = s.inflight[i] /\ 0 \notin 1 .. Len(list)
  <2> DEFINE m == Len(s.inflight)
             w == Len(s.waiting)
  <2>1. m \in Nat /\ w \in Nat /\ Len(list) = m + w /\ i \in 1 .. m
    BY <1>1, FlightFacts, ListedFacts
  <2>2. i \in 1 .. Len(list) /\ i <= m /\ 0 \notin 1 .. Len(list)
    <3> HIDE DEF m, w, list
    <3> QED
      BY <2>1
  <2> QED
    BY <1>1, <2>2, ListedFacts
<1>3. Live(list, i, limbo \cup {x}, s.pending, Unwatched(s))
  <2>1. Live(list, 0, limbo, s.pending, Unwatched(s))
    BY DEF Resolver
  <2> HIDE DEF list
  <2>2. \A y : Carries(list, 0, y) <=> Carries(list, i, y) \/ y = x
    BY <1>2 DEF Carries
  <2>3. x \in Queries => ~Carries(list, i, x)
    BY <1>2, <2>1 DEF Carries, Live
  <2>4. x \in Queries => s.pending[x] = 1
    BY <1>2, <2>1, <2>2 DEF Live
  <2>5. \A p, r \in 1 .. Len(list) :
          list[p].who = list[r].who /\ list[p].who \in Queries => p = r
    BY <1>2, <2>1 DEF Live
  <2> HIDE DEF x
  <2> QED
    BY <2>1, <2>2, <2>3, <2>4, <2>5 DEF Live
<1>4. Tracked(list, i, s.states, s.search, s.left)
  <2>1. Tracked(list, 0, s.states, s.search, s.left) /\ Live(list, 0, limbo, s.pending, Unwatched(s))
    BY DEF Resolver
  <2> HIDE DEF list
  <2>2. ASSUME NEW k \in States
        PROVE  s.states[k].refcount =
                 Cardinality(HeldFor(list, i, k)) + One(s.search = k)
                   + One(i \in 1 .. Len(list) /\ list[i].state = k)
    <3>1. s.states[k].refcount = Cardinality(HeldFor(list, 0, k)) + One(s.search = k) + 0
      BY <1>2, <2>1 DEF Tracked, One
    <3>2. CASE list[i].state # k
      <4>1. HeldFor(list, 0, k) = HeldFor(list, i, k)
        BY <1>2, <3>2 DEF HeldFor
      <4> QED
        BY <1>2, <3>1, <3>2, <4>1 DEF One
    <3>3. CASE list[i].state = k
      <4>1. x \in Queries
        BY <1>1, <1>2, <3>3, NoNames DEF Sound
      <4>2. HeldFor(list, 0, k) = HeldFor(list, i, k) \cup {x}
        BY <1>2, <3>3, <4>1 DEF HeldFor
      <4>3. x \notin HeldFor(list, i, k)
        BY <1>2, <2>1 DEF HeldFor, Live
      <4>4. /\ Cardinality(HeldFor(list, i, k)) \in Nat
            /\ Cardinality(HeldFor(list, 0, k)) = Cardinality(HeldFor(list, i, k)) + 1
        BY <4>1, <4>2, <4>3, HeldCount DEF HeldFor
      <4> QED
        BY <1>2, <3>1, <3>3, <4>4 DEF One
    <3> QED
      BY <3>2, <3>3
  <2> QED
    BY <1>2, <2>1, <2>2 DEF Tracked
<1>5. Base(s, held \cup {i})
  BY <1>1, HeldMore
<1> QED
  BY <1>3, <1>4, <1>5 DEF Resolver

\* What two lists carry, one of which has a request more.
LEMMA InsertFacts ==
  ASSUME NEW a, NEW b, NEW e, NEW r, Inserts(a, b, e, r)
  PROVE  /\ \A d \in 0 .. e - 1 : \A x : Carries(b, d, x) <=> Carries(a, d, x) \/ r.who = x
         /\ \A x : Carries(b, e, x) <=> Carries(a, 0, x)
         /\ \A d \in 0 .. e - 1 : \A k :
              /\ (r.state # k \/ r.who \notin Queries) => HeldFor(b, d, k) = HeldFor(a, d, k)
              /\ (r.state = k /\ r.who \in Queries) =>
                    HeldFor(b, d, k) = HeldFor(a, d, k) \cup {r.who}
         /\ \A k : HeldFor(b, e, k) = HeldFor(a, 0, k)
         /\ \A d \in 0 .. e - 1 : \A k :
              (d \in 1 .. Len(b) /\ b[d].state = k) <=> (d \in 1 .. Len(a) /\ a[d].state = k)
<1> DEFINE n == Len(a)
<1>1. /\ n \in Nat /\ Len(b) = n + 1 /\ e \in 1 .. n + 1 /\ SameName(r, b[e])
      /\ \A p \in 1 .. n : SameName(a[p], b[Past(p, e)])
  BY DEF Inserts
<1> HIDE DEF n
<1>2. /\ \A p \in 1 .. n : Past(p, e) \in 1 .. n + 1 /\ Past(p, e) # e
      /\ \A j \in 1 .. n + 1 : j # e => \E p \in 1 .. n : j = Past(p, e)
      /\ \A d \in 0 .. e - 1, p \in 1 .. n : Past(p, e) = d <=> p = d
  BY <1>1, PastFacts
<1>3. ASSUME NEW d \in 0 .. e - 1
      PROVE  /\ d # e
             /\ \A x, k : (\E p \in 1 .. n + 1 : p # d /\ b[p].who = x /\ b[p].state = k) <=>
                            \/ \E p \in 1 .. n : p # d /\ a[p].who = x /\ a[p].state = k
                            \/ r.who = x /\ r.state = k
             /\ \A x : (\E p \in 1 .. n + 1 : p # d /\ b[p].who = x) <=>
                         (\E p \in 1 .. n : p # d /\ a[p].who = x) \/ r.who = x
  <2>1. d # e
    BY <1>1
  <2>2. ASSUME NEW p \in 1 .. n + 1
        PROVE  \/ p = e
               \/ \E j \in 1 .. n : p = Past(j, e) /\ SameName(a[j], b[p]) /\ (p = d <=> j = d)
    BY <1>1, <1>2
  <2>3. ASSUME NEW p \in 1 .. n
        PROVE  \E j \in 1 .. n + 1 : j # e /\ SameName(a[p], b[j]) /\ (j = d <=> p = d)
    BY <1>1, <1>2
  <2>4. e \in 1 .. n + 1 /\ b[e].who = r.who /\ b[e].state = r.state
    BY <1>1 DEF SameName
  <2>5. ASSUME NEW x, NEW k
        PROVE  (\E p \in 1 .. n + 1 : p # d /\ b[p].who = x /\ b[p].state = k) <=>
                 \/ \E p \in 1 .. n : p # d /\ a[p].who = x /\ a[p].state = k
                 \/ r.who = x /\ r.state = k
    <3>1. ASSUME NEW p \in 1 .. n + 1, p # d, b[p].who = x, b[p].state = k
          PROVE  \/ \E j \in 1 .. n : j # d /\ a[j].who = x /\ a[j].state = k
                 \/ r.who = x /\ r.state = k
      BY <2>2, <2>4, <3>1 DEF SameName
    <3>2. ASSUME NEW p \in 1 .. n, p # d, a[p].who = x, a[p].state = k
          PROVE  \E j \in 1 .. n + 1 : j # d /\ b[j].who = x /\ b[j].state = k
      BY <2>3, <3>2 DEF SameName
    <3> QED
      BY <2>1, <2>4, <3>1, <3>2
  <2>6. ASSUME NEW x
        PROVE  (\E p \in 1 .. n + 1 : p # d /\ b[p].who = x) <=>
                 (\E p \in 1 .. n : p # d /\ a[p].who = x) \/ r.who = x
    <3>1. ASSUME NEW p \in 1 .. n + 1, p # d, b[p].who = x
          PROVE  (\E j \in 1 .. n : j # d /\ a[j].who = x) \/ r.who = x
      BY <2>2, <2>4, <3>1 DEF SameName
    <3>2. ASSUME NEW p \in 1 .. n, p # d, a[p].who = x
          PROVE  \E j \in 1 .. n + 1 : j # d /\ b[j].who = x
      BY <2>3, <3>2 DEF SameName
    <3> QED
      BY <2>1, <2>4, <3>1, <3>2
  <2> QED
    BY <2>1, <2>5, <2>6
<1>4. /\ \A x, k : (\E p \in 1 .. n + 1 : p # e /\ b[p].who = x /\ b[p].state = k) <=>
                     (\E p \in 1 .. n : p # 0 /\ a[p].who = x /\ a[p].state = k)
      /\ \A x : (\E p \in 1 .. n + 1 : p # e /\ b[p].who = x) <=>
                  (\E p \in 1 .. n : p # 0 /\ a[p].who = x)
  <2>1. ASSUME NEW p \in 1 .. n + 1, p # e
        PROVE  \E j \in 1 .. n : j # 0 /\ SameName(a[j], b[p])
    BY <1>1, <1>2, <2>1
  <2>2. ASSUME NEW p \in 1 .. n
        PROVE  \E j \in 1 .. n + 1 : j # e /\ SameName(a[p], b[j])
    BY <1>1, <1>2
  <2> QED
    BY <2>1, <2>2 DEF SameName
<1>5. ASSUME NEW d \in 0 .. e - 1, NEW k
      PROVE  (d \in 1 .. n + 1 /\ b[d].state = k) <=> (d \in 1 .. n /\ a[d].state = k)
  <2>1. CASE d = 0
    BY <2>1
  <2>2. CASE d # 0
    <3>1. d \in 1 .. n /\ d \in 1 .. n + 1 /\ Past(d, e) = d
      BY <1>1, <2>2 DEF Past
    <3>2. SameName(a[d], b[d])
      BY <1>1, <3>1
    <3> QED
      BY <3>1, <3>2 DEF SameName
  <2> QED
    BY <2>1, <2>2
<1>6. ASSUME NEW d, NEW x
      PROVE  /\ Carries(b, d, x) <=> \E p \in 1 .. n + 1 : p # d /\ b[p].who = x
             /\ Carries(a, d, x) <=> \E p \in 1 .. n : p # d /\ a[p].who = x
  <2>1. Carries(b, d, x) <=> \E p \in 1 .. n + 1 : p # d /\ b[p].who = x
    BY <1>1 DEF Carries
  <2>2. Carries(a, d, x) <=> \E p \in 1 .. n : p # d /\ a[p].who = x
    BY DEF Carries, n
  <2> QED
    BY <2>1, <2>2
<1>7. ASSUME NEW d, NEW k, NEW q \in Queries
      PROVE  /\ q \in HeldFor(b, d, k) <=>
                  \E p \in 1 .. n + 1 : p # d /\ b[p].who = q /\ b[p].state = k
             /\ q \in HeldFor(a, d, k) <=>
                  \E p \in 1 .. n : p # d /\ a[p].who = q /\ a[p].state = k
  <2>1. q \in HeldFor(b, d, k) <=>
          \E p \in 1 .. n + 1 : p # d /\ b[p].who = q /\ b[p].state = k
    BY <1>1 DEF HeldFor
  <2>2. q \in HeldFor(a, d, k) <=>
          \E p \in 1 .. n : p # d /\ a[p].who = q /\ a[p].state = k
    BY DEF HeldFor, n
  <2> QED
    BY <2>1, <2>2
<1>8. ASSUME NEW d \in 0 .. e - 1, NEW x
      PROVE  Carries(b, d, x) <=> Carries(a, d, x) \/ r.who = x
  BY <1>3, <1>6
<1>9. \A x : Carries(b, e, x) <=> Carries(a, 0, x)
  BY <1>4, <1>6
<1>10. ASSUME NEW d \in 0 .. e - 1, NEW k
       PROVE  /\ (r.state # k \/ r.who \notin Queries) => HeldFor(b, d, k) = HeldFor(a, d, k)
              /\ (r.state = k /\ r.who \in Queries) =>
                    HeldFor(b, d, k) = HeldFor(a, d, k) \cup {r.who}
  <2>1. \A q \in Queries : q \in HeldFor(b, d, k) <=>
          q \in HeldFor(a, d, k) \/ (r.who = q /\ r.state = k)
    BY <1>3, <1>7
  <2>2. HeldFor(b, d, k) \subseteq Queries /\ HeldFor(a, d, k) \subseteq Queries
    BY DEF HeldFor
  <2> QED
    BY <2>1, <2>2
<1>11. ASSUME NEW k PROVE HeldFor(b, e, k) = HeldFor(a, 0, k)
  <2>1. \A q \in Queries : q \in HeldFor(b, e, k) <=> q \in HeldFor(a, 0, k)
    BY <1>4, <1>7
  <2>2. HeldFor(b, e, k) \subseteq Queries /\ HeldFor(a, 0, k) \subseteq Queries
    BY DEF HeldFor
  <2> QED
    BY <2>1, <2>2
<1> QED
  BY <1>1, <1>5, <1>8, <1>9, <1>10, <1>11 DEF n

\* A request for what is in limbo joins the list.
LEMMA JoinLive ==
  ASSUME NEW a, NEW b, NEW e, NEW r, Inserts(a, b, e, r), NEW d \in 0 .. e - 1,
         NEW limbo, r.who \in limbo, NEW pending, NEW more, NEW less, less \subseteq more,
         Live(a, d, limbo, pending, more)
  PROVE  Live(b, d, limbo \ {r.who}, pending, less)
<1> DEFINE n == Len(a)
<1>1. /\ n \in Nat /\ Len(b) = n + 1 /\ e \in 1 .. n + 1 /\ SameName(r, b[e])
      /\ \A p \in 1 .. n : SameName(a[p], b[Past(p, e)])
  BY DEF Inserts
<1>2. \A x : Carries(b, d, x) <=> Carries(a, d, x) \/ r.who = x
  BY InsertFacts
<1>3. r.who \in Queries => ~Carries(a, d, r.who) /\ pending[r.who] = 1
  BY DEF Live
<1>4. ASSUME NEW p \in 1 .. n + 1, NEW j \in 1 .. n + 1, p # d, j # d,
             b[p].who = b[j].who, b[p].who \in Queries
      PROVE  p = j
  <2> HIDE DEF n
  <2>1. ASSUME NEW u \in 1 .. n + 1, u # d, u # e
        PROVE  \E v \in 1 .. n : v # d /\ u = Past(v, e) /\ a[v].who = b[u].who
    <3>1. PICK v \in 1 .. n : u = Past(v, e)
      BY <1>1, <2>1, PastFacts
    <3>2. v # d
      BY <1>1, <2>1, <3>1, PastFacts
    <3> QED
      BY <1>1, <3>1, <3>2 DEF SameName
  <2>2. ASSUME NEW u \in 1 .. n + 1, u # d, u # e, b[u].who \in Queries
        PROVE  b[u].who # r.who
    <3>1. Carries(a, d, b[u].who)
      BY <2>1, <2>2 DEF Carries, n
    <3> QED
      BY <1>3, <2>2, <3>1
  <2>3. b[e].who = r.who
    BY <1>1 DEF SameName
  <2>4. CASE p # e /\ j # e
    <3>1. PICK v \in 1 .. n : v # d /\ p = Past(v, e) /\ a[v].who = b[p].who
      BY <1>4, <2>1, <2>4
    <3>2. PICK w \in 1 .. n : w # d /\ j = Past(w, e) /\ a[w].who = b[j].who
      BY <1>4, <2>1, <2>4
    <3>3. v = w
      BY <1>4, <3>1, <3>2 DEF Live, n
    <3> QED
      BY <3>1, <3>2, <3>3
  <2> QED
    BY <1>4, <2>2, <2>3, <2>4
<1>5. \A q \in Queries :
        Carries(b, d, q) <=> pending[q] = 1 /\ q \notin limbo \ {r.who}
  BY <1>2, <1>3 DEF Live
<1>6. \A m \in less : m \in limbo \ {r.who} \/ Carries(b, d, m)
  BY <1>2 DEF Live
<1> QED
  BY <1>1, <1>4, <1>5, <1>6 DEF Live

Holds(states, k) ==
  IF k = Null THEN states ELSE [states EXCEPT ![k].refcount = @ + 1]

LEMMA HoldsFacts ==
  ASSUME NEW states \in [States -> SearchStates], NEW k \in States \cup {Null}
  PROVE  /\ Holds(states, k) \in [States -> SearchStates]
         /\ \A j \in States : /\ Holds(states, k)[j].domains = states[j].domains
                              /\ Holds(states, k)[j].ndots = states[j].ndots
                              /\ Holds(states, k)[j].refcount =
                                   states[j].refcount + One(j = k)
<1>1. CASE k = Null
  BY <1>1, NoNames DEF Holds, SearchStates, One
<1>2. CASE k # Null
  <2>1. k \in States /\ Holds(states, k) = [states EXCEPT ![k].refcount = @ + 1]
    BY <1>2 DEF Holds
  <2> DEFINE c == states[k]
             u == [c EXCEPT !.refcount = @ + 1]
  <2>2. c \in SearchStates
    BY <2>1
  <2>3. /\ u \in SearchStates /\ u.domains = c.domains /\ u.ndots = c.ndots
        /\ u.refcount = c.refcount + 1
    <3> HIDE DEF c
    <3>1. c.refcount + 1 \in Nat
      BY <2>2 DEF SearchStates
    <3> DEFINE m == c.refcount + 1
    <3>2. m \in Nat /\ u = [c EXCEPT !.refcount = m]
      BY <3>1
    <3> HIDE DEF m, u
    <3>3. u \in SearchStates /\ u.domains = c.domains /\ u.ndots = c.ndots /\ u.refcount = m
      BY <2>2, <3>2 DEF SearchStates
    <3> QED
      BY <3>3 DEF m
  <2>4. Holds(states, k) = [states EXCEPT ![k] = u]
    BY <2>1
  <2>5. \A j \in States : states[j].refcount \in Nat
    BY DEF SearchStates
  <2> HIDE DEF u
  <2>6. Holds(states, k) \in [States -> SearchStates]
    BY <2>3, <2>4
  <2>7. \A j \in States : Holds(states, k)[j] = IF j = k THEN u ELSE states[j]
    BY <2>1, <2>4
  <2> QED
    BY <2>3, <2>5, <2>6, <2>7 DEF One
<1> QED
  BY <1>1, <1>2

LEMMA TriesSame ==
  ASSUME NEW r, NEW states, NEW more,
         r.state = Null \/ (/\ more[r.state].domains = states[r.state].domains
                            /\ more[r.state].ndots = states[r.state].ndots)
  PROVE  Tries(r, more) = Tries(r, states)
  BY DEF Tries

\* The one more holder of a search state is counted.
LEMMA JoinTracked ==
  ASSUME NEW a, NEW b, NEW e, NEW r \in Requests, Inserts(a, b, e, r), NEW d \in 0 .. e - 1,
         Sound(a), r.state # Null => r.who \in Queries, r.index >= -1,
         r.who \in Queries => ~Carries(a, d, r.who),
         NEW states, NEW search, NEW left, Tracked(a, d, states, search, left),
         NEW now \in [Queries -> Seq(Domains \cup {Null})],
         \A q \in Queries : now[q] = IF q = r.who THEN Tries(r, states) ELSE left[q]
  PROVE  Tracked(b, d, Holds(states, r.state), search, now)
<1> DEFINE n == Len(a)
           held == Holds(states, r.state)
<1>1. /\ n \in Nat /\ Len(b) = n + 1 /\ e \in 1 .. n + 1 /\ SameName(r, b[e])
      /\ \A p \in 1 .. n : SameName(a[p], b[Past(p, e)])
  BY DEF Inserts
<1>2. /\ states \in [States -> SearchStates] /\ search \in States \cup {Null}
      /\ r.state \in States \cup {Null}
  BY DEF Tracked, Requests
<1>3. /\ held \in [States -> SearchStates]
      /\ \A j \in States : /\ held[j].domains = states[j].domains
                           /\ held[j].ndots = states[j].ndots
                           /\ held[j].refcount = states[j].refcount + One(j = r.state)
  BY <1>2, HoldsFacts
<1> HIDE DEF held, n
<1>7. /\ \A p \in 1 .. n : Past(p, e) = d <=> p = d
      /\ \A p \in 1 .. n + 1 : p # e => \E v \in 1 .. n : p = Past(v, e)
  BY <1>1, PastFacts
<1>8. /\ \A k : (r.state # k \/ r.who \notin Queries) => HeldFor(b, d, k) = HeldFor(a, d, k)
      /\ \A k : (r.state = k /\ r.who \in Queries) =>
                  HeldFor(b, d, k) = HeldFor(a, d, k) \cup {r.who}
  <2>1. \A u \in 0 .. e - 1 : \A k :
          /\ (r.state # k \/ r.who \notin Queries) => HeldFor(b, u, k) = HeldFor(a, u, k)
          /\ (r.state = k /\ r.who \in Queries) =>
                HeldFor(b, u, k) = HeldFor(a, u, k) \cup {r.who}
    BY InsertFacts
  <2> QED
    BY <2>1, Zenon
<1>4. ASSUME NEW k \in States
      PROVE  held[k].refcount =
               Cardinality(HeldFor(b, d, k)) + One(search = k)
                 + One(d \in 1 .. Len(b) /\ b[d].state = k)
  <2>1. states[k].refcount =
          Cardinality(HeldFor(a, d, k)) + One(search = k)
            + One(d \in 1 .. Len(a) /\ a[d].state = k)
    BY DEF Tracked
  <2>2. One(d \in 1 .. Len(b) /\ b[d].state = k) = One(d \in 1 .. Len(a) /\ a[d].state = k)
    <3>1. \A u \in 0 .. e - 1 : \A j :
            (u \in 1 .. Len(b) /\ b[u].state = j) <=> (u \in 1 .. Len(a) /\ a[u].state = j)
      BY InsertFacts
    <3>2. (d \in 1 .. Len(b) /\ b[d].state = k) <=> (d \in 1 .. Len(a) /\ a[d].state = k)
      BY <3>1, Zenon
    <3>3. QED
      BY <3>2, Zenon DEF One
  <2>3. held[k].refcount = states[k].refcount + One(k = r.state)
    BY <1>3
  <2>4. One(search = k) \in Nat /\ One(d \in 1 .. Len(a) /\ a[d].state = k) \in Nat
    BY DEF One
  <2>5. HeldFor(a, d, k) \in SUBSET Queries
    BY DEF HeldFor
  <2>6. Cardinality(HeldFor(a, d, k)) \in Nat
    BY <2>5, NoNames, FS_Subset, FS_CardinalityType
  <2>7. CASE r.state # k
    <3>1. HeldFor(b, d, k) = HeldFor(a, d, k)
      BY <2>7, InsertFacts
    <3>2. held[k].refcount = states[k].refcount
      BY <1>2, <2>3, <2>7 DEF One, SearchStates
    <3> QED
      BY <2>1, <2>2, <3>1, <3>2
  <2>8. CASE r.state = k
    <3>1. r.who \in Queries
      BY <2>8, NoNames
    <3>2. HeldFor(b, d, k) = HeldFor(a, d, k) \cup {r.who}
      BY <1>8, <2>8, <3>1
    <3>3. r.who \notin HeldFor(a, d, k)
      BY <3>1 DEF HeldFor, Carries
    <3>4. Cardinality(HeldFor(b, d, k)) = Cardinality(HeldFor(a, d, k)) + 1
      BY <2>5, <3>1, <3>2, <3>3, HeldCount
    <3>5. held[k].refcount = states[k].refcount + 1
      BY <2>3, <2>8 DEF One
    <3> HIDE DEF One
    <3> QED
      BY <2>1, <2>2, <2>4, <2>6, <3>4, <3>5
  <2> QED
    BY <2>7, <2>8
<1>5. ASSUME NEW u \in Requests
      PROVE  Tries(u, held) = Tries(u, states)
  <2>1. u.state \in States \cup {Null}
    BY DEF Requests
  <2> QED
    BY <1>3, <2>1, TriesSame
<1>6. ASSUME NEW p \in 1 .. n + 1
      PROVE  /\ b[p].index >= -1
             /\ p # d /\ b[p].who \in Queries => Tries(b[p], held) = now[b[p].who]
  <2>1. b[p] \in Requests
    BY <1>1 DEF Inserts
  <2>2. CASE p = e
    <3>1. b[p].index = r.index /\ b[p].who = r.who /\ Tries(b[p], held) = Tries(r, held)
      BY <1>1, <2>2 DEF SameName, Tries
    <3> QED
      BY <1>5, <3>1
  <2>3. CASE p # e
    <3>1. PICK v \in 1 .. n : p = Past(v, e)
      BY <1>7, <2>3
    <3>2. SameName(a[v], b[p]) /\ (p = d <=> v = d)
      BY <1>1, <1>7, <3>1
    <3>3. /\ a[v].index >= -1
          /\ v # d /\ a[v].who \in Queries => Tries(a[v], states) = left[a[v].who]
      BY <1>1 DEF Tracked, n
    <3>4. Tries(b[p], states) = Tries(a[v], states) /\ b[p].who = a[v].who
          /\ b[p].index = a[v].index
      BY <3>2 DEF SameName, Tries
    <3>5. p # d /\ b[p].who \in Queries => b[p].who # r.who
      BY <1>1, <3>2, <3>4 DEF Carries, n
    <3> QED
      BY <1>5, <2>1, <3>2, <3>3, <3>4, <3>5
  <2> QED
    BY <2>2, <2>3
<1> QED
  BY <1>1, <1>2, <1>3, <1>4, <1>6 DEF Tracked, held

\* The request that is over leaves the list.
LEMMA LeaveLive ==
  ASSUME NEW a, NEW b, NEW e, NEW r, Inserts(a, b, e, r),
         NEW limbo, NEW pending, NEW more, NEW less, less \subseteq more,
         Live(b, e, limbo, pending, more)
  PROVE  Live(a, 0, limbo, pending, less)
<1> DEFINE n == Len(a)
<1>1. /\ n \in Nat /\ Len(b) = n + 1 /\ e \in 1 .. n + 1
      /\ \A p \in 1 .. n : a[p].who = b[Past(p, e)].who
  BY DEF Inserts, SameName
<1>2. \A x : Carries(b, e, x) <=> Carries(a, 0, x)
  BY InsertFacts
<1>3. /\ \A p \in 1 .. n : Past(p, e) \in 1 .. n + 1 /\ Past(p, e) # e
      /\ \A p, j \in 1 .. n : Past(p, e) = Past(j, e) => p = j
  BY <1>1, PastFacts
<1>4. \A p, j \in 1 .. n + 1 : p # e /\ j # e /\ b[p].who = b[j].who /\ b[p].who \in Queries => p = j
  BY <1>1 DEF Live
<1>5. ASSUME NEW p \in 1 .. n, NEW j \in 1 .. n, a[p].who = a[j].who, a[p].who \in Queries
      PROVE  p = j
  <2>1. Past(p, e) = Past(j, e)
    BY <1>1, <1>3, <1>4, <1>5
  <2> QED
    BY <1>3, <2>1
<1> QED
  BY <1>2, <1>5 DEF Live

Drops(states, k) ==
  IF k = Null THEN states
  ELSE [states EXCEPT ![k] = Decref(@)]

LEMMA DropsFacts ==
  ASSUME NEW states \in [States -> SearchStates], NEW k \in States \cup {Null},
         k # Null => states[k].refcount > 0
  PROVE  /\ Drops(states, k) \in [States -> SearchStates]
         /\ \A j \in States :
              /\ Drops(states, k)[j].refcount = states[j].refcount - One(j = k)
              /\ j # k \/ states[j].refcount > 1 =>
                   /\ Drops(states, k)[j].domains = states[j].domains
                   /\ Drops(states, k)[j].ndots = states[j].ndots
<1>1. CASE k = Null
  <2>1. Drops(states, k) = states /\ \A j \in States : One(j = k) = 0
    BY <1>1, NoNames DEF Drops, One
  <2>2. \A j \in States : states[j].refcount \in Nat
    BY DEF SearchStates
  <2> QED
    BY <2>1, <2>2
<1>2. CASE k # Null
  <2> DEFINE c == states[k]
             m == c.refcount - 1
             u == IF c.refcount = 1 THEN NoState ELSE [c EXCEPT !.refcount = m]
  <2>1. c \in SearchStates /\ k \in States /\ c.refcount > 0
    BY <1>2
  <2>2. m \in Nat /\ (c.refcount = 1 <=> m = 0)
    BY <2>1 DEF SearchStates
  <2>3. Drops(states, k) = [states EXCEPT ![k] = u]
    BY <1>2 DEF Drops, Decref
  <2>4. \A j \in States : states[j].refcount \in Nat
    BY DEF SearchStates
  <2>5. /\ u \in SearchStates /\ u.refcount = m
        /\ c.refcount > 1 => u.domains = c.domains /\ u.ndots = c.ndots
    <3>1. CASE c.refcount = 1
      BY <2>2, <3>1 DEF NoState, SearchStates
    <3>2. CASE c.refcount # 1
      <4>1. u = [c EXCEPT !.refcount = m]
        BY <3>2
      <4> HIDE DEF u, m, c
      <4> QED
        BY <2>1, <2>2, <4>1 DEF SearchStates
    <3> QED
      BY <3>1, <3>2
  <2> HIDE DEF u
  <2>6. Drops(states, k) \in [States -> SearchStates]
    BY <2>3, <2>5
  <2>7. \A j \in States : Drops(states, k)[j] = IF j = k THEN u ELSE states[j]
    BY <2>1, <2>3
  <2> QED
    BY <2>4, <2>5, <2>6, <2>7 DEF One
<1> QED
  BY <1>1, <1>2

LEMMA LeaveTracked ==
  ASSUME NEW a, NEW b, NEW e, NEW r, Inserts(a, b, e, r), Sound(b),
         NEW states, NEW search, NEW left, Tracked(b, e, states, search, left)
  PROVE  Tracked(a, 0, Drops(states, b[e].state), search, left)
<1> DEFINE n == Len(a)
           k == b[e].state
           now == Drops(states, k)
<1>1. /\ n \in Nat /\ Len(b) = n + 1 /\ e \in 1 .. n + 1
      /\ \A p \in 1 .. n : SameName(a[p], b[Past(p, e)])
  BY DEF Inserts
<1>2. /\ states \in [States -> SearchStates] /\ search \in States \cup {Null}
      /\ left \in [Queries -> Seq(Domains \cup {Null})]
  BY DEF Tracked
<1>3. k \in States \cup {Null}
  <2>1. b[e] \in Requests
    BY <1>1 DEF Sound
  <2> QED
    BY <2>1 DEF Requests
<1>4. ASSUME NEW j \in States
      PROVE  /\ Cardinality(HeldFor(a, 0, j)) \in Nat /\ One(search = j) \in Nat
             /\ states[j].refcount =
                  Cardinality(HeldFor(a, 0, j)) + One(search = j) + One(j = k)
             /\ (\E q \in Queries : q \in HeldFor(a, 0, j)) => Cardinality(HeldFor(a, 0, j)) > 0
  <2>1. states[j].refcount =
          Cardinality(HeldFor(b, e, j)) + One(search = j)
            + One(e \in 1 .. Len(b) /\ b[e].state = j)
    BY DEF Tracked
  <2>2. HeldFor(b, e, j) = HeldFor(a, 0, j) /\ HeldFor(a, 0, j) \subseteq Queries
    BY InsertFacts DEF HeldFor
  <2>3. One(e \in 1 .. Len(b) /\ b[e].state = j) = One(j = k)
    BY <1>1 DEF One
  <2>4. IsFiniteSet(HeldFor(a, 0, j))
    BY <2>2, NoNames, FS_Subset
  <2>5. Cardinality(HeldFor(a, 0, j)) \in Nat
    BY <2>4, FS_CardinalityType
  <2>6. HeldFor(a, 0, j) # {} => Cardinality(HeldFor(a, 0, j)) # 0
    BY <2>4, FS_EmptySet
  <2>7. One(search = j) \in Nat
    BY DEF One
  <2> QED
    BY <2>1, <2>2, <2>3, <2>5, <2>6, <2>7
<1>5. k # Null => states[k].refcount > 0
  <2> SUFFICES ASSUME k # Null PROVE states[k].refcount > 0
    OBVIOUS
  <2>1. k \in States /\ One(k = k) = 1
    BY <1>3 DEF One
  <2> QED
    BY <1>4, <2>1
<1>6. /\ now \in [States -> SearchStates]
      /\ \A j \in States :
           /\ now[j].refcount = states[j].refcount - One(j = k)
           /\ j # k \/ states[j].refcount > 1 =>
                now[j].domains = states[j].domains /\ now[j].ndots = states[j].ndots
  BY <1>2, <1>3, <1>5, DropsFacts
<1> HIDE DEF now, n, k
<1>7. ASSUME NEW j \in States
      PROVE  now[j].refcount =
               Cardinality(HeldFor(a, 0, j)) + One(search = j)
                 + One(0 \in 1 .. Len(a) /\ a[0].state = j)
  <2>1. One(0 \in 1 .. Len(a) /\ a[0].state = j) = 0
    BY DEF One
  <2>2. One(j = k) \in Nat
    BY DEF One
  <2> QED
    BY <1>4, <1>6, <2>1, <2>2
<1>8. ASSUME NEW p \in 1 .. n
      PROVE  /\ a[p].index >= -1
             /\ a[p].who \in Queries => Tries(a[p], now) = left[a[p].who]
  <2> DEFINE c == b[Past(p, e)]
  <2>1. Past(p, e) \in 1 .. n + 1 /\ Past(p, e) # e
    BY <1>1, PastFacts
  <2>2. c.index >= -1 /\ (c.who \in Queries => Tries(c, states) = left[c.who])
    BY <1>1, <2>1 DEF Tracked
  <2>3. c.who = a[p].who /\ c.index = a[p].index /\ c.state = a[p].state
    BY <1>1 DEF SameName
  <2>4. a[p] \in Requests /\ (a[p].state # Null => a[p].who \in Queries)
    <3>1. a[p] \in Requests
      BY DEF Inserts, n
    <3>2. c.state # Null => c.who \in Queries
      BY <1>1, <2>1 DEF Sound
    <3> QED
      BY <2>3, <3>1, <3>2
  <2> HIDE DEF c
  <2>5. Tries(a[p], states) = Tries(c, states)
    BY <2>3 DEF Tries
  <2>6. Tries(a[p], now) = Tries(a[p], states)
    <3>1. CASE a[p].state = Null
      BY <3>1, TriesSame
    <3>2. CASE a[p].state # Null
      <4> DEFINE j == a[p].state
      <4>1. j \in States
        BY <2>4, <3>2 DEF Requests
      <4>2. a[p].who \in HeldFor(a, 0, j)
        BY <2>4, <3>2 DEF HeldFor, n
      <4>3. j # k \/ states[j].refcount > 1
        <5> SUFFICES ASSUME j = k PROVE states[j].refcount > 1
          OBVIOUS
        <5>1. One(j = k) = 1
          BY DEF One
        <5>2. Cardinality(HeldFor(a, 0, j)) > 0
          BY <1>4, <2>4, <3>2, <4>1, <4>2
        <5> HIDE DEF j
        <5> QED
          BY <1>4, <4>1, <5>1, <5>2
      <4>4. now[j].domains = states[j].domains /\ now[j].ndots = states[j].ndots
        <5> HIDE DEF j
        <5> QED
          BY <1>6, <4>1, <4>3
      <4> QED
        BY <4>4, TriesSame
    <3> QED
      BY <3>1, <3>2
  <2> QED
    BY <2>2, <2>3, <2>5, <2>6
<1> QED
  BY <1>2, <1>6, <1>7, <1>8 DEF Tracked, now, n, k

-----------------------------------------------------------------------------
(* A request is made, for a query or a probe.                              *)

Submits(s, t, r) ==
  /\ SameUser(s, t) /\ t.fault = s.fault
  /\ Ring(t) = Ring(s) /\ Unwatched(t) \subseteq Unwatched(s)
  /\ Len(s.inflight) <= Len(t.inflight)
  /\ \E e \in Len(s.inflight) + 1 .. Len(Listed(t)) : Inserts(Listed(s), Listed(t), e, r)

\* Listed, with a request more at the end of those in flight or at the very end.
LEMMA InsertFlight ==
  ASSUME NEW a \in Seq(Requests), NEW w \in Seq(Requests), NEW r \in Requests
  PROVE  Inserts(a \o w, Append(a, r) \o w, Len(a) + 1, r)
<1> DEFINE n == Len(a)
           m == Len(w)
           l == a \o w
           b == Append(a, r)
           k == b \o w
<1>1. n \in Nat /\ m \in Nat
  OBVIOUS
<1>2. /\ b \in Seq(Requests) /\ Len(b) = n + 1 /\ b[n + 1] = r
      /\ \A p \in 1 .. n : b[p] = a[p]
  BY AppendProperties
<1>3. /\ l \in Seq(Requests) /\ Len(l) = n + m
      /\ \A p \in 1 .. n + m : l[p] = IF p <= n THEN a[p] ELSE w[p - n]
  BY ConcatProperties
<1>4. /\ k \in Seq(Requests) /\ Len(k) = (n + 1) + m
      /\ \A p \in 1 .. (n + 1) + m : k[p] = IF p <= n + 1 THEN b[p] ELSE w[p - (n + 1)]
  <2> HIDE DEF b
  <2>1. /\ k \in Seq(Requests) /\ Len(k) = Len(b) + m
        /\ \A p \in 1 .. Len(b) + m : k[p] = IF p <= Len(b) THEN b[p] ELSE w[p - Len(b)]
    BY <1>2, ConcatProperties
  <2> QED
    BY <1>2, <2>1
<1> HIDE DEF n, m, l, b, k
<1>5. Len(k) = Len(l) + 1 /\ n + 1 \in 1 .. Len(k) /\ k[n + 1] = r
  <2>1. n + 1 \in 1 .. (n + 1) + m /\ (n + 1) + m = (n + m) + 1
    BY <1>1
  <2> QED
    BY <1>1, <1>2, <1>3, <1>4, <2>1
<1>6. ASSUME NEW p \in 1 .. Len(l) PROVE k[Past(p, n + 1)] = l[p]
  <2>1. p \in 1 .. n + m
    BY <1>3
  <2>2. CASE p <= n
    <3>1. p < n + 1 /\ p <= n + 1 /\ p \in 1 .. n /\ p \in 1 .. (n + 1) + m
      BY <1>1, <2>1, <2>2
    <3>2. Past(p, n + 1) = p
      BY <3>1 DEF Past
    <3> QED
      BY <1>2, <1>3, <1>4, <2>1, <2>2, <3>1, <3>2
  <2>3. CASE ~(p <= n)
    <3>1. /\ ~(p < n + 1) /\ p + 1 \in 1 .. (n + 1) + m /\ ~(p + 1 <= n + 1)
          /\ (p + 1) - (n + 1) = p - n
      BY <1>1, <2>1, <2>3
    <3>2. Past(p, n + 1) = p + 1
      BY <3>1 DEF Past
    <3> QED
      BY <1>3, <1>4, <2>1, <2>3, <3>1, <3>2
  <2> QED
    BY <2>2, <2>3
<1>7. Inserts(l, k, n + 1, r)
  BY <1>3, <1>4, <1>5, <1>6 DEF Inserts, SameName
<1> QED
  BY <1>7 DEF n, l, k, b

LEMMA InsertWaiting ==
  ASSUME NEW a \in Seq(Requests), NEW w \in Seq(Requests), NEW r \in Requests
  PROVE  Inserts(a \o w, a \o Append(w, r), Len(a) + Len(w) + 1, r)
<1> DEFINE n == Len(a)
           m == Len(w)
           l == a \o w
           b == Append(w, r)
           k == a \o b
<1>1. n \in Nat /\ m \in Nat
  OBVIOUS
<1>2. /\ b \in Seq(Requests) /\ Len(b) = m + 1 /\ b[m + 1] = r
      /\ \A p \in 1 .. m : b[p] = w[p]
  BY AppendProperties
<1>3. /\ l \in Seq(Requests) /\ Len(l) = n + m
      /\ \A p \in 1 .. n + m : l[p] = IF p <= n THEN a[p] ELSE w[p - n]
  BY ConcatProperties
<1>4. /\ k \in Seq(Requests) /\ Len(k) = n + (m + 1)
      /\ \A p \in 1 .. n + (m + 1) : k[p] = IF p <= n THEN a[p] ELSE b[p - n]
  <2> HIDE DEF b
  <2>1. /\ k \in Seq(Requests) /\ Len(k) = n + Len(b)
        /\ \A p \in 1 .. n + Len(b) : k[p] = IF p <= n THEN a[p] ELSE b[p - n]
    BY <1>2, ConcatProperties
  <2> QED
    BY <1>2, <2>1
<1> HIDE DEF n, m, l, b, k
<1> DEFINE e == n + m + 1
<1>5. Len(k) = Len(l) + 1 /\ e \in 1 .. Len(k) /\ k[e] = r
  <2>1. e \in 1 .. n + (m + 1) /\ n + (m + 1) = (n + m) + 1 /\ ~(e <= n) /\ e - n = m + 1
    BY <1>1
  <2> HIDE DEF e
  <2> QED
    BY <1>1, <1>2, <1>3, <1>4, <2>1
<1>6. ASSUME NEW p \in 1 .. Len(l) PROVE k[Past(p, e)] = l[p]
  <2>1. p \in 1 .. n + m
    BY <1>3
  <2>2. p < e /\ p \in 1 .. n + (m + 1)
    BY <1>1, <2>1
  <2>3. Past(p, e) = p
    BY <2>2 DEF Past
  <2>4. CASE p <= n
    BY <1>3, <1>4, <2>1, <2>2, <2>3, <2>4
  <2>5. CASE ~(p <= n)
    <3>1. p - n \in 1 .. m
      BY <1>1, <2>1, <2>5
    <3> HIDE DEF e
    <3> QED
      BY <1>2, <1>3, <1>4, <2>1, <2>2, <2>3, <2>5, <3>1
  <2> QED
    BY <2>4, <2>5
<1>7. Inserts(l, k, e, r)
  <2> HIDE DEF e
  <2> QED
    BY <1>3, <1>4, <1>5, <1>6 DEF Inserts, SameName
<1> QED
  BY <1>7 DEF n, m, l, k, b

LEMMA InsertThenSame ==
  ASSUME NEW a, NEW b, NEW c, NEW e, NEW r, Inserts(a, b, e, r), SameNames(b, c)
  PROVE  Inserts(a, c, e, r)
<1> DEFINE n == Len(a)
<1>1. n \in Nat /\ Len(b) = n + 1 /\ e \in 1 .. n + 1
  BY DEF Inserts
<1>2. \A p \in 1 .. n : Past(p, e) \in 1 .. n + 1
  BY <1>1, PastFacts
<1>3. c \in Seq(Requests) /\ Len(c) = n + 1 /\ \A j \in 1 .. n + 1 : SameName(b[j], c[j])
  BY <1>1 DEF SameNames
<1>4. SameName(r, c[e])
  BY <1>1, <1>3 DEF Inserts, SameName
<1>5. \A p \in 1 .. n : SameName(a[p], c[Past(p, e)])
  BY <1>2, <1>3 DEF Inserts, SameName
<1> QED
  BY <1>1, <1>3, <1>4, <1>5 DEF Inserts

\* request_submit sends a request that has a server, and lets others wait.
LEMMA SubmitFacts ==
  ASSUME NEW s, NEW held, Base(s, held), NEW r \in Requests, Plain(r, Ring(s)),
         IF r.ns = Null THEN Plain(r, {}) ELSE Sendable(r, Ring(s))
  PROVE  Base(request_submit(s, r), held) /\ Submits(s, request_submit(s, r), r)
<1> DEFINE n == Len(s.inflight) + 1
           t == [s EXCEPT !.inflight = Append(@, r), !.nInflight = @ + 1]
           u == evdns_request_transmit(t, n)
           w == [s EXCEPT !.waiting = Append(@, r), !.nWaiting = @ + 1]
<1>1. /\ s.inflight \in Seq(Requests) /\ s.waiting \in Seq(Requests)
      /\ Len(s.inflight) \in Nat /\ Len(s.waiting) \in Nat /\ n \in Nat
  BY FlightFacts
<1>2. CASE r.ns # Null
  <2>1. /\ Append(s.inflight, r) \in Seq(Requests) /\ Len(Append(s.inflight, r)) = n
        /\ \A j \in 1 .. n - 1 : Append(s.inflight, r)[j] = s.inflight[j]
        /\ Append(s.inflight, r)[n] = r
    BY <1>1, AppendProperties
  <2>2. /\ Shape(t) /\ SameUser(s, t) /\ SameServers(s, t) /\ SameSockets(s, t)
        /\ t.fault = s.fault /\ t.ring = s.ring
        /\ t.inflight = Append(s.inflight, r) /\ t.waiting = s.waiting
        /\ t.nInflight = s.nInflight + 1 /\ t.nWaiting = s.nWaiting
    BY DEF Base, Shape, SameUser, SameServers, SameSockets
  <2> HIDE DEF t
  <2>3. ServersOK(t)
    BY <2>2 DEF Base, ServersOK, SameServers, SameSockets, Ring
  <2>4. FlightOK(t.inflight, Ring(t), t.writing, held \cup {n})
    <3> SUFFICES ASSUME NEW j \in 1 .. n
                 PROVE  /\ Plain(t.inflight[j], Ring(s)) /\ Sendable(t.inflight[j], Ring(s))
                        /\ j \in held \cup {n} \/ Going(t.inflight[j], t.writing)
      BY <2>1, <2>2 DEF FlightOK, Ring
    <3>1. CASE j = n
      BY <1>2, <2>1, <2>2, <3>1
    <3>2. CASE j # n
      <4>1. j \in 1 .. Len(s.inflight) /\ t.inflight[j] = s.inflight[j] /\ t.writing = s.writing
        BY <1>1, <2>1, <2>2, <3>2 DEF SameSockets
      <4> QED
        BY <4>1 DEF Base, FlightOK
    <3> QED
      BY <3>1, <3>2
  <2>5. Base(t, held \cup {n})
    BY <1>1, <2>1, <2>2, <2>3, <2>4 DEF Base, SameUser, SameSockets
  <2>6. Base(u, (held \cup {n}) \ {n}) /\ Keeps(t, u)
    <3>1. n \in 1 .. Len(t.inflight)
      BY <1>1, <2>1, <2>2
    <3> QED
      BY <2>5, <3>1, TransmitBase
  <2>7. Base(u, held)
    BY <2>6, HeldMore
  <2>8. request_submit(s, r) = u
    <3>1. request_submit(s, r) = evdns_request_transmit(t, Len(t.inflight))
      BY <1>2 DEF request_submit, t
    <3> QED
      BY <2>1, <2>2, <3>1
  <2>9. Inserts(Listed(s), Listed(u), n, r)
    <3>1. Inserts(Listed(s), Listed(t), n, r)
      BY <1>1, <2>2, InsertFlight DEF Listed
    <3>2. SameNames(Listed(t), Listed(u))
      BY <2>5, <2>6, KeepsAlike DEF Alike
    <3> QED
      BY <3>1, <3>2, InsertThenSame
  <2>10. n \in n .. Len(Listed(u))
    BY <1>1, <2>9 DEF Inserts
  <2>11. Len(s.inflight) <= Len(u.inflight)
    BY <1>1, <2>1, <2>2, <2>6 DEF Keeps, OnlyMarks
  <2>12. /\ SameUser(s, u) /\ u.fault = s.fault /\ Ring(u) = Ring(s)
         /\ Unwatched(u) \subseteq Unwatched(s)
    BY <2>2, <2>6 DEF Keeps, SameUser, Unwatched, SameServers, Ring
  <2> HIDE DEF u
  <2> QED
    BY <2>7, <2>8, <2>9, <2>10, <2>11, <2>12 DEF Submits
<1>3. CASE r.ns = Null
  <2>1. /\ Append(s.waiting, r) \in Seq(Requests)
        /\ Len(Append(s.waiting, r)) = Len(s.waiting) + 1
        /\ \A j \in 1 .. Len(s.waiting) : Append(s.waiting, r)[j] = s.waiting[j]
        /\ Append(s.waiting, r)[Len(s.waiting) + 1] = r
    BY <1>1, AppendProperties
  <2>2. /\ Shape(w) /\ SameUser(s, w) /\ SameServers(s, w) /\ SameSockets(s, w)
        /\ w.fault = s.fault /\ w.ring = s.ring
        /\ w.waiting = Append(s.waiting, r) /\ w.inflight = s.inflight
        /\ w.nWaiting = s.nWaiting + 1 /\ w.nInflight = s.nInflight
    BY DEF Base, Shape, SameUser, SameServers, SameSockets
  <2> HIDE DEF w
  <2>3. ServersOK(w)
    BY <2>2 DEF Base, ServersOK, SameServers, SameSockets, Ring
  <2>4. WaitingOK(w.waiting)
    <3> SUFFICES ASSUME NEW j \in 1 .. Len(s.waiting) + 1 PROVE Plain(w.waiting[j], {})
      BY <2>1, <2>2 DEF WaitingOK
    <3>1. CASE j = Len(s.waiting) + 1
      BY <1>3, <2>1, <2>2, <3>1
    <3>2. CASE j # Len(s.waiting) + 1
      <4>1. j \in 1 .. Len(s.waiting)
        BY <1>1, <3>2
      <4> QED
        BY <2>1, <2>2, <4>1 DEF Base, WaitingOK
    <3> QED
      BY <3>1, <3>2
  <2>5. Base(w, held)
    BY <1>1, <2>1, <2>2, <2>3, <2>4 DEF Base, SameUser, SameSockets, Ring
  <2>6. request_submit(s, r) = w
    BY <1>3 DEF request_submit, w
  <2> DEFINE e == Len(s.inflight) + Len(s.waiting) + 1
  <2>7. Inserts(Listed(s), Listed(w), e, r)
    BY <1>1, <2>2, InsertWaiting DEF Listed
  <2>8. e \in Len(s.inflight) + 1 .. Len(Listed(w))
    <3> DEFINE a == Len(s.inflight)
               c == Len(s.waiting)
    <3>1. a \in Nat /\ c \in Nat /\ a + c + 1 \in 1 .. Len(Listed(w)) /\ Len(Listed(w)) \in Int
      <4> HIDE DEF e
      <4>1. e \in 1 .. Len(Listed(w)) /\ Len(Listed(w)) \in Int
        BY <2>7 DEF Inserts
      <4> QED
        BY <1>1, <4>1 DEF e
    <3> HIDE DEF a, c
    <3>2. a + c + 1 \in a + 1 .. Len(Listed(w))
      BY <3>1
    <3> QED
      BY <3>2 DEF a, c
  <2> HIDE DEF e
  <2>9. /\ SameUser(s, w) /\ w.fault = s.fault /\ Ring(w) = Ring(s)
        /\ Unwatched(w) \subseteq Unwatched(s) /\ Len(s.inflight) <= Len(w.inflight)
    BY <1>1, <2>2 DEF Unwatched, SameServers, Ring
  <2> QED
    BY <2>5, <2>6, <2>7, <2>8, <2>9 DEF Submits
<1> QED
  BY <1>2, <1>3

\* x is s, ready for request r to be submitted.
Begins(s, x, r) ==
  /\ x.inflight = s.inflight /\ x.waiting = s.waiting
  /\ x.pending = s.pending /\ x.search = s.search /\ x.again = s.again
  /\ x.fault = s.fault /\ Ring(x) = Ring(s) /\ Unwatched(x) \subseteq Unwatched(s)
  /\ x.states = Holds(s.states, r.state)
  /\ x.left \in [Queries -> Seq(Domains \cup {Null})]
  /\ \A q \in Queries : x.left[q] = IF q = r.who THEN Tries(r, s.states) ELSE s.left[q]

\* What a request more leaves as it was.
Grows(s, t, by) ==
  /\ t.again = s.again /\ t.fault = s.fault /\ Ring(t) = Ring(s)
  /\ Len(s.inflight) <= Len(t.inflight)
  /\ Len(Listed(t)) = Len(Listed(s)) + by

LEMMA BeginResolver ==
  ASSUME NEW s, NEW held, NEW limbo, NEW d \in 0 .. Len(s.inflight),
         Resolver(s, held, d, limbo),
         NEW r \in Requests, r.who \in limbo, Plain(r, Ring(s)), r.index >= -1,
         IF r.ns = Null THEN Plain(r, {}) ELSE Sendable(r, Ring(s)),
         NEW x, Base(x, held), Begins(s, x, r)
  PROVE  LET t == request_submit(x, r)
         IN  Resolver(t, held, d, limbo \ {r.who}) /\ Grows(s, t, 1)
<1> DEFINE t == request_submit(x, r)
           a == Listed(s)
           b == Listed(t)
<1>1. Base(t, held) /\ Submits(x, t, r)
  BY SubmitFacts DEF Begins
<1>2. Listed(x) = a
  BY DEF Listed, Begins
<1>3. Sound(a) /\ Len(s.inflight) \in Nat
  BY ListedSound, FlightFacts DEF Resolver
<1>4. PICK e \in Len(s.inflight) + 1 .. Len(b) : Inserts(a, b, e, r)
  BY <1>1, <1>2 DEF Submits, Begins
<1>5. d \in 0 .. e - 1
  BY <1>3, <1>4
<1> HIDE DEF t, a, b
<1>6. Live(a, d, limbo, s.pending, Unwatched(s)) /\ Tracked(a, d, s.states, s.search, s.left)
  BY DEF Resolver, a
<1>7. Live(b, d, limbo \ {r.who}, s.pending, Unwatched(t))
  <2>1. Unwatched(t) \subseteq Unwatched(s)
    BY <1>1 DEF Submits, Begins
  <2> QED
    BY <1>4, <1>5, <1>6, <2>1, JoinLive
<1>8. Tracked(b, d, x.states, s.search, x.left)
  <2>1. r.who \in Queries => ~Carries(a, d, r.who)
    BY <1>6 DEF Live
  <2>2. r.state # Null => r.who \in Queries
    BY DEF Plain
  <2>3. Tracked(b, d, Holds(s.states, r.state), s.search, x.left)
    BY <1>3, <1>4, <1>5, <1>6, <2>1, <2>2, JoinTracked DEF Begins
  <2> QED
    BY <2>3 DEF Begins
<1>9. t.pending = s.pending /\ t.states = x.states /\ t.search = s.search /\ t.left = x.left
  BY <1>1 DEF Submits, SameUser, Begins
<1>10. Resolver(t, held, d, limbo \ {r.who})
  BY <1>1, <1>7, <1>8, <1>9 DEF Resolver, b
<1>11. Grows(s, t, 1)
  <2>1. Len(b) = Len(a) + 1
    BY <1>4 DEF Inserts
  <2> QED
    BY <1>1, <2>1 DEF Grows, Submits, SameUser, Begins, a, b
<1> QED
  BY <1>10, <1>11 DEF t

\* request_new: room in flight decides whether there is a server and an id.
LEMMA NewFacts ==
  ASSUME NEW s, NEW held, Base(s, held), NEW who
  PROVE  \E p, ns, id :
           /\ request_new(s, who) = <<p, Request(who, ns, id)>>
           /\ Base(p, held) /\ Shape(p) /\ SameUser(s, p) /\ SameLists(s, p)
           /\ p.fault = s.fault /\ Ring(p) = Ring(s) /\ Unwatched(p) = Unwatched(s)
           /\ ns \in Ring(s) \cup {Null} /\ id \in BOOLEAN /\ (ns # Null => id)
<1> DEFINE now == s.nInflight < s.limit
<1>1. CASE now
  <2> DEFINE k == nameserver_pick(s)
  <2>1. Picks(s, k)
    BY PickFacts DEF Base
  <2>2. request_new(s, who) = <<k, Request(who, k.picked, now)>>
    BY <1>1, Zenon DEF request_new
  <2> HIDE DEF k
  <2>3. Base(k, held)
    BY <2>1 DEF Base, Picks, ServersOK, SameServers, SameSockets, SameLists, SameUser
  <2>4. k.picked \in Ring(s) \cup {Null}
    BY <2>1 DEF Picks
  <2>5. /\ Shape(k) /\ SameUser(s, k) /\ SameLists(s, k)
        /\ k.fault = s.fault /\ Ring(k) = Ring(s) /\ Unwatched(k) = Unwatched(s)
    BY <2>1 DEF Picks, Unwatched, SameServers
  <2>6. now \in BOOLEAN
    OBVIOUS
  <2> HIDE DEF now
  <2> QED
    BY <1>1, <2>2, <2>3, <2>4, <2>5, <2>6
<1>2. CASE ~now
  <2>1. request_new(s, who) = <<s, Request(who, Null, now)>>
    BY <1>2, Zenon DEF request_new
  <2>2. now \in BOOLEAN
    OBVIOUS
  <2>3. Shape(s) /\ SameUser(s, s) /\ SameLists(s, s)
    BY DEF Base, SameUser, SameLists
  <2> HIDE DEF now
  <2> QED
    BY <2>1, <2>2, <2>3
<1> QED
  BY <1>1, <1>2

\* A request made for q, with a search state or none, that tries what is left.
LEMMA NewResolver ==
  ASSUME NEW s, NEW held, NEW limbo, NEW d \in 0 .. Len(s.inflight),
         Resolver(s, held, d, limbo),
         NEW q \in Queries \cap limbo, NEW k \in States \cup {Null}, NEW index \in Int,
         index >= -1, NEW left \in Seq(Domains \cup {Null})
  PROVE  LET new == request_new(s, q)
             r == [new[2] EXCEPT !.state = k, !.index = index]
             x == [new[1] EXCEPT !.states = Holds(@, k), !.left[q] = left]
             t == request_submit(x, r)
         IN  left = Tries(r, s.states) =>
               Resolver(t, held, d, limbo \ {q}) /\ Grows(s, t, 1)
<1>0. PICK p, ns, id :
        /\ request_new(s, q) = <<p, Request(q, ns, id)>>
        /\ Base(p, held) /\ Shape(p) /\ SameUser(s, p) /\ SameLists(s, p)
        /\ p.fault = s.fault /\ Ring(p) = Ring(s) /\ Unwatched(p) = Unwatched(s)
        /\ ns \in Ring(s) \cup {Null} /\ id \in BOOLEAN /\ (ns # Null => id)
  BY NewFacts DEF Resolver
<1> DEFINE r == [Request(q, ns, id) EXCEPT !.state = k, !.index = index]
           x == [p EXCEPT !.states = Holds(@, k), !.left[q] = left]
<1>1. /\ Base(p, held) /\ Shape(p) /\ SameUser(s, p) /\ SameLists(s, p)
      /\ p.fault = s.fault /\ Ring(p) = Ring(s) /\ Unwatched(p) = Unwatched(s)
      /\ ns \in Ring(s) \cup {Null} /\ id \in BOOLEAN /\ (ns # Null => id)
  BY <1>0
<1>2. Base(s, held) /\ Tracked(Listed(s), d, s.states, s.search, s.left) /\ Ring(s) \subseteq Servers
  BY FlightFacts DEF Resolver
<1>3. /\ r.who = q /\ r.ns = ns /\ r.id = id /\ r.state = k /\ r.index = index
      /\ r \in Requests
  <2>1. ns \in Servers \cup {Null} /\ id \in BOOLEAN
    BY <1>1, <1>2
  <2> DEFINE r0 == Request(q, ns, id)
  <2>2. r0 \in Requests /\ r0.who = q /\ r0.ns = ns /\ r0.id = id
    BY <2>1 DEF Request, Requests
  <2>3. r = [r0 EXCEPT !.state = k, !.index = index]
    OBVIOUS
  <2> HIDE DEF r, r0
  <2> QED
    BY <2>2, <2>3 DEF Requests
<1>4. Plain(r, Ring(s)) /\ Plain(r, {}) /\ (r.ns # Null => Sendable(r, Ring(s)))
  <2>1. q \notin Servers
    BY NoNames
  <2> HIDE DEF r
  <2> QED
    BY <1>1, <1>3, <2>1 DEF Plain, Sendable
<1>5. ASSUME left = Tries(r, s.states)
      PROVE  Base(x, held) /\ Begins(s, x, r)
  <2>1. /\ Shape(x) /\ SameLists(p, x) /\ SameServers(p, x) /\ SameSockets(p, x)
        /\ x.fault = p.fault /\ x.ring = p.ring /\ x.limit = p.limit
        /\ x.pending = p.pending /\ x.search = p.search /\ x.again = p.again
        /\ x.states = Holds(p.states, k) /\ x.left = [p.left EXCEPT ![q] = left]
    BY <1>1 DEF Shape, SameLists, SameServers, SameSockets
  <2> HIDE DEF x
  <2>2. Base(x, held)
    BY <1>1, <2>1 DEF Base, ServersOK, SameLists, SameServers, SameSockets, Ring
  <2>3. /\ x.left \in [Queries -> Seq(Domains \cup {Null})]
        /\ \A y \in Queries : x.left[y] = IF y = q THEN left ELSE s.left[y]
    BY <1>1, <1>2, <2>1 DEF SameUser, Tracked
  <2> HIDE DEF r
  <2>4. Unwatched(x) = Unwatched(s) /\ Ring(x) = Ring(s)
    BY <1>1, <2>1 DEF Unwatched, SameServers, Ring
  <2> QED
    BY <1>1, <1>3, <1>5, <2>1, <2>2, <2>3, <2>4 DEF Begins, SameUser, SameLists
<1>6. ASSUME left = Tries(r, s.states)
      PROVE  LET t == request_submit(x, r)
             IN  Resolver(t, held, d, limbo \ {q}) /\ Grows(s, t, 1)
  <2> HIDE DEF x, r
  <2>1. Base(x, held) /\ Begins(s, x, r)
    BY <1>5, <1>6
  <2>2. r \in Requests /\ r.who \in limbo /\ r.index >= -1 /\ r.who = q
    BY <1>3
  <2>3. IF r.ns = Null THEN Plain(r, {}) ELSE Sendable(r, Ring(s))
    BY <1>4
  <2> QED
    BY <1>4, <2>1, <2>2, <2>3, BeginResolver
<1>7. request_new(s, q)[1] = p /\ request_new(s, q)[2] = Request(q, ns, id)
  BY <1>0
<1> QED
  BY <1>6, <1>7

-----------------------------------------------------------------------------
(* Searching.                                                              *)

\* A list of names, from the m-th on, with z after it.
LEMMA TailSub ==
  ASSUME NEW S, NEW d \in Seq(S), NEW z \in Seq(S), NEW m \in Nat \ {0}
  PROVE  LET l == SubSeq(d, m, Len(d)) \o z
         IN  /\ l \in Seq(S)
             /\ m <= Len(d) => l # <<>> /\ Tail(l) = SubSeq(d, m + 1, Len(d)) \o z
             /\ m > Len(d) => l = z
<1> DEFINE n == Len(d)
           a == SubSeq(d, m, n)
           b == SubSeq(d, m + 1, n)
           l == a \o z
           k == b \o z
<1>1. n \in Nat /\ Len(z) \in Nat
  OBVIOUS
<1>2. /\ a \in Seq(S) /\ Len(a) = IF m <= n THEN n - m + 1 ELSE 0
      /\ \A i \in 1 .. n - m + 1 : a[i] = d[m + i - 1]
  <2>1. \A i \in m .. n : d[i] \in S
    OBVIOUS
  <2> HIDE DEF n
  <2> QED
    BY <1>1, <2>1, SubSeqProperties
<1>3. /\ b \in Seq(S) /\ Len(b) = IF m + 1 <= n THEN n - m ELSE 0
      /\ \A i \in 1 .. n - m : b[i] = d[m + i]
  <2>1. \A i \in m + 1 .. n : d[i] \in S
    OBVIOUS
  <2>2. /\ b \in Seq(S) /\ Len(b) = IF m + 1 <= n THEN n - (m + 1) + 1 ELSE 0
        /\ \A i \in 1 .. n - (m + 1) + 1 : b[i] = d[(m + 1) + i - 1]
    <3> HIDE DEF n
    <3> QED
      BY <1>1, <2>1, SubSeqProperties
  <2> HIDE DEF n, b
  <2>3. Len(b) = IF m + 1 <= n THEN n - m ELSE 0
    BY <1>1, <2>2
  <2>4. ASSUME NEW i \in 1 .. n - m PROVE b[i] = d[m + i]
    <3>1. i \in 1 .. n - (m + 1) + 1 /\ (m + 1) + i - 1 = m + i
      BY <1>1
    <3>2. b[i] = d[(m + 1) + i - 1]
      BY <2>2, <3>1
    <3> QED
      BY <3>1, <3>2
  <2> QED
    BY <2>2, <2>3, <2>4
<1> HIDE DEF n, a, b
<1>4. /\ l \in Seq(S) /\ Len(l) = Len(a) + Len(z)
      /\ \A i \in 1 .. Len(a) + Len(z) : l[i] = IF i <= Len(a) THEN a[i] ELSE z[i - Len(a)]
  BY <1>2, ConcatProperties
<1>5. /\ k \in Seq(S) /\ Len(k) = Len(b) + Len(z)
      /\ \A i \in 1 .. Len(b) + Len(z) : k[i] = IF i <= Len(b) THEN b[i] ELSE z[i - Len(b)]
  BY <1>3, ConcatProperties
<1> HIDE DEF l, k
<1>6. ASSUME m <= n PROVE l # <<>> /\ Tail(l) = k
  <2>1. Len(a) = Len(b) + 1 /\ Len(b) \in Nat /\ Len(b) = n - m
    BY <1>1, <1>2, <1>3, <1>6
  <2>2. Len(l) = Len(k) + 1 /\ Len(k) \in Nat /\ l # <<>>
    BY <1>1, <1>4, <1>5, <2>1
  <2>3. /\ Tail(l) \in Seq(S) /\ Len(Tail(l)) = Len(k)
        /\ \A i \in 1 .. Len(k) : Tail(l)[i] = l[i + 1]
    BY <1>4, <2>2, HeadTailProperties
  <2>4. ASSUME NEW i \in 1 .. Len(k) PROVE l[i + 1] = k[i]
    <3>1. i + 1 \in 1 .. Len(a) + Len(z) /\ i \in 1 .. Len(b) + Len(z)
      BY <1>1, <1>4, <1>5, <2>1, <2>2
    <3>2. CASE i <= Len(b)
      <4>1. /\ i + 1 <= Len(a) /\ i \in 1 .. n - m /\ i + 1 \in 1 .. n - m + 1
            /\ m + (i + 1) - 1 = m + i
        BY <1>1, <1>6, <2>1, <3>2
      <4>2. l[i + 1] = a[i + 1] /\ k[i] = b[i]
        BY <1>4, <1>5, <3>1, <3>2, <4>1
      <4>3. a[i + 1] = d[m + i] /\ b[i] = d[m + i]
        BY <1>2, <1>3, <4>1
      <4> QED
        BY <4>2, <4>3
    <3>3. CASE ~(i <= Len(b))
      <4>1. ~(i + 1 <= Len(a)) /\ (i + 1) - Len(a) = i - Len(b)
        BY <2>1, <3>1, <3>3
      <4> QED
        BY <1>4, <1>5, <3>1, <3>3, <4>1
    <3> QED
      BY <3>2, <3>3
  <2>5. Tail(l) = k
    BY <1>5, <2>3, <2>4, SeqEqual
  <2> QED
    BY <2>2, <2>5
<1>7. ASSUME m > n PROVE l = z
  <2>1. Len(a) = 0 /\ Len(l) = Len(z)
    BY <1>1, <1>2, <1>4, <1>7
  <2>2. ASSUME NEW i \in 1 .. Len(z) PROVE l[i] = z[i]
    <3>1. i \in 1 .. Len(a) + Len(z) /\ ~(i <= Len(a)) /\ i - Len(a) = i
      BY <1>1, <2>1
    <3> QED
      BY <1>4, <3>1
  <2> QED
    BY <1>4, <2>1, <2>2, SeqEqual
<1> QED
  BY <1>4, <1>6, <1>7 DEF l, k, a, b, n

LEMMA WholeSub ==
  ASSUME NEW S, NEW d \in Seq(S)
  PROVE  SubSeq(d, 1, Len(d)) = d
<1> DEFINE n == Len(d)
           a == SubSeq(d, 1, n)
<1>1. n \in Nat /\ \A i \in 1 .. n : d[i] \in S
  OBVIOUS
<1>2. /\ a \in Seq(S) /\ Len(a) = IF 1 <= n THEN n - 1 + 1 ELSE 0
      /\ \A i \in 1 .. n - 1 + 1 : a[i] = d[1 + i - 1]
  <2> HIDE DEF n
  <2> QED
    BY <1>1, SubSeqProperties
<1>3. Len(a) = n /\ \A i \in 1 .. n : a[i] = d[i]
  <2> HIDE DEF n, a
  <2> QED
    BY <1>1, <1>2
<1> HIDE DEF a
<1>4. a = d
  BY <1>2, <1>3, SeqEqual
<1> QED
  BY <1>4 DEF a

LEMMA EmptyTail ==
  ASSUME NEW S, NEW d \in Seq(S)
  PROVE  d \o <<>> = d
<1>1. <<>> \in Seq(S) /\ Len(<<>>) = 0
  OBVIOUS
<1>2. /\ d \o <<>> \in Seq(S) /\ Len(d \o <<>>) = Len(d) + Len(<<>>)
      /\ \A i \in 1 .. Len(d) + Len(<<>>) :
           (d \o <<>>)[i] = IF i <= Len(d) THEN d[i] ELSE <<>>[i - Len(d)]
  BY <1>1, ConcatProperties
<1> DEFINE k == d \o <<>>
<1> HIDE DEF k
<1>3. k \in Seq(S) /\ Len(k) = Len(d) /\ \A i \in 1 .. Len(d) : k[i] = d[i]
  <2>1. Len(d) \in Nat
    OBVIOUS
  <2> QED
    BY <1>1, <1>2, <2>1 DEF k
<1> QED
  BY <1>3, SeqEqual DEF k

\* The names after the first, of a search that tries the plain name first or last.
LEMMA PlanFacts ==
  ASSUME NEW S, NEW d \in Seq(S), NEW x \in S
  PROVE  /\ Tail(<<x>> \o d) = SubSeq(d, 1, Len(d)) \o <<>>
         /\ d # <<>> => Tail(Append(d, x)) = SubSeq(d, 2, Len(d)) \o <<x>>
<1>1. Tail(<<x>> \o d) = d
  <2> DEFINE l == <<x>> \o d
  <2>1. <<x>> \in Seq(S) /\ Len(<<x>>) = 1 /\ Len(d) \in Nat
    OBVIOUS
  <2>2. /\ l \in Seq(S) /\ Len(l) = Len(<<x>>) + Len(d)
        /\ \A i \in 1 .. Len(<<x>>) + Len(d) :
             l[i] = IF i <= Len(<<x>>) THEN <<x>>[i] ELSE d[i - Len(<<x>>)]
    BY <2>1, ConcatProperties
  <2> HIDE DEF l
  <2>3. Len(l) = 1 + Len(d) /\ l # <<>>
    BY <2>1, <2>2
  <2>4. \A i \in 1 .. Len(d) : l[i + 1] = d[i]
    <3> SUFFICES ASSUME NEW i \in 1 .. Len(d) PROVE l[i + 1] = d[i]
      OBVIOUS
    <3>1. i + 1 \in 1 .. 1 + Len(d) /\ ~(i + 1 <= 1) /\ (i + 1) - 1 = i
      BY <2>1
    <3> QED
      BY <2>1, <2>2, <3>1
  <2>5. /\ Tail(l) \in Seq(S) /\ Len(Tail(l)) = Len(l) - 1
        /\ \A i \in 1 .. Len(l) - 1 : Tail(l)[i] = l[i + 1]
    BY <2>2, <2>3, HeadTailProperties
  <2>6. Len(l) - 1 = Len(d)
    BY <2>1, <2>3
  <2>7. Tail(l) = d
    BY <2>4, <2>5, <2>6, SeqEqual
  <2> QED
    BY <2>7 DEF l
<1>2. d = SubSeq(d, 1, Len(d)) \o <<>>
  BY WholeSub, EmptyTail, Zenon
<1>3. ASSUME d # <<>> PROVE Tail(Append(d, x)) = SubSeq(d, 2, Len(d)) \o <<x>>
  <2>1. Append(d, x) = d \o <<x>>
    <3>1. <<x>> \in Seq(S) /\ Len(<<x>>) = 1 /\ Len(d) \in Nat
      OBVIOUS
    <3>2. /\ d \o <<x>> \in Seq(S) /\ Len(d \o <<x>>) = Len(d) + Len(<<x>>)
          /\ \A i \in 1 .. Len(d) + Len(<<x>>) :
               (d \o <<x>>)[i] = IF i <= Len(d) THEN d[i] ELSE <<x>>[i - Len(d)]
      BY <3>1, ConcatProperties
    <3>3. /\ Append(d, x) \in Seq(S) /\ Len(Append(d, x)) = Len(d) + 1
          /\ \A i \in 1 .. Len(d) : Append(d, x)[i] = d[i]
          /\ Append(d, x)[Len(d) + 1] = x
      BY AppendProperties
    <3> DEFINE k == d \o <<x>>
               b == Append(d, x)
    <3>4. /\ k \in Seq(S) /\ b \in Seq(S) /\ Len(k) = Len(b)
          /\ \A i \in 1 .. Len(d) + 1 : k[i] = b[i]
      <4> HIDE DEF k, b
      <4>1. ASSUME NEW i \in 1 .. Len(d) + 1 PROVE k[i] = b[i]
        <5>1. CASE i <= Len(d)
          <6>1. i \in 1 .. Len(d)
            BY <3>1, <5>1
          <6> QED
            BY <3>1, <3>2, <3>3, <5>1, <6>1 DEF k, b
        <5>2. CASE ~(i <= Len(d))
          <6>1. i = Len(d) + 1 /\ i - Len(d) = 1
            BY <3>1, <5>2
          <6> QED
            BY <3>1, <3>2, <3>3, <5>2, <6>1 DEF k, b
        <5> QED
          BY <5>1, <5>2
      <4> QED
        BY <3>1, <3>2, <3>3, <4>1 DEF k, b
    <3>5. Len(b) = Len(d) + 1
      BY <3>3
    <3> HIDE DEF k, b
    <3>6. k = b
      BY <3>4, <3>5, SeqEqual
    <3> QED
      BY <3>6 DEF k, b
  <2>2. Append(d, x) = SubSeq(d, 1, Len(d)) \o <<x>>
    BY <2>1, WholeSub
  <2>3. 1 <= Len(d) /\ <<x>> \in Seq(S) /\ 1 \in Nat \ {0} /\ 1 + 1 = 2
    BY <1>3
  <2> DEFINE l == SubSeq(d, 1, Len(d)) \o <<x>>
  <2>4. Tail(l) = SubSeq(d, 1 + 1, Len(d)) \o <<x>>
    BY <2>3, TailSub
  <2> QED
    BY <2>2, <2>3, <2>4
<1> QED
  BY <1>1, <1>2, <1>3

Names == Domains \cup {Null}

LEMMA DomainNames ==
  ASSUME NEW d \in Seq(Domains)
  PROVE  d \in Seq(Names)
  BY DEF Names

LEMMA EmptyNames == <<>> \in Seq(Names) /\ <<Null>> \in Seq(Names) /\ Null \in Names
  BY DEF Names

\* What a request of q would still try, by the list and ndots of its search.
LEMMA TriesOf ==
  ASSUME NEW r, NEW states, r.state # Null
  PROVE  LET d == states[r.state].domains
             z == IF Dots(r.who) < states[r.state].ndots THEN <<Null>> ELSE <<>>
         IN  Tries(r, states) = SubSeq(d, r.index + 2, Len(d)) \o z
  BY DEF Tries

LEMMA PlainRequest ==
  ASSUME NEW q, NEW ns, NEW id
  PROVE  [Request(q, ns, id) EXCEPT !.state = Null, !.index = 0] = Request(q, ns, id)
<1> DEFINE r == Request(q, ns, id)
<1>1. /\ r = [f \in DOMAIN r |-> r[f]] /\ r.state = Null /\ r.index = 0
      /\ "state" \in DOMAIN r /\ "index" \in DOMAIN r
  BY DEF Request
<1> HIDE DEF r
<1>2. [r EXCEPT !.state = Null, !.index = 0] = r
  BY <1>1
<1> QED
  BY <1>2 DEF r

LEMMA SearchNewResolver ==
  ASSUME NEW s, NEW held, NEW limbo, NEW d \in 0 .. Len(s.inflight),
         Resolver(s, held, d, limbo), NEW q \in Queries \cap limbo
  PROVE  LET t == search_request_new(s, q)
         IN  Resolver(t, held, d, limbo \ {q}) /\ Grows(s, t, 1)
<1>0. PICK p, ns, id :
        /\ request_new(s, q) = <<p, Request(q, ns, id)>>
        /\ Base(p, held) /\ Shape(p) /\ SameUser(s, p)
  BY NewFacts DEF Resolver
<1> DEFINE r0 == Request(q, ns, id)
           k == s.search
           dom == s.states[k].domains
           hasList == q \in Searching /\ k # Null /\ (k # Null => dom # <<>>)
<1>1. /\ request_new(s, q)[1] = p /\ request_new(s, q)[2] = r0
      /\ s.states \in [States -> SearchStates] /\ k \in States \cup {Null}
      /\ p.states = s.states
      /\ s.left \in [Queries -> Seq(Names)] /\ p.left = s.left
  BY <1>0 DEF Resolver, Tracked, SameUser, Names
<1>2. CASE ~hasList
  <2> DEFINE r == [r0 EXCEPT !.state = Null, !.index = 0]
             x == [p EXCEPT !.states = Holds(@, Null), !.left[q] = <<>>]
  <2>1. r = r0
    BY PlainRequest
  <2>2. x = [p EXCEPT !.left[q] = <<>>]
    BY <1>0 DEF Holds, Shape
  <2>3. <<>> = Tries(r, s.states)
    BY DEF Tries, Request
  <2>4. Resolver(request_submit(x, r), held, d, limbo \ {q})
        /\ Grows(s, request_submit(x, r), 1)
    <3>1. Null \in States \cup {Null} /\ 0 \in Int /\ 0 >= -1 /\ <<>> \in Seq(Domains \cup {Null})
      OBVIOUS
    <3> QED
      BY <1>1, <2>3, <3>1, NewResolver
  <2>5. search_request_new(s, q) = request_submit([p EXCEPT !.left[q] = <<>>], r0)
    BY <1>1, <1>2, Zenon DEF search_request_new
  <2> HIDE DEF x, r
  <2> QED
    BY <2>1, <2>2, <2>4, <2>5
<1>3. CASE hasList
  <2> DEFINE high == Dots(q) >= s.states[k].ndots
             index == IF high THEN -1 ELSE 0
             left == Tail(SearchPlan(s, q, k))
             r == [r0 EXCEPT !.state = k, !.index = index]
             x == [p EXCEPT !.states = Holds(@, k), !.left[q] = left]
  <2>1. k \in States /\ dom \in Seq(Domains) /\ dom # <<>> /\ s.states[k].ndots \in Nat
    BY <1>1, <1>3 DEF SearchStates
  <2>2. r.state = k /\ r.index = index /\ r.who = q /\ index \in Int /\ index >= -1
    BY DEF Request
  <2>3. Dots(q) \in Nat
    BY DEF Dots
  <2>4. left = SubSeq(dom, index + 2, Len(dom)) \o
                 (IF Dots(q) < s.states[k].ndots THEN <<Null>> ELSE <<>>)
    <3>1. dom \in Seq(Names) /\ Null \in Names
      BY <2>1, DomainNames, EmptyNames
    <3>2. /\ Tail(<<Null>> \o dom) = SubSeq(dom, 1, Len(dom)) \o <<>>
          /\ Tail(Append(dom, Null)) = SubSeq(dom, 2, Len(dom)) \o <<Null>>
      BY <2>1, <3>1, PlanFacts
    <3>3. SearchPlan(s, q, k) = IF high THEN <<Null>> \o dom ELSE Append(dom, Null)
      BY DEF SearchPlan
    <3>4. CASE high
      <4>1. index + 2 = 1 /\ ~(Dots(q) < s.states[k].ndots)
        BY <2>1, <2>3, <3>4
      <4> QED
        BY <3>2, <3>3, <3>4, <4>1
    <3>5. CASE ~high
      <4>1. index + 2 = 2 /\ Dots(q) < s.states[k].ndots
        BY <2>1, <2>3, <3>5
      <4> QED
        BY <3>2, <3>3, <3>5, <4>1
    <3> QED
      BY <3>4, <3>5
  <2> HIDE DEF left, index
  <2>5. left = Tries(r, s.states)
    <3> HIDE DEF r
    <3> QED
      BY <1>3, <2>2, <2>4, TriesOf
  <2>6. left \in Seq(Names)
    <3>1. /\ dom \in Seq(Names) /\ index + 2 \in Nat \ {0}
          /\ (IF Dots(q) < s.states[k].ndots THEN <<Null>> ELSE <<>>) \in Seq(Names)
      BY <2>1, <2>2, DomainNames, EmptyNames
    <3> QED
      BY <2>4, <3>1, TailSub
  <2>7. Resolver(request_submit(x, r), held, d, limbo \ {q})
        /\ Grows(s, request_submit(x, r), 1)
    <3>1. k \in States \cup {Null} /\ q \in Queries \cap limbo /\ index \in Int /\ index >= -1
      BY <2>1, <2>2
    <3>2. left \in Seq(Domains \cup {Null})
      BY <2>6 DEF Names
    <3> QED
      BY <1>1, <2>5, <3>1, <3>2, NewResolver
  <2>8. search_request_new(s, q) =
          request_submit([p EXCEPT !.states[k].refcount = @ + 1, !.left[q] = left], r)
    BY <1>1, <1>3, Zenon DEF search_request_new, left, index
  <2>9. x = [p EXCEPT !.states[k].refcount = @ + 1, !.left[q] = left]
    BY <1>0, <1>3 DEF Holds, Shape
  <2> HIDE DEF x, r
  <2> QED
    BY <2>7, <2>8, <2>9
<1> QED
  BY <1>2, <1>3

\* evdns_resolve: a query that was not pending is, and has a request.
LEMMA ResolveResolver ==
  ASSUME NEW s, NEW held, NEW limbo, NEW d \in 0 .. Len(s.inflight),
         Resolver(s, held, d, limbo), NEW q \in Queries, s.pending[q] = 0
  PROVE  LET t == evdns_resolve(s, q)
         IN  Resolver(t, held, d, limbo) /\ Grows(s, t, 1)
<1> DEFINE x == [s EXCEPT !.pending[q] = @ + 1]
<1>1. /\ Shape(s) /\ Base(s, held)
      /\ Live(Listed(s), d, limbo, s.pending, Unwatched(s))
      /\ Tracked(Listed(s), d, s.states, s.search, s.left)
  BY DEF Resolver, Base
<1>2. /\ x.pending = [s.pending EXCEPT ![q] = 1] /\ s.pending \in [Queries -> {0, 1}]
      /\ x.inflight = s.inflight /\ x.waiting = s.waiting /\ SameServers(s, x)
      /\ SameSockets(s, x) /\ SameLists(s, x) /\ x.fault = s.fault /\ x.ring = s.ring
      /\ x.states = s.states /\ x.search = s.search /\ x.left = s.left
      /\ x.again = s.again /\ x.limit = s.limit /\ Shape(x)
  BY <1>1 DEF Shape, SameServers, SameSockets, SameLists, Live
<1> HIDE DEF x
<1>3. Base(x, held)
  BY <1>1, <1>2 DEF Base, ServersOK, SameServers, SameSockets, SameLists, Ring
<1>4. Listed(x) = Listed(s) /\ Unwatched(x) = Unwatched(s) /\ Ring(x) = Ring(s)
  BY <1>2 DEF Listed, Unwatched, SameServers, Ring
<1>5. q \notin limbo
  BY <1>1 DEF Live
<1>6. Live(Listed(s), d, limbo \cup {q}, x.pending, Unwatched(s))
  <2> DEFINE list == Listed(s)
             un == Unwatched(s)
  <2> HIDE DEF list, un
  <2>1. Live(list, d, limbo, s.pending, un)
    BY <1>1 DEF list, un
  <2>2. ~Carries(list, d, q)
    BY <2>1 DEF Live
  <2>3. x.pending \in [Queries -> {0, 1}]
        /\ \A y \in Queries : x.pending[y] = IF y = q THEN 1 ELSE s.pending[y]
    BY <1>2
  <2> QED
    BY <2>1, <2>2, <2>3 DEF Live, list, un
<1>7. Resolver(x, held, d, limbo \cup {q})
  BY <1>1, <1>2, <1>3, <1>4, <1>6 DEF Resolver
<1> DEFINE t == search_request_new(x, q)
<1>8. Resolver(t, held, d, (limbo \cup {q}) \ {q}) /\ Grows(x, t, 1)
  <2>1. q \in Queries \cap (limbo \cup {q}) /\ d \in 0 .. Len(x.inflight)
    BY <1>2
  <2> QED
    BY <1>7, <2>1, SearchNewResolver
<1>9. (limbo \cup {q}) \ {q} = limbo
  BY <1>5
<1>10. Grows(s, t, 1)
  BY <1>2, <1>4, <1>8 DEF Grows
<1>11. evdns_resolve(s, q) = t
  BY DEF evdns_resolve, x
<1> QED
  BY <1>8, <1>9, <1>10, <1>11

\* The next name is tried, which is the first of those that are left.
LEMMA TryNextResolver ==
  ASSUME NEW s, NEW held, NEW limbo, NEW d \in 0 .. Len(s.inflight),
         Resolver(s, held, d, limbo),
         NEW r \in Requests, r.who \in Queries \cap limbo, HasNext(s, r), r.index >= -1,
         s.left[r.who] = Tries(r, s.states)
  PROVE  LET t == search_try_next(s, r)
         IN  Resolver(t, held, d, limbo \ {r.who}) /\ Grows(s, t, 1)
<1> DEFINE q == r.who
           k == r.state
           dom == s.states[k].domains
           z == IF Dots(q) < s.states[k].ndots THEN <<Null>> ELSE <<>>
           isLast == r.index + 1 >= Len(dom)
           m == r.index + 2
           old == s.left[q]
           left == IF old = <<>> THEN old ELSE Tail(old)
<1>0. PICK p, ns, id :
        /\ request_new(s, q) = <<p, Request(q, ns, id)>>
        /\ Base(p, held) /\ Shape(p) /\ SameUser(s, p)
  BY NewFacts DEF Resolver
<1> DEFINE r0 == Request(q, ns, id)
<1>1. /\ request_new(s, q)[1] = p /\ request_new(s, q)[2] = r0
      /\ s.states \in [States -> SearchStates]
      /\ p.states = s.states
      /\ s.left \in [Queries -> Seq(Names)] /\ p.left = s.left
  BY <1>0 DEF Resolver, Tracked, SameUser, Names
<1>2. k \in States /\ k # Null /\ r.index \in Int /\ q \in Queries /\ q \in limbo
  BY NoNames DEF Requests, HasNext
<1>3. dom \in Seq(Domains) /\ s.states[k].ndots \in Nat /\ Len(dom) \in Nat
  BY <1>1, <1>2 DEF SearchStates
<1>4. dom \in Seq(Names) /\ z \in Seq(Names) /\ m \in Nat \ {0} /\ m + 1 \in Nat \ {0}
  BY <1>2, <1>3, DomainNames, EmptyNames
<1>5. old = SubSeq(dom, m, Len(dom)) \o z
  BY <1>2, TriesOf
<1>6. old \in Seq(Names) /\ left \in Seq(Names)
  <2>1. old \in Seq(Names)
    BY <1>1, <1>2
  <2> HIDE DEF old
  <2> QED
    BY <2>1, HeadTailProperties
<1>7. p.left[q] = old
  BY <1>1
<1>8. CASE isLast
  <2> DEFINE u == [r0 EXCEPT !.state = Null, !.index = 0]
             x == [p EXCEPT !.states = Holds(@, Null), !.left[q] = left]
  <2>1. u = r0
    BY PlainRequest
  <2>2. x = [p EXCEPT !.left[q] = left]
    BY <1>0 DEF Holds, Shape
  <2>3. Tries(u, s.states) = <<>>
    BY DEF Tries, Request
  <2>4. left = <<>>
    <3>1. m > Len(dom)
      BY <1>2, <1>3, <1>8
    <3>2. old = z
      BY <1>4, <1>5, <3>1, TailSub
    <3>3. z = <<Null>>
      BY <1>2, <1>3, <1>8 DEF HasNext
    <3>4. <<Null>> # <<>> /\ Tail(<<Null>>) = <<>>
      OBVIOUS
    <3> QED
      BY <3>2, <3>3, <3>4
  <2>5. Resolver(request_submit(x, u), held, d, limbo \ {q})
        /\ Grows(s, request_submit(x, u), 1)
    <3>1. Null \in States \cup {Null} /\ 0 \in Int /\ 0 >= -1
      OBVIOUS
    <3>2. q \in Queries \cap limbo /\ left \in Seq(Domains \cup {Null})
      BY <1>6 DEF Names
    <3>3. left = Tries(u, s.states)
      BY <2>3, <2>4
    <3> HIDE DEF left
    <3> QED
      BY <1>1, <3>1, <3>2, <3>3, NewResolver
  <2>6. search_try_next(s, r) =
          request_submit([p EXCEPT !.left[q] = IF @ = <<>> THEN @ ELSE Tail(@)], r0)
    BY <1>1, <1>8, Zenon DEF search_try_next
  <2>7. [p EXCEPT !.left[q] = IF @ = <<>> THEN @ ELSE Tail(@)] = [p EXCEPT !.left[q] = left]
    BY <1>7
  <2> HIDE DEF x, u, left
  <2> QED
    BY <2>1, <2>2, <2>5, <2>6, <2>7
<1>9. CASE ~isLast
  <2> DEFINE u == [r0 EXCEPT !.state = k, !.index = r.index + 1]
             x == [p EXCEPT !.states = Holds(@, k), !.left[q] = left]
  <2>1. u.state = k /\ u.index = r.index + 1 /\ u.who = q
    BY DEF Request
  <2>2. left = SubSeq(dom, m + 1, Len(dom)) \o z
    <3>1. m <= Len(dom)
      BY <1>2, <1>3, <1>9
    <3>2. old # <<>> /\ Tail(old) = SubSeq(dom, m + 1, Len(dom)) \o z
      <4> HIDE DEF m, dom, z, old
      <4> QED
        BY <1>4, <1>5, <3>1, TailSub
    <3> QED
      BY <3>2
  <2>3. left = Tries(u, s.states)
    <3>1. Tries(u, s.states) = SubSeq(dom, u.index + 2, Len(dom)) \o z
      <4> HIDE DEF u
      <4> QED
        BY <1>2, <2>1, TriesOf
    <3>2. u.index + 2 = m + 1
      BY <1>2, <2>1
    <3> QED
      BY <2>2, <3>1, <3>2
  <2>4. Resolver(request_submit(x, u), held, d, limbo \ {q})
        /\ Grows(s, request_submit(x, u), 1)
    <3>1. k \in States \cup {Null} /\ r.index + 1 \in Int /\ r.index + 1 >= -1
      BY <1>2
    <3>2. q \in Queries \cap limbo /\ left \in Seq(Domains \cup {Null})
      BY <1>6 DEF Names
    <3> HIDE DEF left
    <3> QED
      BY <1>1, <2>3, <3>1, <3>2, NewResolver
  <2>5. search_try_next(s, r) =
          request_submit([[p EXCEPT !.left[q] = IF @ = <<>> THEN @ ELSE Tail(@)]
                            EXCEPT !.states[k].refcount = @ + 1], u)
    BY <1>1, <1>9, Zenon DEF search_try_next
  <2>6. [p EXCEPT !.left[q] = IF @ = <<>> THEN @ ELSE Tail(@)] = [p EXCEPT !.left[q] = left]
    BY <1>7
  <2>7. x = [[p EXCEPT !.left[q] = left] EXCEPT !.states[k].refcount = @ + 1]
    <3> HIDE DEF left
    <3> QED
      BY <1>0, <1>2 DEF Holds, Shape
  <2> HIDE DEF x, u, left
  <2> QED
    BY <2>4, <2>5, <2>6, <2>7
<1> QED
  BY <1>8, <1>9

-----------------------------------------------------------------------------
(* A request is finished.                                                  *)

LEMMA RemoveFacts ==
  ASSUME NEW S, NEW a \in Seq(S), NEW i \in 1 .. Len(a)
  PROVE  /\ RemoveAt(a, i) \in Seq(S) /\ Len(RemoveAt(a, i)) = Len(a) - 1
         /\ \A p \in 1 .. Len(a) - 1 : RemoveAt(a, i)[p] = a[Past(p, i)]
<1> DEFINE n == Len(a)
           b == SubSeq(a, 1, i - 1)
           c == SubSeq(a, i + 1, n)
           t == b \o c
<1>1. n \in Nat /\ i \in Int /\ 1 <= i /\ i <= n /\ \A p \in 1 .. n : a[p] \in S
  OBVIOUS
<1>2. b \in Seq(S) /\ Len(b) = i - 1 /\ \A p \in 1 .. i - 1 : b[p] = a[p]
  <2>1. \A p \in 1 .. i - 1 : a[p] \in S
    BY <1>1
  <2>2. /\ b \in Seq(S) /\ Len(b) = IF 1 <= i - 1 THEN (i - 1) - 1 + 1 ELSE 0
        /\ \A p \in 1 .. (i - 1) - 1 + 1 : b[p] = a[1 + p - 1]
    BY <1>1, <2>1, SubSeqProperties
  <2> HIDE DEF b
  <2> QED
    BY <1>1, <2>2
<1>3. c \in Seq(S) /\ Len(c) = n - i /\ \A p \in 1 .. n - i : c[p] = a[i + p]
  <2>1. \A p \in i + 1 .. n : a[p] \in S
    BY <1>1
  <2>2. /\ c \in Seq(S) /\ Len(c) = IF i + 1 <= n THEN n - (i + 1) + 1 ELSE 0
        /\ \A p \in 1 .. n - (i + 1) + 1 : c[p] = a[(i + 1) + p - 1]
    <3> HIDE DEF n
    <3> QED
      BY <1>1, <2>1, SubSeqProperties
  <2>3. n - (i + 1) + 1 = n - i /\ \A p \in Int : (i + 1) + p - 1 = i + p
    BY <1>1
  <2> HIDE DEF c, n
  <2> QED
    BY <1>1, <2>2, <2>3
<1> HIDE DEF n, b, c
<1>4. /\ t \in Seq(S) /\ Len(t) = Len(b) + Len(c)
      /\ \A p \in 1 .. Len(b) + Len(c) : t[p] = IF p <= Len(b) THEN b[p] ELSE c[p - Len(b)]
  BY <1>2, <1>3, ConcatProperties
<1>5. Len(t) = n - 1 /\ Len(b) + Len(c) = n - 1
  BY <1>1, <1>2, <1>3, <1>4
<1> HIDE DEF t
<1>6. ASSUME NEW p \in 1 .. n - 1 PROVE t[p] = a[Past(p, i)]
  <2>1. CASE p < i
    <3>1. p <= Len(b) /\ p \in 1 .. i - 1 /\ Past(p, i) = p
      BY <1>1, <1>2, <2>1 DEF Past
    <3> QED
      BY <1>2, <1>4, <1>5, <3>1
  <2>2. CASE ~(p < i)
    <3>1. ~(p <= Len(b)) /\ p - Len(b) \in 1 .. n - i /\ i + (p - Len(b)) = p + 1
          /\ Past(p, i) = p + 1
      BY <1>1, <1>2, <2>2 DEF Past
    <3> QED
      BY <1>3, <1>4, <1>5, <3>1
  <2> QED
    BY <2>1, <2>2
<1>7. RemoveAt(a, i) = t
  BY DEF RemoveAt, t, b, c, n
<1> QED
  BY <1>4, <1>5, <1>6, <1>7 DEF n

LEMMA RemoveInserts ==
  ASSUME NEW a \in Seq(Requests), NEW w \in Seq(Requests), NEW i \in 1 .. Len(a)
  PROVE  Inserts(RemoveAt(a, i) \o w, a \o w, i, a[i])
<1> DEFINE n == Len(a)
           m == Len(w)
           b == RemoveAt(a, i)
           l == b \o w
           k == a \o w
<1>1. n \in Nat /\ m \in Nat /\ i \in 1 .. n
  OBVIOUS
<1>2. b \in Seq(Requests) /\ Len(b) = n - 1 /\ \A p \in 1 .. n - 1 : b[p] = a[Past(p, i)]
  BY RemoveFacts
<1>3. /\ k \in Seq(Requests) /\ Len(k) = n + m
      /\ \A p \in 1 .. n + m : k[p] = IF p <= n THEN a[p] ELSE w[p - n]
  BY ConcatProperties
<1> HIDE DEF n, m, b, k
<1>4. /\ l \in Seq(Requests) /\ Len(l) = (n - 1) + m
      /\ \A p \in 1 .. (n - 1) + m : l[p] = IF p <= n - 1 THEN b[p] ELSE w[p - (n - 1)]
  <2>1. /\ l \in Seq(Requests) /\ Len(l) = Len(b) + Len(w)
        /\ \A p \in 1 .. Len(b) + Len(w) : l[p] = IF p <= Len(b) THEN b[p] ELSE w[p - Len(b)]
    BY <1>2, ConcatProperties
  <2> QED
    BY <1>2, <2>1 DEF m
<1> HIDE DEF l
<1>5. Len(k) = Len(l) + 1 /\ i \in 1 .. Len(k) /\ k[i] = a[i]
  <2>1. i \in 1 .. n + m /\ i <= n /\ n + m = ((n - 1) + m) + 1
    BY <1>1
  <2> QED
    BY <1>3, <1>4, <2>1
<1>6. ASSUME NEW p \in 1 .. Len(l) PROVE k[Past(p, i)] = l[p]
  <2>1. p \in 1 .. (n - 1) + m
    BY <1>4
  <2>2. CASE p <= n - 1
    <3>1. p \in 1 .. n - 1 /\ Past(p, i) \in 1 .. n + m /\ Past(p, i) <= n
      BY <1>1, <2>1, <2>2 DEF Past
    <3> QED
      BY <1>2, <1>3, <1>4, <2>1, <2>2, <3>1
  <2>3. CASE ~(p <= n - 1)
    <3>1. /\ Past(p, i) = p + 1 /\ p + 1 \in 1 .. n + m /\ ~(p + 1 <= n)
          /\ (p + 1) - n = p - (n - 1)
      BY <1>1, <2>1, <2>3 DEF Past
    <3> QED
      BY <1>3, <1>4, <2>1, <2>3, <3>1
  <2> QED
    BY <2>2, <2>3
<1>7. Inserts(l, k, i, a[i])
  BY <1>3, <1>4, <1>5, <1>6 DEF Inserts, SameName
<1> QED
  BY <1>7 DEF l, k, b

\* request_finished ends the request set aside, and lets others go.
LEMMA FinishResolver ==
  ASSUME NEW s, NEW limbo, NEW i \in 1 .. Len(s.inflight), Resolver(s, {i}, i, limbo)
  PROVE  LET t == request_finished(s, "inflight", i)
         IN  /\ Resolver(t, {}, 0, limbo) /\ ~MayPump(t)
             /\ t.again = s.again /\ t.fault = s.fault /\ Ring(t) = Ring(s)
             /\ Len(Listed(t)) = Len(Listed(s)) - 1
<1> DEFINE k == s.inflight[i].state
           x == [search_state_decref(s, k) EXCEPT
                   !["inflight"] = RemoveAt(@, i), !.nInflight = @ - 1]
           t == evdns_requests_pump_waiting_queue(x)
           a == Listed(x)
           b == Listed(s)
<1>1. Base(s, {i}) /\ Shape(s)
  BY DEF Resolver, Base
<1>2. /\ s.inflight \in Seq(Requests) /\ s.waiting \in Seq(Requests)
      /\ Len(s.inflight) \in Nat /\ Len(s.waiting) \in Nat
  BY <1>1, FlightFacts
<1>3. /\ Shape(x) /\ SameServers(s, x) /\ SameSockets(s, x)
      /\ x.ring = s.ring /\ x.fault = s.fault /\ x.again = s.again /\ x.limit = s.limit
      /\ x.search = s.search /\ x.left = s.left /\ x.pending = s.pending
      /\ x.waiting = s.waiting /\ x.nWaiting = s.nWaiting /\ x.nInflight = s.nInflight - 1
      /\ x.inflight = RemoveAt(s.inflight, i) /\ x.states = Drops(s.states, k)
  <2> HIDE DEF k
  <2>1. CASE k = Null
    BY <1>1, <2>1 DEF search_state_decref, Drops, Shape, SameServers, SameSockets
  <2>2. CASE k # Null
    <3> DEFINE v == [s EXCEPT !.states[k] = Decref(@)]
    <3>1. search_state_decref(s, k) = v
      BY <2>2 DEF search_state_decref
    <3>2. /\ Shape(v) /\ SameServers(s, v) /\ SameSockets(s, v) /\ SameLists(s, v)
          /\ v.ring = s.ring /\ v.fault = s.fault /\ v.again = s.again /\ v.limit = s.limit
          /\ v.search = s.search /\ v.left = s.left /\ v.pending = s.pending
          /\ v.states = Drops(s.states, k)
      BY <1>1, <2>2 DEF Drops, Shape, SameServers, SameSockets, SameLists
    <3> HIDE DEF v
    <3> QED
      BY <3>1, <3>2 DEF Shape, SameServers, SameSockets, SameLists
  <2> QED
    BY <2>1, <2>2
<1> HIDE DEF x
<1>4. /\ x.inflight \in Seq(Requests) /\ Len(x.inflight) = Len(s.inflight) - 1
      /\ \A p \in 1 .. Len(s.inflight) - 1 : x.inflight[p] = s.inflight[Past(p, i)]
  BY <1>2, <1>3, RemoveFacts
<1>5. Base(x, {})
  <2>1. ServersOK(x)
    BY <1>1, <1>3 DEF Base, ServersOK, SameServers, SameSockets, Ring
  <2>2. FlightOK(x.inflight, Ring(x), x.writing, {})
    <3> SUFFICES ASSUME NEW p \in 1 .. Len(s.inflight) - 1
                 PROVE  /\ Plain(x.inflight[p], Ring(s)) /\ Sendable(x.inflight[p], Ring(s))
                        /\ Going(x.inflight[p], s.writing)
      BY <1>3, <1>4 DEF FlightOK, SameSockets, Ring
    <3>1. Past(p, i) \in 1 .. Len(s.inflight) /\ Past(p, i) # i
      BY <1>2 DEF Past
    <3>2. /\ Plain(s.inflight[Past(p, i)], Ring(s)) /\ Sendable(s.inflight[Past(p, i)], Ring(s))
          /\ Going(s.inflight[Past(p, i)], s.writing)
      BY <1>1, <3>1 DEF Base, FlightOK
    <3> QED
      BY <1>4, <3>2
  <2> QED
    BY <1>1, <1>3, <1>4, <2>1, <2>2 DEF Base, SameSockets
<1>6. Inserts(a, b, i, s.inflight[i])
  BY <1>2, <1>3, RemoveInserts DEF Listed
<1>7. i \in 1 .. Len(b) /\ b[i].state = k /\ Len(b) = Len(a) + 1 /\ Len(a) \in Nat
  BY <1>6 DEF Inserts, SameName
<1>8. Sound(b)
  BY <1>1, ListedSound
<1> HIDE DEF a, b, k
<1>9. Live(a, 0, limbo, s.pending, Unwatched(x))
  <2>1. Live(b, i, limbo, s.pending, Unwatched(s))
    BY DEF Resolver, b
  <2>2. Unwatched(x) \subseteq Unwatched(s)
    BY <1>3 DEF Unwatched, SameServers, Ring
  <2> QED
    BY <1>6, <2>1, <2>2, LeaveLive
<1>10. Tracked(a, 0, x.states, s.search, s.left)
  <2>1. Tracked(b, i, s.states, s.search, s.left)
    BY DEF Resolver, b
  <2>2. Tracked(a, 0, Drops(s.states, b[i].state), s.search, s.left)
    BY <1>6, <1>8, <2>1, LeaveTracked
  <2> QED
    BY <1>3, <1>7, <2>2
<1>11. Resolver(x, {}, 0, limbo)
  BY <1>3, <1>5, <1>9, <1>10 DEF Resolver, a
<1>12. x.ring # <<>>
  <2>1. s.inflight[i].ns \in Ring(s)
    BY <1>1, FlightFacts
  <2>2. PICK j \in 1 .. Len(s.ring) : s.inflight[i].ns = s.ring[j]
    BY <2>1 DEF Ring, Elements
  <2>3. s.ring # <<>>
    BY <2>2
  <2> QED
    BY <1>3, <2>3
<1>13. Base(t, {}) /\ Alike(x, t) /\ ~MayPump(t)
  BY <1>5, <1>12, PumpAllFacts
<1> HIDE DEF t
<1>14. Resolver(t, {}, 0, limbo)
  BY <1>11, <1>13, AlikeResolver
<1>15. t.again = s.again /\ t.fault = s.fault /\ Ring(t) = Ring(s)
  BY <1>3, <1>13 DEF Alike, SameUser, Ring
<1>16. Len(Listed(t)) = Len(b) - 1
  <2>1. Len(Listed(t)) = Len(a)
    BY <1>13 DEF Alike, SameNames, a
  <2> QED
    BY <1>7, <2>1
<1>17. request_finished(s, "inflight", i) = t
  BY DEF request_finished, t, x, k
<1> QED
  BY <1>13, <1>14, <1>15, <1>16, <1>17 DEF b

-----------------------------------------------------------------------------
(* The end of a request.                                                   *)

\* Only queries and servers without another hope matter in limbo.
LEMMA LimboSwap ==
  ASSUME NEW s, NEW held, NEW d, NEW limbo, Resolver(s, held, d, limbo),
         NEW now, now \cap Queries = limbo \cap Queries, limbo \cap Unwatched(s) \subseteq now
  PROVE  Resolver(s, held, d, now)
<1>1. Live(Listed(s), d, limbo, s.pending, Unwatched(s))
  BY DEF Resolver
<1>2. \A q \in Queries : q \in now <=> q \in limbo
  OBVIOUS
<1>3. \A n \in Unwatched(s) : n \in limbo => n \in now
  OBVIOUS
<1>4. Live(Listed(s), d, now, s.pending, Unwatched(s))
  BY <1>1, <1>2, <1>3 DEF Live
<1> QED
  BY <1>4 DEF Resolver

\* x is s when user code has been told of query q.
Told(s, x, q) ==
  /\ Shape(x) /\ SameLists(s, x) /\ SameServers(s, x) /\ SameSockets(s, x)
  /\ x.ring = s.ring /\ x.limit = s.limit /\ x.search = s.search /\ x.states = s.states
  /\ x.fault = s.fault /\ x.again \in Queries \cup {Null}
  /\ x.pending = [s.pending EXCEPT ![q] = @ - 1]
  /\ x.left = [s.left EXCEPT ![q] = <<>>]

LEMMA ToldResolver ==
  ASSUME NEW s, NEW held, NEW d, NEW limbo, NEW q \in Queries \ limbo,
         Resolver(s, held, d, limbo \cup {q}), NEW x, Told(s, x, q)
  PROVE  Resolver(x, held, d, limbo)
<1> DEFINE a == Listed(s)
<1>1. /\ Live(a, d, limbo \cup {q}, s.pending, Unwatched(s))
      /\ Tracked(a, d, s.states, s.search, s.left) /\ Base(s, held)
  BY DEF Resolver
<1>2. Listed(x) = a /\ Unwatched(x) = Unwatched(s) /\ Ring(x) = Ring(s)
  BY DEF Told, SameLists, SameServers, Listed, Unwatched, Ring
<1>3. Base(x, held)
  BY <1>1, <1>2 DEF Base, Told, SameLists, SameServers, SameSockets, ServersOK, Ring
<1> HIDE DEF a
<1>4. s.pending \in [Queries -> {0, 1}] /\ s.pending[q] = 1 /\ ~Carries(a, d, q)
  BY <1>1 DEF Live
<1>5. /\ x.pending \in [Queries -> {0, 1}] /\ x.pending[q] = 0
      /\ \A c \in Queries : c # q => x.pending[c] = s.pending[c]
  BY <1>4 DEF Told
<1>6. Live(a, d, limbo, x.pending, Unwatched(s))
  <2>1. ASSUME NEW c \in Queries
        PROVE  Carries(a, d, c) <=> x.pending[c] = 1 /\ c \notin limbo
    <3>1. CASE c = q
      BY <1>4, <1>5, <3>1
    <3>2. CASE c # q
      BY <1>1, <1>5, <3>2 DEF Live
    <3> QED
      BY <3>1, <3>2
  <2>2. \A c \in Queries \cap limbo : x.pending[c] = 1
    BY <1>1, <1>5 DEF Live
  <2>3. ASSUME NEW n \in Unwatched(s) PROVE n \in limbo \/ Carries(a, d, n)
    <3>1. n \in Servers
      BY <1>1, FlightFacts DEF Unwatched
    <3>2. n # q
      BY <3>1, NoNames
    <3> QED
      BY <1>1, <3>2 DEF Live
  <2>4. \A p, r \in 1 .. Len(a) :
          p # d /\ r # d /\ a[p].who = a[r].who /\ a[p].who \in Queries => p = r
    BY <1>1 DEF Live
  <2> QED
    BY <1>5, <2>1, <2>2, <2>3, <2>4 DEF Live
<1>7. Tracked(a, d, s.states, s.search, x.left)
  <2>1. s.left \in [Queries -> Seq(Domains \cup {Null})]
    BY <1>1 DEF Tracked
  <2>2. <<>> \in Seq(Domains \cup {Null})
    BY EmptyNames DEF Names
  <2>3. x.left \in [Queries -> Seq(Domains \cup {Null})]
    BY <2>1, <2>2 DEF Told
  <2>4. \A c \in Queries : c # q => x.left[c] = s.left[c]
    BY <2>1 DEF Told
  <2>5. ASSUME NEW p \in 1 .. Len(a), p # d, a[p].who \in Queries
        PROVE  Tries(a[p], s.states) = x.left[a[p].who]
    <3>1. a[p].who # q
      BY <1>4, <2>5 DEF Carries
    <3>2. Tries(a[p], s.states) = s.left[a[p].who]
      BY <1>1, <2>5 DEF Tracked
    <3> QED
      BY <2>4, <2>5, <3>1, <3>2
  <2> QED
    BY <1>1, <2>3, <2>5 DEF Tracked
<1> QED
  BY <1>2, <1>3, <1>6, <1>7 DEF Resolver, Told, a

\* The requests there are, and the one that a callback may make.
Weight(s) == Len(Listed(s)) + One(s.again \in Queries)

\* What is left by the end of a request: it is still in its list.
Ends(s, t, i) ==
  /\ i \in 1 .. Len(t.inflight) /\ Ring(t) = Ring(s)
  /\ s.fault \in {"none", "freed"} => t.fault \in {s.fault, "freed"}
  /\ Weight(t) <= Weight(s)

\* reply_callback answers the query, or settles the probe.
LEMMA ReplyResolver ==
  ASSUME NEW s, NEW limbo, NEW i \in 1 .. Len(s.inflight), NEW r, NEW result,
         r.who \in Queries \cup Ring(s) \cup {Freed}, r.who \in Queries => r.who \notin limbo,
         Resolver(s, {i}, i, limbo \cup {r.who})
  PROVE  LET t == reply_callback(s, r, result)
         IN  Resolver(t, {i}, i, limbo) /\ Ends(s, t, i)
<1> DEFINE t == reply_callback(s, r, result)
           n == r.who
<1>1. /\ Base(s, {i}) /\ Len(Listed(s)) \in Nat /\ Len(s.inflight) \in Nat
      /\ Ring(s) \subseteq Servers /\ s.fault \in {"none", "freed"}
  BY FlightFacts, ListedFacts DEF Resolver, Base
<1>2. CASE r.who \in Queries
  <2> DEFINE x == [s EXCEPT !.pending[r.who] = @ - 1, !.left[r.who] = <<>>, !.again = Null,
                            !.turn[r.who] = IF s.again = r.who THEN 1 - @ ELSE 0]
             u == evdns_resolve(x, s.again)
  <2>1. Told(s, x, r.who) /\ x.again = Null
    BY <1>1 DEF Told, Base, Shape, SameLists, SameServers, SameSockets
  <2>2. t = IF s.again \in Queries /\ x.pending[s.again] = 0 THEN u ELSE x
    BY <1>2 DEF reply_callback
  <2> HIDE DEF x
  <2>3. Resolver(x, {i}, i, limbo)
    BY <1>2, <2>1, ToldResolver
  <2>4. /\ x.inflight = s.inflight /\ Listed(x) = Listed(s) /\ Ring(x) = Ring(s)
        /\ x.fault = s.fault
    BY <2>1 DEF Told, SameLists, Listed, Ring
  <2>5. Weight(x) = Len(Listed(s)) /\ Len(Listed(s)) <= Weight(s)
    BY <1>1, <2>1, <2>4, NoNames DEF Weight, One
  <2>6. CASE s.again \in Queries /\ x.pending[s.again] = 0
    <3>1. i \in 0 .. Len(x.inflight)
      BY <1>1, <2>4
    <3>2. Resolver(u, {i}, i, limbo) /\ Grows(x, u, 1)
      BY <2>3, <2>6, <3>1, ResolveResolver
    <3>3. Base(u, {i})
      BY <3>2 DEF Resolver
    <3>4. Len(u.inflight) \in Nat /\ Len(s.inflight) <= Len(u.inflight)
      BY <2>4, <3>2, <3>3, FlightFacts DEF Grows
    <3>5. Weight(u) = Len(Listed(s)) + 1 /\ Weight(s) = Len(Listed(s)) + 1
      BY <1>1, <2>1, <2>4, <2>6, <3>2, NoNames DEF Weight, One, Grows
    <3>6. Ring(u) = Ring(s) /\ u.fault = s.fault
      BY <2>4, <3>2 DEF Grows
    <3>7. i \in 1 .. Len(u.inflight)
      BY <1>1, <3>4
    <3>8. Weight(u) <= Weight(s)
      BY <1>1, <3>5
    <3> HIDE DEF u
    <3>9. t = u
      BY <2>2, <2>6
    <3> QED
      BY <3>2, <3>6, <3>7, <3>8, <3>9 DEF Ends
  <2>7. CASE ~(s.again \in Queries /\ x.pending[s.again] = 0)
    <3>1. t = x
      BY <2>2, <2>7
    <3>2. Weight(x) <= Weight(s)
      BY <1>1, <2>5
    <3> QED
      BY <2>3, <2>4, <3>1, <3>2 DEF Ends
  <2> QED
    BY <2>6, <2>7
<1>3. CASE r.who = Freed
  <2>1. t = Die(s, "freed")
    BY <1>3, NoNames DEF reply_callback, nameserver_probe_callback
  <2>2. /\ Shape(t) /\ SameUser(s, t) /\ SameLists(s, t) /\ SameServers(s, t)
        /\ SameSockets(s, t) /\ t.ring = s.ring /\ t.fault \in {s.fault, "freed"}
    BY <1>1, <2>1 DEF Die, Base, Shape, SameUser, SameLists, SameServers, SameSockets
  <2> HIDE DEF t
  <2>3. Base(t, {i})
    BY <1>1, <2>2 DEF Base, SameUser, SameLists, SameServers, SameSockets, ServersOK, Ring
  <2>4. Listed(t) = Listed(s) /\ Unwatched(t) = Unwatched(s) /\ Ring(t) = Ring(s)
    BY <2>2 DEF Listed, SameLists, Unwatched, SameServers, Ring
  <2>5. Resolver(s, {i}, i, limbo)
    <3>1. Freed \notin Unwatched(s)
      BY <1>1, NoNames DEF Unwatched
    <3>2. limbo \cap Queries = (limbo \cup {r.who}) \cap Queries
      BY <1>3, NoNames
    <3>3. (limbo \cup {r.who}) \cap Unwatched(s) \subseteq limbo
      BY <1>3, <3>1
    <3> QED
      BY <3>2, <3>3, LimboSwap
  <2>6. Resolver(t, {i}, i, limbo)
    BY <2>2, <2>3, <2>4, <2>5 DEF Resolver, SameUser
  <2>7. Weight(t) <= Weight(s)
    BY <1>1, <2>2, <2>4 DEF Weight, SameUser, One
  <2> QED
    BY <2>2, <2>4, <2>6, <2>7 DEF Ends, SameLists, t
<1>4. CASE r.who \in Ring(s)
  <2>1. n \in Ring(s) /\ n \notin Queries /\ n # Freed
    BY <1>1, <1>4, NoNames
  <2> DEFINE good == result \in {"none", "notexist"}
  <2>2. t = IF good THEN nameserver_up(s, n) ELSE nameserver_probe_failed(s, n)
    BY <2>1 DEF reply_callback, nameserver_probe_callback
  <2> HIDE DEF good
  <2>5. Base(t, {i}) /\ Keeps(s, t) /\ n \notin Unwatched(t) /\ t.inflight = s.inflight
    <3> HIDE DEF t, n
    <3>1. CASE good
      <4>1. t = nameserver_up(s, n)
        BY <2>2, <3>1
      <4> QED
        BY <1>1, <2>1, <4>1, UpKeeps
    <3>2. CASE ~good
      <4>1. t = nameserver_probe_failed(s, n)
        BY <2>2, <3>2
      <4> QED
        BY <1>1, <2>1, <4>1, ProbeFailedKeeps
    <3> QED
      BY <3>1, <3>2
  <2> HIDE DEF t
  <2>6. Alike(s, t)
    BY <1>1, <2>5, KeepsAlike
  <2>7. Resolver(t, {i}, i, limbo \cup {n})
    BY <2>5, <2>6, AlikeResolver
  <2>8. Resolver(t, {i}, i, limbo)
    <3> HIDE DEF n
    <3>1. limbo \cap Queries = (limbo \cup {n}) \cap Queries
      BY <2>1
    <3>2. (limbo \cup {n}) \cap Unwatched(t) \subseteq limbo
      BY <2>5
    <3> QED
      BY <2>7, <3>1, <3>2, LimboSwap
  <2>9. Listed(t) = Listed(s)
    BY <2>5 DEF Keeps, Listed
  <2>10. Weight(t) <= Weight(s)
    BY <1>1, <2>5, <2>9 DEF Weight, One, Keeps, SameUser
  <2> QED
    BY <2>5, <2>8, <2>10 DEF Ends, Keeps, t
<1> QED
  BY <1>2, <1>3, <1>4

\* What a request that is over leaves: nothing waits that could go.
Settles(s, t) ==
  /\ ~MayPump(t) /\ Ring(t) = Ring(s) /\ Weight(t) <= Weight(s) - 1
  /\ t.fault \in {s.fault, "freed"}

\* A request that is answered or given up.
LEMMA EndResolver ==
  ASSUME NEW s, NEW limbo, NEW i \in 1 .. Len(s.inflight), NEW r, NEW result,
         r.who \in Queries \cup Ring(s) \cup {Freed}, r.who \in Queries => r.who \notin limbo,
         Resolver(s, {i}, i, limbo \cup {r.who})
  PROVE  LET t == request_finished(reply_callback(s, r, result), "inflight", i)
         IN  Resolver(t, {}, 0, limbo) /\ Settles(s, t)
<1> DEFINE x == reply_callback(s, r, result)
           t == request_finished(x, "inflight", i)
<1>1. Resolver(x, {i}, i, limbo) /\ Ends(s, x, i)
  BY ReplyResolver
<1>2. s.fault \in {"none", "freed"} /\ Len(Listed(s)) \in Nat
  BY ListedFacts DEF Resolver, Base
<1>3. Base(x, {i})
  BY <1>1 DEF Resolver
<1>4. Len(Listed(x)) \in Nat
  BY <1>3, ListedFacts
<1> HIDE DEF x
<1>5. i \in 1 .. Len(x.inflight)
  BY <1>1 DEF Ends
<1>6. /\ Resolver(t, {}, 0, limbo) /\ ~MayPump(t)
      /\ t.again = x.again /\ t.fault = x.fault /\ Ring(t) = Ring(x)
      /\ Len(Listed(t)) = Len(Listed(x)) - 1
  BY <1>1, <1>5, FinishResolver
<1> HIDE DEF t
<1>7. Weight(t) = Weight(x) - 1
  BY <1>4, <1>6 DEF Weight, One
<1>8. Weight(x) \in Nat /\ Weight(s) \in Nat
  BY <1>2, <1>4 DEF Weight, One
<1>9. Weight(t) <= Weight(s) - 1
  BY <1>1, <1>7, <1>8 DEF Ends
<1>10. Settles(s, t)
  BY <1>1, <1>2, <1>6, <1>9 DEF Settles, Ends
<1> QED
  BY <1>6, <1>10 DEF t, x

\* Who a request is for.
LEMMA FlightWho ==
  ASSUME NEW s, NEW held, Base(s, held), NEW i \in 1 .. Len(s.inflight)
  PROVE  s.inflight[i].who \in Queries \cup Ring(s) \cup {Freed}
<1>1. s.inflight[i] \in Requests /\ Plain(s.inflight[i], Ring(s))
  BY FlightFacts
<1> QED
  BY <1>1 DEF Requests, Plain

\* A request without an answer is followed by another or given up.
LEMMA UnansweredResolver ==
  ASSUME NEW s, Resolver(s, {}, 0, {}), NEW i \in 1 .. Len(s.inflight), NEW result
  PROVE  Resolver(Unanswered(s, i, result), {}, 0, {})
<1> DEFINE r == s.inflight[i]
<1>1. Base(s, {}) /\ Tracked(Listed(s), 0, s.states, s.search, s.left)
  BY DEF Resolver
<1>2. /\ r \in Requests /\ Plain(r, Ring(s)) /\ Len(s.inflight) \in Nat
      /\ r.who \in Queries \cup Ring(s) \cup {Freed}
  BY <1>1, FlightFacts, FlightWho
<1>3. Resolver(s, {i}, i, {r.who})
  <2>1. Resolver(s, {} \cup {i}, i, {} \cup {s.inflight[i].who})
    BY SetAside
  <2>2. {} \cup {i} = {i} /\ {} \cup {s.inflight[i].who} = {r.who}
    OBVIOUS
  <2> QED
    BY <2>1, <2>2
<1>4. /\ r.index >= -1 /\ (r.who \in Queries => s.left[r.who] = Tries(r, s.states))
  <2>1. i \in 1 .. Len(Listed(s)) /\ Listed(s)[i] = r /\ i # 0
    <3>1. i \in 1 .. Len(Listed(s)) /\ i <= Len(s.inflight) /\ i # 0
      <4> DEFINE a == Len(s.inflight)
                 c == Len(s.waiting)
      <4>1. Len(Listed(s)) = a + c /\ a \in Nat /\ c \in Nat /\ i \in 1 .. a
        BY <1>1, ListedFacts, FlightFacts
      <4> HIDE DEF a, c
      <4>2. i \in 1 .. a + c /\ i <= a /\ i # 0
        BY <4>1
      <4> QED
        BY <4>1, <4>2 DEF a
    <3> QED
      BY <1>1, <3>1, ListedFacts
  <2> QED
    BY <1>1, <2>1 DEF Tracked
<1>5. CASE HasNext(s, r)
  <2> DEFINE x == search_try_next(s, r)
             t == request_finished(x, "inflight", i)
  <2>1. r.who \in Queries
    BY <1>2, <1>5 DEF HasNext, Plain
  <2>2. i \in 0 .. Len(s.inflight)
    BY <1>2
  <2>3. Resolver(x, {i}, i, {r.who} \ {r.who}) /\ Grows(s, x, 1)
    <3> HIDE DEF r
    <3> QED
      BY <1>2, <1>3, <1>4, <1>5, <2>1, <2>2, TryNextResolver
  <2>4. {r.who} \ {r.who} = {}
    OBVIOUS
  <2>5. Resolver(x, {i}, i, {})
    BY <2>3, <2>4
  <2>6. Base(x, {i})
    BY <2>5 DEF Resolver
  <2>7. i \in 1 .. Len(x.inflight)
    <3> HIDE DEF x
    <3>1. Len(x.inflight) \in Nat /\ Len(s.inflight) <= Len(x.inflight)
      BY <2>3, <2>6, FlightFacts DEF Grows
    <3> QED
      BY <1>2, <3>1
  <2>8. Resolver(t, {}, 0, {})
    <3> HIDE DEF x
    <3> QED
      BY <2>5, <2>7, FinishResolver
  <2>9. Unanswered(s, i, result) = t
    BY <1>5 DEF Unanswered
  <2> QED
    BY <2>8, <2>9
<1>6. CASE ~HasNext(s, r)
  <2> DEFINE t == request_finished(reply_callback(s, r, result), "inflight", i)
  <2>1. {r.who} = {} \cup {r.who}
    OBVIOUS
  <2>2. Resolver(t, {}, 0, {})
    <3> HIDE DEF r
    <3> QED
      BY <1>2, <1>3, <2>1, EndResolver
  <2>3. Unanswered(s, i, result) = t
    BY <1>6 DEF Unanswered
  <2> QED
    BY <2>2, <2>3
<1> QED
  BY <1>5, <1>6

\* What leaves the requests to those they are for keeps the invariant.
LEMMA KeepsResolver ==
  ASSUME NEW s, NEW held, NEW d, NEW limbo, Resolver(s, held, d, limbo),
         NEW t, NEW now, Base(t, now), Keeps(s, t)
  PROVE  Resolver(t, now, d, limbo) /\ Len(t.inflight) = Len(s.inflight)
<1>1. Base(s, held)
  BY DEF Resolver
<1>2. Alike(s, t)
  BY <1>1, KeepsAlike
<1>3. Resolver(t, now, d, limbo)
  BY <1>2, AlikeResolver
<1> QED
  BY <1>3 DEF Keeps, OnlyMarks

\* A reply answers a request, sends it to another server or ends it.
LEMMA HandleResolver ==
  ASSUME NEW s, Resolver(s, {}, 0, {}), NEW i \in 1 .. Len(s.inflight), NEW result
  PROVE  Resolver(reply_handle(s, i, result), {}, 0, {})
<1> DEFINE r       == s.inflight[i]
           n       == r.ns
           failed  == nameserver_failed(s, n)
           again   == request_reissue(failed, i)
           told    == reply_callback(s, r, "none")
           t       == reply_handle(s, i, result)
<1>1. Base(s, {}) /\ Len(s.inflight) \in Nat
  BY FlightFacts DEF Resolver
<1>2. n \in Ring(s) /\ r.who \in Queries \cup Ring(s) \cup {Freed}
  BY <1>1, FlightFacts, FlightWho
<1>3. CASE result = "none"
  <2>1. Resolver(s, {} \cup {i}, i, {} \cup {r.who})
    BY SetAside
  <2>2. {} \cup {i} = {i}
    OBVIOUS
  <2>3. Resolver(told, {i}, i, {}) /\ Ends(s, told, i)
    <3> HIDE DEF r
    <3> QED
      BY <1>2, <2>1, <2>2, ReplyResolver
  <2> DEFINE m == told.inflight[i].ns
             u == nameserver_up(told, m)
  <2>4. t = request_finished(u, "inflight", i)
    BY <1>3 DEF reply_handle
  <2> HIDE DEF told, t
  <2>5. Base(told, {i}) /\ i \in 1 .. Len(told.inflight)
    BY <2>3 DEF Resolver, Ends
  <2>6. m \in Ring(told)
    BY <2>5, FlightFacts
  <2>7. Base(u, {i}) /\ Keeps(told, u)
    <3> HIDE DEF m
    <3> QED
      BY <2>5, <2>6, UpKeeps
  <2> HIDE DEF u
  <2>8. Resolver(u, {i}, i, {}) /\ i \in 1 .. Len(u.inflight)
    BY <2>3, <2>5, <2>7, KeepsResolver
  <2>9. Resolver(t, {}, 0, {})
    BY <2>4, <2>8, FinishResolver
  <2> QED
    BY <2>9 DEF t
<1>4. CASE result = "refused"
  <2>1. Base(failed, {}) /\ Keeps(s, failed)
    BY <1>1, FailedKeeps
  <2>2. Resolver(failed, {}, 0, {}) /\ Len(failed.inflight) = Len(s.inflight)
    <3> HIDE DEF failed
    <3> QED
      BY <2>1, KeepsResolver
  <2>3. Base(again, {}) /\ Keeps(failed, again)
    <3> HIDE DEF failed
    <3> QED
      BY <2>1, <2>2, ReissueKeeps
  <2>4. Resolver(again, {}, 0, {}) /\ Len(again.inflight) = Len(s.inflight)
    <3> HIDE DEF failed, again
    <3> QED
      BY <2>2, <2>3, KeepsResolver
  <2>5. t \in {Unanswered(s, i, result), again, Unanswered(again, i, result)}
    BY <1>4 DEF reply_handle
  <2> HIDE DEF failed, again, t
  <2>6. Resolver(Unanswered(s, i, result), {}, 0, {})
    BY UnansweredResolver
  <2>7. Resolver(Unanswered(again, i, result), {}, 0, {})
    BY <2>4, UnansweredResolver
  <2>8. Resolver(t, {}, 0, {})
    BY <2>4, <2>5, <2>6, <2>7
  <2> QED
    BY <2>8 DEF t
<1>5. CASE result = "serverfailed"
  <2>1. t = Unanswered(s, i, result)
    BY <1>5 DEF reply_handle
  <2> QED
    BY <2>1, UnansweredResolver
<1>6. CASE result \notin {"none", "refused", "serverfailed"}
  <2> DEFINE u == nameserver_up(s, n)
  <2>1. t = Unanswered(u, i, result)
    BY <1>6 DEF reply_handle
  <2>2. Base(u, {}) /\ Keeps(s, u)
    <3> HIDE DEF n
    <3> QED
      BY <1>1, <1>2, UpKeeps
  <2> HIDE DEF u
  <2>3. Resolver(u, {}, 0, {}) /\ i \in 1 .. Len(u.inflight)
    BY <2>2, KeepsResolver
  <2>4. Resolver(Unanswered(u, i, result), {}, 0, {})
    BY <2>3, UnansweredResolver
  <2> QED
    BY <2>1, <2>4
<1> QED
  BY <1>3, <1>4, <1>5, <1>6

-----------------------------------------------------------------------------
(* The handlers.                                                           *)

\* Only what a handler needs for itself differs.
SameCore(s, t) ==
  /\ Shape(t) /\ SameLists(s, t) /\ SameServers(s, t)
  /\ t.ring = s.ring /\ t.choked = s.choked /\ t.writing = s.writing
  /\ t.search = s.search /\ t.states = s.states
  /\ t.pending = s.pending /\ t.left = s.left /\ t.fault = s.fault
  /\ t.limit \in Nat \ {0} /\ t.net \in Seq(Outcomes) /\ t.again \in Queries \cup {Null}

LEMMA CoreResolver ==
  ASSUME NEW s, NEW held, NEW d, NEW limbo, Resolver(s, held, d, limbo),
         NEW t, SameCore(s, t)
  PROVE  Resolver(t, held, d, limbo)
<1>1. Listed(t) = Listed(s) /\ Unwatched(t) = Unwatched(s) /\ Ring(t) = Ring(s)
  BY DEF SameCore, Listed, SameLists, Unwatched, SameServers, Ring
<1>2. Base(t, held)
  BY <1>1 DEF Resolver, Base, SameCore, SameLists, SameServers, ServersOK, Ring
<1> QED
  BY <1>1, <1>2 DEF Resolver, SameCore

\* nameserver_ready_callback, EV_READ.
LEMMA ReadResolver ==
  ASSUME NEW s, Resolver(s, {}, 0, {}), NEW timedout, NEW i \in 1 .. Len(s.inflight),
         NEW result
  PROVE  Resolver(reply_handle([s EXCEPT !.timedout = timedout], i, result), {}, 0, {})
<1> DEFINE x == [s EXCEPT !.timedout = timedout]
<1>1. SameCore(s, x)
  BY DEF Resolver, Base, SameCore, Shape, SameLists, SameServers
<1> HIDE DEF x
<1>2. Resolver(x, {}, 0, {}) /\ i \in 1 .. Len(x.inflight)
  BY <1>1, CoreResolver DEF SameCore, SameLists
<1>3. Resolver(reply_handle(x, i, result), {}, 0, {})
  BY <1>2, HandleResolver
<1> QED
  BY <1>3 DEF x

LEMMA FailedResolver ==
  ASSUME NEW s, Resolver(s, {}, 0, {}), NEW n
  PROVE  /\ Resolver(nameserver_failed(s, n), {}, 0, {})
         /\ Len(nameserver_failed(s, n).inflight) = Len(s.inflight)
<1> DEFINE t == nameserver_failed(s, n)
<1>1. Base(t, {}) /\ Keeps(s, t)
  BY FailedKeeps DEF Resolver
<1> HIDE DEF t
<1>2. Resolver(t, {}, 0, {}) /\ Len(t.inflight) = Len(s.inflight)
  BY <1>1, KeepsResolver
<1> QED
  BY <1>2 DEF t

\* The timer of a request has fired.
LEMMA ExpireKeeps ==
  ASSUME NEW s, Base(s, {}), NEW i \in 1 .. Len(s.inflight)
  PROVE  LET t == [s EXCEPT !.inflight[i].timer = FALSE]
         IN  Base(t, {i}) /\ Keeps(s, t)
<1> DEFINE r == [s.inflight[i] EXCEPT !.timer = FALSE]
           t == [s EXCEPT !.inflight[i].timer = FALSE]
<1>1. /\ s.inflight[i] \in Requests /\ s.inflight[i].id /\ s.inflight[i].ns \in Ring(s)
      /\ s.inflight \in Seq(Requests)
  BY FlightFacts
<1>2. /\ r \in Requests /\ SameName(s.inflight[i], r) /\ Sendable(r, Ring(s))
  <2>1. r \in Requests
    BY <1>1 DEF Requests
  <2>2. r.who = s.inflight[i].who /\ r.state = s.inflight[i].state
        /\ r.index = s.inflight[i].index /\ r.ns = s.inflight[i].ns /\ r.id = s.inflight[i].id
    BY <1>1 DEF Requests
  <2> QED
    BY <1>1, <2>1, <2>2 DEF SameName, Sendable
<1>3. Replaces(s, t, i, r)
  <2>1. /\ Shape(t) /\ SameUser(s, t) /\ SameServers(s, t) /\ t.fault = s.fault
        /\ t.ring = s.ring /\ t.waiting = s.waiting
        /\ t.nInflight = s.nInflight /\ t.nWaiting = s.nWaiting
        /\ t.inflight = [s.inflight EXCEPT ![i] = r]
        /\ SameSockets(s, t)
    BY DEF Base, Shape, SameUser, SameServers, SameSockets
  <2> HIDE DEF t, r
  <2> QED
    BY <2>1 DEF Replaces, Base, ServersOK, SameSockets, Ring
<1> HIDE DEF t, r
<1>4. Base(t, {i}) /\ Keeps(s, t)
  <2>1. {} \ {i} \subseteq {i} /\ i \in {i}
    OBVIOUS
  <2> QED
    BY <1>2, <1>3, <2>1, ReplaceBase
<1> QED
  BY <1>4 DEF t

\* What follows when the server has been charged with it.
LEMMA ExpiredResolver ==
  ASSUME NEW s, Resolver(s, {}, 0, {}), NEW i \in 1 .. Len(s.inflight)
  PROVE  LET t == [s EXCEPT !.inflight[i].timer = FALSE]
         IN  /\ Resolver(request_finished(reply_callback(t, t.inflight[i], "timeout"),
                                          "inflight", i), {}, 0, {})
             /\ Resolver(evdns_request_transmit(t, i), {}, 0, {})
<1> DEFINE t == [s EXCEPT !.inflight[i].timer = FALSE]
<1>1. Base(t, {i}) /\ Keeps(s, t)
  BY ExpireKeeps DEF Resolver
<1> SUFFICES /\ Resolver(request_finished(reply_callback(t, t.inflight[i], "timeout"),
                                          "inflight", i), {}, 0, {})
             /\ Resolver(evdns_request_transmit(t, i), {}, 0, {})
  OBVIOUS
<1> HIDE DEF t
<1>2. Resolver(t, {i}, 0, {}) /\ i \in 1 .. Len(t.inflight)
  BY <1>1, KeepsResolver
<1> DEFINE r == t.inflight[i]
<1>3. r.who \in Queries \cup Ring(t) \cup {Freed}
  BY <1>1, <1>2, FlightWho
<1>4. Resolver(t, {i}, i, {} \cup {r.who})
  <2>1. Resolver(t, {i} \cup {i}, i, {} \cup {r.who})
    BY <1>2, SetAside
  <2>2. {i} \cup {i} = {i}
    OBVIOUS
  <2> QED
    BY <2>1, <2>2
<1> HIDE DEF r
<1>5. Resolver(request_finished(reply_callback(t, r, "timeout"), "inflight", i), {}, 0, {})
  BY <1>2, <1>3, <1>4, EndResolver
<1> DEFINE u == evdns_request_transmit(t, i)
<1>6. Base(u, {i} \ {i}) /\ Keeps(t, u)
  BY <1>1, <1>2, TransmitBase
<1>7. {i} \ {i} = {}
  OBVIOUS
<1> HIDE DEF u
<1>8. Resolver(u, {}, 0, {})
  BY <1>2, <1>6, <1>7, KeepsResolver
<1> QED
  BY <1>5, <1>8 DEF r, u

\* evdns_request_timeout_callback
LEMMA TimeoutResolver ==
  ASSUME NEW s, Resolver(s, {}, 0, {}), NEW i \in 1 .. Len(s.inflight)
  PROVE  Resolver(evdns_request_timeout_callback(s, i), {}, 0, {})
<1> DEFINE n == s.inflight[i].ns
           c == Charge(s, n)
           x == [s EXCEPT !.timedout[n] = 0]
           y == [s EXCEPT !.timedout[n] = @ + 1]
<1>1. SameCore(s, x) /\ SameCore(s, y)
  BY DEF Resolver, Base, SameCore, Shape, SameLists, SameServers
<1>2. c = IF s.timedout[n] + 1 > MaxTimeouts THEN nameserver_failed(x, n) ELSE y
  BY DEF Charge
<1> HIDE DEF c, n, x, y
<1>3. /\ Resolver(x, {}, 0, {}) /\ i \in 1 .. Len(x.inflight)
      /\ Resolver(y, {}, 0, {}) /\ i \in 1 .. Len(y.inflight)
  BY <1>1, CoreResolver DEF SameCore, SameLists
<1> DEFINE z == nameserver_failed(x, n)
<1>4. Resolver(z, {}, 0, {}) /\ i \in 1 .. Len(z.inflight)
  BY <1>3, FailedResolver
<1>5. Resolver(c, {}, 0, {}) /\ i \in 1 .. Len(c.inflight)
  <2> HIDE DEF z
  <2> QED
    BY <1>2, <1>3, <1>4 DEF z
<1> DEFINE e == [c EXCEPT !.inflight[i].timer = FALSE]
           over == request_finished(reply_callback(e, e.inflight[i], "timeout"), "inflight", i)
           sent == evdns_request_transmit(e, i)
<1>6. evdns_request_timeout_callback(s, i) \in {over, sent}
  BY DEF evdns_request_timeout_callback, c, n
<1>7. Resolver(over, {}, 0, {}) /\ Resolver(sent, {}, 0, {})
  BY <1>5, ExpiredResolver
<1> HIDE DEF over, sent
<1> QED
  BY <1>6, <1>7

\* nameserver_ready_callback, EV_WRITE.
LEMMA WriteResolver ==
  ASSUME NEW s, Resolver(s, {}, 0, {}), NEW n
  PROVE  Resolver(nameserver_write_waiting(s, n), {}, 0, {})
<1> DEFINE tries == \E i \in DOMAIN s.inflight : s.inflight[i].transmit
           x == [s EXCEPT !.choked = @ \ {n}]
           y == evdns_transmit(x)
           t == [y EXCEPT !.writing = IF tries THEN y.writing ELSE y.writing \ {n}]
<1> SUFFICES Resolver(t, {}, 0, {})
  BY DEF nameserver_write_waiting
<1>1. Base(s, {}) /\ DOMAIN s.inflight = 1 .. Len(s.inflight)
  BY FlightFacts DEF Resolver
<1>2. /\ Shape(x) /\ SameUser(s, x) /\ SameLists(s, x) /\ SameServers(s, x)
      /\ x.fault = s.fault /\ x.ring = s.ring /\ x.choked = s.choked \ {n}
      /\ x.writing = s.writing /\ x.net = s.net
  BY <1>1 DEF Base, Shape, SameUser, SameLists, SameServers
<1> HIDE DEF x
<1>3. Base(x, {})
  BY <1>1, <1>2 DEF Base, ServersOK, SameUser, SameLists, SameServers, Ring
<1>4. Resolver(x, {}, 0, {})
  BY <1>2, <1>3 DEF Resolver, SameUser, Listed, SameLists, Unwatched, SameServers, Ring
<1>5. /\ Base(y, {}) /\ Keeps(x, y)
      /\ (\A i \in 1 .. Len(x.inflight) : ~x.inflight[i].transmit) => y = x
  BY <1>3, TransmitAllKeeps
<1> HIDE DEF y
<1>6. Resolver(y, {}, 0, {})
  BY <1>4, <1>5, KeepsResolver
<1>7. CASE tries
  <2>1. SameCore(y, t)
    BY <1>5, <1>7 DEF Base, Shape, SameCore, SameLists, SameServers
  <2> HIDE DEF t
  <2> QED
    BY <1>6, <2>1, CoreResolver
<1>8. CASE ~tries
  <2>1. y = x
    BY <1>1, <1>2, <1>5, <1>8 DEF SameLists
  <2>2. \A i \in 1 .. Len(x.inflight) : ~x.inflight[i].transmit
    BY <1>1, <1>2, <1>8 DEF SameLists
  <2>3. /\ Shape(t) /\ SameUser(x, t) /\ SameLists(x, t) /\ SameServers(x, t)
        /\ t.fault = x.fault /\ t.ring = x.ring /\ t.choked = x.choked
        /\ t.writing = x.writing \ {n} /\ t.net = x.net
    BY <1>5, <1>8, <2>1 DEF Base, Shape, SameUser, SameLists, SameServers
  <2> HIDE DEF t
  <2>4. t.choked \subseteq t.writing
    BY <1>1, <1>2, <2>3 DEF Base, ServersOK
  <2>5. FlightOK(t.inflight, Ring(t), t.writing, {})
    BY <1>3, <2>2, <2>3 DEF Base, FlightOK, Going, SameLists, Ring
  <2>6. Base(t, {})
    BY <1>3, <2>3, <2>4, <2>5 DEF Base, ServersOK, SameUser, SameLists, SameServers, Ring
  <2> QED
    BY <1>4, <2>3, <2>6 DEF Resolver, SameUser, Listed, SameLists, Unwatched, SameServers, Ring
<1> QED
  BY <1>7, <1>8

\* nameserver_send_probe.
LEMMA ProbeResolver ==
  ASSUME NEW s, Resolver(s, {}, 0, {}), NEW n \in s.timer
  PROVE  Resolver(nameserver_send_probe(s, n), {}, 0, {})
<1> DEFINE x == [s EXCEPT !.timer = @ \ {n}]
           new == request_new(x, n)
           r == [new[2] EXCEPT !.ns = n, !.id = TRUE]
           t == request_submit(new[1], r)
<1>1. Base(s, {}) /\ n \in Ring(s) /\ n \in Servers /\ n \notin Queries /\ n # Null
  <2>1. Base(s, {})
    BY DEF Resolver
  <2>2. n \in Ring(s)
    BY <2>1 DEF Base, ServersOK
  <2>3. n \in Servers
    BY <2>1, <2>2, FlightFacts
  <2> QED
    BY <2>1, <2>2, <2>3, NoNames
<1>2. /\ Shape(x) /\ SameUser(s, x) /\ SameLists(s, x) /\ SameSockets(s, x)
      /\ x.fault = s.fault /\ x.ring = s.ring /\ x.up = s.up /\ x.good = s.good
      /\ x.timer = s.timer \ {n}
  BY <1>1 DEF Base, Shape, SameUser, SameLists, SameSockets
<1> HIDE DEF x
<1>3. Base(x, {}) /\ Ring(x) = Ring(s) /\ Listed(x) = Listed(s)
  BY <1>1, <1>2 DEF Base, ServersOK, SameUser, SameLists, SameSockets, Ring, Listed
<1>4. Resolver(x, {}, 0, {n})
  <2>1. Live(Listed(s), 0, {}, s.pending, Unwatched(s))
    BY DEF Resolver
  <2>2. Unwatched(x) \subseteq Unwatched(s) \cup {n}
    BY <1>2 DEF Unwatched, Ring
  <2>3. \A q \in Queries : q \notin {n}
    BY <1>1
  <2>4. Live(Listed(s), 0, {n}, s.pending, Unwatched(x))
    BY <2>1, <2>2, <2>3 DEF Live
  <2> QED
    BY <1>2, <1>3, <2>4 DEF Resolver, SameUser
<1>5. PICK p, ns, id :
        /\ new = <<p, Request(n, ns, id)>>
        /\ Base(p, {}) /\ Shape(p) /\ SameUser(x, p) /\ SameLists(x, p)
        /\ p.fault = x.fault /\ Ring(p) = Ring(x) /\ Unwatched(p) = Unwatched(x)
        /\ ns \in Ring(x) \cup {Null} /\ id \in BOOLEAN /\ (ns # Null => id)
  BY <1>3, NewFacts, Zenon
<1>6. /\ r \in Requests /\ r.who = n /\ r.state = Null /\ r.index = 0 /\ r.ns = n /\ r.id
  <2>1. ns \in Servers \cup {Null} /\ id \in BOOLEAN
    BY <1>1, <1>3, <1>5, FlightFacts
  <2> DEFINE r0 == Request(n, ns, id)
             c  == [r0 EXCEPT !.ns = n, !.id = TRUE]
  <2>2. r0 \in Requests /\ r0.who = n /\ r0.state = Null /\ r0.index = 0
    BY <1>1, <2>1 DEF Request, Requests
  <2>3. r = c
    BY <1>5
  <2> HIDE DEF r0
  <2>4. /\ c \in Requests /\ c.who = n /\ c.state = Null /\ c.index = 0 /\ c.ns = n /\ c.id
    BY <1>1, <2>2 DEF Requests
  <2> QED
    BY <2>3, <2>4
<1>7. new[1] = p
  BY <1>5
<1> HIDE DEF new, r
<1>8. Begins(x, p, r)
  <2>1. x.left \in [Queries -> Seq(Domains \cup {Null})]
    BY <1>4 DEF Resolver, Tracked
  <2>2. Holds(x.states, r.state) = x.states
    BY <1>6 DEF Holds
  <2> QED
    BY <1>1, <1>5, <1>6, <2>1, <2>2 DEF Begins, SameUser, SameLists
<1>9. Plain(r, Ring(x)) /\ Sendable(r, Ring(x)) /\ r.ns # Null /\ r.index >= -1
  BY <1>1, <1>3, <1>6 DEF Plain, Sendable
<1>10. 0 \in 0 .. Len(x.inflight)
  BY <1>3, FlightFacts
<1>11. Resolver(request_submit(p, r), {}, 0, {n} \ {r.who})
  BY <1>4, <1>5, <1>6, <1>8, <1>9, <1>10, BeginResolver
<1>12. {n} \ {r.who} = {}
  BY <1>6
<1> QED
  BY <1>7, <1>11, <1>12 DEF nameserver_send_probe, new, r, x

\* A server in front of the list, or second in it.
LEMMA AddRing ==
  ASSUME NEW ring \in Seq(Servers), NEW n \in Servers
  PROVE  LET more == IF ring = <<>> THEN <<n>> ELSE <<Head(ring), n>> \o Tail(ring)
         IN  more \in Seq(Servers) /\ Elements(more) = Elements(ring) \cup {n}
<1>1. CASE ring = <<>>
  BY <1>1 DEF Elements
<1>2. CASE ring # <<>>
  <2> DEFINE a == <<Head(ring), n>>
             b == Tail(ring)
             t == a \o b
             m == Len(ring)
  <2>1. m \in Nat /\ m >= 1
    BY <1>2
  <2>2. a \in Seq(Servers) /\ Len(a) = 2 /\ a[1] = ring[1] /\ a[2] = n
    BY <1>2
  <2>3. b \in Seq(Servers) /\ Len(b) = m - 1 /\ \A i \in 1 .. m - 1 : b[i] = ring[i + 1]
    BY <1>2, HeadTailProperties
  <2> HIDE DEF a, b
  <2>4. /\ t \in Seq(Servers) /\ Len(t) = m + 1
        /\ \A i \in 1 .. m + 1 : t[i] = IF i <= 2 THEN a[i] ELSE b[i - 2]
    <3>1. /\ t \in Seq(Servers) /\ Len(t) = Len(a) + Len(b)
          /\ \A i \in 1 .. Len(a) + Len(b) : t[i] = IF i <= Len(a) THEN a[i] ELSE b[i - Len(a)]
      BY <2>2, <2>3, ConcatProperties
    <3>2. Len(a) + Len(b) = m + 1
      BY <2>1, <2>2, <2>3
    <3> QED
      BY <2>2, <3>1, <3>2
  <2> HIDE DEF t
  <2>5. t[1] = ring[1] /\ t[2] = n /\ 1 \in 1 .. m /\ 1 \in 1 .. m + 1 /\ 2 \in 1 .. m + 1
    BY <2>1, <2>2, <2>4
  <2>6. \A i \in 2 .. m : t[i + 1] = ring[i] /\ i + 1 \in 1 .. m + 1 /\ i \in 1 .. m
    <3> SUFFICES ASSUME NEW i \in 2 .. m PROVE t[i + 1] = ring[i] /\ i + 1 \in 1 .. m + 1
      BY <2>1
    <3>1. /\ i + 1 \in 1 .. m + 1 /\ ~(i + 1 <= 2) /\ (i + 1) - 2 \in 1 .. m - 1
          /\ ((i + 1) - 2) + 1 = i
      BY <2>1
    <3>2. t[i + 1] = b[(i + 1) - 2]
      BY <2>4, <3>1
    <3> QED
      BY <2>3, <3>1, <3>2
  <2>7. ASSUME NEW j \in 1 .. m + 1 PROVE t[j] = n \/ \E i \in 1 .. m : t[j] = ring[i]
    <3>1. CASE j <= 2
      <4>1. j = 1 \/ j = 2
        BY <2>1, <3>1
      <4> QED
        BY <2>5, <4>1
    <3>2. CASE ~(j <= 2)
      <4>1. j - 1 \in 2 .. m /\ (j - 1) + 1 = j
        BY <2>1, <3>2
      <4> QED
        BY <2>6, <4>1
    <3> QED
      BY <3>1, <3>2
  <2>8. ASSUME NEW i \in 1 .. m PROVE \E j \in 1 .. m + 1 : t[j] = ring[i]
    <3>1. i = 1 \/ i \in 2 .. m
      BY <2>1
    <3> QED
      BY <2>5, <2>6, <3>1
  <2>9. Elements(t) = Elements(ring) \cup {n}
    BY <2>4, <2>5, <2>7, <2>8 DEF Elements
  <2> QED
    BY <1>2, <2>4, <2>9 DEF t, a, b
<1> QED
  BY <1>1, <1>2

\* _evdns_nameserver_add_impl.
LEMMA AddResolver ==
  ASSUME NEW s, Resolver(s, {}, 0, {}), NEW n \in Servers
  PROVE  /\ Resolver(nameserver_add(s, n), {}, 0, {})
         /\ nameserver_add(s, n).fault = s.fault
<1> DEFINE t == nameserver_add(s, n)
           more == IF s.ring = <<>> THEN <<n>> ELSE <<Head(s.ring), n>> \o Tail(s.ring)
<1>1. /\ Base(s, {}) /\ s.ring \in Seq(Servers) /\ ServersOK(s)
      /\ ToSet(s.ring) = Ring(s)
  <2>1. Base(s, {}) /\ s.ring \in Seq(Servers) /\ ServersOK(s)
    BY FlightFacts DEF Resolver, Base
  <2> QED
    BY <2>1 DEF ToSet, Ring, Elements
<1>2. CASE n \in Ring(s)
  <2>1. t = s
    BY <1>1, <1>2 DEF nameserver_add
  <2> QED
    BY <2>1
<1>3. CASE n \notin Ring(s)
  <2>1. more \in Seq(Servers) /\ Elements(more) = Ring(s) \cup {n}
    <3> HIDE DEF more
    <3> QED
      BY <1>1, AddRing DEF Ring, more
  <2> HIDE DEF more
  <2>2. t = [s EXCEPT !.ring = more, !.up = s.up \cup {n}, !.good = s.good + 1,
                      !.timedout[n] = 0]
    BY <1>1, <1>3 DEF nameserver_add, more
  <2> HIDE DEF t
  <2>3. /\ Shape(t) /\ SameUser(s, t) /\ SameLists(s, t) /\ SameSockets(s, t)
        /\ t.fault = s.fault /\ t.ring = more /\ t.up = s.up \cup {n}
        /\ t.good = s.good + 1 /\ t.timer = s.timer
    BY <1>1, <2>2 DEF Base, Shape, SameUser, SameLists, SameSockets
  <2>4. IsFiniteSet(t.up) /\ t.good = Cardinality(t.up)
    <3>1. n \notin s.up
      BY <1>1, <1>3 DEF ServersOK
    <3> QED
      BY <1>1, <2>3, <3>1, FS_AddElement DEF ServersOK
  <2>5. Ring(t) = Ring(s) \cup {n} /\ Unwatched(t) = Unwatched(s)
    <3>1. Ring(t) = Ring(s) \cup {n}
      BY <2>1, <2>3 DEF Ring
    <3>2. n \notin s.timer
      BY <1>1, <1>3 DEF ServersOK
    <3> QED
      BY <1>3, <2>3, <3>1 DEF Unwatched
  <2>6. ServersOK(t)
    BY <1>1, <1>3, <2>1, <2>3, <2>4, <2>5 DEF ServersOK, SameSockets
  <2>7. FlightOK(t.inflight, Ring(t), t.writing, {})
    BY <1>1, <2>3, <2>5 DEF Base, FlightOK, Plain, Sendable, SameLists, SameSockets
  <2>8. Base(t, {})
    BY <1>1, <2>3, <2>6, <2>7 DEF Base, SameUser, SameLists, SameSockets
  <2>9. Resolver(t, {}, 0, {})
    BY <2>3, <2>5, <2>8 DEF Resolver, SameUser, Listed, SameLists
  <2> QED
    BY <2>3, <2>9 DEF t
<1> QED
  BY <1>2, <1>3

\* The places of a list whose first n elements are reversed.
Flip(n, p) == IF p <= n THEN n + 1 - p ELSE p

\* b has the requests of a in another order, and some probes of a freed.
Shuffles(a, b, n) ==
  /\ a \in Seq(Requests) /\ b \in Seq(Requests) /\ Len(b) = Len(a) /\ n \in 0 .. Len(a)
  /\ \A p \in 1 .. Len(a) :
       LET r == a[Flip(n, p)]
       IN  /\ b[p].state = r.state /\ b[p].index = r.index
           /\ b[p].who = r.who \/ (b[p].who \notin Queries /\ r.who \notin Queries)

LEMMA FlipFacts ==
  ASSUME NEW m \in Nat, NEW n \in 0 .. m
  PROVE  \A p \in 1 .. m : Flip(n, p) \in 1 .. m /\ Flip(n, Flip(n, p)) = p
  BY DEF Flip

LEMMA ShuffleFacts ==
  ASSUME NEW a, NEW b, NEW n, Shuffles(a, b, n)
  PROVE  /\ \A q \in Queries : Carries(b, 0, q) <=> Carries(a, 0, q)
         /\ \A k : HeldFor(b, 0, k) = HeldFor(a, 0, k)
<1> DEFINE m == Len(a)
<1>1. /\ m \in Nat /\ Len(b) = m /\ n \in 0 .. m
      /\ \A p \in 1 .. m : p # 0
  BY DEF Shuffles
<1>2. \A p \in 1 .. m : Flip(n, p) \in 1 .. m /\ Flip(n, Flip(n, p)) = p
  BY <1>1, FlipFacts
<1>3. \A p \in 1 .. m : /\ b[p].state = a[Flip(n, p)].state
                        /\ b[p].who \in Queries \/ a[Flip(n, p)].who \in Queries =>
                             b[p].who = a[Flip(n, p)].who
  BY DEF Shuffles
<1> HIDE DEF m
<1>4. \A p \in 1 .. m : /\ b[Flip(n, p)].state = a[p].state
                        /\ b[Flip(n, p)].who \in Queries \/ a[p].who \in Queries =>
                             b[Flip(n, p)].who = a[p].who
  BY <1>2, <1>3
<1>5. ASSUME NEW q \in Queries PROVE Carries(b, 0, q) <=> Carries(a, 0, q)
  BY <1>1, <1>2, <1>3, <1>4 DEF Carries, m
<1>6. ASSUME NEW k PROVE HeldFor(b, 0, k) = HeldFor(a, 0, k)
  BY <1>1, <1>2, <1>3, <1>4 DEF HeldFor, m
<1> QED
  BY <1>5, <1>6

LEMMA ShuffleLive ==
  ASSUME NEW a, NEW b, NEW n, Shuffles(a, b, n), NEW pending, NEW more,
         Live(a, 0, {}, pending, more)
  PROVE  Live(b, 0, {}, pending, {})
<1>1. \A q \in Queries : Carries(b, 0, q) <=> Carries(a, 0, q)
  BY ShuffleFacts, Zenon
<1>2. ASSUME NEW p \in 1 .. Len(b), NEW r \in 1 .. Len(b), b[p].who = b[r].who,
             b[p].who \in Queries
      PROVE  p = r
  <2>1. p \in 1 .. Len(a) /\ r \in 1 .. Len(a) /\ Len(a) \in Nat /\ n \in 0 .. Len(a)
    BY DEF Shuffles
  <2>2. /\ Flip(n, p) \in 1 .. Len(a) /\ Flip(n, Flip(n, p)) = p
        /\ Flip(n, r) \in 1 .. Len(a) /\ Flip(n, Flip(n, r)) = r
    BY <2>1, FlipFacts
  <2>3. a[Flip(n, p)].who = b[p].who /\ a[Flip(n, r)].who = b[r].who
    BY <1>2, <2>1 DEF Shuffles
  <2>4. Flip(n, p) # 0 /\ Flip(n, r) # 0
    BY <2>1, <2>2
  <2>5. Flip(n, p) = Flip(n, r)
    BY <1>2, <2>2, <2>3, <2>4 DEF Live
  <2> QED
    BY <2>2, <2>5
<1> QED
  BY <1>1, <1>2 DEF Live

LEMMA ShuffleTracked ==
  ASSUME NEW a, NEW b, NEW n, Shuffles(a, b, n), NEW states, NEW search, NEW left,
         Tracked(a, 0, states, search, left)
  PROVE  Tracked(b, 0, states, search, left)
<1>1. \A k : HeldFor(b, 0, k) = HeldFor(a, 0, k)
  BY ShuffleFacts, Zenon
<1>2. Len(b) = Len(a) /\ Len(a) \in Nat /\ n \in 0 .. Len(a)
  BY DEF Shuffles
<1>3. ASSUME NEW k \in States
      PROVE  states[k].refcount = Cardinality(HeldFor(b, 0, k)) + One(search = k)
               + One(0 \in 1 .. Len(b) /\ b[0].state = k)
  <2>1. ~(0 \in 1 .. Len(b)) /\ ~(0 \in 1 .. Len(a))
    BY <1>2
  <2>2. One(0 \in 1 .. Len(b) /\ b[0].state = k) = One(0 \in 1 .. Len(a) /\ a[0].state = k)
    BY <2>1 DEF One
  <2> QED
    BY <1>1, <2>2 DEF Tracked
<1>4. ASSUME NEW p \in 1 .. Len(b)
      PROVE  /\ b[p].index >= -1
             /\ b[p].who \in Queries => Tries(b[p], states) = left[b[p].who]
  <2> DEFINE r == a[Flip(n, p)]
  <2>1. Flip(n, p) \in 1 .. Len(a) /\ Flip(n, p) # 0 /\ p \in 1 .. Len(a)
    BY <1>2, FlipFacts
  <2>2. /\ b[p].state = r.state /\ b[p].index = r.index
        /\ b[p].who \in Queries => b[p].who = r.who
    BY <2>1 DEF Shuffles
  <2>3. r.index >= -1 /\ (r.who \in Queries => Tries(r, states) = left[r.who])
    BY <2>1 DEF Tracked
  <2> HIDE DEF r
  <2> QED
    BY <2>2, <2>3 DEF Tries
<1> QED
  BY <1>3, <1>4 DEF Tracked

\* What is in flight is put in front of what waits, in the reverse order.
LEMMA SuspendedFacts ==
  ASSUME NEW a \in Seq(Requests), NEW w \in Seq(Requests), NEW ring,
         \A i \in 1 .. Len(a) : Plain(a[i], ring),
         \A i \in 1 .. Len(w) : Plain(w[i], {})
  PROVE  LET front == Reverse([i \in DOMAIN a |-> Suspended(a[i])])
         IN  /\ Shuffles(a \o w, front \o w, Len(a)) /\ WaitingOK(front \o w)
             /\ Len(front \o w) = Len(w) + Len(front)
<1> DEFINE n == Len(a)
           m == Len(w)
           g == [i \in DOMAIN a |-> Suspended(a[i])]
           front == Reverse(g)
           b == front \o w
           l == a \o w
<1>1. n \in Nat /\ m \in Nat /\ DOMAIN a = 1 .. n
  OBVIOUS
<1>2. ASSUME NEW r \in Requests
      PROVE  /\ Suspended(r) \in Requests
             /\ Suspended(r).state = r.state /\ Suspended(r).index = r.index
             /\ Suspended(r).who = IF r.who \in Queries THEN r.who ELSE Freed
  <2>1. (IF r.who \in Queries THEN r.who ELSE Freed) \in Queries \cup Servers \cup {Freed}
    OBVIOUS
  <2> QED
    BY <2>1 DEF Suspended, Requests
<1>3. g \in Seq(Requests) /\ Len(g) = n /\ \A i \in 1 .. n : g[i] = Suspended(a[i])
  <2>1. \A i \in 1 .. n : a[i] \in Requests
    OBVIOUS
  <2>2. \A i \in 1 .. n : Suspended(a[i]) \in Requests
    BY <1>2, <2>1
  <2>3. g \in [1 .. n -> Requests]
    BY <1>1, <2>2
  <2> HIDE DEF g
  <2>4. g \in Seq(Requests) /\ Len(g) = n
    BY <1>1, <2>3
  <2> QED
    BY <1>1, <2>4 DEF g
<1> HIDE DEF g
<1>4. /\ front \in Seq(Requests) /\ Len(front) = n
      /\ \A i \in 1 .. n : front[i] = Suspended(a[n + 1 - i]) /\ n + 1 - i \in 1 .. n
  <2> HIDE DEF n
  <2>1. front = [i \in 1 .. n |-> g[(n - i) + 1]]
    BY <1>3 DEF Reverse
  <2>2. \A i \in 1 .. n : n + 1 - i \in 1 .. n /\ (n - i) + 1 = n + 1 - i
    BY <1>1
  <2>3. \A i \in 1 .. n : g[(n - i) + 1] \in Requests
    BY <1>1, <1>3, <2>2
  <2> HIDE DEF front
  <2>4. front \in [1 .. n -> Requests]
    BY <2>1, <2>3
  <2>5. front \in Seq(Requests) /\ Len(front) = n
    BY <1>1, <2>4
  <2> QED
    BY <1>3, <2>1, <2>2, <2>5
<1> HIDE DEF front
<1>5. /\ b \in Seq(Requests) /\ Len(b) = n + m
      /\ \A i \in 1 .. n + m : b[i] = IF i <= n THEN front[i] ELSE w[i - n]
  <2>1. /\ b \in Seq(Requests) /\ Len(b) = Len(front) + m
        /\ \A i \in 1 .. Len(front) + m :
             b[i] = IF i <= Len(front) THEN front[i] ELSE w[i - Len(front)]
    BY <1>4, ConcatProperties
  <2> HIDE DEF b
  <2> QED
    BY <1>4, <2>1
<1>6. /\ l \in Seq(Requests) /\ Len(l) = n + m
      /\ \A i \in 1 .. n + m : l[i] = IF i <= n THEN a[i] ELSE w[i - n]
  BY ConcatProperties
<1>7. /\ \A i \in 1 .. n : a[i] \in Requests
      /\ \A i \in 1 .. m : w[i] \in Requests
  OBVIOUS
<1> HIDE DEF n, m, b, l
<1>8. ASSUME NEW p \in 1 .. n + m
      PROVE  /\ b[p].state = l[Flip(n, p)].state /\ b[p].index = l[Flip(n, p)].index
             /\ \/ b[p].who = l[Flip(n, p)].who
                \/ b[p].who \notin Queries /\ l[Flip(n, p)].who \notin Queries
             /\ Plain(b[p], {})
  <2>1. CASE p <= n
    <3>1. p \in 1 .. n /\ n + 1 - p \in 1 .. n /\ n + 1 - p \in 1 .. n + m /\ n + 1 - p <= n
      BY <1>1, <2>1
    <3> DEFINE r == a[n + 1 - p]
    <3>2. b[p] = Suspended(r) /\ l[Flip(n, p)] = r /\ r \in Requests
      BY <1>4, <1>5, <1>6, <1>7, <2>1, <3>1 DEF Flip
    <3>3. Plain(r, ring)
      BY <3>1 DEF n
    <3> HIDE DEF r
    <3> QED
      BY <1>2, <3>2, <3>3, NoNames DEF Plain
  <2>2. CASE ~(p <= n)
    <3>1. p - n \in 1 .. m
      BY <1>1, <2>2
    <3>2. b[p] = w[p - n] /\ l[Flip(n, p)] = w[p - n]
      BY <1>5, <1>6, <2>2 DEF Flip
    <3> QED
      BY <3>1, <3>2 DEF m
  <2> QED
    BY <2>1, <2>2
<1>9. Shuffles(l, b, n)
  BY <1>1, <1>5, <1>6, <1>8 DEF Shuffles
<1>10. WaitingOK(b)
  BY <1>5, <1>8 DEF WaitingOK
<1>11. Len(b) = m + Len(front)
  BY <1>1, <1>4, <1>5
<1> QED
  BY <1>9, <1>10, <1>11 DEF b, l, n, m, front, g

\* evdns_clear_nameservers_and_suspend.
LEMMA ClearResolver ==
  ASSUME NEW s, Resolver(s, {}, 0, {})
  PROVE  Resolver(evdns_clear_nameservers_and_suspend(s), {}, 0, {})
<1> DEFINE timedout == [n \in Servers |-> 0]
           front == Reverse([i \in DOMAIN s.inflight |-> Suspended(s.inflight[i])])
           b == front \o s.waiting
           t == [s EXCEPT !.ring = <<>>, !.up = {}, !.good = 0, !.timer = {},
                          !.choked = {}, !.writing = {}, !.timedout = timedout,
                          !.waiting = front \o @, !.nWaiting = @ + Len(front),
                          !.inflight = <<>>, !.nInflight = 0]
<1>1. Base(s, {}) /\ s.inflight \in Seq(Requests) /\ s.waiting \in Seq(Requests)
  BY FlightFacts DEF Resolver
<1>2. /\ Shuffles(Listed(s), b, Len(s.inflight)) /\ WaitingOK(b)
      /\ Len(b) = Len(s.waiting) + Len(front)
  <2>1. \A i \in 1 .. Len(s.inflight) : Plain(s.inflight[i], Ring(s))
    BY <1>1, FlightFacts
  <2>2. \A i \in 1 .. Len(s.waiting) : Plain(s.waiting[i], {})
    BY <1>1 DEF Base, WaitingOK
  <2> QED
    BY <1>1, <2>1, <2>2, SuspendedFacts DEF Listed
<1> HIDE DEF front, timedout
<1>3. /\ Shape(t) /\ SameUser(s, t) /\ t.fault = s.fault /\ t.net = s.net
      /\ t.ring = <<>> /\ t.up = {} /\ t.good = 0 /\ t.timer = {}
      /\ t.choked = {} /\ t.writing = {} /\ t.waiting = b /\ t.inflight = <<>>
      /\ t.nInflight = 0 /\ t.nWaiting = s.nWaiting + Len(front)
  BY <1>1 DEF Base, Shape, SameUser
<1> HIDE DEF t, b
<1>4. Ring(t) = {} /\ Unwatched(t) = {}
  BY <1>3 DEF Ring, Elements, Unwatched
<1>5. Base(t, {})
  <2>1. ServersOK(t)
    BY <1>3, <1>4, FS_EmptySet DEF ServersOK
  <2>2. FlightOK(t.inflight, Ring(t), t.writing, {})
    BY <1>3 DEF FlightOK
  <2>3. t.nWaiting = Len(t.waiting) /\ t.nInflight = Len(t.inflight)
    BY <1>1, <1>2, <1>3 DEF Base
  <2> QED
    BY <1>1, <1>2, <1>3, <2>1, <2>2, <2>3 DEF Base, SameUser
<1>6. Listed(t) = b
  <2>1. b \in Seq(Requests)
    BY <1>2 DEF WaitingOK
  <2> QED
    BY <1>3, <2>1, ConcatEmptySeq DEF Listed
<1>7. Live(b, 0, {}, s.pending, {}) /\ Tracked(b, 0, s.states, s.search, s.left)
  <2>1. /\ Live(Listed(s), 0, {}, s.pending, Unwatched(s))
        /\ Tracked(Listed(s), 0, s.states, s.search, s.left)
    BY DEF Resolver
  <2> QED
    BY <1>2, <2>1, ShuffleLive, ShuffleTracked
<1>8. Resolver(t, {}, 0, {})
  BY <1>3, <1>4, <1>5, <1>6, <1>7 DEF Resolver, SameUser
<1> QED
  BY <1>8 DEF evdns_clear_nameservers_and_suspend, t, front, timedout

\* evdns_resume, when there is a server.
LEMMA ResumeResolver ==
  ASSUME NEW s, Resolver(s, {}, 0, {}), s.ring # <<>>
  PROVE  Resolver(evdns_requests_pump_waiting_queue(s), {}, 0, {})
<1>1. Base(s, {})
  BY DEF Resolver
<1>2. LET t == evdns_requests_pump_waiting_queue(s) IN Base(t, {}) /\ Alike(s, t)
  BY <1>1, PumpAllFacts
<1> QED
  BY <1>2, AlikeResolver

-----------------------------------------------------------------------------
(* evdns_shutdown.                                                         *)

\* What is left to do between two turns of its loops.
Emptied(s) == s.fault # "none" \/ (s.inflight = <<>> /\ s.waiting = <<>>)
Emptying(s) ==
  /\ Resolver(s, {}, 0, Servers)
  /\ s.fault # "none" \/ s.inflight # <<>> \/ s.waiting = <<>>

LEMMA DiscardStep ==
  ASSUME NEW s, Emptying(s), NEW failRequests \in BOOLEAN
  PROVE  LET t == Discard(s, failRequests)
         IN  /\ Emptying(t) /\ Ring(t) = Ring(s)
             /\ IF Emptied(s) THEN t = s ELSE Weight(t) <= Weight(s) - 1
<1> DEFINE t == Discard(s, failRequests)
           r == s.inflight[1]
           told == IF failRequests THEN reply_callback(s, r, "shutdown")
                   ELSE IF r.who \in Queries
                   THEN [s EXCEPT !.pending[r.who] = @ - 1, !.left[r.who] = <<>>]
                   ELSE s
<1>1. /\ Base(s, {}) /\ s.inflight \in Seq(Requests) /\ Len(Listed(s)) \in Nat
      /\ Resolver(s, {}, 0, Servers) /\ Ring(s) \subseteq Servers
  BY FlightFacts, ListedFacts DEF Emptying, Resolver
<1>2. CASE Emptied(s)
  <2>1. CASE s.fault # "none"
    BY <1>2, <2>1 DEF Discard
  <2>2. CASE s.inflight = <<>> /\ s.waiting = <<>>
    BY <1>2, <2>2 DEF Discard
  <2>3. t = s
    BY <1>2, <2>1, <2>2 DEF Emptied, Discard
  <2> QED
    BY <1>2, <2>3
<1>3. CASE ~Emptied(s)
  <2>1. s.fault = "none" /\ s.inflight # <<>> /\ 1 \in 1 .. Len(s.inflight)
    BY <1>1, <1>3 DEF Emptied, Emptying
  <2>2. t = request_finished(told, "inflight", 1)
    BY <2>1 DEF Discard
  <2>3. r.who \in Queries \cup Ring(s) \cup {Freed}
    BY <1>1, <2>1, FlightWho
  <2>4. Resolver(s, {1}, 1, Servers \cup {r.who})
    <3>1. Resolver(s, {} \cup {1}, 1, Servers \cup {s.inflight[1].who})
      BY <1>1, <2>1, SetAside
    <3>2. {} \cup {1} = {1}
      OBVIOUS
    <3> QED
      BY <3>1, <3>2
  <2>5. r.who \in Queries => r.who \notin Servers
    BY NoNames
  <2>6. Resolver(t, {}, 0, Servers) /\ ~MayPump(t) /\ Ring(t) = Ring(s)
        /\ Weight(t) <= Weight(s) - 1
    <3>1. CASE failRequests
      <4> DEFINE u == request_finished(reply_callback(s, r, "shutdown"), "inflight", 1)
      <4>1. t = u
        BY <2>2, <3>1
      <4> HIDE DEF r
      <4>2. Resolver(u, {}, 0, Servers) /\ Settles(s, u)
        BY <2>1, <2>3, <2>4, <2>5, EndResolver
      <4> HIDE DEF u, t
      <4> QED
        BY <4>1, <4>2 DEF Settles
    <3>2. ASSUME NEW x, t = request_finished(x, "inflight", 1), Resolver(x, {1}, 1, Servers),
                 x.inflight = s.inflight, x.waiting = s.waiting, x.again = s.again,
                 Ring(x) = Ring(s)
          PROVE  Resolver(t, {}, 0, Servers) /\ ~MayPump(t) /\ Ring(t) = Ring(s)
                 /\ Weight(t) <= Weight(s) - 1
      <4> HIDE DEF t
      <4>1. 1 \in 1 .. Len(x.inflight)
        BY <2>1, <3>2
      <4>2. /\ Resolver(t, {}, 0, Servers) /\ ~MayPump(t) /\ t.again = x.again
            /\ Ring(t) = Ring(x) /\ Len(Listed(t)) = Len(Listed(x)) - 1
        BY <3>2, <4>1, FinishResolver
      <4>3. Len(Listed(x)) = Len(Listed(s))
        BY <3>2 DEF Listed
      <4>4. Weight(t) <= Weight(s) - 1
        BY <1>1, <3>2, <4>2, <4>3 DEF Weight, One
      <4> QED
        BY <3>2, <4>2, <4>4
    <3>3. CASE ~failRequests /\ r.who \in Queries
      <4> DEFINE x == [s EXCEPT !.pending[r.who] = @ - 1, !.left[r.who] = <<>>]
      <4>1. Told(s, x, r.who) /\ x.again = s.again
        BY <1>1 DEF Told, Base, Shape, SameLists, SameServers, SameSockets
      <4>2. t = request_finished(x, "inflight", 1)
        BY <2>2, <3>3
      <4> HIDE DEF x, t
      <4>3. Resolver(x, {1}, 1, Servers)
        <5> DEFINE q == r.who
        <5>1. q \in Queries \ Servers /\ Resolver(s, {1}, 1, Servers \cup {q}) /\ Told(s, x, q)
          BY <2>4, <2>5, <3>3, <4>1
        <5> HIDE DEF q
        <5> QED
          BY <5>1, ToldResolver
      <4>4. /\ x.inflight = s.inflight /\ x.waiting = s.waiting /\ x.again = s.again
            /\ Ring(x) = Ring(s)
        BY <4>1 DEF Told, SameLists, Ring
      <4> QED
        BY <3>2, <4>2, <4>3, <4>4
    <3>4. CASE ~failRequests /\ r.who \notin Queries
      <4>1. t = request_finished(s, "inflight", 1)
        BY <2>2, <3>4
      <4>2. Resolver(s, {1}, 1, Servers)
        <5>1. Servers \cap Queries = (Servers \cup {r.who}) \cap Queries
          BY <3>4
        <5>2. (Servers \cup {r.who}) \cap Unwatched(s) \subseteq Servers
          BY <1>1 DEF Unwatched
        <5> QED
          BY <2>4, <5>1, <5>2, LimboSwap
      <4> HIDE DEF t
      <4> QED
        BY <3>2, <4>1, <4>2
    <3> QED
      BY <3>1, <3>3, <3>4
  <2>7. Emptying(t)
    <3> HIDE DEF t
    <3>1. Base(t, {})
      BY <2>6 DEF Resolver
    <3>2. /\ t.nInflight = Len(t.inflight) /\ t.nWaiting = Len(t.waiting)
          /\ t.limit \in Nat \ {0} /\ t.waiting \in Seq(Requests)
      BY <3>1, FlightFacts DEF Base
    <3>3. t.fault # "none" \/ t.inflight # <<>> \/ t.waiting = <<>>
      <4> SUFFICES ASSUME t.fault = "none", t.inflight = <<>> PROVE t.waiting = <<>>
        OBVIOUS
      <4>1. t.nInflight = 0 /\ t.nInflight < t.limit
        BY <3>2
      <4>2. ~(t.nWaiting > 0)
        BY <2>6, <4>1 DEF MayPump
      <4> QED
        BY <3>2, <4>2
    <3> QED
      BY <2>6, <3>3 DEF Emptying
  <2> QED
    BY <1>3, <2>6, <2>7
<1> QED
  BY <1>2, <1>3

\* The loops end with nothing left, or with the end of the process.
LEMMA DiscardAllFacts ==
  ASSUME NEW s, Emptying(s), NEW failRequests \in BOOLEAN
  PROVE  LET t == DiscardAll(s, failRequests)
         IN  Emptying(t) /\ Emptied(t)
<1> DEFINE n == Len(s.inflight) + Len(s.waiting) + 1
<1>1. /\ Base(s, {}) /\ Len(s.inflight) \in Nat /\ Len(s.waiting) \in Nat
      /\ Len(Listed(s)) = Len(s.inflight) + Len(s.waiting)
  BY FlightFacts, ListedFacts DEF Emptying, Resolver
<1>2. PICK f : /\ Passes("discard", s, n, failRequests, f)
               /\ DiscardAll(s, failRequests) = f[n]
  BY <1>1, DiscardPasses
<1>3. n \in Nat /\ Weight(s) <= n
  <2> DEFINE a == Len(s.inflight)
             c == Len(s.waiting)
             l == Len(Listed(s))
  <2>1. a \in Nat /\ c \in Nat /\ l = a + c
    BY <1>1
  <2> HIDE DEF a, c, l
  <2>2. a + c + 1 \in Nat /\ l + One(s.again \in Queries) <= a + c + 1
    BY <2>1 DEF One
  <2> QED
    BY <2>2 DEF a, c, l, Weight
<1> HIDE DEF n
<1> DEFINE P == {i \in 0 .. n : Emptying(f[i]) /\ (Emptied(f[i]) \/ Weight(f[i]) <= n - i)}
<1>4. f[0] = s /\ \A i \in 1 .. n : f[i] = Discard(f[i - 1], failRequests)
  BY <1>2 DEF Passes, Turn
<1>5. 0 \in P
  BY <1>3, <1>4
<1>6. ASSUME NEW i \in 1 .. n, i - 1 \in P
      PROVE  i \in P
  <2> DEFINE x == f[i - 1]
  <2>1. /\ Emptying(x) /\ (Emptied(x) \/ Weight(x) <= n - (i - 1)) /\ f[i] = Discard(x, failRequests)
    BY <1>4, <1>6
  <2> HIDE DEF x
  <2> DEFINE t == Discard(x, failRequests)
  <2>2. Emptying(t) /\ IF Emptied(x) THEN t = x ELSE Weight(t) <= Weight(x) - 1
    BY <2>1, DiscardStep
  <2>3. f[i] = t
    BY <2>1
  <2> HIDE DEF t
  <2>4. Base(t, {}) /\ Base(x, {})
    BY <2>1, <2>2 DEF Emptying, Resolver
  <2>5. Weight(t) \in Nat /\ Weight(x) \in Nat
    BY <2>4, ListedFacts DEF Weight, One
  <2>6. Emptied(t) \/ Weight(t) <= n - i
    <3>1. CASE Emptied(x)
      BY <2>2, <3>1
    <3>2. CASE ~Emptied(x)
      BY <1>3, <2>1, <2>2, <2>5, <3>2
    <3> QED
      BY <3>1, <3>2
  <2>7. i \in 0 .. n
    BY <1>3
  <2> QED
    BY <2>2, <2>3, <2>6, <2>7
<1>7. n \in P
  <2>1. P \in SUBSET (0 .. n)
    OBVIOUS
  <2> HIDE DEF P
  <2> QED
    BY <1>3, <1>5, <1>6, <2>1, Climb
<1> DEFINE t == f[n]
<1>8. Emptying(t) /\ (Emptied(t) \/ Weight(t) <= n - n)
  BY <1>7
<1> HIDE DEF t
<1>9. ASSUME Weight(t) <= n - n PROVE Emptied(t)
  <2>1. Base(t, {})
    BY <1>8 DEF Emptying, Resolver
  <2> DEFINE a == Len(t.inflight)
             c == Len(t.waiting)
  <2>2. /\ t.inflight \in Seq(Requests) /\ t.waiting \in Seq(Requests)
        /\ a \in Nat /\ c \in Nat /\ Len(Listed(t)) = a + c
    BY <2>1, FlightFacts, ListedFacts
  <2>3. Weight(t) <= 0
    BY <1>3, <1>9
  <2>4. a = 0 /\ c = 0
    <3> HIDE DEF a, c
    <3> QED
      BY <2>2, <2>3 DEF Weight, One
  <2> QED
    BY <2>2, <2>4 DEF Emptied
<1> QED
  BY <1>2, <1>8, <1>9 DEF t

\* The whole of it.
LEMMA ShutdownResolver ==
  ASSUME NEW s, Resolver(s, {}, 0, {}), s.inflight # <<>> \/ s.waiting = <<>>,
         NEW failRequests \in BOOLEAN
  PROVE  LET u == evdns_shutdown(s, failRequests)
         IN  /\ u.fault \in {"none", "freed"}
             /\ u.fault = "none" => Resolver(u, {}, 0, {})
<1> DEFINE timedout == [n \in Servers |-> 0]
           t == DiscardAll(s, failRequests)
           states == IF t.search = Null THEN t.states
                     ELSE [t.states EXCEPT ![t.search] = NoState]
           u == [t EXCEPT !.nInflight = 0, !.nWaiting = 0, !.ring = <<>>, !.up = {},
                          !.good = 0, !.choked = {}, !.writing = {},
                          !.timedout = timedout,
                          !.timer = @ \ (ToSet(t.ring) \ t.up), !.search = Null,
                          !.states = IF t.search = Null THEN @
                                     ELSE [t.states EXCEPT ![t.search] = NoState]]
<1>1. Emptying(s)
  <2>1. Servers \cap Queries = {} \cap Queries
    BY NoNames
  <2>2. Resolver(s, {}, 0, Servers)
    BY <2>1, LimboSwap
  <2> QED
    BY <2>2 DEF Emptying
<1>2. Emptying(t) /\ Emptied(t)
  BY <1>1, DiscardAllFacts
<1> HIDE DEF t
<1>3. Base(t, {}) /\ Resolver(t, {}, 0, Servers)
  BY <1>2 DEF Emptying, Resolver
<1>4. /\ Shape(u) /\ u.nInflight = 0 /\ u.nWaiting = 0 /\ u.ring = <<>> /\ u.up = {}
      /\ u.good = 0 /\ u.choked = {} /\ u.writing = {} /\ u.search = Null
      /\ u.timer = t.timer \ (ToSet(t.ring) \ t.up) /\ u.states = states
      /\ u.inflight = t.inflight /\ u.waiting = t.waiting /\ u.limit = t.limit
      /\ u.pending = t.pending /\ u.left = t.left /\ u.fault = t.fault
      /\ u.net = t.net /\ u.again = t.again
  BY <1>3 DEF Base, Shape
<1> HIDE DEF u, states
<1>5. u.fault \in {"none", "freed"}
  BY <1>3, <1>4 DEF Base
<1>6. ASSUME u.fault = "none"
      PROVE  Resolver(u, {}, 0, {})
  <2>1. u.inflight = <<>> /\ u.waiting = <<>> /\ Listed(t) = <<>> /\ Listed(u) = <<>>
    <3>1. t.inflight = <<>> /\ t.waiting = <<>>
      BY <1>2, <1>4, <1>6 DEF Emptied
    <3> QED
      BY <1>4, <3>1 DEF Listed
  <2>2. Ring(u) = {} /\ Unwatched(u) = {} /\ u.timer = {}
    <3>1. ToSet(t.ring) = Ring(t)
      BY <1>3, FlightFacts DEF ToSet, Ring, Elements
    <3> QED
      BY <1>3, <1>4, <3>1 DEF Base, ServersOK, Ring, Elements, Unwatched
  <2>3. Base(u, {})
    <3>1. ServersOK(u)
      BY <1>4, <2>2, FS_EmptySet DEF ServersOK
    <3>2. FlightOK(u.inflight, Ring(u), u.writing, {}) /\ WaitingOK(u.waiting)
      BY <2>1 DEF FlightOK, WaitingOK
    <3> QED
      BY <1>3, <1>4, <1>5, <2>1, <3>1, <3>2 DEF Base
  <2>4. Live(<<>>, 0, Servers, t.pending, Unwatched(t))
        /\ Tracked(<<>>, 0, t.states, t.search, t.left)
    BY <1>3, <2>1 DEF Resolver
  <2>5. Live(<<>>, 0, {}, u.pending, {})
    BY <1>4, <2>4, NoNames DEF Live, Carries
  <2>6. \A k : HeldFor(<<>>, 0, k) = {}
    BY DEF HeldFor
  <2>7. Tracked(<<>>, 0, u.states, Null, u.left)
    <3> DEFINE over(k) == 0 \in 1 .. Len(<<>>) /\ <<>>[0].state = k
    <3>1. Cardinality({}) = 0 /\ \A k : One(over(k)) = 0
      BY FS_EmptySet DEF One
    <3>2. /\ t.states \in [States -> SearchStates] /\ t.search \in States \cup {Null}
          /\ t.left \in [Queries -> Seq(Domains \cup {Null})]
      BY <2>4 DEF Tracked
    <3>3. ASSUME NEW k \in States
          PROVE  t.states[k].refcount = One(t.search = k)
      <4>1. t.states[k].refcount =
              Cardinality(HeldFor(<<>>, 0, k)) + One(t.search = k) + One(over(k))
        BY <2>4 DEF Tracked
      <4>2. Cardinality(HeldFor(<<>>, 0, k)) = 0 /\ One(over(k)) = 0
        BY <2>6, <3>1
      <4> HIDE DEF over
      <4> QED
        BY <4>1, <4>2 DEF One
    <3>4. NoState \in SearchStates /\ NoState.refcount = 0
      <4>1. <<>> \in Seq(Domains)
        OBVIOUS
      <4> QED
        BY <4>1 DEF NoState, SearchStates
    <3>5. states \in [States -> SearchStates]
      BY <3>2, <3>4 DEF states
    <3>6. ASSUME NEW k \in States
          PROVE  /\ states[k].refcount = 0
                 /\ states[k].refcount =
                      Cardinality(HeldFor(<<>>, 0, k)) + One(Null = k) + One(over(k))
      <4>1. states[k].refcount = 0
        BY <3>2, <3>3, <3>4, NoNames DEF states, One
      <4>2. One(Null = k) = 0
        BY NoNames DEF One
      <4>3. Cardinality(HeldFor(<<>>, 0, k)) = 0 /\ One(over(k)) = 0
        BY <2>6, <3>1
      <4> HIDE DEF over
      <4> QED
        BY <4>1, <4>2, <4>3
    <3>7. \A p \in 1 .. Len(<<>>) : FALSE
      OBVIOUS
    <3> QED
      BY <1>4, <3>2, <3>5, <3>6, <3>7 DEF Tracked
  <2> QED
    BY <1>4, <2>1, <2>2, <2>3, <2>5, <2>7 DEF Resolver
<1> QED
  BY <1>5, <1>6 DEF evdns_shutdown, u, t, timedout

-----------------------------------------------------------------------------
(* User code changes the search list.                                      *)

\* x is s with other search states: they are counted, and those that requests
\* hold read as before.
OtherStates(s, x) ==
  /\ Shape(x) /\ SameLists(s, x) /\ SameServers(s, x) /\ SameSockets(s, x)
  /\ x.ring = s.ring /\ x.limit = s.limit /\ x.pending = s.pending /\ x.left = s.left
  /\ x.again = s.again /\ x.fault = s.fault
  /\ x.states \in [States -> SearchStates] /\ x.search \in States \cup {Null}
  /\ \A k \in States :
       /\ x.states[k].refcount = Cardinality(HeldFor(Listed(s), 0, k)) + One(x.search = k)
       /\ HeldFor(Listed(s), 0, k) # {} =>
            /\ x.states[k].domains = s.states[k].domains
            /\ x.states[k].ndots = s.states[k].ndots

LEMMA OtherStatesResolver ==
  ASSUME NEW s, Resolver(s, {}, 0, {}), NEW x, OtherStates(s, x)
  PROVE  Resolver(x, {}, 0, {})
<1> DEFINE a == Listed(s)
<1>1. /\ Base(s, {}) /\ Tracked(a, 0, s.states, s.search, s.left)
      /\ Sound(a) /\ Len(a) \in Nat
  BY ListedSound, ListedFacts DEF Resolver
<1>2. Listed(x) = a /\ Unwatched(x) = Unwatched(s) /\ Ring(x) = Ring(s)
  BY DEF OtherStates, SameLists, SameServers, Listed, Unwatched, Ring
<1>3. Base(x, {})
  BY <1>1, <1>2 DEF Base, ServersOK, OtherStates, SameLists, SameServers, SameSockets, Ring
<1>4. ASSUME NEW k \in States
      PROVE  x.states[k].refcount = Cardinality(HeldFor(a, 0, k)) + One(x.search = k)
               + One(0 \in 1 .. Len(a) /\ a[0].state = k)
  <2>1. ~(0 \in 1 .. Len(a))
    BY <1>1
  <2>2. One(0 \in 1 .. Len(a) /\ a[0].state = k) = 0
    BY <2>1 DEF One
  <2>3. x.states[k].refcount = Cardinality(HeldFor(a, 0, k)) + One(x.search = k)
    BY DEF OtherStates
  <2>4. x.states[k].refcount \in Nat
    BY DEF OtherStates, SearchStates
  <2> HIDE DEF a
  <2> QED
    BY <2>2, <2>3, <2>4
<1>5. ASSUME NEW p \in 1 .. Len(a), a[p].who \in Queries
      PROVE  Tries(a[p], x.states) = x.left[a[p].who]
  <2> DEFINE k == a[p].state
  <2>1. p # 0
    BY <1>1
  <2>2. k \in States \cup {Null}
    <3>1. a[p] \in Requests
      BY <1>1 DEF Sound
    <3> QED
      BY <3>1 DEF Requests
  <2>3. k # Null => k \in States /\ a[p].who \in HeldFor(a, 0, k)
    BY <1>5, <2>1, <2>2 DEF HeldFor
  <2>4. k = Null \/ (/\ x.states[k].domains = s.states[k].domains
                     /\ x.states[k].ndots = s.states[k].ndots)
    BY <2>3 DEF OtherStates
  <2>5. Tries(a[p], x.states) = Tries(a[p], s.states)
    <3> HIDE DEF a
    <3> QED
      BY <2>4, TriesSame
  <2>6. Tries(a[p], s.states) = s.left[a[p].who]
    BY <1>1, <1>5, <2>1 DEF Tracked
  <2> QED
    BY <2>5, <2>6 DEF OtherStates
<1>6. Tracked(a, 0, x.states, x.search, x.left)
  BY <1>1, <1>4, <1>5 DEF Tracked, OtherStates
<1> QED
  BY <1>2, <1>3, <1>6 DEF Resolver, OtherStates

\* There is memory for one search state more than there are queries.
LEMMA SpareState ==
  ASSUME NEW a, NEW pending, NEW more, Live(a, 0, {}, pending, more), Len(a) \in Nat,
         NEW states, \A k \in States : states[k].refcount = Cardinality(HeldFor(a, 0, k))
  PROVE  \E k \in States : states[k].refcount = 0
<1> DEFINE used == {k \in States : HeldFor(a, 0, k) # {}}
           f == [k \in used |-> CHOOSE q \in Queries : q \in HeldFor(a, 0, k)]
<1>1. \A k \in used : f[k] \in Queries /\ f[k] \in HeldFor(a, 0, k)
  BY DEF HeldFor
<1>2. ASSUME NEW k \in used, NEW j \in used, f[k] = f[j]
      PROVE  k = j
  <2>1. PICK p \in 1 .. Len(a) : p # 0 /\ a[p].who = f[k] /\ a[p].state = k
    BY <1>1 DEF HeldFor
  <2>2. PICK r \in 1 .. Len(a) : r # 0 /\ a[r].who = f[j] /\ a[r].state = j
    BY <1>1 DEF HeldFor
  <2>3. p = r
    BY <1>1, <1>2, <2>1, <2>2 DEF Live
  <2> QED
    BY <2>1, <2>2, <2>3
<1>3. f \in Injection(used, Queries)
  <2>1. f \in [used -> Queries]
    BY <1>1
  <2> HIDE DEF f, used
  <2> QED
    BY <1>2, <2>1 DEF Injection, IsInjective
<1>4. Cardinality(used) <= Cardinality(Queries) /\ Cardinality(Queries) \in Nat
  <2> HIDE DEF f, used
  <2> QED
    BY <1>3, NoNames, FS_Injection, FS_CardinalityType
<1>5. IsFiniteSet(States) /\ Cardinality(States) = Cardinality(Queries) + 1
  <2> DEFINE c == Cardinality(Queries)
  <2>1. c \in Nat
    BY <1>4
  <2> HIDE DEF c
  <2>2. IsFiniteSet(1 .. c + 1) /\ Cardinality(1 .. c + 1) = c + 1
    BY <2>1, FS_Interval
  <2> QED
    BY <2>2 DEF States, c
<1>6. used # States
  <2> HIDE DEF used, f
  <2>1. ~(Cardinality(Queries) + 1 <= Cardinality(Queries))
    BY <1>4
  <2> QED
    BY <1>4, <1>5, <2>1
<1>7. PICK k \in States : HeldFor(a, 0, k) = {}
  BY <1>6
<1> QED
  BY <1>7, FS_EmptySet

\* search_postfix_clear: a fresh state, while those that search keep theirs.
LEMMA RenewFacts ==
  ASSUME NEW s, Resolver(s, {}, 0, {})
  PROVE  LET x == search_postfix_clear(s)
         IN  /\ OtherStates(s, x) /\ x.search \in States
             /\ HeldFor(Listed(s), 0, x.search) = {}
<1> DEFINE a == Listed(s)
           d == search_state_decref(s, s.search)
           drops == Drops(s.states, s.search)
           k == Min(Unused(d))
           x == search_state_new(d)
<1>1. /\ Base(s, {}) /\ Tracked(a, 0, s.states, s.search, s.left)
      /\ Live(a, 0, {}, s.pending, Unwatched(s)) /\ Len(a) \in Nat
  BY ListedFacts DEF Resolver
<1>2. /\ s.states \in [States -> SearchStates] /\ s.search \in States \cup {Null}
      /\ IsFiniteSet(Queries) /\ Null \notin States
  BY <1>1, NoNames DEF Tracked
<1>3. ASSUME NEW j \in States
      PROVE  /\ s.states[j].refcount = Cardinality(HeldFor(a, 0, j)) + One(s.search = j)
             /\ Cardinality(HeldFor(a, 0, j)) \in Nat
             /\ HeldFor(a, 0, j) # {} => Cardinality(HeldFor(a, 0, j)) > 0
  <2>1. ~(0 \in 1 .. Len(a))
    BY <1>1
  <2>2. One(0 \in 1 .. Len(a) /\ a[0].state = j) = 0
    BY <2>1 DEF One
  <2>3. s.states[j].refcount = Cardinality(HeldFor(a, 0, j)) + One(s.search = j)
               + One(0 \in 1 .. Len(a) /\ a[0].state = j)
    BY <1>1 DEF Tracked
  <2>4. HeldFor(a, 0, j) \in SUBSET Queries
    BY DEF HeldFor
  <2> HIDE DEF a
  <2>5. IsFiniteSet(HeldFor(a, 0, j)) /\ Cardinality(HeldFor(a, 0, j)) \in Nat
    BY <1>2, <2>4, FS_Subset, FS_CardinalityType
  <2>6. HeldFor(a, 0, j) # {} => Cardinality(HeldFor(a, 0, j)) > 0
    BY <2>5, FS_EmptySet
  <2>7. One(s.search = j) \in Nat
    BY DEF One
  <2> QED
    BY <2>2, <2>3, <2>5, <2>6, <2>7
<1> HIDE DEF a
<1>4. s.search # Null => s.states[s.search].refcount > 0
  BY <1>2, <1>3 DEF One
<1>5. /\ drops \in [States -> SearchStates]
      /\ \A j \in States :
           /\ drops[j].refcount = s.states[j].refcount - One(j = s.search)
           /\ j # s.search \/ s.states[j].refcount > 1 =>
                /\ drops[j].domains = s.states[j].domains
                /\ drops[j].ndots = s.states[j].ndots
  BY <1>2, <1>4, DropsFacts
<1>6. /\ Shape(d) /\ SameLists(s, d) /\ SameServers(s, d) /\ SameSockets(s, d)
      /\ d.ring = s.ring /\ d.limit = s.limit /\ d.pending = s.pending /\ d.left = s.left
      /\ d.again = s.again /\ d.fault = s.fault /\ d.states = drops
  BY <1>1 DEF search_state_decref, Drops, Base, Shape, SameLists, SameServers, SameSockets
<1> HIDE DEF d, drops
<1>7. ASSUME NEW j \in States
      PROVE  /\ drops[j].refcount = Cardinality(HeldFor(a, 0, j))
             /\ HeldFor(a, 0, j) # {} => /\ drops[j].domains = s.states[j].domains
                                         /\ drops[j].ndots = s.states[j].ndots
  <2>1. drops[j].refcount = Cardinality(HeldFor(a, 0, j))
    BY <1>3, <1>5 DEF One
  <2>2. ASSUME HeldFor(a, 0, j) # {}
        PROVE  j # s.search \/ s.states[j].refcount > 1
    BY <1>3, <2>2 DEF One
  <2> QED
    BY <1>5, <2>1, <2>2
<1>8. k \in States /\ drops[k].refcount = 0
  <2>1. Unused(d) # {} /\ \A j \in Unused(d) : j \in States /\ drops[j].refcount = 0
    <3>1. \E j \in States : drops[j].refcount = 0
      BY <1>1, <1>7, SpareState
    <3> QED
      BY <1>6, <3>1 DEF Unused
  <2>2. Unused(d) \in SUBSET Nat
    BY <1>2, FS_CardinalityType DEF Unused, States
  <2>3. Min(Unused(d)) \in Unused(d)
    BY <2>1, <2>2, MinFacts
  <2> QED
    BY <2>1, <2>3
<1>9. HeldFor(a, 0, k) = {}
  <2> HIDE DEF k
  <2> QED
    BY <1>3, <1>7, <1>8
<1> DEFINE new == [NoState EXCEPT !.refcount = 1]
<1>10. new \in SearchStates /\ new.refcount = 1
  <2>1. <<>> \in Seq(Domains)
    OBVIOUS
  <2> QED
    BY <2>1 DEF NoState, SearchStates
<1>11. x = [d EXCEPT !.search = k, !.states[k] = new]
  BY DEF search_state_new
<1> HIDE DEF new, k
<1>12. /\ Shape(x) /\ SameLists(s, x) /\ SameServers(s, x) /\ SameSockets(s, x)
       /\ x.ring = s.ring /\ x.limit = s.limit /\ x.pending = s.pending /\ x.left = s.left
       /\ x.again = s.again /\ x.fault = s.fault /\ x.search = k
       /\ x.states = [drops EXCEPT ![k] = new]
  BY <1>6, <1>11 DEF Shape, SameLists, SameServers, SameSockets
<1> HIDE DEF x
<1>13. x.states \in [States -> SearchStates]
  BY <1>5, <1>10, <1>12
<1>14. ASSUME NEW j \in States
       PROVE  /\ x.states[j].refcount = Cardinality(HeldFor(a, 0, j)) + One(x.search = j)
              /\ HeldFor(a, 0, j) # {} => /\ x.states[j].domains = s.states[j].domains
                                          /\ x.states[j].ndots = s.states[j].ndots
  <2>1. CASE j = k
    <3>1. x.states[j] = new
      BY <1>5, <1>8, <1>12, <2>1
    <3>2. Cardinality(HeldFor(a, 0, j)) = 0
      BY <1>9, <2>1, FS_EmptySet
    <3> QED
      BY <1>9, <1>10, <1>12, <2>1, <3>1, <3>2 DEF One
  <2>2. CASE j # k
    <3>1. x.states[j] = drops[j] /\ One(x.search = j) = 0
      BY <1>5, <1>12, <2>2 DEF One
    <3>2. Cardinality(HeldFor(a, 0, j)) \in Nat
      BY <1>3
    <3> QED
      BY <1>7, <3>1, <3>2
  <2> QED
    BY <2>1, <2>2
<1>15. OtherStates(s, x)
  BY <1>8, <1>12, <1>13, <1>14 DEF OtherStates, a
<1> QED
  BY <1>8, <1>9, <1>12, <1>15 DEF search_postfix_clear, a, x, d

\* A list that nobody searches is changed.
LEMMA EditFacts ==
  ASSUME NEW s, NEW x, OtherStates(s, x), NEW k \in States,
         HeldFor(Listed(s), 0, k) = {}, NEW new \in SearchStates,
         new.refcount = x.states[k].refcount
  PROVE  OtherStates(s, [x EXCEPT !.states[k] = new])
<1> DEFINE t == [x EXCEPT !.states[k] = new]
<1>1. /\ Shape(t) /\ SameLists(s, t) /\ SameServers(s, t) /\ SameSockets(s, t)
      /\ t.ring = s.ring /\ t.limit = s.limit /\ t.pending = s.pending /\ t.left = s.left
      /\ t.again = s.again /\ t.fault = s.fault /\ t.search = x.search
      /\ t.states = [x.states EXCEPT ![k] = new]
  BY DEF OtherStates, Shape, SameLists, SameServers, SameSockets
<1> HIDE DEF t
<1>2. /\ t.states \in [States -> SearchStates]
      /\ \A j \in States : t.states[j] = IF j = k THEN new ELSE x.states[j]
  BY <1>1 DEF OtherStates
<1>3. ASSUME NEW j \in States
      PROVE  /\ t.states[j].refcount = x.states[j].refcount
             /\ HeldFor(Listed(s), 0, j) # {} => t.states[j] = x.states[j]
  BY <1>2
<1>4. OtherStates(s, t)
  BY <1>1, <1>2, <1>3 DEF OtherStates
<1> QED
  BY <1>4 DEF t

\* Nothing was changed.
LEMMA SameStates ==
  ASSUME NEW s, Resolver(s, {}, 0, {})
  PROVE  OtherStates(s, s)
<1> DEFINE a == Listed(s)
<1>1. /\ Base(s, {}) /\ Tracked(a, 0, s.states, s.search, s.left) /\ Len(a) \in Nat
  BY ListedFacts DEF Resolver
<1>2. ASSUME NEW j \in States
      PROVE  s.states[j].refcount = Cardinality(HeldFor(a, 0, j)) + One(s.search = j)
  <2>1. ~(0 \in 1 .. Len(a))
    BY <1>1
  <2>2. One(0 \in 1 .. Len(a) /\ a[0].state = j) = 0
    BY <2>1 DEF One
  <2>3. s.states[j].refcount = Cardinality(HeldFor(a, 0, j)) + One(s.search = j)
               + One(0 \in 1 .. Len(a) /\ a[0].state = j)
    BY <1>1 DEF Tracked
  <2>4. HeldFor(a, 0, j) \in SUBSET Queries
    BY DEF HeldFor
  <2> HIDE DEF a
  <2>5. Cardinality(HeldFor(a, 0, j)) \in Nat
    BY <2>4, NoNames, FS_Subset, FS_CardinalityType
  <2>6. One(s.search = j) \in Nat
    BY DEF One
  <2> QED
    BY <2>2, <2>3, <2>5, <2>6
<1> QED
  BY <1>1, <1>2 DEF OtherStates, Base, Tracked, SameLists, SameServers, SameSockets

-----------------------------------------------------------------------------
(* The steps.                                                              *)

\* A handler starts with the globals, and the outcomes of what it will call.
LEMMA Begun ==
  ASSUME DnsInv, dns.fault = "none", NEW net \in Sends \cup {<<>>},
         NEW again \in Queries \cup {Null}
  PROVE  LET s == [dns EXCEPT !.net = net, !.again = again]
         IN  Resolver(s, {}, 0, {}) /\ SameCore(dns, s)
<1> DEFINE s == [dns EXCEPT !.net = net, !.again = again]
<1>1. Resolver(dns, {}, 0, {}) /\ Base(dns, {})
  BY DEF DnsInv, Resolver
<1>2. net \in Seq(Outcomes)
  <2>1. "ok" \in Outcomes /\ \A o \in Outcomes : <<o, "ok">> \in Seq(Outcomes)
        /\ <<"ok", o>> \in Seq(Outcomes)
    BY EvDnsAssumption
  <2>2. <<>> \in Seq(Outcomes)
    OBVIOUS
  <2> QED
    BY <2>1, <2>2 DEF Sends
<1>3. SameCore(dns, s)
  BY <1>1, <1>2 DEF Base, Shape, SameCore, SameLists, SameServers
<1> HIDE DEF s
<1>4. Resolver(s, {}, 0, {})
  BY <1>1, <1>3, CoreResolver
<1> QED
  BY <1>3, <1>4 DEF s

\* It ends without them.
LEMMA Ended ==
  ASSUME NEW t, Resolver(t, {}, 0, {}),
         dns' = [t EXCEPT !.net = <<>>, !.again = Null, !.picked = Null]
  PROVE  DnsInv'
<1> DEFINE u == [t EXCEPT !.net = <<>>, !.again = Null, !.picked = Null]
<1>1. SameCore(t, u) /\ t.fault \in {"none", "freed"}
  <2>1. <<>> \in Seq(Outcomes)
    OBVIOUS
  <2> QED
    BY <2>1 DEF Resolver, Base, Shape, SameCore, SameLists, SameServers
<1> HIDE DEF u
<1>2. Resolver(u, {}, 0, {})
  BY <1>1, CoreResolver
<1>3. dns' = u
  BY DEF u
<1>4. u.fault \in {"none", "freed"}
  BY <1>1 DEF SameCore
<1> QED
  BY <1>2, <1>3, <1>4 DEF DnsInv

LEMMA ResolveStep ==
  ASSUME DnsInv, NEW q \in Queries, Resolve(q)
  PROVE  DnsInv'
<1>1. PICK net \in Sends :
        /\ dns.fault = "none" /\ dns.pending[q] = 0
        /\ dns' = [evdns_resolve([dns EXCEPT !.net = net, !.again = Null], q) EXCEPT
                     !.net = <<>>, !.again = Null, !.picked = Null]
  BY DEF Resolve, HandleSending, Handle
<1> DEFINE s == [dns EXCEPT !.net = net, !.again = Null]
<1>2. Resolver(s, {}, 0, {}) /\ SameCore(dns, s)
  BY <1>1, Begun
<1>3. dns' = [evdns_resolve(s, q) EXCEPT !.net = <<>>, !.again = Null, !.picked = Null]
  BY <1>1
<1> HIDE DEF s
<1>4. s.pending[q] = 0 /\ 0 \in 0 .. Len(s.inflight)
  BY <1>1, <1>2, FlightFacts DEF SameCore, Resolver
<1> DEFINE t == evdns_resolve(s, q)
<1>5. Resolver(t, {}, 0, {})
  BY <1>2, <1>4, ResolveResolver
<1>6. dns' = [t EXCEPT !.net = <<>>, !.again = Null, !.picked = Null]
  BY <1>3
<1> HIDE DEF t
<1> QED
  BY <1>5, <1>6, Ended

LEMMA ReadStep ==
  ASSUME DnsInv, NEW timedout, NEW i, NEW result, NameserverRead(timedout, i, result)
  PROVE  DnsInv'
<1> DEFINE h(s) == reply_handle([s EXCEPT !.timedout = timedout], i, result)
<1>1. PICK net \in Sends \cup {<<>>}, again \in Queries \cup {Null} :
        /\ dns.fault = "none" /\ i \in DOMAIN dns.inflight
        /\ dns' = [h([dns EXCEPT !.net = net, !.again = again]) EXCEPT
                     !.net = <<>>, !.again = Null, !.picked = Null]
  BY DEF NameserverRead, HandleReply, Handle
<1> DEFINE s == [dns EXCEPT !.net = net, !.again = again]
<1>2. Resolver(s, {}, 0, {}) /\ SameCore(dns, s)
  BY <1>1, Begun
<1>3. dns' = [h(s) EXCEPT !.net = <<>>, !.again = Null, !.picked = Null]
  BY <1>1
<1> HIDE DEF s
<1>4. i \in 1 .. Len(s.inflight)
  BY <1>1, <1>2, FlightFacts DEF SameCore, SameLists, Resolver
<1>5. Resolver(h(s), {}, 0, {})
  BY <1>2, <1>4, ReadResolver
<1> DEFINE t == h(s)
<1>6. Resolver(t, {}, 0, {}) /\ dns' = [t EXCEPT !.net = <<>>, !.again = Null, !.picked = Null]
  BY <1>3, <1>5
<1> HIDE DEF t
<1> QED
  BY <1>6, Ended

LEMMA ReadErrorStep ==
  ASSUME DnsInv, NEW n, NameserverReadError(n)
  PROVE  DnsInv'
<1> DEFINE s == [dns EXCEPT !.net = <<>>, !.again = Null]
           t == nameserver_failed(s, n)
<1>1. dns.fault = "none" /\ dns' = [t EXCEPT !.net = <<>>, !.again = Null, !.picked = Null]
  BY DEF NameserverReadError, HandleQuietly, Handle
<1>2. Resolver(s, {}, 0, {})
  BY <1>1, Begun
<1> HIDE DEF s
<1>3. Resolver(t, {}, 0, {})
  BY <1>2, FailedResolver
<1> HIDE DEF t
<1> QED
  BY <1>1, <1>3, Ended

LEMMA WriteStep ==
  ASSUME DnsInv, NEW n, NameserverWrite(n)
  PROVE  DnsInv'
<1>1. PICK net \in Sends :
        /\ dns.fault = "none"
        /\ dns' = [nameserver_write_waiting([dns EXCEPT !.net = net, !.again = Null], n) EXCEPT
                     !.net = <<>>, !.again = Null, !.picked = Null]
  BY DEF NameserverWrite, HandleSending, Handle
<1> DEFINE s == [dns EXCEPT !.net = net, !.again = Null]
           t == nameserver_write_waiting(s, n)
<1>2. Resolver(s, {}, 0, {})
  BY <1>1, Begun
<1>3. dns' = [t EXCEPT !.net = <<>>, !.again = Null, !.picked = Null]
  BY <1>1
<1> HIDE DEF s
<1>4. Resolver(t, {}, 0, {})
  BY <1>2, WriteResolver
<1> HIDE DEF t
<1> QED
  BY <1>3, <1>4, Ended

LEMMA TimeoutStep ==
  ASSUME DnsInv, NEW i, RequestTimeout(i)
  PROVE  DnsInv'
<1> DEFINE h(s) == evdns_request_timeout_callback(s, i)
<1>1. PICK net \in Sends, again \in Queries \cup {Null} :
        /\ dns.fault = "none" /\ i \in DOMAIN dns.inflight
        /\ dns' = [h([dns EXCEPT !.net = net, !.again = again]) EXCEPT
                     !.net = <<>>, !.again = Null, !.picked = Null]
  BY DEF RequestTimeout, HandleReply, Handle
<1> DEFINE s == [dns EXCEPT !.net = net, !.again = again]
           t == h(s)
<1>2. Resolver(s, {}, 0, {}) /\ SameCore(dns, s)
  BY <1>1, Begun
<1>3. dns' = [t EXCEPT !.net = <<>>, !.again = Null, !.picked = Null]
  BY <1>1
<1> HIDE DEF s
<1>4. i \in 1 .. Len(s.inflight)
  BY <1>1, <1>2, FlightFacts DEF SameCore, SameLists, Resolver
<1>5. Resolver(t, {}, 0, {})
  BY <1>2, <1>4, TimeoutResolver
<1> HIDE DEF t
<1> QED
  BY <1>3, <1>5, Ended

LEMMA ProbeStep ==
  ASSUME DnsInv, NEW n, SendProbe(n)
  PROVE  DnsInv'
<1>1. PICK net \in Sends :
        /\ dns.fault = "none" /\ n \in dns.timer
        /\ dns' = [nameserver_send_probe([dns EXCEPT !.net = net, !.again = Null], n) EXCEPT
                     !.net = <<>>, !.again = Null, !.picked = Null]
  BY DEF SendProbe, HandleSending, Handle
<1> DEFINE s == [dns EXCEPT !.net = net, !.again = Null]
           t == nameserver_send_probe(s, n)
<1>2. Resolver(s, {}, 0, {}) /\ SameCore(dns, s)
  BY <1>1, Begun
<1>3. dns' = [t EXCEPT !.net = <<>>, !.again = Null, !.picked = Null]
  BY <1>1
<1> HIDE DEF s
<1>4. n \in s.timer
  BY <1>1, <1>2 DEF SameCore, SameServers
<1>5. Resolver(t, {}, 0, {})
  BY <1>2, <1>4, ProbeResolver
<1> HIDE DEF t
<1> QED
  BY <1>3, <1>5, Ended

LEMMA AddStep ==
  ASSUME DnsInv, NEW n \in Servers, NameserverAdd(n)
  PROVE  DnsInv'
<1> DEFINE s == [dns EXCEPT !.net = <<>>, !.again = Null]
           t == nameserver_add(s, n)
<1>1. dns.fault = "none" /\ dns' = [t EXCEPT !.net = <<>>, !.again = Null, !.picked = Null]
  BY DEF NameserverAdd, HandleQuietly, Handle
<1>2. Resolver(s, {}, 0, {})
  BY <1>1, Begun
<1> HIDE DEF s
<1>3. Resolver(t, {}, 0, {})
  BY <1>2, AddResolver
<1> HIDE DEF t
<1> QED
  BY <1>1, <1>3, Ended

LEMMA ClearStep ==
  ASSUME DnsInv, ClearNameserversAndSuspend
  PROVE  DnsInv'
<1> DEFINE s == [dns EXCEPT !.net = <<>>, !.again = Null]
           t == evdns_clear_nameservers_and_suspend(s)
<1>1. dns.fault = "none" /\ dns' = [t EXCEPT !.net = <<>>, !.again = Null, !.picked = Null]
  BY DEF ClearNameserversAndSuspend, HandleQuietly, Handle
<1>2. Resolver(s, {}, 0, {})
  BY <1>1, Begun
<1> HIDE DEF s
<1>3. Resolver(t, {}, 0, {})
  BY <1>2, ClearResolver
<1> HIDE DEF t
<1> QED
  BY <1>1, <1>3, Ended

\* Where user code has to be careful: a request that waits is given a server.
LEMMA ResumeStep ==
  ASSUME DnsInv, Careful, EvdnsResume
  PROVE  DnsInv'
<1>1. PICK net \in Sends :
        /\ dns.fault = "none" /\ dns.ring # <<>>
        /\ dns' = [evdns_requests_pump_waiting_queue([dns EXCEPT !.net = net, !.again = Null])
                     EXCEPT !.net = <<>>, !.again = Null, !.picked = Null]
  BY DEF EvdnsResume, HandleSending, Handle
<1> DEFINE s == [dns EXCEPT !.net = net, !.again = Null]
           t == evdns_requests_pump_waiting_queue(s)
<1>2. Resolver(s, {}, 0, {}) /\ SameCore(dns, s)
  BY <1>1, Begun
<1>3. dns' = [t EXCEPT !.net = <<>>, !.again = Null, !.picked = Null]
  BY <1>1
<1> HIDE DEF s
<1>4. s.ring # <<>>
  BY <1>1, <1>2 DEF SameCore
<1>5. Resolver(t, {}, 0, {})
  BY <1>2, <1>4, ResumeResolver
<1> HIDE DEF t
<1> QED
  BY <1>3, <1>5, Ended

LEMMA LimitStep ==
  ASSUME DnsInv, NEW n \in InflightLimits, SetMaxInflight(n)
  PROVE  DnsInv'
<1> DEFINE s == [dns EXCEPT !.net = <<>>, !.again = Null]
           t == [s EXCEPT !.limit = n]
<1>1. dns.fault = "none" /\ dns' = [t EXCEPT !.net = <<>>, !.again = Null, !.picked = Null]
  BY DEF SetMaxInflight, HandleQuietly, Handle
<1>2. Resolver(s, {}, 0, {})
  BY <1>1, Begun
<1> HIDE DEF s
<1>3. SameCore(s, t)
  <2>1. n \in Nat \ {0}
    BY EvDnsAssumption
  <2> QED
    BY <1>2, <2>1 DEF Resolver, Base, SameCore, Shape, SameLists, SameServers
<1>4. Resolver(t, {}, 0, {})
  BY <1>2, <1>3, CoreResolver
<1> HIDE DEF t
<1> QED
  BY <1>1, <1>4, Ended

\* Where user code has to be careful: a request in flight lets those that wait go.
LEMMA ShutdownStep ==
  ASSUME DnsInv, Careful, NEW failRequests \in BOOLEAN, EvdnsShutdown(failRequests)
  PROVE  DnsInv'
<1>1. PICK again \in Queries \cup {Null} :
        /\ dns.fault = "none" /\ (dns.inflight # <<>> \/ dns.waiting = <<>>)
        /\ dns' = [evdns_shutdown([dns EXCEPT !.net = <<>>, !.again = again], failRequests)
                     EXCEPT !.net = <<>>, !.again = Null, !.picked = Null]
  BY DEF EvdnsShutdown, Handle
<1> DEFINE s == [dns EXCEPT !.net = <<>>, !.again = again]
           t == evdns_shutdown(s, failRequests)
<1>2. Resolver(s, {}, 0, {}) /\ SameCore(dns, s)
  BY <1>1, Begun
<1>3. dns' = [t EXCEPT !.net = <<>>, !.again = Null, !.picked = Null]
  BY <1>1
<1> HIDE DEF s
<1>4. s.inflight # <<>> \/ s.waiting = <<>>
  BY <1>1, <1>2 DEF SameCore, SameLists
<1>5. t.fault \in {"none", "freed"} /\ (t.fault = "none" => Resolver(t, {}, 0, {}))
  BY <1>2, <1>4, ShutdownResolver
<1> HIDE DEF t
<1>6. CASE t.fault = "none"
  BY <1>3, <1>5, <1>6, Ended
<1>7. CASE t.fault = "freed"
  <2>1. dns'.fault = "freed"
    BY <1>3, <1>7
  <2> QED
    BY <2>1 DEF DnsInv
<1> QED
  BY <1>5, <1>6, <1>7

LEMMA ClearSearchStep ==
  ASSUME DnsInv, SearchClear
  PROVE  DnsInv'
<1> DEFINE s == [dns EXCEPT !.net = <<>>, !.again = Null]
           t == search_postfix_clear(s)
<1>1. dns.fault = "none" /\ dns' = [t EXCEPT !.net = <<>>, !.again = Null, !.picked = Null]
  BY DEF SearchClear, HandleQuietly, Handle
<1>2. Resolver(s, {}, 0, {})
  BY <1>1, Begun
<1> HIDE DEF s
<1>3. OtherStates(s, t)
  BY <1>2, RenewFacts
<1> HIDE DEF t
<1>4. Resolver(t, {}, 0, {})
  BY <1>2, <1>3, OtherStatesResolver
<1> QED
  BY <1>1, <1>4, Ended

\* The state that user code adds to, which no request holds.
LEMMA WithStateFacts ==
  ASSUME NEW s, Resolver(s, {}, 0, {}),
         s.search # Null => HeldFor(Listed(s), 0, s.search) = {}
  PROVE  LET t == WithState(s)
         IN  /\ OtherStates(s, t) /\ t.search \in States
             /\ HeldFor(Listed(s), 0, t.search) = {}
<1>1. CASE s.search = Null
  <2>1. WithState(s) = search_postfix_clear(s)
    BY <1>1 DEF WithState, search_postfix_clear, search_state_decref
  <2> QED
    BY <2>1, RenewFacts
<1>2. CASE s.search # Null
  <2>1. WithState(s) = s
    BY <1>2 DEF WithState
  <2>2. OtherStates(s, s)
    BY SameStates
  <2> QED
    BY <1>2, <2>1, <2>2 DEF OtherStates
<1> QED
  BY <1>1, <1>2

\* No query is searched with the state user code adds to.
LEMMA InSearchFacts ==
  ASSUME Careful, Base(dns, {}), NEW s, SameCore(dns, s),
         Careful => InSearch = {}, s.search # Null
  PROVE  HeldFor(Listed(s), 0, s.search) = {}
<1>1. Listed(s) = Listed(dns) /\ s.search = dns.search
  BY DEF SameCore, SameLists, Listed
<1>2. \A p \in 1 .. Len(Listed(dns)) :
        Listed(dns)[p] \in ToSet(dns.inflight) \cup ToSet(dns.waiting)
  <2> SUFFICES ASSUME NEW p \in 1 .. Len(Listed(dns))
               PROVE  Listed(dns)[p] \in ToSet(dns.inflight) \cup ToSet(dns.waiting)
    OBVIOUS
  <2> DEFINE a == Len(dns.inflight)
             c == Len(dns.waiting)
  <2>1. /\ a \in Nat /\ c \in Nat /\ p \in 1 .. a + c
        /\ Listed(dns)[p] = IF p <= a THEN dns.inflight[p] ELSE dns.waiting[p - a]
        /\ DOMAIN dns.inflight = 1 .. a /\ DOMAIN dns.waiting = 1 .. c
    <3>1. /\ dns.inflight \in Seq(Requests) /\ dns.waiting \in Seq(Requests)
          /\ Len(Listed(dns)) = a + c
      BY FlightFacts, ListedFacts
    <3>2. Listed(dns)[p] = IF p <= a THEN dns.inflight[p] ELSE dns.waiting[p - a]
      BY ListedFacts
    <3>3. a \in Nat /\ c \in Nat /\ DOMAIN dns.inflight = 1 .. a /\ DOMAIN dns.waiting = 1 .. c
      BY <3>1
    <3> HIDE DEF a, c
    <3> QED
      BY <3>1, <3>2, <3>3
  <2> HIDE DEF a, c
  <2>2. IF p <= a THEN p \in 1 .. a ELSE p - a \in 1 .. c
    BY <2>1
  <2> QED
    BY <2>1, <2>2 DEF ToSet
<1>3. ASSUME NEW q \in HeldFor(Listed(dns), 0, dns.search)
      PROVE  FALSE
  <2>1. PICK p \in 1 .. Len(Listed(dns)) :
          Listed(dns)[p].who = q /\ Listed(dns)[p].state = dns.search
    BY <1>3 DEF HeldFor
  <2>2. q \in Queries
    BY <1>3 DEF HeldFor
  <2>3. q \in InSearch
    BY <1>1, <1>2, <2>1, <2>2 DEF InSearch
  <2> QED
    BY <2>3
<1> QED
  BY <1>1, <1>3

LEMMA SearchAddStep ==
  ASSUME DnsInv, Careful, NEW d \in Domains, SearchAdd(d)
  PROVE  DnsInv'
<1> DEFINE s == [dns EXCEPT !.net = <<>>, !.again = Null]
           t == search_postfix_add(s, d)
<1>1. /\ dns.fault = "none" /\ (Careful => InSearch = {})
      /\ dns' = [t EXCEPT !.net = <<>>, !.again = Null, !.picked = Null]
  BY DEF SearchAdd, HandleQuietly, Handle
<1>2. Resolver(s, {}, 0, {}) /\ SameCore(dns, s)
  BY <1>1, Begun
<1>3. Base(dns, {})
  BY <1>1 DEF DnsInv, Resolver
<1> HIDE DEF s
<1> DEFINE x == WithState(s)
           k == x.search
<1>4. OtherStates(s, x) /\ k \in States /\ HeldFor(Listed(s), 0, k) = {}
  <2>1. s.search # Null => HeldFor(Listed(s), 0, s.search) = {}
    BY <1>1, <1>2, <1>3, InSearchFacts
  <2> QED
    BY <1>2, <2>1, WithStateFacts
<1> DEFINE new == [x.states[k] EXCEPT !.domains = <<d>> \o @]
<1>5. t = [x EXCEPT !.states[k] = new]
  BY DEF search_postfix_add
<1> HIDE DEF x, k
<1>6. new \in SearchStates /\ new.refcount = x.states[k].refcount
  <2>1. x.states[k] \in SearchStates
    BY <1>4 DEF OtherStates
  <2>2. <<d>> \o x.states[k].domains \in Seq(Domains)
    BY <2>1 DEF SearchStates
  <2> QED
    BY <2>1, <2>2 DEF SearchStates
<1> HIDE DEF new, t
<1>7. OtherStates(s, t)
  BY <1>4, <1>5, <1>6, EditFacts
<1>8. Resolver(t, {}, 0, {})
  BY <1>2, <1>7, OtherStatesResolver
<1> QED
  BY <1>1, <1>8, Ended

LEMMA NdotsStep ==
  ASSUME DnsInv, Careful, NEW n \in 1 .. 2, SearchNdotsSet(n)
  PROVE  DnsInv'
<1> DEFINE s == [dns EXCEPT !.net = <<>>, !.again = Null]
           t == evdns_search_ndots_set(s, n)
<1>1. /\ dns.fault = "none" /\ (Careful => InSearch = {})
      /\ dns' = [t EXCEPT !.net = <<>>, !.again = Null, !.picked = Null]
  BY DEF SearchNdotsSet, HandleQuietly, Handle
<1>2. Resolver(s, {}, 0, {}) /\ SameCore(dns, s)
  BY <1>1, Begun
<1>3. Base(dns, {})
  BY <1>1 DEF DnsInv, Resolver
<1> HIDE DEF s
<1> DEFINE x == WithState(s)
           k == x.search
<1>4. OtherStates(s, x) /\ k \in States /\ HeldFor(Listed(s), 0, k) = {}
  <2>1. s.search # Null => HeldFor(Listed(s), 0, s.search) = {}
    BY <1>1, <1>2, <1>3, InSearchFacts
  <2> QED
    BY <1>2, <2>1, WithStateFacts
<1> DEFINE new == [x.states[k] EXCEPT !.ndots = n]
<1>5. t = [x EXCEPT !.states[k] = new]
  BY DEF evdns_search_ndots_set
<1> HIDE DEF x, k
<1>6. new \in SearchStates /\ new.refcount = x.states[k].refcount
  <2>1. x.states[k] \in SearchStates
    BY <1>4 DEF OtherStates
  <2> QED
    BY <2>1 DEF SearchStates
<1> HIDE DEF new, t
<1>7. OtherStates(s, t)
  BY <1>4, <1>5, <1>6, EditFacts
<1>8. Resolver(t, {}, 0, {})
  BY <1>2, <1>7, OtherStatesResolver
<1> QED
  BY <1>1, <1>8, Ended

LEMMA ReverseSeq ==
  ASSUME NEW S, NEW q \in Seq(S)
  PROVE  Reverse(q) \in Seq(S)
<1> DEFINE m == Len(q)
           t == Reverse(q)
<1>1. m \in Nat /\ t = [i \in 1 .. m |-> q[(m - i) + 1]]
  BY DEF Reverse
<1>2. \A i \in 1 .. m : q[i] \in S
  OBVIOUS
<1> HIDE DEF m, t
<1>3. \A i \in 1 .. m : q[(m - i) + 1] \in S
  BY <1>1, <1>2
<1>4. t \in [1 .. m -> S]
  BY <1>1, <1>3
<1>5. t \in Seq(S)
  BY <1>1, <1>4
<1> QED
  BY <1>5 DEF t

\* evdns_resolv_conf_parse.
LEMMA ParseResolver ==
  ASSUME NEW s, Resolver(s, {}, 0, {}), NEW n \in Servers, NEW l \in Seq(Domains)
  PROVE  Resolver(evdns_resolv_conf_parse(s, n, l), {}, 0, {})
<1> DEFINE new  == search_postfix_clear(s)
           k    == new.search
           both == Reverse(Reverse(l))
           list == [new.states[k] EXCEPT !.domains = both]
           full == [new EXCEPT !.states[k] = list]
<1>1. OtherStates(s, new) /\ k \in States /\ HeldFor(Listed(s), 0, k) = {}
  BY RenewFacts
<1>2. PICK t \in {full, new, s} : evdns_resolv_conf_parse(s, n, l) = nameserver_add(t, n)
  BY DEF evdns_resolv_conf_parse
<1>3. both \in Seq(Domains)
  BY ReverseSeq
<1> HIDE DEF new, k, both
<1>4. list \in SearchStates /\ list.refcount = new.states[k].refcount
  <2>1. new.states[k] \in SearchStates
    BY <1>1 DEF OtherStates
  <2> QED
    BY <1>3, <2>1 DEF SearchStates
<1> HIDE DEF list
<1>5. OtherStates(s, full)
  BY <1>1, <1>4, EditFacts
<1> HIDE DEF full
<1>6. Resolver(full, {}, 0, {}) /\ Resolver(new, {}, 0, {})
  BY <1>1, <1>5, OtherStatesResolver
<1>7. Resolver(t, {}, 0, {})
  BY <1>2, <1>6
<1> QED
  BY <1>2, <1>7, AddResolver

LEMMA ParseStep ==
  ASSUME DnsInv, NEW n \in Servers, NEW l \in DomainLists, ResolvConfParse(n, l)
  PROVE  DnsInv'
<1> DEFINE s == [dns EXCEPT !.net = <<>>, !.again = Null]
           t == evdns_resolv_conf_parse(s, n, l)
<1>1. dns.fault = "none" /\ dns' = [t EXCEPT !.net = <<>>, !.again = Null, !.picked = Null]
  BY DEF ResolvConfParse, HandleQuietly, Handle
<1>2. Resolver(s, {}, 0, {})
  BY <1>1, Begun
<1>3. l \in Seq(Domains)
  <2>1. PICK m \in 0 .. MaxDomains : l \in [1 .. m -> Domains]
    BY DEF DomainLists, BoundedSeq, SeqOf
  <2> QED
    BY <2>1, EvDnsAssumption
<1> HIDE DEF s
<1>4. Resolver(t, {}, 0, {})
  BY <1>2, <1>3, ParseResolver
<1> HIDE DEF t
<1> QED
  BY <1>1, <1>4, Ended

-----------------------------------------------------------------------------
(* The invariant and what it says.                                         *)

LEMMA InitInv == Init => DnsInv
<1> SUFFICES ASSUME Init PROVE DnsInv
  OBVIOUS
<1> DEFINE s == dns
<1>1. /\ Shape(s) /\ s.ring = <<>> /\ s.up = {} /\ s.good = 0 /\ s.timer = {}
      /\ s.choked = {} /\ s.writing = {} /\ s.inflight = <<>> /\ s.waiting = <<>>
      /\ s.nInflight = 0 /\ s.nWaiting = 0 /\ s.limit = Min(InflightLimits)
      /\ s.search = Null /\ s.states = [k \in States |-> NoState]
      /\ s.pending = [q \in Queries |-> 0] /\ s.left = [q \in Queries |-> <<>>]
      /\ s.fault = "none" /\ s.net = <<>> /\ s.again = Null
  BY DEF Init, Shape
<1> HIDE DEF s
<1>2. s.limit \in Nat \ {0}
  <2>1. InflightLimits \in SUBSET Nat /\ InflightLimits # {} /\ 0 \notin InflightLimits
    BY EvDnsAssumption
  <2>2. Min(InflightLimits) \in InflightLimits
    BY <2>1, MinFacts
  <2> QED
    BY <1>1, <2>1, <2>2
<1>3. Ring(s) = {} /\ Unwatched(s) = {} /\ Listed(s) = <<>>
  BY <1>1 DEF Ring, Elements, Unwatched, Listed
<1>4. Base(s, {})
  <2>1. ServersOK(s)
    BY <1>1, <1>3, FS_EmptySet DEF ServersOK
  <2>2. FlightOK(s.inflight, Ring(s), s.writing, {}) /\ WaitingOK(s.waiting)
    BY <1>1 DEF FlightOK, WaitingOK
  <2> QED
    BY <1>1, <1>2, <2>1, <2>2 DEF Base
<1>5. Live(<<>>, 0, {}, s.pending, {})
  <2>1. \A x : ~Carries(<<>>, 0, x)
    BY DEF Carries
  <2> QED
    BY <1>1, <2>1 DEF Live
<1>6. Tracked(<<>>, 0, s.states, s.search, s.left)
  <2>1. \A k : HeldFor(<<>>, 0, k) = {}
    BY DEF HeldFor
  <2>2. NoState \in SearchStates /\ NoState.refcount = 0
    <3>1. <<>> \in Seq(Domains)
      OBVIOUS
    <3> QED
      BY <3>1 DEF NoState, SearchStates
  <2>3. ASSUME NEW k \in States
        PROVE  s.states[k].refcount = Cardinality(HeldFor(<<>>, 0, k)) + One(s.search = k)
                 + One(0 \in 1 .. Len(<<>>) /\ <<>>[0].state = k)
    <3>1. s.states[k].refcount = 0
      BY <1>1, <2>2
    <3>2. Cardinality(HeldFor(<<>>, 0, k)) = 0
      BY <2>1, FS_EmptySet
    <3>3. One(s.search = k) = 0
      BY <1>1, NoNames DEF One
    <3>4. One(0 \in 1 .. Len(<<>>) /\ <<>>[0].state = k) = 0
      BY DEF One
    <3> QED
      BY <3>1, <3>2, <3>3, <3>4
  <2>4. \A p \in 1 .. Len(<<>>) : FALSE
    OBVIOUS
  <2>5. s.left \in [Queries -> Seq(Domains \cup {Null})]
    BY <1>1
  <2>6. s.states \in [States -> SearchStates] /\ s.search \in States \cup {Null}
    BY <1>1, <2>2
  <2> QED
    BY <2>3, <2>4, <2>5, <2>6 DEF Tracked
<1>7. Resolver(s, {}, 0, {})
  BY <1>3, <1>4, <1>5, <1>6 DEF Resolver
<1> QED
  BY <1>1, <1>7 DEF DnsInv, s

LEMMA NextInv ==
  ASSUME DnsInv, Careful, [Next]_dns
  PROVE  DnsInv'
<1>1. CASE UNCHANGED dns
  <2>1. dns' = dns
    BY <1>1
  <2>2. DnsInv' <=> DnsInv
    BY <2>1 DEF DnsInv
  <2> QED
    BY <2>2
<1>2. CASE Next
  <2>1. ASSUME NEW q \in Queries, Resolve(q) PROVE DnsInv'
    BY <2>1, ResolveStep
  <2>2. ASSUME NEW t \in {[dns.timedout EXCEPT ![n] = 0] : n \in ToSet(dns.ring)},
               NEW i \in DOMAIN dns.inflight, NEW res \in Results, NameserverRead(t, i, res)
        PROVE  DnsInv'
    BY <2>2, ReadStep
  <2>3. ASSUME NEW n \in Servers, NameserverReadError(n) PROVE DnsInv'
    BY <2>3, ReadErrorStep
  <2>4. ASSUME NEW n \in Servers, NameserverWrite(n) PROVE DnsInv'
    BY <2>4, WriteStep
  <2>5. ASSUME NEW i \in DOMAIN dns.inflight, RequestTimeout(i) PROVE DnsInv'
    BY <2>5, TimeoutStep
  <2>6. ASSUME NEW n \in Servers, SendProbe(n) PROVE DnsInv'
    BY <2>6, ProbeStep
  <2>7. ASSUME NEW n \in Servers, NameserverAdd(n) PROVE DnsInv'
    BY <2>7, AddStep
  <2>8. CASE ClearNameserversAndSuspend
    BY <2>8, ClearStep
  <2>9. CASE EvdnsResume
    BY <2>9, ResumeStep
  <2>10. ASSUME NEW n \in InflightLimits, SetMaxInflight(n) PROVE DnsInv'
    BY <2>10, LimitStep
  <2>11. ASSUME NEW f \in BOOLEAN, EvdnsShutdown(f) PROVE DnsInv'
    BY <2>11, ShutdownStep
  <2>12. CASE SearchClear
    BY <2>12, ClearSearchStep
  <2>13. ASSUME NEW d \in Domains, SearchAdd(d) PROVE DnsInv'
    BY <2>13, SearchAddStep
  <2>14. ASSUME NEW n \in 1 .. 2, SearchNdotsSet(n) PROVE DnsInv'
    BY <2>14, NdotsStep
  <2>15. ASSUME NEW n \in Servers, NEW l \in DomainLists, ResolvConfParse(n, l) PROVE DnsInv'
    BY <2>15, ParseStep
  <2> QED
    BY <1>2, <2>1, <2>2, <2>3, <2>4, <2>5, <2>6, <2>7, <2>8, <2>9, <2>10, <2>11, <2>12,
       <2>13, <2>14, <2>15, Zenon DEF Next
<1> QED
  BY <1>1, <1>2

\* Whatever the network loses, delays or repeats, and whatever servers and
\* search lists come and go: the lists, the counters, the states of searches
\* and the timers of evdns.c fit together after every handler, as long as user
\* code does not resume or shut down with requests that nobody could send, nor
\* change the list a search goes by.
THEOREM DnsInvariant ==
  ASSUME Careful
  PROVE  Spec => []DnsInv
<1>1. Init => DnsInv
  BY InitInv
<1>2. Careful /\ DnsInv /\ [Next]_dns => DnsInv'
  BY NextInv
<1>3. Careful
  OBVIOUS
<1> QED
  BY <1>1, <1>2, <1>3, PTL DEF Spec

\* What the invariant says of a process that goes on.
LEMMA AliveFacts ==
  ASSUME DnsInv, Alive
  PROVE  Resolver(dns, {}, 0, {}) /\ Base(dns, {})
  BY DEF DnsInv, Alive, Resolver

\* global_requests_inflight, global_requests_waiting and
\* global_good_nameservers say what the lists say.
THEOREM CountersExactHolds ==
  ASSUME Careful
  PROVE  Spec => []CountersExact
<1>1. DnsInv => CountersExact
  <2> SUFFICES ASSUME DnsInv, Alive
               PROVE  /\ dns.nInflight = Len(dns.inflight) /\ dns.nWaiting = Len(dns.waiting)
                      /\ dns.good = Cardinality(dns.up) /\ dns.up \subseteq ToSet(dns.ring)
    BY DEF CountersExact
  <2>1. Base(dns, {})
    BY AliveFacts
  <2>2. Ring(dns) = ToSet(dns.ring)
    BY <2>1, FlightFacts DEF Ring, Elements, ToSet
  <2> QED
    BY <2>1, <2>2 DEF Base, ServersOK
<1> QED
  BY <1>1, DnsInvariant, PTL

\* No assertion fails and nothing is sent without a server or an id.
THEOREM NeverAbortsHolds ==
  ASSUME Careful
  PROVE  Spec => []NeverAborts
<1>1. DnsInv => NeverAborts
  BY DEF DnsInv, NeverAborts
<1> QED
  BY <1>1, DnsInvariant, PTL

\* The places of a list that carry x, and All.
LEMMA AllFacts ==
  ASSUME Base(dns, {})
  PROVE  /\ All = Listed(dns) /\ DOMAIN All = 1 .. Len(All) /\ Len(All) \in Nat
         /\ \A p \in 1 .. Len(All) : All[p] \in Requests
<1>1. All = Listed(dns)
  BY DEF All, Listed
<1>2. /\ Listed(dns) \in Seq(Requests)
      /\ \A p \in 1 .. Len(Listed(dns)) : Listed(dns)[p] \in Requests
  BY ListedFacts
<1> HIDE DEF All
<1>3. DOMAIN All = 1 .. Len(All) /\ Len(All) \in Nat
  BY <1>1, <1>2
<1> QED
  BY <1>1, <1>2, <1>3

\* A server that is down has a timer or a probe under way; no other has one.
THEOREM DownServersProbedHolds ==
  ASSUME Careful
  PROVE  Spec => []DownServersProbed
<1>1. DnsInv => DownServersProbed
  <2> SUFFICES ASSUME DnsInv, Alive
               PROVE  /\ \A n \in ToSet(dns.ring) \ dns.up :
                           n \in dns.timer \/ \E i \in DOMAIN All : All[i].who = n
                      /\ dns.timer \subseteq ToSet(dns.ring) \ dns.up
    BY DEF DownServersProbed
  <2>1. Base(dns, {}) /\ Resolver(dns, {}, 0, {})
    BY AliveFacts
  <2>2. Ring(dns) = ToSet(dns.ring)
    BY <2>1, FlightFacts DEF Ring, Elements, ToSet
  <2>3. All = Listed(dns) /\ DOMAIN All = 1 .. Len(All)
    BY <2>1, AllFacts
  <2>4. ASSUME NEW n \in Unwatched(dns) PROVE \E i \in DOMAIN All : All[i].who = n
    <3>1. Carries(Listed(dns), 0, n)
      BY <2>1, <2>4 DEF Resolver, Live
    <3> QED
      BY <2>3, <3>1 DEF Carries
  <2>5. dns.timer \subseteq Ring(dns) \ dns.up
    BY <2>1 DEF Base, ServersOK
  <2> QED
    BY <2>2, <2>4, <2>5 DEF Unwatched
<1> QED
  BY <1>1, DnsInvariant, PTL

\* A request in flight has a timer, or is marked while some socket is waited for.
THEOREM SendingContinuesHolds ==
  ASSUME Careful
  PROVE  Spec => []SendingContinues
<1>1. DnsInv => SendingContinues
  <2> SUFFICES ASSUME DnsInv, Alive, NEW i \in DOMAIN dns.inflight
               PROVE  \/ dns.inflight[i].timer
                      \/ dns.inflight[i].transmit /\ dns.writing # {}
    BY DEF SendingContinues
  <2>1. Base(dns, {})
    BY AliveFacts
  <2>2. i \in 1 .. Len(dns.inflight)
    BY <2>1, FlightFacts
  <2> QED
    BY <2>1, <2>2 DEF Base, FlightOK, Going
<1> QED
  BY <1>1, DnsInvariant, PTL

\* The query user code waits for is carried by exactly one request.
THEOREM OneRequestPerQueryHolds ==
  ASSUME Careful
  PROVE  Spec => []OneRequestPerQuery
<1>1. DnsInv => OneRequestPerQuery
  <2> SUFFICES ASSUME DnsInv, Alive, NEW q \in Queries
               PROVE  /\ dns.pending[q] \in {0, 1}
                      /\ Cardinality({i \in DOMAIN All : All[i].who = q}) = dns.pending[q]
    BY DEF OneRequestPerQuery
  <2> DEFINE P == {i \in DOMAIN All : All[i].who = q}
  <2>1. Base(dns, {}) /\ Live(All, 0, {}, dns.pending, Unwatched(dns))
    BY AliveFacts, AllFacts DEF Resolver
  <2>2. DOMAIN All = 1 .. Len(All) /\ Len(All) \in Nat
    BY <2>1, AllFacts
  <2>3. dns.pending[q] \in {0, 1} /\ (Carries(All, 0, q) <=> dns.pending[q] = 1)
    BY <2>1 DEF Live
  <2>4. Carries(All, 0, q) <=> P # {}
    BY <2>2 DEF Carries
  <2>5. \A p, r \in P : p = r
    BY <2>1, <2>2 DEF Live
  <2>6. CASE P = {}
    BY <2>3, <2>4, <2>6, FS_EmptySet
  <2>7. CASE P # {}
    <3>1. PICK p \in P : P = {p}
      BY <2>5, <2>7
    <3>2. Cardinality({p}) = 1
      BY FS_Singleton
    <3> HIDE DEF P
    <3> QED
      BY <2>3, <2>4, <2>7, <3>1, <3>2 DEF P
  <2> QED
    BY <2>6, <2>7
<1> QED
  BY <1>1, DnsInvariant, PTL

\* A search still tries what is left of the list it began with.
THEOREM SearchesEveryNameHolds ==
  ASSUME Careful
  PROVE  Spec => []SearchesEveryName
<1>1. DnsInv => SearchesEveryName
  <2> SUFFICES ASSUME DnsInv, Alive, NEW i \in DOMAIN All, All[i].who \in Queries
               PROVE  Remaining(All[i]) = dns.left[All[i].who]
    BY DEF SearchesEveryName
  <2>1. Base(dns, {}) /\ Tracked(All, 0, dns.states, dns.search, dns.left)
    BY AliveFacts, AllFacts DEF Resolver
  <2>2. i \in 1 .. Len(All) /\ i # 0
    BY <2>1, AllFacts
  <2>3. Tries(All[i], dns.states) = dns.left[All[i].who]
    BY <2>1, <2>2 DEF Tracked
  <2>4. Remaining(All[i]) = Tries(All[i], dns.states)
    BY DEF Remaining, Tries
  <2> QED
    BY <2>3, <2>4
<1> QED
  BY <1>1, DnsInvariant, PTL
=============================================================================
