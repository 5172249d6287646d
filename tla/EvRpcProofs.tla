----------------------------- MODULE EvRpcProofs -----------------------------
(***************************************************************************)
(* The pool of evrpc.c never loses track of an RPC and gives none the      *)
(* reply to another, for any RPCs and connections, timeouts, hooks that    *)
(* abort and callbacks that make more RPCs.                                *)
(***************************************************************************)
EXTENDS EvRpc, FiniteSetTheorems, WellFoundedInduction, TLAPS

\* The fields of the record.
Shape(s) ==
  DOMAIN s = {"connections", "requests", "timeout", "con", "timer", "evcon", "where",
              "server", "reply", "out", "again"}

Connection == [state : {"down", "connecting", "up", "dead"}, requests : Seq(Rpcs)]
Message == [on : Conns, of : Rpcs, at : {"sent", "user", "reply", "error"}, live : BOOLEAN]

Among(x, q) == \E i \in 1 .. Len(q) : q[i] = x

\* Who has an RPC.  A connection carries at most one, because only an idle one
\* is chosen.  The RPCs in limbo are those a handler has taken from the queue or
\* a connection and has not yet freed or sent: no list has them, no timer is
\* pending, and their names are in use.
Owned(con, requests, where, evcon, timer, limbo) ==
  /\ con \in [Conns -> Connection] /\ requests \in Seq(Rpcs)
  /\ where \in [Rpcs -> {"none", "queued", "sent"}] /\ evcon \in [Rpcs -> Conns \cup {Null}]
  /\ timer \in SUBSET Rpcs /\ limbo \in SUBSET Rpcs
  /\ \A i, j \in 1 .. Len(requests) : requests[i] = requests[j] => i = j
  /\ \A c \in Conns : con[c].requests # <<>> =>
       \E x \in Rpcs \ limbo : con[c].requests = <<x>> /\ where[x] = "sent" /\ evcon[x] = c
  /\ \A x \in Rpcs \ limbo :
       /\ where[x] = "sent" => evcon[x] \in Conns /\ con[evcon[x]].requests = <<x>>
       /\ Among(x, requests) <=> where[x] = "queued"
  /\ \A x \in limbo : ~Among(x, requests) /\ where[x] # "none" /\ x \notin timer
  /\ \A x \in timer : where[x] = "sent"

\* What is on its way.  An answer that can still be read is to the request its
\* connection carries, and there is one such message for a connection.  Only
\* connections of the pool are used.
Wired(con, connections, server) ==
  /\ connections \in Seq(Conns) /\ server \in SUBSET Message
  /\ \A c \in Conns : con[c] # NoConnection => Among(c, connections)
  /\ \A m \in server : m.live => con[m.on].state = "up" /\ con[m.on].requests = <<m.of>>
  /\ \A m, k \in server : m.live /\ k.live /\ m.on = k.on => m = k

\* The pool while a handler runs that does not bring the connections of idle up.
Pool(s, limbo, idle) ==
  /\ Shape(s)
  /\ Owned(s.con, s.requests, s.where, s.evcon, s.timer, limbo)
  /\ Wired(s.con, s.connections, s.server)
  /\ s.out \in Seq(Outcomes) /\ s.again \in Rpcs \cup {Null}
  /\ s.reply[1] = s.reply[2]
  /\ idle \in SUBSET Conns /\ \A c \in idle : s.con[c].state # "up"

RpcInv == Pool(rpc, {}, {})

-----------------------------------------------------------------------------
(* Sequences and least elements.                                           *)

\* Tail and Append, position by position.
LEMMA TailFacts ==
  ASSUME NEW q \in Seq(Rpcs), q # <<>>
  PROVE  /\ Head(q) \in Rpcs /\ Head(q) = q[1] /\ Len(q) \in Nat /\ Len(q) > 0
         /\ Tail(q) \in Seq(Rpcs) /\ Len(Tail(q)) = Len(q) - 1
         /\ \A i \in 1 .. Len(q) - 1 : Tail(q)[i] = q[i + 1]
  OBVIOUS

LEMMA AppendFacts ==
  ASSUME NEW S, NEW q \in Seq(S), NEW x \in S
  PROVE  /\ Append(q, x) \in Seq(S) /\ Len(q) \in Nat
         /\ Len(Append(q, x)) = Len(q) + 1
         /\ \A i \in 1 .. Len(q) : Append(q, x)[i] = q[i]
         /\ Append(q, x)[Len(q) + 1] = x
  OBVIOUS

\* A queue of one.
LEMMA SingleFacts ==
  ASSUME NEW x \in Rpcs
  PROVE  /\ <<x>> \in Seq(Rpcs) /\ <<x>> # <<>> /\ Head(<<x>>) = x /\ Tail(<<x>>) = <<>>
         /\ Append(<<>>, x) = <<x>> /\ <<>> \in Seq(Rpcs) /\ DOMAIN <<x>> = 1 .. 1
         /\ <<x>>[1] = x
  OBVIOUS

\* A set of natural numbers has a least element.
LEMMA LeastExists ==
  ASSUME NEW P \in SUBSET Nat, P # {}
  PROVE  \E m \in P : \A k \in P : m <= k
<1>1. PICK m \in P : \A k \in P : <<k, m>> \notin OpToRel(<, Nat)
  BY WFMin, NatLessThanWellFounded, Zenon
<1>2. \A k \in P : ~(k < m)
  BY <1>1, Zenon DEF OpToRel
<1> QED
  BY <1>2

-----------------------------------------------------------------------------
(* Who has an RPC.                                                         *)

\* An RPC in limbo is freed.
LEMMA FreeOwned ==
  ASSUME NEW con, NEW requests, NEW where, NEW evcon, NEW timer, NEW limbo,
         Owned(con, requests, where, evcon, timer, limbo), NEW x \in limbo
  PROVE  Owned(con, requests, [where EXCEPT ![x] = "none"], [evcon EXCEPT ![x] = Null],
               timer, limbo \ {x})
<1> DEFINE w == [where EXCEPT ![x] = "none"]
           e == [evcon EXCEPT ![x] = Null]
<1>1. x \in Rpcs /\ x \notin timer /\ ~Among(x, requests)
  BY DEF Owned
<1>2. /\ w \in [Rpcs -> {"none", "queued", "sent"}] /\ e \in [Rpcs -> Conns \cup {Null}]
      /\ w[x] = "none" /\ \A y \in Rpcs \ {x} : w[y] = where[y] /\ e[y] = evcon[y]
  BY <1>1 DEF Owned
<1> HIDE DEF w, e
<1>3. \A c \in Conns : con[c].requests # <<>> =>
        \E y \in Rpcs \ (limbo \ {x}) : con[c].requests = <<y>> /\ w[y] = "sent" /\ e[y] = c
  <2> SUFFICES ASSUME NEW c \in Conns, con[c].requests # <<>>
               PROVE  \E y \in Rpcs \ (limbo \ {x}) :
                        con[c].requests = <<y>> /\ w[y] = "sent" /\ e[y] = c
    OBVIOUS
  <2>1. PICK y \in Rpcs \ limbo : con[c].requests = <<y>> /\ where[y] = "sent" /\ evcon[y] = c
    BY DEF Owned
  <2>2. y # x
    OBVIOUS
  <2> QED
    BY <1>2, <2>1, <2>2
<1>4. \A y \in Rpcs \ (limbo \ {x}) :
        /\ w[y] = "sent" => e[y] \in Conns /\ con[e[y]].requests = <<y>>
        /\ Among(y, requests) <=> w[y] = "queued"
  BY <1>1, <1>2 DEF Owned
<1>5. \A y \in limbo \ {x} : ~Among(y, requests) /\ w[y] # "none" /\ y \notin timer
  BY <1>2 DEF Owned
<1>6. \A y \in timer : w[y] = "sent"
  BY <1>1, <1>2 DEF Owned
<1>7. Owned(con, requests, w, e, timer, limbo \ {x})
  BY <1>2, <1>3, <1>4, <1>5, <1>6 DEF Owned
<1> QED
  BY <1>7 DEF w, e

\* An RPC whose name is not in use joins the queue of the pool.
LEMMA EnqueueOwned ==
  ASSUME NEW con, NEW requests, NEW where, NEW evcon, NEW timer, NEW limbo,
         Owned(con, requests, where, evcon, timer, limbo), NEW x \in Rpcs, where[x] = "none"
  PROVE  Owned(con, Append(requests, x), [where EXCEPT ![x] = "queued"], evcon, timer, limbo)
<1> DEFINE w == [where EXCEPT ![x] = "queued"]
           a == Append(requests, x)
<1>1. /\ a \in Seq(Rpcs) /\ Len(requests) \in Nat /\ Len(a) = Len(requests) + 1
      /\ \A i \in 1 .. Len(requests) : a[i] = requests[i]
      /\ a[Len(requests) + 1] = x
  BY AppendFacts DEF Owned
<1>2. x \notin limbo /\ x \notin timer /\ ~Among(x, requests)
  BY DEF Owned
<1>3. /\ w \in [Rpcs -> {"none", "queued", "sent"}]
      /\ w[x] = "queued" /\ \A y \in Rpcs \ {x} : w[y] = where[y]
  BY DEF Owned
<1> HIDE DEF w, a
<1>4. \A i, j \in 1 .. Len(a) : a[i] = a[j] => i = j
  <2>1. \A i \in 1 .. Len(requests) : requests[i] # x
    BY <1>2 DEF Among
  <2>2. \A i, j \in 1 .. Len(requests) : requests[i] = requests[j] => i = j
    BY DEF Owned
  <2> QED
    BY <1>1, <2>1, <2>2
<1>5. \A y \in Rpcs : Among(y, a) <=> y = x \/ Among(y, requests)
  <2> SUFFICES ASSUME NEW y \in Rpcs PROVE Among(y, a) <=> y = x \/ Among(y, requests)
    OBVIOUS
  <2>1. y = x => Among(y, a)
    <3>1. Len(requests) + 1 \in 1 .. Len(a)
      BY <1>1
    <3> QED
      BY <1>1, <3>1 DEF Among
  <2>2. Among(y, requests) => Among(y, a)
    <3>1. \A i \in 1 .. Len(requests) : i \in 1 .. Len(a)
      BY <1>1
    <3> QED
      BY <1>1, <3>1 DEF Among
  <2>3. Among(y, a) => y = x \/ Among(y, requests)
    <3>1. \A i \in 1 .. Len(a) : i = Len(requests) + 1 \/ i \in 1 .. Len(requests)
      BY <1>1
    <3> QED
      BY <1>1, <3>1 DEF Among
  <2> QED
    BY <2>1, <2>2, <2>3
<1>6. \A c \in Conns : con[c].requests # <<>> =>
        \E y \in Rpcs \ limbo : con[c].requests = <<y>> /\ w[y] = "sent" /\ evcon[y] = c
  BY <1>3 DEF Owned
<1>7. \A y \in Rpcs \ limbo :
        /\ w[y] = "sent" => evcon[y] \in Conns /\ con[evcon[y]].requests = <<y>>
        /\ Among(y, a) <=> w[y] = "queued"
  BY <1>3, <1>5 DEF Owned
<1>8. \A y \in limbo : ~Among(y, a) /\ w[y] # "none" /\ y \notin timer
  BY <1>2, <1>3, <1>5 DEF Owned
<1>9. \A y \in timer : w[y] = "sent"
  BY <1>2, <1>3 DEF Owned
<1>10. Owned(con, a, w, evcon, timer, limbo)
  BY <1>1, <1>3, <1>4, <1>6, <1>7, <1>8, <1>9 DEF Owned
<1> QED
  BY <1>10 DEF w, a

\* The first RPC of the queue is taken off it.
LEMMA PopOwned ==
  ASSUME NEW con, NEW requests, NEW where, NEW evcon, NEW timer, NEW limbo,
         Owned(con, requests, where, evcon, timer, limbo), requests # <<>>
  PROVE  /\ Head(requests) \in Rpcs \ limbo
         /\ Owned(con, Tail(requests), where, evcon, timer, limbo \cup {Head(requests)})
<1> DEFINE x == Head(requests)
           t == Tail(requests)
<1>1. /\ x \in Rpcs /\ x = requests[1] /\ Len(requests) \in Nat /\ Len(requests) > 0
      /\ t \in Seq(Rpcs) /\ Len(t) = Len(requests) - 1
      /\ \A i \in 1 .. Len(requests) - 1 : t[i] = requests[i + 1]
  BY TailFacts DEF Owned
<1>2. \A i, j \in 1 .. Len(requests) : requests[i] = requests[j] => i = j
  BY DEF Owned
<1> HIDE DEF x, t
<1>3. Among(x, requests)
  BY <1>1 DEF Among
<1>4. x \notin limbo /\ where[x] = "queued" /\ x \notin timer
  BY <1>1, <1>3 DEF Owned
<1>5. \A i, j \in 1 .. Len(t) : t[i] = t[j] => i = j
  <2> SUFFICES ASSUME NEW i \in 1 .. Len(t), NEW j \in 1 .. Len(t), t[i] = t[j] PROVE i = j
    OBVIOUS
  <2>1. i + 1 \in 1 .. Len(requests) /\ j + 1 \in 1 .. Len(requests)
        /\ requests[i + 1] = requests[j + 1]
    BY <1>1
  <2>2. i + 1 = j + 1
    BY <1>2, <2>1
  <2> QED
    BY <1>1, <2>2
<1>6. ~Among(x, t)
  <2> SUFFICES ASSUME NEW i \in 1 .. Len(t), t[i] = x PROVE FALSE
    BY DEF Among
  <2>1. i + 1 \in 1 .. Len(requests) /\ 1 \in 1 .. Len(requests)
        /\ requests[i + 1] = requests[1]
    BY <1>1
  <2>2. i + 1 = 1
    BY <1>2, <2>1
  <2> QED
    BY <1>1, <2>2
<1>7. \A y \in Rpcs \ {x} : Among(y, t) <=> Among(y, requests)
  <2> SUFFICES ASSUME NEW y \in Rpcs \ {x} PROVE Among(y, t) <=> Among(y, requests)
    OBVIOUS
  <2>1. ASSUME NEW i \in 1 .. Len(requests), requests[i] = y PROVE Among(y, t)
    <3>1. i # 1
      BY <1>1, <2>1
    <3>2. i - 1 \in 1 .. Len(t) /\ (i - 1) + 1 = i
      BY <1>1, <3>1
    <3>3. t[i - 1] = y
      BY <1>1, <2>1, <3>2
    <3> QED
      BY <3>2, <3>3 DEF Among
  <2>2. ASSUME NEW i \in 1 .. Len(t), t[i] = y PROVE Among(y, requests)
    <3>1. i + 1 \in 1 .. Len(requests) /\ requests[i + 1] = y
      BY <1>1, <2>2
    <3> QED
      BY <3>1 DEF Among
  <2> QED
    BY <2>1, <2>2 DEF Among
<1>8. \A c \in Conns : con[c].requests # <<>> =>
        \E y \in Rpcs \ (limbo \cup {x}) :
          con[c].requests = <<y>> /\ where[y] = "sent" /\ evcon[y] = c
  <2> SUFFICES ASSUME NEW c \in Conns, con[c].requests # <<>>
               PROVE  \E y \in Rpcs \ (limbo \cup {x}) :
                        con[c].requests = <<y>> /\ where[y] = "sent" /\ evcon[y] = c
    OBVIOUS
  <2>1. PICK y \in Rpcs \ limbo : con[c].requests = <<y>> /\ where[y] = "sent" /\ evcon[y] = c
    BY DEF Owned
  <2>2. y # x
    BY <1>4, <2>1
  <2> QED
    BY <2>1, <2>2
<1>9. \A y \in Rpcs \ (limbo \cup {x}) :
        /\ where[y] = "sent" => evcon[y] \in Conns /\ con[evcon[y]].requests = <<y>>
        /\ Among(y, t) <=> where[y] = "queued"
  BY <1>7 DEF Owned
<1>10. \A y \in limbo \cup {x} : ~Among(y, t) /\ where[y] # "none" /\ y \notin timer
  BY <1>4, <1>6, <1>7 DEF Owned
<1>11. Owned(con, t, where, evcon, timer, limbo \cup {x})
  BY <1>1, <1>5, <1>8, <1>9, <1>10 DEF Owned
<1> QED
  BY <1>1, <1>4, <1>11 DEF x, t

\* An RPC in limbo is told the connection it is going to be sent on.
LEMMA KnowsOwned ==
  ASSUME NEW con, NEW requests, NEW where, NEW evcon, NEW timer, NEW limbo,
         Owned(con, requests, where, evcon, timer, limbo), NEW x \in limbo, NEW c \in Conns
  PROVE  Owned(con, requests, where, [evcon EXCEPT ![x] = c], timer, limbo)
<1> DEFINE e == [evcon EXCEPT ![x] = c]
<1>1. e \in [Rpcs -> Conns \cup {Null}] /\ \A y \in Rpcs \ limbo : e[y] = evcon[y]
  BY DEF Owned
<1> HIDE DEF e
<1>2. Owned(con, requests, where, e, timer, limbo)
  BY <1>1 DEF Owned
<1> QED
  BY <1>2 DEF e

\* The connections but for one carry what they did.
Elsewhere(con, now, c) ==
  /\ now \in [Conns -> Connection]
  /\ \A d \in Conns \ {c} : now[d].requests = con[d].requests

\* An RPC in limbo can be sent on the idle connection it knows.
CanSend(con, requests, where, evcon, timer, limbo, x, c, now, t) ==
  /\ Owned(con, requests, where, evcon, timer, limbo)
  /\ x \in limbo /\ c \in Conns /\ evcon[x] = c /\ con[c].requests = <<>>
  /\ Elsewhere(con, now, c) /\ now[c].requests = <<x>>
  /\ t \in {timer, timer \cup {x}}

\* It is sent, with or without a timer.
LEMMA SendOwned ==
  ASSUME NEW con, NEW requests, NEW where, NEW evcon, NEW timer, NEW limbo, NEW x, NEW c,
         NEW now, NEW t, CanSend(con, requests, where, evcon, timer, limbo, x, c, now, t)
  PROVE  Owned(now, requests, [where EXCEPT ![x] = "sent"], evcon, t, limbo \ {x})
<1> USE DEF CanSend
<1> DEFINE w == [where EXCEPT ![x] = "sent"]
<1>1. x \in Rpcs /\ ~Among(x, requests) /\ x \notin timer
  BY DEF Owned
<1>2. /\ w \in [Rpcs -> {"none", "queued", "sent"}]
      /\ w[x] = "sent" /\ \A y \in Rpcs \ {x} : w[y] = where[y]
  BY <1>1 DEF Owned
<1> HIDE DEF w
<1>3. \A d \in Conns : now[d].requests # <<>> =>
        \E y \in Rpcs \ (limbo \ {x}) : now[d].requests = <<y>> /\ w[y] = "sent" /\ evcon[y] = d
  <2> SUFFICES ASSUME NEW d \in Conns, now[d].requests # <<>>
               PROVE  \E y \in Rpcs \ (limbo \ {x}) :
                        now[d].requests = <<y>> /\ w[y] = "sent" /\ evcon[y] = d
    OBVIOUS
  <2>1. CASE d = c
    BY <1>1, <1>2, <2>1
  <2>2. CASE d # c
    <3>1. con[d].requests = now[d].requests
      BY <2>2 DEF Elsewhere
    <3>2. PICK y \in Rpcs \ limbo : con[d].requests = <<y>> /\ where[y] = "sent" /\ evcon[y] = d
      BY <3>1 DEF Owned
    <3>3. y # x
      OBVIOUS
    <3> QED
      BY <1>2, <3>1, <3>2, <3>3
  <2> QED
    BY <2>1, <2>2
<1>4. \A y \in Rpcs \ (limbo \ {x}) :
        /\ w[y] = "sent" => evcon[y] \in Conns /\ now[evcon[y]].requests = <<y>>
        /\ Among(y, requests) <=> w[y] = "queued"
  <2> SUFFICES ASSUME NEW y \in Rpcs \ (limbo \ {x})
               PROVE  /\ w[y] = "sent" => evcon[y] \in Conns /\ now[evcon[y]].requests = <<y>>
                      /\ Among(y, requests) <=> w[y] = "queued"
    OBVIOUS
  <2>1. CASE y = x
    BY <1>1, <1>2, <2>1
  <2>2. CASE y # x
    <3>1. w[y] = where[y] /\ y \in Rpcs \ limbo
      BY <1>2, <2>2
    <3>2. Among(y, requests) <=> w[y] = "queued"
      BY <3>1 DEF Owned
    <3>3. ASSUME w[y] = "sent" PROVE evcon[y] \in Conns /\ now[evcon[y]].requests = <<y>>
      <4>1. evcon[y] \in Conns /\ con[evcon[y]].requests = <<y>>
        BY <3>1, <3>3 DEF Owned
      <4>2. evcon[y] # c
        BY <4>1
      <4> QED
        BY <4>1, <4>2 DEF Elsewhere
    <3> QED
      BY <3>2, <3>3
  <2> QED
    BY <2>1, <2>2
<1>5. \A y \in limbo \ {x} : ~Among(y, requests) /\ w[y] # "none" /\ y \notin t
  BY <1>2 DEF Owned
<1>6. \A y \in t : w[y] = "sent"
  BY <1>1, <1>2 DEF Owned
<1>7. t \in SUBSET Rpcs
  BY <1>1 DEF Owned
<1>8. now \in [Conns -> Connection]
  BY DEF Elsewhere
<1>9. Owned(now, requests, w, evcon, t, limbo \ {x})
  BY <1>2, <1>3, <1>4, <1>5, <1>6, <1>7, <1>8 DEF Owned
<1> QED
  BY <1>9 DEF w

\* The RPC a connection carries is taken off it, and its timer is deleted.
LEMMA DropOwned ==
  ASSUME NEW con, NEW requests, NEW where, NEW evcon, NEW timer,
         Owned(con, requests, where, evcon, timer, {}), NEW c \in Conns,
         NEW x, con[c].requests = <<x>>, x \in Rpcs,
         NEW now, Elsewhere(con, now, c), now[c].requests = <<>>
  PROVE  Owned(now, requests, where, evcon, timer \ {x}, {x})
<1>1. <<x>> # <<>>
  BY SingleFacts
<1>2. where[x] = "sent" /\ evcon[x] = c
  <2>1. PICK y \in Rpcs : con[c].requests = <<y>> /\ where[y] = "sent" /\ evcon[y] = c
    BY <1>1 DEF Owned
  <2>2. y = x
    BY <2>1
  <2> QED
    BY <2>1, <2>2
<1>3. ~Among(x, requests)
  BY <1>2 DEF Owned
<1>4. \A d \in Conns : now[d].requests # <<>> =>
        \E y \in Rpcs \ {x} : now[d].requests = <<y>> /\ where[y] = "sent" /\ evcon[y] = d
  <2> SUFFICES ASSUME NEW d \in Conns, now[d].requests # <<>>
               PROVE  \E y \in Rpcs \ {x} :
                        now[d].requests = <<y>> /\ where[y] = "sent" /\ evcon[y] = d
    OBVIOUS
  <2>1. d # c /\ con[d].requests = now[d].requests
    BY DEF Elsewhere
  <2>2. PICK y \in Rpcs : con[d].requests = <<y>> /\ where[y] = "sent" /\ evcon[y] = d
    BY <2>1 DEF Owned
  <2>3. y # x
    BY <1>2, <2>1, <2>2
  <2> QED
    BY <2>1, <2>2, <2>3
<1>5. \A y \in Rpcs \ {x} :
        /\ where[y] = "sent" => evcon[y] \in Conns /\ now[evcon[y]].requests = <<y>>
        /\ Among(y, requests) <=> where[y] = "queued"
  <2> SUFFICES ASSUME NEW y \in Rpcs \ {x}
               PROVE  /\ where[y] = "sent" => evcon[y] \in Conns /\ now[evcon[y]].requests = <<y>>
                      /\ Among(y, requests) <=> where[y] = "queued"
    OBVIOUS
  <2>1. Among(y, requests) <=> where[y] = "queued"
    BY DEF Owned
  <2>2. ASSUME where[y] = "sent" PROVE evcon[y] \in Conns /\ now[evcon[y]].requests = <<y>>
    <3>1. evcon[y] \in Conns /\ con[evcon[y]].requests = <<y>>
      BY <2>2 DEF Owned
    <3>2. evcon[y] # c
      BY <3>1
    <3> QED
      BY <3>1, <3>2 DEF Elsewhere
  <2> QED
    BY <2>1, <2>2
<1>6. /\ timer \ {x} \in SUBSET Rpcs /\ {x} \in SUBSET Rpcs
      /\ \A y \in timer \ {x} : where[y] = "sent"
  BY DEF Owned
<1>7. \A y \in {x} : ~Among(y, requests) /\ where[y] # "none" /\ y \notin timer \ {x}
  BY <1>2, <1>3
<1>8. now \in [Conns -> Connection]
  BY DEF Elsewhere
<1> QED
  BY <1>4, <1>5, <1>6, <1>7, <1>8 DEF Owned

-----------------------------------------------------------------------------
(* What is on its way.                                                     *)

\* Only connection c changes; it is one of the pool, or as it was made.
Only(con, now, connections, c) ==
  /\ now \in [Conns -> Connection]
  /\ \A d \in Conns \ {c} : now[d] = con[d]
  /\ now[c] # NoConnection => Among(c, connections)

\* What can still be read was there before, and on other connections.
NotOn(server, left, c) ==
  left \in SUBSET Message /\ \A m \in left : m.live => m \in server /\ m.on # c

Request(c, x) == [on |-> c, of |-> x, at |-> "sent", live |-> TRUE]

\* One connection changes, nobody waits on it any more, and it may send.
LEMMA WiredChange ==
  ASSUME NEW con, NEW connections, NEW server, Wired(con, connections, server),
         NEW now, NEW left, NEW new, NEW c \in Conns, NEW x \in Rpcs,
         Only(con, now, connections, c), NotOn(server, left, c),
         \/ new = {}
         \/ new = {Request(c, x)} /\ now[c].state = "up" /\ now[c].requests = <<x>>
  PROVE  Wired(now, connections, left \cup new)
<1>1. left \cup new \in SUBSET Message
  <2>1. Request(c, x) \in Message
    BY DEF Request, Message
  <2> QED
    BY <2>1 DEF NotOn
<1>2. \A m \in new : m.on = c /\ m.of = x
  BY DEF Request
<1>3. \A m \in left \cup new : m.live =>
        now[m.on].state = "up" /\ now[m.on].requests = <<m.of>>
  <2> SUFFICES ASSUME NEW m \in left \cup new, m.live
               PROVE  now[m.on].state = "up" /\ now[m.on].requests = <<m.of>>
    OBVIOUS
  <2>1. CASE m \in new
    BY <1>2, <2>1
  <2>2. CASE m \in left
    <3>1. m \in server /\ m.on # c /\ m.on \in Conns
      BY <2>2 DEF NotOn, Message
    <3>2. con[m.on].state = "up" /\ con[m.on].requests = <<m.of>>
      BY <3>1 DEF Wired
    <3>3. now[m.on] = con[m.on]
      BY <3>1 DEF Only
    <3> QED
      BY <3>2, <3>3
  <2> QED
    BY <2>1, <2>2
<1>4. \A m, k \in left \cup new : m.live /\ k.live /\ m.on = k.on => m = k
  <2> SUFFICES ASSUME NEW m \in left \cup new, NEW k \in left \cup new,
                      m.live, k.live, m.on = k.on
               PROVE  m = k
    OBVIOUS
  <2>1. CASE m.on = c
    <3>1. m \in new /\ k \in new
      BY <2>1 DEF NotOn
    <3> QED
      BY <3>1
  <2>2. CASE m.on # c
    <3>1. m \in server /\ k \in server
      BY <1>2, <2>2 DEF NotOn
    <3> QED
      BY <3>1 DEF Wired
  <2> QED
    BY <2>1, <2>2
<1>5. \A d \in Conns : now[d] # NoConnection => Among(d, connections)
  BY DEF Only, Wired
<1> QED
  BY <1>1, <1>3, <1>4, <1>5 DEF Wired

\* Nobody waits on a connection that is idle or not up.
LEMMA IdleNotOn ==
  ASSUME NEW con, NEW connections, NEW server, Wired(con, connections, server),
         NEW c \in Conns, con[c].state # "up" \/ con[c].requests = <<>>
  PROVE  NotOn(server, server, c)
<1> SUFFICES ASSUME NEW m \in server, m.live PROVE m.on # c
  BY DEF Wired, NotOn
<1>1. con[m.on].state = "up" /\ con[m.on].requests = <<m.of>> /\ m.of \in Rpcs
  BY DEF Wired, Message
<1>2. <<m.of>> # <<>>
  BY <1>1, SingleFacts
<1> QED
  BY <1>1, <1>2

\* evhttp_connection_reset: the messages of a connection that is cut off.
CutOff(server, c) ==
  {IF m.on = c THEN [m EXCEPT !.live = FALSE] ELSE m :
     m \in {k \in server : k.on # c \/ k.at \in {"sent", "user"}}}

LEMMA CutNotOn ==
  ASSUME NEW server \in SUBSET Message, NEW c \in Conns
  PROVE  NotOn(server, CutOff(server, c), c)
<1> SUFFICES ASSUME NEW n \in CutOff(server, c)
             PROVE  n \in Message /\ (n.live => n \in server /\ n.on # c)
  BY DEF NotOn
<1>1. PICK m \in server : n = IF m.on = c THEN [m EXCEPT !.live = FALSE] ELSE m
  BY DEF CutOff
<1>2. m \in Message
  BY <1>1
<1>3. CASE m.on = c
  <2>1. n = [m EXCEPT !.live = FALSE]
    BY <1>1, <1>3
  <2>2. n \in Message /\ n.live = FALSE
    BY <1>2, <2>1 DEF Message
  <2> QED
    BY <2>2
<1>4. CASE m.on # c
  BY <1>1, <1>2, <1>4
<1> QED
  BY <1>3, <1>4

\* Once the one answer on a connection has been read, nobody waits on it.
LEMMA ReadNotOn ==
  ASSUME NEW con, NEW connections, NEW server, Wired(con, connections, server),
         NEW m \in server, m.live
  PROVE  NotOn(server, server \ {m}, m.on)
  BY DEF NotOn, Wired

-----------------------------------------------------------------------------
(* The functions of the connections.                                       *)

\* Fields other than the connections and what is on its way.
SameRest(s, t) ==
  /\ Shape(t)
  /\ t.connections = s.connections /\ t.requests = s.requests /\ t.timeout = s.timeout
  /\ t.timer = s.timer /\ t.evcon = s.evcon /\ t.where = s.where
  /\ t.reply = s.reply /\ t.out = s.out /\ t.again = s.again

\* A connection's queue, and its state, replaced.
WithQueue(con, c, q) == [con EXCEPT ![c].requests = q]
WithState(con, c, st) == [con EXCEPT ![c].state = st]

LEMMA QueueFacts ==
  ASSUME NEW con \in [Conns -> Connection], NEW c \in Conns, NEW q \in Seq(Rpcs)
  PROVE  /\ WithQueue(con, c, q) \in [Conns -> Connection]
         /\ WithQueue(con, c, q)[c].requests = q
         /\ WithQueue(con, c, q)[c].state = con[c].state
         /\ \A d \in Conns \ {c} : WithQueue(con, c, q)[d] = con[d]
  BY DEF Connection, WithQueue

LEMMA StateFacts ==
  ASSUME NEW con \in [Conns -> Connection], NEW c \in Conns,
         NEW st \in {"down", "connecting", "up", "dead"}
  PROVE  /\ WithState(con, c, st) \in [Conns -> Connection]
         /\ WithState(con, c, st)[c].requests = con[c].requests
         /\ WithState(con, c, st)[c].state = st
         /\ \A d \in Conns \ {c} : WithState(con, c, st)[d] = con[d]
  BY DEF Connection, WithState

\* evhttp_request_dispatch sends the first request of a connection that is up.
LEMMA DispatchFacts ==
  ASSUME NEW s, Shape(s), NEW c
  PROVE  LET t == evhttp_request_dispatch(s, c)
         IN  /\ SameRest(s, t) /\ t.con = s.con
             /\ t.server = s.server \cup
                  IF s.con[c].requests # <<>> /\ s.con[c].state = "up"
                  THEN {Request(c, Head(s.con[c].requests))} ELSE {}
  BY DEF evhttp_request_dispatch, Shape, SameRest, Request

\* evhttp_make_request on an idle connection.
LEMMA MakeFacts ==
  ASSUME NEW s, Shape(s), s.con \in [Conns -> Connection], NEW c \in Conns, NEW x \in Rpcs,
         s.con[c].requests = <<>>
  PROVE  LET t == evhttp_make_request(s, c, x)
         IN  /\ SameRest(s, t)
             /\ t.con \in [Conns -> Connection]
             /\ \A d \in Conns \ {c} : t.con[d] = s.con[d]
             /\ t.con[c].requests = <<x>>
             /\ t.con[c].state = "up" <=> s.con[c].state = "up"
             /\ t.server = s.server \cup
                  IF s.con[c].state = "up" THEN {Request(c, x)} ELSE {}
<1> DEFINE q == Append(s.con[c].requests, x)
           u == [s EXCEPT !.con[c].requests = q]
           k == WithQueue(s.con, c, q)
           t == evhttp_make_request(s, c, x)
<1>1. q = <<x>> /\ <<x>> \in Seq(Rpcs) /\ <<x>> # <<>> /\ Head(<<x>>) = x
  BY SingleFacts
<1>2. Shape(u) /\ u.con = k /\ SameRest(s, u) /\ u.server = s.server
  BY DEF Shape, SameRest, WithQueue
<1>3. /\ k \in [Conns -> Connection] /\ k[c].requests = <<x>> /\ k[c].state = s.con[c].state
      /\ \A d \in Conns \ {c} : k[d] = s.con[d]
  <2> HIDE DEF q
  <2>1. q \in Seq(Rpcs)
    BY <1>1
  <2>2. /\ k \in [Conns -> Connection] /\ k[c].requests = q /\ k[c].state = s.con[c].state
        /\ \A d \in Conns \ {c} : k[d] = s.con[d]
    BY <2>1, QueueFacts
  <2> HIDE DEF k
  <2> QED
    BY <1>1, <2>2
<1> HIDE DEF k
<1>4. CASE s.con[c].state = "down"
  <2> DEFINE v == [u EXCEPT !.con[c].state = "connecting"]
             n == WithState(k, c, "connecting")
  <2>1. t = v
    BY <1>4 DEF evhttp_make_request
  <2>2. v.con = n /\ SameRest(u, v) /\ v.server = s.server
    <3> HIDE DEF u
    <3> QED
      BY <1>2 DEF Shape, SameRest, WithState
  <2>3. /\ n \in [Conns -> Connection] /\ n[c].requests = <<x>> /\ n[c].state = "connecting"
        /\ \A d \in Conns \ {c} : n[d] = s.con[d]
    <3>1. /\ n \in [Conns -> Connection] /\ n[c].requests = k[c].requests
          /\ n[c].state = "connecting" /\ \A d \in Conns \ {c} : n[d] = k[d]
      BY <1>3, StateFacts
    <3> HIDE DEF n
    <3> QED
      BY <1>3, <3>1
  <2>4. SameRest(s, v)
    BY <1>2, <2>2 DEF SameRest
  <2> HIDE DEF n, v, u
  <2> QED
    BY <1>4, <2>1, <2>2, <2>3, <2>4
<1>5. CASE s.con[c].state # "down"
  <2>1. t = evhttp_request_dispatch(u, c)
    BY <1>5 DEF evhttp_make_request
  <2> HIDE DEF u
  <2> DEFINE v == evhttp_request_dispatch(u, c)
  <2>2. /\ SameRest(u, v) /\ v.con = k
        /\ v.server = s.server \cup IF s.con[c].state = "up" THEN {Request(c, x)} ELSE {}
    BY <1>1, <1>2, <1>3, DispatchFacts
  <2>3. SameRest(s, v)
    BY <1>2, <2>2 DEF SameRest
  <2> HIDE DEF v
  <2> QED
    BY <1>3, <2>1, <2>2, <2>3 DEF v
<1> QED
  BY <1>4, <1>5

\* evhttp_connection_reset.
LEMMA ResetFacts ==
  ASSUME NEW s, Shape(s), s.con \in [Conns -> Connection], NEW c \in Conns
  PROVE  LET t == evhttp_connection_reset(s, c)
         IN  /\ SameRest(s, t)
             /\ t.con \in [Conns -> Connection]
             /\ \A d \in Conns \ {c} : t.con[d] = s.con[d]
             /\ t.con[c].requests = s.con[c].requests /\ t.con[c].state = "down"
             /\ t.server = CutOff(s.server, c)
<1> DEFINE t == evhttp_connection_reset(s, c)
           k == WithState(s.con, c, "down")
<1>1. SameRest(s, t) /\ t.con = k /\ t.server = CutOff(s.server, c)
  BY DEF evhttp_connection_reset, Shape, SameRest, CutOff, WithState
<1>2. /\ k \in [Conns -> Connection] /\ k[c].requests = s.con[c].requests
      /\ k[c].state = "down" /\ \A d \in Conns \ {c} : k[d] = s.con[d]
  BY StateFacts
<1> HIDE DEF t, k
<1>3. /\ t.con \in [Conns -> Connection] /\ \A d \in Conns \ {c} : t.con[d] = s.con[d]
      /\ t.con[c].requests = s.con[c].requests /\ t.con[c].state = "down"
  BY <1>1, <1>2
<1> QED
  BY <1>1, <1>3 DEF t

-----------------------------------------------------------------------------
(* The pool.                                                               *)

\* evrpc_request_wrapper_free
LEMMA FreePool ==
  ASSUME NEW s, NEW limbo, NEW idle, Pool(s, limbo, idle), NEW x \in limbo
  PROVE  Pool(Free(s, x), limbo \ {x}, idle)
<1> DEFINE t == Free(s, x)
<1>1. /\ Shape(t) /\ t.con = s.con /\ t.requests = s.requests /\ t.timer = s.timer
      /\ t.connections = s.connections /\ t.server = s.server
      /\ t.out = s.out /\ t.again = s.again /\ t.reply = s.reply
      /\ t.where = [s.where EXCEPT ![x] = "none"] /\ t.evcon = [s.evcon EXCEPT ![x] = Null]
  BY DEF Free, Pool, Shape
<1>2. Owned(t.con, t.requests, t.where, t.evcon, t.timer, limbo \ {x})
  <2>1. Owned(s.con, s.requests, s.where, s.evcon, s.timer, limbo)
    BY DEF Pool
  <2>2. Owned(s.con, s.requests, [s.where EXCEPT ![x] = "none"], [s.evcon EXCEPT ![x] = Null],
              s.timer, limbo \ {x})
    BY <2>1, FreeOwned
  <2> HIDE DEF t
  <2> QED
    BY <1>1, <2>2
<1> HIDE DEF t
<1>3. Pool(t, limbo \ {x}, idle)
  BY <1>1, <1>2 DEF Pool
<1> QED
  BY <1>3 DEF t

\* evrpc_make_request puts the RPC on the queue.
LEMMA EnqueuePool ==
  ASSUME NEW s, NEW limbo, NEW idle, Pool(s, limbo, idle), NEW x \in Rpcs, s.where[x] = "none"
  PROVE  Pool(Enqueue(s, x), limbo, idle)
<1> DEFINE t == Enqueue(s, x)
<1>1. /\ Shape(t) /\ t.con = s.con /\ t.evcon = s.evcon /\ t.timer = s.timer
      /\ t.connections = s.connections /\ t.server = s.server
      /\ t.out = s.out /\ t.again = s.again /\ t.reply = s.reply
      /\ t.where = [s.where EXCEPT ![x] = "queued"] /\ t.requests = Append(s.requests, x)
  BY DEF Enqueue, Pool, Shape
<1>2. Owned(t.con, t.requests, t.where, t.evcon, t.timer, limbo)
  BY <1>1, EnqueueOwned DEF Pool
<1> HIDE DEF t
<1>3. Pool(t, limbo, idle)
  BY <1>1, <1>2 DEF Pool
<1> QED
  BY <1>3 DEF t

\* The first RPC of the queue is taken off it to be scheduled.
LEMMA PopPool ==
  ASSUME NEW s, NEW limbo, NEW idle, Pool(s, limbo, idle), s.requests # <<>>
  PROVE  /\ Head(s.requests) \in Rpcs \ limbo
         /\ Pool([s EXCEPT !.requests = Tail(@)], limbo \cup {Head(s.requests)}, idle)
<1> DEFINE t == [s EXCEPT !.requests = Tail(@)]
<1>1. /\ Shape(t) /\ t.con = s.con /\ t.evcon = s.evcon /\ t.timer = s.timer
      /\ t.connections = s.connections /\ t.server = s.server
      /\ t.out = s.out /\ t.again = s.again /\ t.reply = s.reply
      /\ t.where = s.where /\ t.requests = Tail(s.requests)
  BY DEF Pool, Shape
<1>2. /\ Head(s.requests) \in Rpcs \ limbo
      /\ Owned(t.con, t.requests, t.where, t.evcon, t.timer, limbo \cup {Head(s.requests)})
  <2>1. Owned(s.con, s.requests, s.where, s.evcon, s.timer, limbo)
    BY DEF Pool
  <2>2. /\ Head(s.requests) \in Rpcs \ limbo
        /\ Owned(s.con, Tail(s.requests), s.where, s.evcon, s.timer,
                 limbo \cup {Head(s.requests)})
    BY <2>1, PopOwned
  <2> HIDE DEF t
  <2> QED
    BY <1>1, <2>2
<1> HIDE DEF t
<1>3. Pool(t, limbo \cup {Head(s.requests)}, idle)
  BY <1>1, <1>2 DEF Pool
<1> QED
  BY <1>2, <1>3 DEF t

\* evrpc_schedule_request notes the connection; the outcome is taken.
Noted(s, c, x) == [s EXCEPT !.out = IF @ = <<>> THEN @ ELSE Tail(@), !.evcon[x] = c]

LEMMA NotedPool ==
  ASSUME NEW s, NEW limbo, NEW idle, Pool(s, limbo, idle), NEW x \in limbo, NEW c \in Conns
  PROVE  LET t == Noted(s, c, x)
         IN  /\ Pool(t, limbo, idle) /\ t.evcon[x] = c /\ t.con = s.con
             /\ t.connections = s.connections
<1> DEFINE t == Noted(s, c, x)
<1>1. /\ Shape(t) /\ t.con = s.con /\ t.requests = s.requests /\ t.timer = s.timer
      /\ t.connections = s.connections /\ t.server = s.server
      /\ t.out = (IF s.out = <<>> THEN s.out ELSE Tail(s.out))
      /\ t.again = s.again /\ t.reply = s.reply
      /\ t.where = s.where /\ t.evcon = [s.evcon EXCEPT ![x] = c]
  BY DEF Noted, Pool, Shape
<1>2. Owned(t.con, t.requests, t.where, t.evcon, t.timer, limbo)
  BY <1>1, KnowsOwned DEF Pool
<1>3. t.out \in Seq(Outcomes)
  <2>1. s.out \in Seq(Outcomes)
    BY DEF Pool
  <2> HIDE DEF t
  <2> QED
    BY <1>1, <2>1
<1>4. t.evcon[x] = c
  <2>1. s.evcon \in [Rpcs -> Conns \cup {Null}] /\ x \in Rpcs
    BY DEF Pool, Owned
  <2> HIDE DEF t
  <2> QED
    BY <1>1, <2>1
<1> HIDE DEF t
<1>5. Pool(t, limbo, idle)
  BY <1>1, <1>2, <1>3 DEF Pool
<1> QED
  BY <1>1, <1>4, <1>5 DEF t

\* The RPC is sent, with or without a timer.
LEMMA SentPool ==
  ASSUME NEW s, NEW limbo, NEW idle, Pool(s, limbo, idle), NEW x \in limbo, NEW c \in Conns,
         s.evcon[x] = c, s.con[c].requests = <<>>, Among(c, s.connections),
         NEW u, Shape(u), u.timer \in {s.timer, s.timer \cup {x}},
         u.con = s.con, u.server = s.server, u.connections = s.connections,
         u.requests = s.requests, u.where = s.where, u.evcon = s.evcon, u.out = s.out,
         u.again = s.again, u.reply = s.reply
  PROVE  Pool([evhttp_make_request(u, c, x) EXCEPT !.where[x] = "sent"], limbo \ {x}, idle)
<1> DEFINE t == evhttp_make_request(u, c, x)
           v == [t EXCEPT !.where[x] = "sent"]
<1>1. x \in Rpcs /\ s.con \in [Conns -> Connection]
  BY DEF Pool, Owned
<1>2. /\ SameRest(u, t) /\ t.con \in [Conns -> Connection]
      /\ \A d \in Conns \ {c} : t.con[d] = s.con[d]
      /\ t.con[c].requests = <<x>>
      /\ t.con[c].state = "up" <=> s.con[c].state = "up"
      /\ t.server = s.server \cup IF s.con[c].state = "up" THEN {Request(c, x)} ELSE {}
  BY <1>1, MakeFacts
<1> HIDE DEF t
<1>3. /\ Shape(v) /\ v.con = t.con /\ v.requests = s.requests /\ v.timer = u.timer
      /\ v.connections = s.connections /\ v.server = t.server
      /\ v.out = s.out /\ v.again = s.again /\ v.reply = s.reply
      /\ v.where = [s.where EXCEPT ![x] = "sent"] /\ v.evcon = s.evcon
  BY <1>2 DEF SameRest, Shape
<1> HIDE DEF v
<1>4. Elsewhere(s.con, v.con, c)
  BY <1>2, <1>3 DEF Elsewhere
<1>5. Owned(v.con, v.requests, v.where, v.evcon, v.timer, limbo \ {x})
  <2>1. Owned(s.con, s.requests, s.where, s.evcon, s.timer, limbo)
    BY DEF Pool
  <2>2. v.con[c].requests = <<x>>
    BY <1>2, <1>3
  <2>3. Owned(v.con, s.requests, [s.where EXCEPT ![x] = "sent"], s.evcon, u.timer, limbo \ {x})
    <3>1. CanSend(s.con, s.requests, s.where, s.evcon, s.timer, limbo, x, c, v.con, u.timer)
      BY <1>4, <2>1, <2>2 DEF CanSend
    <3> QED
      BY <3>1, SendOwned
  <2> QED
    BY <1>3, <2>3
<1>6. Wired(v.con, v.connections, v.server)
  <2> DEFINE new == IF s.con[c].state = "up" THEN {Request(c, x)} ELSE {}
  <2>1. Wired(s.con, s.connections, s.server)
    BY DEF Pool
  <2>2. NotOn(s.server, s.server, c)
    BY <2>1, IdleNotOn
  <2>3. Only(s.con, v.con, s.connections, c)
    BY <1>2, <1>3 DEF Only
  <2>4. \/ new = {}
        \/ new = {Request(c, x)} /\ v.con[c].state = "up" /\ v.con[c].requests = <<x>>
    BY <1>2, <1>3
  <2>5. v.server = s.server \cup new
    BY <1>2, <1>3
  <2> HIDE DEF new
  <2>6. Wired(v.con, s.connections, s.server \cup new)
    BY <1>1, <2>1, <2>2, <2>3, <2>4, WiredChange
  <2> QED
    BY <1>3, <2>5, <2>6
<1>7. \A d \in idle : v.con[d].state # "up"
  <2> SUFFICES ASSUME NEW d \in idle PROVE v.con[d].state # "up"
    OBVIOUS
  <2>1. d \in Conns /\ s.con[d].state # "up"
    BY DEF Pool
  <2> QED
    BY <1>2, <1>3, <2>1
<1>8. Pool(v, limbo \ {x}, idle)
  BY <1>3, <1>5, <1>6, <1>7 DEF Pool
<1> QED
  BY <1>8 DEF v, t

\* evrpc_pool_find_connection finds a connection of the pool that is idle.
LEMMA FindFacts ==
  ASSUME NEW s, NEW limbo, NEW idle, Pool(s, limbo, idle),
         evrpc_pool_find_connection(s) # Null
  PROVE  LET c == evrpc_pool_find_connection(s)
         IN  c \in Conns /\ Among(c, s.connections) /\ s.con[c].requests = <<>>
<1> DEFINE free == {i \in DOMAIN s.connections : s.con[s.connections[i]].requests = <<>>}
<1>1. /\ s.connections \in Seq(Conns) /\ DOMAIN s.connections = 1 .. Len(s.connections)
      /\ Len(s.connections) \in Nat /\ \A i \in 1 .. Len(s.connections) : s.connections[i] \in Conns
  BY DEF Pool, Wired
<1>2. free # {} /\ evrpc_pool_find_connection(s) = s.connections[Min(free)]
  BY DEF evrpc_pool_find_connection
<1>3. free \in SUBSET Nat
  BY <1>1
<1>4. \E m \in free : \A k \in free : m <= k
  <2> HIDE DEF free
  <2> QED
    BY <1>2, <1>3, LeastExists
<1>5. Min(free) \in free
  <2> HIDE DEF free
  <2> QED
    BY <1>4 DEF Min
<1> QED
  BY <1>1, <1>2, <1>5 DEF Among

\* evrpc_schedule_request on an idle connection: the hook aborts, or it is sent.
CanSchedule(s, limbo, idle, c, x) ==
  /\ Pool(s, limbo, idle) /\ x \in limbo
  /\ c \in Conns /\ Among(c, s.connections) /\ s.con[c].requests = <<>>

Sent(s, c, x) ==
  [evhttp_make_request([Noted(s, c, x) EXCEPT
                          !.timer = IF s.timeout THEN @ \cup {x} ELSE @], c, x) EXCEPT
     !.where[x] = "sent"]

LEMMA SentScheduled ==
  ASSUME NEW s, NEW limbo, NEW idle, NEW c, NEW x, CanSchedule(s, limbo, idle, c, x)
  PROVE  Pool(Sent(s, c, x), limbo \ {x}, idle)
<1> DEFINE t == Noted(s, c, x)
           u == [t EXCEPT !.timer = IF s.timeout THEN @ \cup {x} ELSE @]
<1>1. /\ Pool(t, limbo, idle) /\ t.evcon[x] = c /\ t.con = s.con
      /\ t.connections = s.connections
  BY NotedPool DEF CanSchedule
<1>2. x \in limbo /\ c \in Conns /\ Among(c, t.connections) /\ t.con[c].requests = <<>>
  BY <1>1 DEF CanSchedule
<1> HIDE DEF t
<1>3. /\ Shape(u) /\ u.timer \in {t.timer, t.timer \cup {x}}
      /\ u.con = t.con /\ u.server = t.server /\ u.connections = t.connections
      /\ u.requests = t.requests /\ u.where = t.where /\ u.evcon = t.evcon /\ u.out = t.out
      /\ u.again = t.again /\ u.reply = t.reply
  BY <1>1 DEF Pool, Shape
<1> HIDE DEF u
<1>4. Pool([evhttp_make_request(u, c, x) EXCEPT !.where[x] = "sent"], limbo \ {x}, idle)
  BY <1>1, <1>2, <1>3, SentPool
<1> QED
  BY <1>4 DEF Sent, t, u

LEMMA OutcomeFacts ==
  ASSUME "refused" \notin Outcomes, NEW s, NEW limbo, NEW idle, Pool(s, limbo, idle)
  PROVE  (IF s.out = <<>> THEN "ok" ELSE Head(s.out)) # "refused"
<1>1. s.out \in Seq(Outcomes)
  BY DEF Pool
<1>2. s.out # <<>> => Head(s.out) \in Outcomes
  BY <1>1
<1> QED
  BY <1>2

\* With a callback that makes no RPC.
LEMMA ScheduleOnSilent ==
  ASSUME "refused" \notin Outcomes,
         NEW s, NEW limbo, NEW idle, NEW c, NEW x, CanSchedule(s, limbo, idle, c, x)
  PROVE  Pool(ScheduleOn(s, c, x, Silent), limbo \ {x}, idle)
<1> DEFINE result == IF s.out = <<>> THEN "ok" ELSE Head(s.out)
<1>1. result # "refused"
  BY OutcomeFacts DEF CanSchedule
<1>2. \/ ScheduleOn(s, c, x, Silent) = Free(Noted(s, c, x), x)
      \/ ScheduleOn(s, c, x, Silent) = Sent(s, c, x)
  BY <1>1 DEF ScheduleOn, Silent, Sent, Noted
<1>3. Pool(Free(Noted(s, c, x), x), limbo \ {x}, idle)
  BY NotedPool, FreePool DEF CanSchedule
<1> QED
  BY <1>2, <1>3, SentScheduled

\* The first RPC of the queue can be scheduled when a connection is idle.
LEMMA NextCanSchedule ==
  ASSUME NEW s, NEW limbo, NEW idle, Pool(s, limbo, idle), s.requests # <<>>,
         evrpc_pool_find_connection(s) # Null
  PROVE  /\ Head(s.requests) \notin limbo
         /\ CanSchedule([s EXCEPT !.requests = Tail(@)], limbo \cup {Head(s.requests)}, idle,
                        evrpc_pool_find_connection(s), Head(s.requests))
<1> DEFINE t == [s EXCEPT !.requests = Tail(@)]
           c == evrpc_pool_find_connection(s)
<1>1. /\ Head(s.requests) \in Rpcs \ limbo
      /\ Pool(t, limbo \cup {Head(s.requests)}, idle)
  BY PopPool
<1>2. c \in Conns /\ Among(c, s.connections) /\ s.con[c].requests = <<>>
  BY FindFacts
<1>3. t.connections = s.connections /\ t.con = s.con
  BY DEF Pool, Shape
<1> HIDE DEF t, c
<1>4. CanSchedule(t, limbo \cup {Head(s.requests)}, idle, c, Head(s.requests))
  BY <1>1, <1>2, <1>3 DEF CanSchedule
<1> QED
  BY <1>1, <1>4 DEF t, c

LEMMA ScheduleNextSilent ==
  ASSUME "refused" \notin Outcomes, NEW s, NEW limbo, NEW idle, Pool(s, limbo, idle)
  PROVE  Pool(ScheduleNext(s, Silent), limbo, idle)
<1> DEFINE c == evrpc_pool_find_connection(s)
           x == Head(s.requests)
           t == [s EXCEPT !.requests = Tail(@)]
<1>1. CASE s.requests = <<>> \/ c = Null
  <2>1. ScheduleNext(s, Silent) = s
    BY <1>1 DEF ScheduleNext
  <2> QED
    BY <2>1
<1>2. CASE s.requests # <<>> /\ c # Null
  <2>1. ScheduleNext(s, Silent) = ScheduleOn(t, c, x, Silent)
    BY <1>2 DEF ScheduleNext
  <2>2. x \notin limbo /\ CanSchedule(t, limbo \cup {x}, idle, c, x)
    BY <1>2, NextCanSchedule
  <2> HIDE DEF t, x, c
  <2>3. Pool(ScheduleOn(t, c, x, Silent), (limbo \cup {x}) \ {x}, idle)
    BY <2>2, ScheduleOnSilent
  <2>4. (limbo \cup {x}) \ {x} = limbo
    BY <2>2
  <2> QED
    BY <2>1, <2>3, <2>4
<1> QED
  BY <1>1, <1>2

\* A user callback that may make an RPC.
LEMMA MayCallAgainPool ==
  ASSUME "refused" \notin Outcomes, NEW s, NEW limbo, NEW idle, Pool(s, limbo, idle), NEW x
  PROVE  Pool(MayCallAgain(s, x), limbo, idle)
<1>1. CASE s.again = Null \/ s.where[s.again] # "none"
  <2>1. MayCallAgain(s, x) = s
    BY <1>1 DEF MayCallAgain
  <2> QED
    BY <2>1
<1>2. CASE s.again # Null /\ s.where[s.again] = "none"
  <2> DEFINE t == [s EXCEPT !.again = Null]
             u == Enqueue(t, s.again)
  <2>1. MayCallAgain(s, x) = ScheduleNext(u, Silent)
    BY <1>2 DEF MayCallAgain
  <2>2. /\ Shape(t) /\ t.con = s.con /\ t.requests = s.requests /\ t.timer = s.timer
        /\ t.connections = s.connections /\ t.server = s.server
        /\ t.out = s.out /\ t.again = Null /\ t.reply = s.reply
        /\ t.where = s.where /\ t.evcon = s.evcon
    BY DEF Pool, Shape
  <2> HIDE DEF t
  <2>3. Pool(t, limbo, idle)
    BY <2>2 DEF Pool
  <2>4. s.again \in Rpcs /\ t.where[s.again] = "none"
    BY <1>2, <2>2 DEF Pool
  <2>5. Pool(u, limbo, idle)
    BY <2>3, <2>4, EnqueuePool
  <2> HIDE DEF u
  <2> QED
    BY <2>1, <2>5, ScheduleNextSilent
<1> QED
  BY <1>1, <1>2

\* evrpc_schedule_request with a callback that may make an RPC.
LEMMA ScheduleRequestPool ==
  ASSUME "refused" \notin Outcomes,
         NEW s, NEW limbo, NEW idle, NEW c, NEW x, CanSchedule(s, limbo, idle, c, x)
  PROVE  Pool(evrpc_schedule_request(s, c, x), limbo \ {x}, idle)
<1> DEFINE result == IF s.out = <<>> THEN "ok" ELSE Head(s.out)
           t == evrpc_schedule_request(s, c, x)
<1>1. result # "refused"
  BY OutcomeFacts DEF CanSchedule
<1>2. \/ t = Free(MayCallAgain(Noted(s, c, x), x), x)
      \/ t = Sent(s, c, x)
  BY <1>1 DEF evrpc_schedule_request, ScheduleOn, Sent, Noted
<1>3. Pool(Free(MayCallAgain(Noted(s, c, x), x), x), limbo \ {x}, idle)
  <2>1. Pool(Noted(s, c, x), limbo, idle) /\ x \in limbo
    BY NotedPool DEF CanSchedule
  <2>2. Pool(MayCallAgain(Noted(s, c, x), x), limbo, idle)
    BY <2>1, MayCallAgainPool
  <2> QED
    BY <2>1, <2>2, FreePool
<1> HIDE DEF t
<1>4. Pool(t, limbo \ {x}, idle)
  BY <1>2, <1>3, SentScheduled
<1> QED
  BY <1>4 DEF t

\* evrpc_pool_schedule
LEMMA SchedulePool ==
  ASSUME "refused" \notin Outcomes, NEW s, NEW limbo, NEW idle, Pool(s, limbo, idle)
  PROVE  Pool(evrpc_pool_schedule(s), limbo, idle)
<1> DEFINE c == evrpc_pool_find_connection(s)
           x == Head(s.requests)
           t == [s EXCEPT !.requests = Tail(@)]
<1>1. CASE s.requests = <<>> \/ c = Null
  <2>1. evrpc_pool_schedule(s) = s
    BY <1>1 DEF evrpc_pool_schedule, ScheduleNext
  <2> QED
    BY <2>1
<1>2. CASE s.requests # <<>> /\ c # Null
  <2>1. evrpc_pool_schedule(s) = evrpc_schedule_request(t, c, x)
    BY <1>2 DEF evrpc_pool_schedule, ScheduleNext, evrpc_schedule_request
  <2>2. x \notin limbo /\ CanSchedule(t, limbo \cup {x}, idle, c, x)
    BY <1>2, NextCanSchedule
  <2> HIDE DEF t, x, c
  <2>3. Pool(evrpc_schedule_request(t, c, x), (limbo \cup {x}) \ {x}, idle)
    BY <2>2, ScheduleRequestPool
  <2>4. (limbo \cup {x}) \ {x} = limbo
    BY <2>2
  <2> QED
    BY <2>1, <2>3, <2>4
<1> QED
  BY <1>1, <1>2

\* evrpc_reply_done of an RPC that was taken off its connection.
Untimed(s, x) == [s EXCEPT !.timer = @ \ {x}]

LEMMA ReplyDonePool ==
  ASSUME "refused" \notin Outcomes, NEW s, NEW x, NEW idle, Pool(Untimed(s, x), {x}, idle)
  PROVE  Pool(evrpc_reply_done(s, x), {}, idle)
<1> DEFINE t == Untimed(s, x)
           u == MayCallAgain(t, x)
           v == Free(u, x)
<1>1. evrpc_reply_done(s, x) = evrpc_pool_schedule(v)
  BY DEF evrpc_reply_done, Untimed
<1> HIDE DEF t
<1>2. Pool(u, {x}, idle)
  BY MayCallAgainPool DEF t
<1> HIDE DEF u
<1>3. Pool(v, {x} \ {x}, idle)
  BY <1>2, FreePool
<1>4. {x} \ {x} = {}
  OBVIOUS
<1> HIDE DEF v
<1>5. Pool(v, {}, idle)
  BY <1>3, <1>4
<1> QED
  BY <1>1, <1>5, SchedulePool

-----------------------------------------------------------------------------
(* The first request of a connection ends.                                 *)

\* A connection with requests carries one RPC and is of the pool.
LEMMA CarriedFacts ==
  ASSUME NEW s, NEW idle, Pool(s, {}, idle), NEW c \in Conns, s.con[c].requests # <<>>
  PROVE  /\ Among(c, s.connections)
         /\ \E x \in Rpcs : s.con[c].requests = <<x>> /\ s.where[x] = "sent" /\ s.evcon[x] = c
<1>1. s.con[c] # NoConnection
  BY DEF NoConnection
<1> QED
  BY <1>1 DEF Pool, Wired, Owned

\* Connection c of s becomes that of t, where left can still be read and new is
\* sent; nothing else changes.
Changes(s, t, c, left, new) ==
  /\ SameRest(s, t) /\ c \in Conns
  /\ Only(s.con, t.con, s.connections, c)
  /\ NotOn(s.server, left, c) /\ t.server = left \cup new
  /\ \/ new = {}
     \/ /\ t.con[c].state = "up"
        /\ \E x \in Rpcs : new = {Request(c, x)} /\ t.con[c].requests = <<x>>

LEMMA ChangesWired ==
  ASSUME NEW s, NEW t, NEW c, NEW left, NEW new, Changes(s, t, c, left, new),
         Wired(s.con, s.connections, s.server)
  PROVE  Wired(t.con, t.connections, t.server)
<1>1. /\ t.connections = s.connections /\ t.server = left \cup new /\ c \in Conns
      /\ Only(s.con, t.con, s.connections, c) /\ NotOn(s.server, left, c)
  BY DEF Changes, SameRest
<1>2. CASE new = {}
  <2>1. CASE Rpcs = {}
    <3>1. s.server = {} /\ left = {} /\ t.server = {}
      BY <1>1, <1>2, <2>1 DEF Wired, NotOn, Message
    <3> QED
      BY <1>1, <3>1 DEF Wired, Only
  <2>2. CASE Rpcs # {}
    <3>1. PICK x \in Rpcs : TRUE
      BY <2>2
    <3>2. Wired(t.con, s.connections, left \cup new)
      BY <1>1, <1>2, <3>1, WiredChange
    <3> QED
      BY <1>1, <3>2
  <2> QED
    BY <2>1, <2>2
<1>3. CASE new # {}
  <2>1. PICK x \in Rpcs : /\ new = {Request(c, x)} /\ t.con[c].requests = <<x>>
                          /\ t.con[c].state = "up"
    BY <1>3 DEF Changes
  <2>2. Wired(t.con, s.connections, left \cup new)
    BY <1>1, <2>1, WiredChange
  <2> QED
    BY <1>1, <2>2
<1> QED
  BY <1>2, <1>3

\* The connection changes its state and keeps its request.
LEMMA KeepPool ==
  ASSUME NEW s, NEW t, NEW c, NEW left, NEW new, NEW old, NEW idle, Pool(s, {}, old),
         Changes(s, t, c, left, new), t.con[c].requests = s.con[c].requests,
         idle \in SUBSET Conns, \A d \in idle : t.con[d].state # "up"
  PROVE  Pool(t, {}, idle)
<1>1. Wired(t.con, t.connections, t.server)
  BY ChangesWired DEF Pool
<1>2. /\ t.con \in [Conns -> Connection]
      /\ \A d \in Conns : t.con[d].requests = s.con[d].requests
  BY DEF Changes, Only
<1>3. Owned(t.con, s.requests, s.where, s.evcon, s.timer, {})
  BY <1>2 DEF Pool, Owned
<1>4. /\ Shape(t) /\ t.requests = s.requests /\ t.where = s.where /\ t.evcon = s.evcon
      /\ t.timer = s.timer /\ t.out = s.out /\ t.again = s.again /\ t.reply = s.reply
  BY DEF Changes, SameRest
<1>5. Owned(t.con, t.requests, t.where, t.evcon, t.timer, {})
  BY <1>3, <1>4
<1> QED
  BY <1>1, <1>4, <1>5 DEF Pool

\* The connection gives up its request.
LEMMA DropPool ==
  ASSUME NEW s, NEW t, NEW c, NEW left, NEW x \in Rpcs, NEW idle, Pool(s, {}, idle),
         Changes(s, t, c, left, {}), s.con[c].requests = <<x>>, t.con[c].requests = <<>>,
         c \in idle => t.con[c].state # "up"
  PROVE  Pool(Untimed(t, x), {x}, idle)
<1> DEFINE u == Untimed(t, x)
<1>1. Wired(t.con, t.connections, t.server)
  BY ChangesWired DEF Pool
<1>2. /\ c \in Conns /\ t.con \in [Conns -> Connection]
      /\ \A d \in Conns \ {c} : t.con[d] = s.con[d]
  BY DEF Changes, Only
<1>3. Elsewhere(s.con, t.con, c)
  BY <1>2 DEF Elsewhere
<1>4. Owned(s.con, s.requests, s.where, s.evcon, s.timer, {})
  BY DEF Pool
<1>5. Owned(t.con, s.requests, s.where, s.evcon, s.timer \ {x}, {x})
  BY <1>2, <1>3, <1>4, DropOwned
<1>6. /\ Shape(t) /\ t.requests = s.requests /\ t.where = s.where /\ t.evcon = s.evcon
      /\ t.timer = s.timer /\ t.out = s.out /\ t.again = s.again /\ t.reply = s.reply
  BY DEF Changes, SameRest
<1>7. /\ Shape(u) /\ u.requests = s.requests /\ u.where = s.where /\ u.evcon = s.evcon
      /\ u.timer = s.timer \ {x} /\ u.out = s.out /\ u.again = s.again /\ u.reply = s.reply
      /\ u.con = t.con /\ u.connections = t.connections /\ u.server = t.server
  BY <1>6 DEF Untimed, Shape
<1> HIDE DEF u
<1>8. idle \in SUBSET Conns /\ \A d \in idle : u.con[d].state # "up"
  BY <1>2, <1>7 DEF Pool
<1>9. Owned(u.con, u.requests, u.where, u.evcon, u.timer, {x})
  BY <1>5, <1>7
<1>10. Wired(u.con, u.connections, u.server)
  BY <1>1, <1>7
<1>11. Pool(u, {x}, idle)
  BY <1>7, <1>8, <1>9, <1>10 DEF Pool
<1> QED
  BY <1>11 DEF u

Shorter(s, c) == [s EXCEPT !.con[c].requests = Tail(@)]

LEMMA ShorterFacts ==
  ASSUME NEW s, Shape(s), s.con \in [Conns -> Connection], NEW c \in Conns, NEW x \in Rpcs,
         s.con[c].requests = <<x>>
  PROVE  LET t == Shorter(s, c)
         IN  /\ SameRest(s, t) /\ t.server = s.server
             /\ t.con \in [Conns -> Connection]
             /\ \A d \in Conns \ {c} : t.con[d] = s.con[d]
             /\ t.con[c].requests = <<>> /\ t.con[c].state = s.con[c].state
<1> DEFINE t == Shorter(s, c)
           q == Tail(s.con[c].requests)
           k == WithQueue(s.con, c, q)
<1>1. SameRest(s, t) /\ t.server = s.server /\ t.con = k
  BY DEF Shorter, SameRest, Shape, WithQueue
<1>2. q = <<>> /\ q \in Seq(Rpcs)
  BY SingleFacts
<1> HIDE DEF q, t
<1>3. /\ k \in [Conns -> Connection] /\ k[c].requests = q /\ k[c].state = s.con[c].state
      /\ \A d \in Conns \ {c} : k[d] = s.con[d]
  <2>1. q \in Seq(Rpcs)
    BY <1>2
  <2> QED
    BY <2>1, QueueFacts
<1> HIDE DEF k
<1>4. /\ t.con \in [Conns -> Connection] /\ \A d \in Conns \ {c} : t.con[d] = s.con[d]
      /\ t.con[c].requests = <<>> /\ t.con[c].state = s.con[c].state
  BY <1>1, <1>2, <1>3
<1> QED
  BY <1>1, <1>4 DEF t

\* A connection that nobody waits on any more gives up its request.
LEMMA ShorterPool ==
  ASSUME NEW s, NEW c \in Conns, NEW x \in Rpcs, NEW idle, Pool(s, {}, idle),
         s.con[c].requests = <<x>>, NotOn(s.server, s.server, c)
  PROVE  /\ Pool(Untimed(Shorter(s, c), x), {x}, idle)
         /\ Shorter(s, c).con[c].requests = <<>>
<1> DEFINE t == Shorter(s, c)
<1>1. Shape(s) /\ s.con \in [Conns -> Connection]
  BY DEF Pool, Owned
<1>2. Among(c, s.connections)
  BY SingleFacts, CarriedFacts
<1>3. /\ SameRest(s, t) /\ t.server = s.server /\ t.con \in [Conns -> Connection]
      /\ \A d \in Conns \ {c} : t.con[d] = s.con[d]
      /\ t.con[c].requests = <<>> /\ t.con[c].state = s.con[c].state
  BY <1>1, ShorterFacts
<1> HIDE DEF t
<1>4. Only(s.con, t.con, s.connections, c)
  BY <1>2, <1>3 DEF Only
<1>5. Changes(s, t, c, s.server, {})
  BY <1>3, <1>4 DEF Changes
<1>6. c \in idle => t.con[c].state # "up"
  BY <1>3 DEF Pool
<1>7. Pool(Untimed(t, x), {x}, idle)
  BY <1>3, <1>5, <1>6, DropPool
<1> QED
  BY <1>3, <1>7 DEF t

\* The same with evhttp_connection_reset.
LEMMA CutPool ==
  ASSUME NEW s, NEW c \in Conns, NEW x \in Rpcs, NEW idle, Pool(s, {}, idle),
         s.con[c].requests = <<x>>
  PROVE  LET t == evhttp_connection_reset(Shorter(s, c), c)
         IN  Pool(Untimed(t, x), {x}, idle) /\ t.con[c].requests = <<>>
<1> DEFINE u == Shorter(s, c)
           t == evhttp_connection_reset(u, c)
<1>1. Shape(s) /\ s.con \in [Conns -> Connection] /\ s.server \in SUBSET Message
  BY DEF Pool, Owned, Wired
<1>2. Among(c, s.connections)
  BY SingleFacts, CarriedFacts
<1>3. /\ SameRest(s, u) /\ u.server = s.server /\ u.con \in [Conns -> Connection]
      /\ \A d \in Conns \ {c} : u.con[d] = s.con[d]
      /\ u.con[c].requests = <<>> /\ u.con[c].state = s.con[c].state
  BY <1>1, ShorterFacts
<1> HIDE DEF u
<1>4. Shape(u)
  BY <1>3 DEF SameRest
<1>5. /\ SameRest(u, t) /\ t.con \in [Conns -> Connection]
      /\ \A d \in Conns \ {c} : t.con[d] = u.con[d]
      /\ t.con[c].requests = u.con[c].requests /\ t.con[c].state = "down"
      /\ t.server = CutOff(u.server, c)
  BY <1>3, <1>4, ResetFacts
<1> HIDE DEF t
<1>6. Only(s.con, t.con, s.connections, c) /\ SameRest(s, t)
  BY <1>2, <1>3, <1>5 DEF Only, SameRest
<1>7. NotOn(s.server, CutOff(s.server, c), c)
  BY <1>1, CutNotOn
<1>8. Changes(s, t, c, CutOff(s.server, c), {})
  BY <1>3, <1>5, <1>6, <1>7 DEF Changes
<1>9. Pool(Untimed(t, x), {x}, idle)
  BY <1>3, <1>5, <1>8, DropPool
<1> QED
  BY <1>3, <1>5, <1>9 DEF t, u

LEMMA FailPool ==
  ASSUME "refused" \notin Outcomes,
         NEW s, NEW c \in Conns, Pool(s, {}, {}), s.con[c].requests # <<>>
  PROVE  Pool(evhttp_connection_fail(s, c), {}, {})
<1>1. PICK x \in Rpcs : s.con[c].requests = <<x>>
  BY CarriedFacts
<1> DEFINE t == evhttp_connection_reset(Shorter(s, c), c)
<1>2. Pool(Untimed(t, x), {x}, {}) /\ t.con[c].requests = <<>>
  BY <1>1, CutPool
<1>3. Head(s.con[c].requests) = x
  BY <1>1, SingleFacts
<1>4. evhttp_connection_fail(s, c) = evrpc_reply_done(t, x)
  BY <1>2, <1>3 DEF evhttp_connection_fail, Shorter
<1> HIDE DEF t
<1> QED
  BY <1>2, <1>4, ReplyDonePool

LEMMA DonePool ==
  ASSUME "refused" \notin Outcomes, NEW close \in BOOLEAN,
         NEW s, NEW c \in Conns, Pool(s, {}, {}), s.con[c].requests # <<>>,
         NotOn(s.server, s.server, c)
  PROVE  Pool(evhttp_connection_done(s, c, close), {}, {})
<1>1. PICK x \in Rpcs : s.con[c].requests = <<x>>
  BY CarriedFacts
<1>2. Head(s.con[c].requests) = x
  BY <1>1, SingleFacts
<1> DEFINE t == Shorter(s, c)
           r == evhttp_connection_reset(t, c)
           u == IF close THEN r ELSE t
<1>3. Pool(Untimed(u, x), {x}, {}) /\ u.con[c].requests = <<>>
  <2>1. Pool(Untimed(t, x), {x}, {}) /\ t.con[c].requests = <<>>
    BY <1>1, ShorterPool
  <2>2. Pool(Untimed(r, x), {x}, {}) /\ r.con[c].requests = <<>>
    BY <1>1, CutPool
  <2> QED
    BY <2>1, <2>2
<1>4. evhttp_connection_done(s, c, close) = evrpc_reply_done(u, x)
  BY <1>2, <1>3 DEF evhttp_connection_done, Shorter
<1> HIDE DEF u
<1> QED
  BY <1>3, <1>4, ReplyDonePool

\* A step of the loop of evhttp_connectioncb.
LEMMA TellFirstPool ==
  ASSUME "refused" \notin Outcomes, NEW s, NEW c \in Conns, Pool(s, {}, {c})
  PROVE  Pool(TellFirst(s, c), {}, {c})
<1>1. CASE s.con[c].requests = <<>>
  BY <1>1 DEF TellFirst
<1>2. CASE s.con[c].requests # <<>>
  <2>1. PICK x \in Rpcs : s.con[c].requests = <<x>>
    BY <1>2, CarriedFacts
  <2>2. Head(s.con[c].requests) = x
    BY <2>1, SingleFacts
  <2>3. NotOn(s.server, s.server, c)
    BY IdleNotOn DEF Pool
  <2> DEFINE t == Shorter(s, c)
  <2>4. Pool(Untimed(t, x), {x}, {c})
    BY <2>1, <2>3, ShorterPool
  <2>5. TellFirst(s, c) = evrpc_reply_done(t, x)
    BY <1>2, <2>2 DEF TellFirst, Shorter
  <2> HIDE DEF t
  <2> QED
    BY <2>4, <2>5, ReplyDonePool
<1> QED
  BY <1>1, <1>2

\* The loop runs as many times as it is told to: the function TellAll defines by
\* recursion exists.
Told(s, c, n, f) ==
  f = [i \in 0 .. n |-> IF i = 0 THEN s ELSE TellFirst(f[i - 1], c)]

LEMMA ToldExists ==
  ASSUME NEW s, NEW c, NEW n \in Nat
  PROVE  \E f : Told(s, c, n, f)
<1> DEFINE P == {k \in Nat : ~ \E f : Told(s, c, k, f)}
<1> SUFFICES ASSUME P # {} PROVE FALSE
  OBVIOUS
<1>1. P \in SUBSET Nat
  OBVIOUS
<1>2. PICK m \in P : \A k \in P : m <= k
  <2> HIDE DEF P
  <2> QED
    BY <1>1, LeastExists
<1>3. CASE m = 0
  <2> DEFINE f == [i \in 0 .. 0 |-> s]
  <2>1. f = [i \in 0 .. 0 |-> IF i = 0 THEN s ELSE TellFirst(f[i - 1], c)]
    OBVIOUS
  <2>2. Told(s, c, m, f)
    BY <1>3, <2>1 DEF Told
  <2> QED
    BY <1>2, <2>2
<1>4. CASE m # 0
  <2>1. m \in Nat /\ m - 1 \in Nat /\ m - 1 \notin P
    BY <1>2, <1>4
  <2>2. PICK f : Told(s, c, m - 1, f)
    BY <2>1
  <2> DEFINE g == [i \in 0 .. m |-> IF i = m THEN TellFirst(f[m - 1], c) ELSE f[i]]
  <2>3. \A i \in 0 .. m - 1 : f[i] = IF i = 0 THEN s ELSE TellFirst(f[i - 1], c)
    BY <2>1, <2>2 DEF Told
  <2>4. ASSUME NEW i \in 0 .. m PROVE g[i] = IF i = 0 THEN s ELSE TellFirst(g[i - 1], c)
    <3>1. CASE i = m
      <4>1. i - 1 \in 0 .. m /\ i - 1 # m /\ i # 0 /\ i - 1 = m - 1
        BY <1>4, <2>1, <3>1
      <4>2. g[i - 1] = f[m - 1] /\ g[i] = TellFirst(f[m - 1], c)
        BY <3>1, <4>1
      <4> QED
        BY <4>1, <4>2
    <3>2. CASE i # m /\ i # 0
      <4>1. i \in 0 .. m - 1 /\ i - 1 \in 0 .. m /\ i - 1 # m
        BY <2>1, <3>2
      <4>2. g[i - 1] = f[i - 1] /\ g[i] = f[i]
        BY <3>2, <4>1
      <4> QED
        BY <2>3, <3>2, <4>1, <4>2
    <3>3. CASE i # m /\ i = 0
      <4>1. i \in 0 .. m - 1 /\ g[i] = f[i]
        BY <2>1, <3>3
      <4> QED
        BY <2>3, <3>3, <4>1
    <3> QED
      BY <3>1, <3>2, <3>3
  <2>5. g = [i \in 0 .. m |-> g[i]]
    OBVIOUS
  <2> HIDE DEF g
  <2>6. g = [i \in 0 .. m |-> IF i = 0 THEN s ELSE TellFirst(g[i - 1], c)]
    BY <2>4, <2>5, Zenon
  <2>7. Told(s, c, m, g)
    BY <2>6 DEF Told
  <2> QED
    BY <1>2, <2>7
<1> QED
  BY <1>3, <1>4

\* The loop of evhttp_connectioncb, however often it runs.
LEMMA TellAllPool ==
  ASSUME "refused" \notin Outcomes, NEW s, NEW c \in Conns, Pool(s, {}, {c})
  PROVE  Pool(TellAll(s, c), {}, {c})
<1> DEFINE n == Cardinality(Rpcs)
           f == CHOOSE g : Told(s, c, n, g)
<1>1. n \in Nat
  BY EvRpcAssumption, FS_CardinalityType
<1>2. TellAll(s, c) = f[n]
  BY Zenon DEF TellAll, Told
<1>3. Told(s, c, n, f)
  <2>1. \E g : Told(s, c, n, g)
    BY <1>1, ToldExists
  <2> QED
    BY <2>1, Zenon
<1> HIDE DEF n, f
<1>4. \A i \in 0 .. n : f[i] = IF i = 0 THEN s ELSE TellFirst(f[i - 1], c)
  BY <1>3 DEF Told
<1> DEFINE P == {i \in 0 .. n : ~Pool(f[i], {}, {c})}
<1>5. P = {}
  <2> SUFFICES ASSUME P # {} PROVE FALSE
    OBVIOUS
  <2>1. P \in SUBSET Nat
    BY <1>1
  <2>2. PICK m \in P : \A k \in P : m <= k
    <3> HIDE DEF P
    <3> QED
      BY <2>1, LeastExists
  <2>3. m \in 0 .. n /\ ~Pool(f[m], {}, {c})
    BY <2>2
  <2>4. m # 0
    BY <1>1, <1>4, <2>3
  <2>5. m - 1 \in 0 .. n /\ m - 1 < m
    BY <1>1, <2>3, <2>4
  <2>6. m - 1 \notin P
    <3> HIDE DEF P
    <3> QED
      BY <1>1, <2>2, <2>3, <2>5
  <2>7. Pool(f[m - 1], {}, {c})
    BY <2>5, <2>6
  <2>8. f[m] = TellFirst(f[m - 1], c)
    BY <1>4, <2>3, <2>4
  <2>9. Pool(TellFirst(f[m - 1], c), {}, {c})
    BY <2>7, TellFirstPool
  <2> QED
    BY <2>3, <2>8, <2>9
<1>6. n \in 0 .. n
  BY <1>1
<1> QED
  BY <1>2, <1>5, <1>6

-----------------------------------------------------------------------------
(* The actions.                                                            *)

\* The state a handler starts in and the one it leaves behind.
Started(out, again) == [rpc EXCEPT !.out = out, !.again = again, !.reply = <<Null, Null>>]
Ended(t) == [t EXCEPT !.out = <<>>, !.again = Null]

Inputs(out, again) == out \in Seq(Outcomes) /\ again \in Rpcs \cup {Null}

LEMMA StartedPool ==
  ASSUME RpcInv, NEW out, NEW again, Inputs(out, again)
  PROVE  LET s == Started(out, again)
         IN  /\ Pool(s, {}, {})
             /\ s.con = rpc.con /\ s.server = rpc.server /\ s.connections = rpc.connections
             /\ s.requests = rpc.requests /\ s.where = rpc.where /\ s.evcon = rpc.evcon
             /\ s.timer = rpc.timer /\ s.timeout = rpc.timeout
<1> DEFINE s == Started(out, again)
<1>1. /\ Shape(s)
      /\ s.con = rpc.con /\ s.server = rpc.server /\ s.connections = rpc.connections
      /\ s.requests = rpc.requests /\ s.where = rpc.where /\ s.evcon = rpc.evcon
      /\ s.timer = rpc.timer /\ s.timeout = rpc.timeout
      /\ s.out = out /\ s.again = again /\ s.reply = <<Null, Null>>
  BY DEF RpcInv, Pool, Shape, Started
<1>2. out \in Seq(Outcomes) /\ again \in Rpcs \cup {Null}
  BY DEF Inputs
<1> HIDE DEF s
<1>3. s.reply[1] = s.reply[2]
  BY <1>1
<1>4. Pool(s, {}, {})
  BY <1>1, <1>2, <1>3 DEF RpcInv, Pool
<1> QED
  BY <1>1, <1>4 DEF s

LEMMA EndedPool ==
  ASSUME NEW t, NEW idle, Pool(t, {}, idle), rpc' = Ended(t)
  PROVE  RpcInv'
<1>1. /\ Shape(Ended(t))
      /\ Ended(t).con = t.con /\ Ended(t).server = t.server
      /\ Ended(t).connections = t.connections /\ Ended(t).requests = t.requests
      /\ Ended(t).where = t.where /\ Ended(t).evcon = t.evcon /\ Ended(t).timer = t.timer
      /\ Ended(t).out = <<>> /\ Ended(t).again = Null /\ Ended(t).reply = t.reply
  BY DEF Pool, Shape, Ended
<1> DEFINE v == Ended(t)
<1> HIDE DEF v
<1>2. v.out \in Seq(Outcomes)
  BY <1>1 DEF v
<1>3. Pool(v, {}, {})
  BY <1>1, <1>2 DEF Pool, v
<1> QED
  BY <1>3 DEF RpcInv, v

\* What a handler is given.
LEMMA InputFacts ==
  ASSUME NEW out \in Outcomes \X Outcomes, NEW again \in {Null} \cup Unused
  PROVE  Inputs(out, again)
<1>1. out \in Seq(Outcomes)
  OBVIOUS
<1> QED
  BY <1>1 DEF Inputs, Unused

\* evhttp_connectioncb: the connection is up and sends.
LEMMA ConnectedStep ==
  ASSUME RpcInv, NEW c \in Conns, Connected(c)
  PROVE  RpcInv'
<1> DEFINE u == [rpc EXCEPT !.con[c].state = "up"]
           k == WithState(rpc.con, c, "up")
           t == evhttp_request_dispatch(u, c)
           new == IF k[c].requests # <<>> /\ k[c].state = "up"
                  THEN {Request(c, Head(k[c].requests))} ELSE {}
<1>1. /\ Shape(rpc) /\ rpc.con \in [Conns -> Connection] /\ rpc.con[c].state = "connecting"
      /\ rpc' = t
  BY DEF RpcInv, Pool, Owned, Connected
<1>2. Shape(u) /\ SameRest(rpc, u) /\ u.con = k /\ u.server = rpc.server
  BY <1>1 DEF Shape, SameRest, WithState
<1>3. /\ k \in [Conns -> Connection] /\ k[c].requests = rpc.con[c].requests /\ k[c].state = "up"
      /\ \A d \in Conns \ {c} : k[d] = rpc.con[d]
  BY <1>1, StateFacts
<1> HIDE DEF u, k
<1>4. SameRest(u, t) /\ t.con = k /\ t.server = rpc.server \cup new
  BY <1>2, DispatchFacts
<1> HIDE DEF t
<1>5. Among(c, rpc.connections)
  <2>1. rpc.con[c] # NoConnection
    BY <1>1 DEF NoConnection
  <2> QED
    BY <2>1 DEF RpcInv, Pool, Wired
<1>6. Only(rpc.con, t.con, rpc.connections, c)
  BY <1>3, <1>4, <1>5 DEF Only
<1>7. NotOn(rpc.server, rpc.server, c)
  BY <1>1, IdleNotOn DEF RpcInv, Pool
<1>8. \/ new = {}
      \/ /\ t.con[c].state = "up"
         /\ \E x \in Rpcs : new = {Request(c, x)} /\ t.con[c].requests = <<x>>
  <2>1. CASE k[c].requests = <<>>
    BY <2>1
  <2>2. CASE k[c].requests # <<>>
    <3>1. PICK x \in Rpcs : rpc.con[c].requests = <<x>>
      BY <1>3, <2>2, CarriedFacts DEF RpcInv
    <3>2. new = {Request(c, x)}
      BY <1>3, <3>1, SingleFacts
    <3> QED
      BY <1>3, <1>4, <3>1, <3>2
  <2> QED
    BY <2>1, <2>2
<1>9. SameRest(rpc, t)
  BY <1>2, <1>4 DEF SameRest
<1> HIDE DEF new
<1>10. Changes(rpc, t, c, rpc.server, new)
  BY <1>4, <1>6, <1>7, <1>8, <1>9 DEF Changes
<1>11. t.con[c].requests = rpc.con[c].requests
  BY <1>3, <1>4
<1>12. Pool(t, {}, {})
  BY <1>10, <1>11, KeepPool DEF RpcInv
<1> QED
  BY <1>1, <1>12 DEF RpcInv

\* evhttp_connectioncb gives up: the connection is down.
Down(s, c) == [s EXCEPT !.con[c].state = "down"]

LEMMA DownPool ==
  ASSUME NEW s, NEW c \in Conns, Pool(s, {}, {}), s.con[c].state = "connecting"
  PROVE  Pool(Down(s, c), {}, {c})
<1> DEFINE t == Down(s, c)
           k == WithState(s.con, c, "down")
<1>1. s.con \in [Conns -> Connection] /\ Shape(s)
  BY DEF Pool, Owned
<1>2. SameRest(s, t) /\ t.con = k /\ t.server = s.server
  BY <1>1 DEF SameRest, Shape, Down, WithState
<1>3. /\ k \in [Conns -> Connection] /\ k[c].requests = s.con[c].requests
      /\ k[c].state = "down" /\ \A d \in Conns \ {c} : k[d] = s.con[d]
  BY <1>1, StateFacts
<1> HIDE DEF t, k
<1>4. Among(c, s.connections)
  <2>1. s.con[c] # NoConnection
    BY DEF NoConnection
  <2> QED
    BY <2>1 DEF Pool, Wired
<1>5. Only(s.con, t.con, s.connections, c)
  BY <1>2, <1>3, <1>4 DEF Only
<1>6. NotOn(s.server, s.server, c)
  BY IdleNotOn DEF Pool
<1>7. Changes(s, t, c, s.server, {})
  BY <1>2, <1>5, <1>6 DEF Changes
<1>8. t.con[c].requests = s.con[c].requests /\ \A d \in {c} : t.con[d].state # "up"
  BY <1>2, <1>3
<1>9. Pool(t, {}, {c})
  BY <1>7, <1>8, KeepPool
<1> QED
  BY <1>9 DEF t

\* evhttp_connectioncb: every request is told.
LEMMA ConnectFailedStep ==
  ASSUME "refused" \notin Outcomes, RpcInv, NEW c \in Conns, ConnectFailed(c)
  PROVE  RpcInv'
<1>1. rpc.con[c].state = "connecting"
  BY DEF ConnectFailed
<1>2. PICK out \in Outcomes \X Outcomes, again \in {Null} \cup Unused :
        rpc' = Ended(TellAll(Down(Started(out, again), c), c))
  BY DEF ConnectFailed, Handle, Started, Ended, Down
<1> DEFINE s == Started(out, again)
<1>3. Pool(s, {}, {}) /\ s.con = rpc.con
  BY InputFacts, StartedPool
<1> HIDE DEF s
<1>4. Pool(Down(s, c), {}, {c})
  BY <1>1, <1>3, DownPool
<1>5. Pool(TellAll(Down(s, c), c), {}, {c})
  BY <1>4, TellAllPool
<1> QED
  BY <1>2, <1>5, EndedPool DEF s

\* evhttp_read has all of an answer: it is to the request that is told.
Answered(s, c, m) ==
  [s EXCEPT !.server = @ \ {m}, !.reply = <<Head(s.con[c].requests), m.of>>]

LEMMA AnsweredPool ==
  ASSUME NEW s, NEW m \in s.server, m.live, Pool(s, {}, {})
  PROVE  LET t == Answered(s, m.on, m)
         IN  /\ Pool(t, {}, {}) /\ t.con = s.con
             /\ m.on \in Conns /\ NotOn(t.server, t.server, m.on)
<1> DEFINE t == Answered(s, m.on, m)
<1>1. /\ m \in Message /\ s.con[m.on].requests = <<m.of>> /\ s.con[m.on].state = "up"
      /\ Wired(s.con, s.connections, s.server)
  BY DEF Pool, Wired
<1>2. m.of \in Rpcs /\ m.on \in Conns
  BY <1>1 DEF Message
<1>3. Head(s.con[m.on].requests) = m.of
  BY <1>1, <1>2, SingleFacts
<1>4. /\ Shape(t) /\ t.con = s.con /\ t.server = s.server \ {m}
      /\ t.connections = s.connections /\ t.requests = s.requests /\ t.where = s.where
      /\ t.evcon = s.evcon /\ t.timer = s.timer /\ t.out = s.out /\ t.again = s.again
      /\ t.reply = <<Head(s.con[m.on].requests), m.of>>
  BY DEF Answered, Pool, Shape
<1> HIDE DEF t
<1>5. Wired(t.con, t.connections, t.server)
  BY <1>1, <1>4 DEF Wired
<1>6. t.reply[1] = t.reply[2]
  BY <1>3, <1>4
<1>7. Pool(t, {}, {})
  BY <1>4, <1>5, <1>6 DEF Pool
<1>8. NotOn(s.server, s.server \ {m}, m.on)
  BY <1>1, ReadNotOn
<1>9. NotOn(t.server, t.server, m.on)
  BY <1>4, <1>8 DEF NotOn
<1> QED
  BY <1>2, <1>4, <1>7, <1>9 DEF t

LEMMA RepliedStep ==
  ASSUME "refused" \notin Outcomes, RpcInv, NEW c \in Conns, Replied(c)
  PROVE  RpcInv'
<1>1. PICK m \in rpc.server :
        /\ rpc.con[c].requests # <<>> /\ m.on = c /\ m.live
        /\ \E out \in Outcomes \X Outcomes, again \in {Null} \cup Unused :
             rpc' = Ended(evhttp_connection_done(Answered(Started(out, again), c, m), c,
                                                 m.at = "error"))
  BY DEF Replied, Busy, Handle, Started, Ended, Answered
<1>2. PICK out \in Outcomes \X Outcomes, again \in {Null} \cup Unused :
        rpc' = Ended(evhttp_connection_done(Answered(Started(out, again), c, m), c,
                                            m.at = "error"))
  BY <1>1
<1> DEFINE s == Started(out, again)
           t == Answered(s, c, m)
           close == m.at = "error"
<1>3. Pool(s, {}, {}) /\ s.con = rpc.con /\ s.server = rpc.server
  BY InputFacts, StartedPool
<1> HIDE DEF s
<1>4. Pool(t, {}, {}) /\ t.con = s.con /\ NotOn(t.server, t.server, c)
  BY <1>1, <1>3, AnsweredPool
<1> HIDE DEF t
<1>5. t.con[c].requests # <<>> /\ close \in BOOLEAN
  BY <1>1, <1>3, <1>4
<1> HIDE DEF close
<1>6. Pool(evhttp_connection_done(t, c, close), {}, {})
  BY <1>4, <1>5, DonePool
<1> QED
  BY <1>2, <1>6, EndedPool DEF s, t, close

\* The stream ends before the reply does: the connection is taken for up.
Dead(s, c) == [evhttp_connection_reset(s, c) EXCEPT !.con[c].state = "dead"]

LEMMA DeadPool ==
  ASSUME NEW s, NEW c \in Conns, Pool(s, {}, {}), s.con[c].requests # <<>>
  PROVE  LET t == Dead(s, c)
         IN  Pool(t, {}, {}) /\ t.con[c].requests # <<>> /\ NotOn(t.server, t.server, c)
<1> DEFINE u == evhttp_connection_reset(s, c)
           t == Dead(s, c)
           k == WithState(u.con, c, "dead")
<1>1. s.con \in [Conns -> Connection] /\ Shape(s) /\ s.server \in SUBSET Message
  BY DEF Pool, Owned, Wired
<1>2. /\ SameRest(s, u) /\ u.con \in [Conns -> Connection]
      /\ \A d \in Conns \ {c} : u.con[d] = s.con[d]
      /\ u.con[c].requests = s.con[c].requests
      /\ u.server = CutOff(s.server, c)
  BY <1>1, ResetFacts
<1>3. t = [u EXCEPT !.con[c].state = "dead"]
  BY DEF Dead
<1> HIDE DEF u, t
<1>4. SameRest(u, t) /\ t.con = k /\ t.server = u.server
  BY <1>2, <1>3 DEF SameRest, Shape, WithState
<1>5. /\ k \in [Conns -> Connection] /\ k[c].requests = u.con[c].requests
      /\ k[c].state = "dead" /\ \A d \in Conns \ {c} : k[d] = u.con[d]
  <2>1. u.con \in [Conns -> Connection]
    BY <1>2
  <2> QED
    BY <2>1, StateFacts
<1> HIDE DEF k
<1>6. SameRest(s, t)
  BY <1>2, <1>4 DEF SameRest
<1>7. Among(c, s.connections)
  BY CarriedFacts
<1>8. Only(s.con, t.con, s.connections, c)
  BY <1>2, <1>4, <1>5, <1>7 DEF Only
<1>9. NotOn(s.server, CutOff(s.server, c), c)
  BY <1>1, CutNotOn
<1>10. Changes(s, t, c, CutOff(s.server, c), {})
  BY <1>2, <1>4, <1>6, <1>8, <1>9 DEF Changes
<1>11. t.con[c].requests = s.con[c].requests /\ t.con[c].state = "dead"
  BY <1>2, <1>4, <1>5
<1>12. Pool(t, {}, {})
  BY <1>10, <1>11, KeepPool
<1>13. NotOn(t.server, t.server, c)
  BY <1>11, <1>12, IdleNotOn DEF Pool
<1> QED
  BY <1>11, <1>12, <1>13 DEF t

LEMMA EndOfStreamStep ==
  ASSUME "refused" \notin Outcomes, RpcInv, NEW c \in Conns, EndOfStream(c)
  PROVE  RpcInv'
<1>1. rpc.con[c].requests # <<>>
  BY DEF EndOfStream, Busy
<1>2. PICK out \in Outcomes \X Outcomes, again \in {Null} \cup Unused :
        rpc' = Ended(evhttp_connection_done(Dead(Started(out, again), c), c, FALSE))
  BY DEF EndOfStream, Handle, Started, Ended, Dead
<1> DEFINE s == Started(out, again)
           t == Dead(s, c)
<1>3. Pool(s, {}, {}) /\ s.con = rpc.con
  BY InputFacts, StartedPool
<1> HIDE DEF s
<1>4. Pool(t, {}, {}) /\ t.con[c].requests # <<>> /\ NotOn(t.server, t.server, c)
  BY <1>1, <1>3, DeadPool
<1> HIDE DEF t
<1>5. Pool(evhttp_connection_done(t, c, FALSE), {}, {})
  BY <1>4, DonePool
<1> QED
  BY <1>2, <1>5, EndedPool DEF s, t

LEMMA ConnectionFailsStep ==
  ASSUME "refused" \notin Outcomes, RpcInv, NEW c \in Conns, ConnectionFails(c)
  PROVE  RpcInv'
<1>1. rpc.con[c].requests # <<>>
  BY DEF ConnectionFails, Busy
<1>2. PICK out \in Outcomes \X Outcomes, again \in {Null} \cup Unused :
        rpc' = Ended(evhttp_connection_fail(Started(out, again), c))
  BY DEF ConnectionFails, Handle, Started, Ended
<1> DEFINE s == Started(out, again)
<1>3. Pool(s, {}, {}) /\ s.con = rpc.con
  BY InputFacts, StartedPool
<1> HIDE DEF s
<1>4. Pool(evhttp_connection_fail(s, c), {}, {})
  BY <1>1, <1>3, FailPool
<1> QED
  BY <1>2, <1>4, EndedPool DEF s

\* evhttp_detect_close_cb
LEMMA DetectCloseStep ==
  ASSUME RpcInv, NEW c \in Conns, DetectClose(c)
  PROVE  RpcInv'
<1> DEFINE t == evhttp_connection_reset(rpc, c)
<1>1. rpc' = t /\ rpc.con[c].state \in {"up", "dead"}
  BY DEF DetectClose
<1>2. rpc.con \in [Conns -> Connection] /\ Shape(rpc) /\ rpc.server \in SUBSET Message
  BY DEF RpcInv, Pool, Owned, Wired
<1>3. /\ SameRest(rpc, t) /\ t.con \in [Conns -> Connection]
      /\ \A d \in Conns \ {c} : t.con[d] = rpc.con[d]
      /\ t.con[c].requests = rpc.con[c].requests
      /\ t.server = CutOff(rpc.server, c)
  BY <1>2, ResetFacts
<1> HIDE DEF t
<1>4. Among(c, rpc.connections)
  <2>1. rpc.con[c] # NoConnection
    BY <1>1 DEF NoConnection
  <2> QED
    BY <2>1 DEF RpcInv, Pool, Wired
<1>5. Only(rpc.con, t.con, rpc.connections, c)
  BY <1>3, <1>4 DEF Only
<1>6. NotOn(rpc.server, CutOff(rpc.server, c), c)
  BY <1>2, CutNotOn
<1>7. Changes(rpc, t, c, CutOff(rpc.server, c), {})
  BY <1>3, <1>5, <1>6 DEF Changes
<1>8. Pool(t, {}, {})
  BY <1>3, <1>7, KeepPool DEF RpcInv
<1> QED
  BY <1>1, <1>8 DEF RpcInv

\* evrpc_request_timeout: the connection fails that carries the RPC.
LEMMA UntimedPool ==
  ASSUME NEW s, NEW x, Pool(s, {}, {})
  PROVE  Pool(Untimed(s, x), {}, {}) /\ Untimed(s, x).con = s.con
<1> DEFINE t == Untimed(s, x)
<1>1. /\ Shape(t) /\ t.con = s.con /\ t.server = s.server
      /\ t.connections = s.connections /\ t.requests = s.requests /\ t.where = s.where
      /\ t.evcon = s.evcon /\ t.timer = s.timer \ {x} /\ t.out = s.out /\ t.again = s.again
      /\ t.reply = s.reply
  BY DEF Untimed, Pool, Shape
<1> HIDE DEF t
<1>2. Owned(s.con, s.requests, s.where, s.evcon, s.timer \ {x}, {})
  BY DEF Pool, Owned
<1>3. Owned(t.con, t.requests, t.where, t.evcon, t.timer, {})
  BY <1>1, <1>2
<1>4. Pool(t, {}, {})
  BY <1>1, <1>3 DEF Pool
<1> QED
  BY <1>1, <1>4 DEF t

LEMMA RequestTimeoutStep ==
  ASSUME "refused" \notin Outcomes, RpcInv, NEW x \in Rpcs, RequestTimeout(x)
  PROVE  RpcInv'
<1>1. x \in rpc.timer
  BY DEF RequestTimeout
<1>2. PICK out \in Outcomes \X Outcomes, again \in {Null} \cup Unused :
        rpc' = Ended(evhttp_connection_fail(Untimed(Started(out, again), x),
                                            Started(out, again).evcon[x]))
  BY DEF RequestTimeout, Handle, Started, Ended, Untimed
<1> DEFINE s == Started(out, again)
           t == Untimed(s, x)
           c == s.evcon[x]
<1>3. Pool(s, {}, {}) /\ s.timer = rpc.timer
  BY InputFacts, StartedPool
<1> HIDE DEF s
<1>4. Pool(t, {}, {}) /\ t.con = s.con
  BY <1>3, UntimedPool
<1>5. c \in Conns /\ s.con[c].requests = <<x>>
  BY <1>1, <1>3 DEF Pool, Owned
<1>6. s.con[c].requests # <<>>
  BY <1>5, SingleFacts
<1> HIDE DEF t, c
<1>7. Pool(evhttp_connection_fail(t, c), {}, {})
  BY <1>4, <1>5, <1>6, FailPool
<1> QED
  BY <1>2, <1>7, EndedPool DEF s, t, c

\* The server moves a message on, or drops one that nobody waits for.
LEMMA MovesStep ==
  ASSUME RpcInv, NEW m \in rpc.server, NEW to, Moves(m, to),
         \A n \in to : n \in Message /\ n.on = m.on /\ n.of = m.of /\ n.live = m.live,
         \A n, k \in to : n = k
  PROVE  RpcInv'
<1>1. /\ Shape(rpc') /\ rpc'.con = rpc.con /\ rpc'.server = (rpc.server \ {m}) \cup to
      /\ rpc'.connections = rpc.connections /\ rpc'.requests = rpc.requests
      /\ rpc'.where = rpc.where /\ rpc'.evcon = rpc.evcon /\ rpc'.timer = rpc.timer
      /\ rpc'.out = rpc.out /\ rpc'.again = rpc.again /\ rpc'.reply = rpc.reply
  BY DEF Moves, RpcInv, Pool, Shape
<1>2. Wired(rpc.con, rpc.connections, rpc.server)
  BY DEF RpcInv, Pool
<1> DEFINE server == (rpc.server \ {m}) \cup to
<1>3. server \in SUBSET Message
  BY <1>2 DEF Wired
<1>4. \A n \in server : n.live => rpc.con[n.on].state = "up" /\ rpc.con[n.on].requests = <<n.of>>
  BY <1>2 DEF Wired
<1>5. \A n, k \in server : n.live /\ k.live /\ n.on = k.on => n = k
  BY <1>2 DEF Wired
<1>6. Wired(rpc.con, rpc.connections, server)
  BY <1>2, <1>3, <1>4, <1>5 DEF Wired
<1>7. Wired(rpc'.con, rpc'.connections, rpc'.server)
  BY <1>1, <1>6
<1>8. Pool(rpc', {}, {})
  BY <1>1, <1>7 DEF RpcInv, Pool
<1> QED
  BY <1>8 DEF RpcInv

\* evrpc_request_cb and evrpc_request_done
LEMMA ServerStep ==
  ASSUME RpcInv, NEW m \in rpc.server, ServerReceives(m) \/ RequestDone(m)
  PROVE  RpcInv'
<1>1. m \in Message
  BY DEF RpcInv, Pool, Wired
<1> DEFINE moved(at) == [m EXCEPT !.at = at]
<1>2. \A at \in {"user", "reply", "error"} :
        /\ moved(at) \in Message /\ moved(at).on = m.on /\ moved(at).of = m.of
        /\ moved(at).live = m.live
  BY <1>1 DEF Message
<1>3. ASSUME NEW at \in {"reply", "error"}, Moves(m, Sends(m, at)) PROVE RpcInv'
  <2>1. \A n \in Sends(m, at) : n = moved(at)
    BY DEF Sends
  <2> HIDE DEF moved
  <2>2. at \in {"user", "reply", "error"}
    OBVIOUS
  <2>3. \A n \in Sends(m, at) : n \in Message /\ n.on = m.on /\ n.of = m.of /\ n.live = m.live
    BY <1>2, <2>1, <2>2
  <2> QED
    BY <1>3, <2>1, <2>3, MovesStep
<1>4. ASSUME Moves(m, {moved("user")}) PROVE RpcInv'
  <2> HIDE DEF moved
  <2>1. \A n \in {moved("user")} :
          n \in Message /\ n.on = m.on /\ n.of = m.of /\ n.live = m.live
    BY <1>2
  <2>2. \A n, k \in {moved("user")} : n = k
    OBVIOUS
  <2> QED
    BY <1>4, <2>1, <2>2, MovesStep
<1> QED
  BY <1>3, <1>4 DEF ServerReceives, RequestDone

\* EVRPC_MAKE_REQUEST
LEMMA MakeRequestStep ==
  ASSUME "refused" \notin Outcomes, RpcInv, NEW x \in Rpcs, MakeRequest(x)
  PROVE  RpcInv'
<1>1. rpc.where[x] = "none"
  BY DEF MakeRequest, Unused
<1>2. PICK out \in Outcomes \X Outcomes, again \in {Null} \cup Unused :
        rpc' = Ended(evrpc_pool_schedule(Enqueue(Started(out, again), x)))
  BY DEF MakeRequest, Handle, Started, Ended, evrpc_make_request
<1> DEFINE s == Started(out, again)
           t == Enqueue(s, x)
<1>3. Pool(s, {}, {}) /\ s.where = rpc.where
  BY InputFacts, StartedPool
<1> HIDE DEF s
<1>4. Pool(t, {}, {})
  BY <1>1, <1>3, EnqueuePool
<1> HIDE DEF t
<1>5. Pool(evrpc_pool_schedule(t), {}, {})
  BY <1>4, SchedulePool
<1> QED
  BY <1>2, <1>5, EndedPool DEF s, t

\* evrpc_pool_add_connection: a connection that was not used takes the first RPC
\* of the queue.
Joined(s, c) == [s EXCEPT !.connections = Append(@, c)]

LEMMA JoinedPool ==
  ASSUME NEW s, NEW c \in Conns, Pool(s, {}, {}), ~Among(c, s.connections)
  PROVE  LET t == Joined(s, c)
         IN  /\ Pool(t, {}, {}) /\ t.requests = s.requests /\ Among(c, t.connections)
             /\ t.con[c].requests = <<>>
<1> DEFINE t == Joined(s, c)
           q == Append(s.connections, c)
<1>1. /\ Shape(t) /\ t.con = s.con /\ t.server = s.server
      /\ t.connections = q /\ t.requests = s.requests /\ t.where = s.where
      /\ t.evcon = s.evcon /\ t.timer = s.timer /\ t.out = s.out /\ t.again = s.again
      /\ t.reply = s.reply
  BY DEF Joined, Pool, Shape
<1>2. /\ q \in Seq(Conns) /\ Len(s.connections) \in Nat /\ Len(q) = Len(s.connections) + 1
      /\ \A i \in 1 .. Len(s.connections) : q[i] = s.connections[i]
      /\ q[Len(s.connections) + 1] = c
  <2>1. s.connections \in Seq(Conns)
    BY DEF Pool, Wired
  <2> QED
    BY <2>1, AppendFacts
<1> HIDE DEF t, q
<1>3. Among(c, q)
  <2>1. Len(s.connections) + 1 \in 1 .. Len(q)
    BY <1>2
  <2> QED
    BY <1>2, <2>1 DEF Among
<1>4. \A d \in Conns : Among(d, s.connections) => Among(d, q)
  <2>1. \A i \in 1 .. Len(s.connections) : i \in 1 .. Len(q)
    BY <1>2
  <2> QED
    BY <1>2, <2>1 DEF Among
<1>5. Wired(t.con, t.connections, t.server)
  <2>1. Wired(s.con, s.connections, s.server)
    BY DEF Pool
  <2>2. Wired(s.con, q, s.server)
    BY <1>2, <1>4, <2>1 DEF Wired
  <2> QED
    BY <1>1, <2>2
<1>6. Pool(t, {}, {})
  BY <1>1, <1>5 DEF Pool
<1>7. s.con[c] = NoConnection
  BY DEF Pool, Wired
<1>8. t.con[c].requests = <<>>
  BY <1>1, <1>7 DEF NoConnection
<1> QED
  BY <1>1, <1>3, <1>6, <1>8 DEF t

LEMMA PoolAddConnectionStep ==
  ASSUME "refused" \notin Outcomes, RpcInv, NEW c \in Conns, PoolAddConnection(c)
  PROVE  RpcInv'
<1>1. ~Among(c, rpc.connections)
  <2>1. rpc.connections \in Seq(Conns)
    BY DEF RpcInv, Pool, Wired
  <2>2. DOMAIN rpc.connections = 1 .. Len(rpc.connections)
    BY <2>1
  <2> QED
    BY <2>2 DEF PoolAddConnection, ToSet, Among
<1>2. PICK out \in Outcomes \X Outcomes, again \in {Null} \cup Unused :
        LET s == Started(out, again)
            t == Joined(s, c)
        IN  rpc' = Ended(IF s.requests = <<>> THEN t
                         ELSE evrpc_schedule_request([t EXCEPT !.requests = Tail(@)], c,
                                                     Head(s.requests)))
  BY DEF PoolAddConnection, Handle, Started, Ended, Joined
<1> DEFINE s == Started(out, again)
           t == Joined(s, c)
           x == Head(t.requests)
           u == [t EXCEPT !.requests = Tail(@)]
<1>3. Pool(s, {}, {}) /\ s.connections = rpc.connections
  BY InputFacts, StartedPool
<1> HIDE DEF s
<1>4. /\ Pool(t, {}, {}) /\ t.requests = s.requests /\ Among(c, t.connections)
      /\ t.con[c].requests = <<>>
  BY <1>1, <1>3, JoinedPool
<1>5. CASE s.requests = <<>>
  <2>1. rpc' = Ended(t)
    BY <1>2, <1>5 DEF s
  <2> QED
    BY <1>4, <2>1, EndedPool
<1>6. CASE s.requests # <<>>
  <2>1. rpc' = Ended(evrpc_schedule_request(u, c, Head(s.requests)))
    BY <1>2, <1>6 DEF s
  <2>2. x = Head(s.requests)
    BY <1>4
  <2> HIDE DEF t
  <2>3. t.requests # <<>>
    BY <1>4, <1>6
  <2>4. Pool(u, {} \cup {x}, {})
    BY <1>4, <2>3, PopPool
  <2>5. u.connections = t.connections /\ u.con = t.con
    BY <1>4 DEF Pool, Shape
  <2> HIDE DEF u, x
  <2>6. CanSchedule(u, {} \cup {x}, {}, c, x)
    BY <1>4, <2>4, <2>5 DEF CanSchedule
  <2>7. Pool(evrpc_schedule_request(u, c, x), ({} \cup {x}) \ {x}, {})
    BY <2>6, ScheduleRequestPool
  <2>8. ({} \cup {x}) \ {x} = {}
    OBVIOUS
  <2>9. Pool(evrpc_schedule_request(u, c, x), {}, {})
    BY <2>7, <2>8
  <2> QED
    BY <2>1, <2>2, <2>9, EndedPool
<1> QED
  BY <1>5, <1>6

LEMMA PoolSetTimeoutStep ==
  ASSUME RpcInv, NEW t, PoolSetTimeout(t)
  PROVE  RpcInv'
<1>1. /\ Shape(rpc') /\ rpc'.con = rpc.con /\ rpc'.server = rpc.server
      /\ rpc'.connections = rpc.connections /\ rpc'.requests = rpc.requests
      /\ rpc'.where = rpc.where /\ rpc'.evcon = rpc.evcon /\ rpc'.timer = rpc.timer
      /\ rpc'.out = rpc.out /\ rpc'.again = rpc.again /\ rpc'.reply = rpc.reply
  BY DEF PoolSetTimeout, RpcInv, Pool, Shape
<1>2. Pool(rpc', {}, {})
  BY <1>1 DEF RpcInv, Pool
<1> QED
  BY <1>2 DEF RpcInv

\* A new pool, while the servers still have requests of an old one.
Fresh(s, left) ==
  /\ Shape(s) /\ s.con = [c \in Conns |-> NoConnection] /\ s.server = left
  /\ s.connections = <<>> /\ s.requests = <<>> /\ s.where = [x \in Rpcs |-> "none"]
  /\ s.evcon = [x \in Rpcs |-> Null] /\ s.timer = {} /\ s.out = <<>> /\ s.again = Null
  /\ s.reply = <<Null, Null>>
  /\ left \in SUBSET Message /\ \A m \in left : ~m.live

LEMMA FreshPool ==
  ASSUME NEW s, NEW left, Fresh(s, left)
  PROVE  Pool(s, {}, {})
<1>1. /\ Shape(s) /\ s.con = [c \in Conns |-> NoConnection] /\ s.server = left
      /\ s.connections = <<>> /\ s.requests = <<>> /\ s.where = [x \in Rpcs |-> "none"]
      /\ s.evcon = [x \in Rpcs |-> Null] /\ s.timer = {} /\ s.out = <<>> /\ s.again = Null
      /\ s.reply = <<Null, Null>>
  BY DEF Fresh
<1>2. <<>> \in Seq(Rpcs) /\ <<>> \in Seq(Conns) /\ <<>> \in Seq(Outcomes)
      /\ \A i \in 1 .. Len(<<>>) : FALSE
  OBVIOUS
<1>3. NoConnection \in Connection /\ NoConnection.requests = <<>>
  BY <1>2 DEF NoConnection, Connection
<1>4. \A x \in Rpcs : ~Among(x, s.requests)
  BY <1>1, <1>2 DEF Among
<1>5. Owned(s.con, s.requests, s.where, s.evcon, s.timer, {})
  <2>1. s.con \in [Conns -> Connection] /\ \A c \in Conns : s.con[c].requests = <<>>
    BY <1>1, <1>3
  <2>2. \A x \in Rpcs : s.where[x] = "none"
    BY <1>1
  <2>3. /\ s.where \in [Rpcs -> {"none", "queued", "sent"}] /\ s.requests \in Seq(Rpcs)
        /\ s.evcon \in [Rpcs -> Conns \cup {Null}] /\ s.timer = {}
    BY <1>1, <1>2
  <2>4. \A i, j \in 1 .. Len(s.requests) : s.requests[i] = s.requests[j] => i = j
    BY <1>1, <1>2
  <2> QED
    BY <1>4, <2>1, <2>2, <2>3, <2>4 DEF Owned
<1>6. Wired(s.con, s.connections, s.server)
  <2>1. \A c \in Conns : s.con[c] = NoConnection
    BY <1>1
  <2>2. s.connections \in Seq(Conns) /\ s.server = left
    BY <1>1, <1>2
  <2> QED
    BY <2>1, <2>2 DEF Wired, Fresh
<1>7. s.out \in Seq(Outcomes) /\ s.reply[1] = s.reply[2] /\ s.again \in Rpcs \cup {Null}
  <2>1. s.out \in Seq(Outcomes)
    BY <1>1, <1>2
  <2>2. s.reply[1] = s.reply[2] /\ s.again \in Rpcs \cup {Null}
    BY <1>1
  <2> QED
    BY <2>1, <2>2
<1> QED
  BY <1>1, <1>5, <1>6, <1>7 DEF Pool

\* evrpc_pool_free, evrpc_pool_new
LEMMA PoolFreeStep ==
  ASSUME RpcInv, PoolFree
  PROVE  RpcInv'
<1> DEFINE left == {[m EXCEPT !.live = FALSE] : m \in {k \in rpc.server : k.at \in {"sent", "user"}}}
<1>1. rpc' = [NewPool EXCEPT !.server = left]
  BY DEF PoolFree
<1>2. \A m \in rpc.server : m \in Message
  BY DEF RpcInv, Pool, Wired
<1>3. \A m \in Message : [m EXCEPT !.live = FALSE] \in Message /\ ~[m EXCEPT !.live = FALSE].live
  BY DEF Message
<1>4. left \in SUBSET Message /\ \A m \in left : ~m.live
  BY <1>2, <1>3
<1> HIDE DEF left
<1>5. Fresh(rpc', left)
  BY <1>1, <1>4 DEF Fresh, NewPool, Shape
<1>6. Pool(rpc', {}, {})
  BY <1>5, FreshPool
<1> QED
  BY <1>6 DEF RpcInv

-----------------------------------------------------------------------------
(* The invariant.                                                          *)

LEMMA InitInv == Init => RpcInv
<1> SUFFICES ASSUME Init PROVE RpcInv
  OBVIOUS
<1>1. {} \in SUBSET Message /\ \A m \in {} : ~m.live
  OBVIOUS
<1>2. Fresh(rpc, {})
  BY <1>1 DEF Init, NewPool, Fresh, Shape
<1> QED
  BY <1>2, FreshPool DEF RpcInv

LEMMA NextInv ==
  ASSUME "refused" \notin Outcomes, RpcInv, [Next]_rpc
  PROVE  RpcInv'
<1>1. CASE UNCHANGED rpc
  BY <1>1 DEF RpcInv
<1>2. ASSUME NEW c \in Conns, ConnectionStep(c) \/ DetectClose(c) \/ PoolAddConnection(c)
      PROVE  RpcInv'
  BY <1>2, ConnectedStep, ConnectFailedStep, RepliedStep, EndOfStreamStep,
     ConnectionFailsStep, DetectCloseStep, PoolAddConnectionStep DEF ConnectionStep
<1>3. ASSUME NEW x \in Rpcs, RequestTimeout(x) \/ MakeRequest(x) PROVE RpcInv'
  BY <1>3, RequestTimeoutStep, MakeRequestStep
<1> QED
  BY <1>1, <1>2, <1>3, ServerStep, PoolSetTimeoutStep, PoolFreeStep DEF Next

\* Every RPC has one place, in terms of the run's property.
LEMMA InvOwned == RpcInv => RpcsOwned
<1> SUFFICES ASSUME RpcInv, NEW x \in Rpcs
             PROVE  /\ Carried(x) = IF rpc.where[x] = "sent" THEN {rpc.evcon[x]} ELSE {}
                    /\ (\E i \in DOMAIN rpc.requests : rpc.requests[i] = x)
                         <=> rpc.where[x] = "queued"
                    /\ x \in rpc.timer => /\ rpc.where[x] = "sent"
                                          /\ Head(rpc.con[rpc.evcon[x]].requests) = x
  BY DEF RpcsOwned
<1>1. Owned(rpc.con, rpc.requests, rpc.where, rpc.evcon, rpc.timer, {})
  BY DEF RpcInv, Pool
<1>2. DOMAIN rpc.requests = 1 .. Len(rpc.requests)
  <2>1. rpc.requests \in Seq(Rpcs)
    BY <1>1 DEF Owned
  <2> QED
    BY <2>1
<1>3. (\E i \in DOMAIN rpc.requests : rpc.requests[i] = x) <=> rpc.where[x] = "queued"
  BY <1>1, <1>2 DEF Owned, Among
<1>4. rpc.where[x] = "sent" =>
        rpc.evcon[x] \in Conns /\ rpc.con[rpc.evcon[x]].requests = <<x>>
  BY <1>1 DEF Owned
<1>5. x \in rpc.timer => rpc.where[x] = "sent" /\ Head(rpc.con[rpc.evcon[x]].requests) = x
  BY <1>1, <1>4, SingleFacts DEF Owned
<1>6. ASSUME NEW c \in Carried(x) PROVE rpc.where[x] = "sent" /\ rpc.evcon[x] = c
  <2>1. c \in Conns /\ \E i \in DOMAIN rpc.con[c].requests : rpc.con[c].requests[i] = x
    BY DEF Carried
  <2>2. rpc.con[c].requests # <<>>
    BY <2>1
  <2>3. PICK y \in Rpcs : rpc.con[c].requests = <<y>> /\ rpc.where[y] = "sent" /\ rpc.evcon[y] = c
    BY <1>1, <2>1, <2>2 DEF Owned
  <2>4. y = x
    BY <2>1, <2>3, SingleFacts
  <2> QED
    BY <2>3, <2>4
<1>7. ASSUME rpc.where[x] = "sent" PROVE rpc.evcon[x] \in Carried(x)
  <2>1. 1 \in DOMAIN <<x>> /\ <<x>>[1] = x
    BY SingleFacts
  <2> QED
    BY <1>4, <1>7, <2>1 DEF Carried
<1>8. Carried(x) = IF rpc.where[x] = "sent" THEN {rpc.evcon[x]} ELSE {}
  BY <1>6, <1>7
<1> QED
  BY <1>3, <1>5, <1>8

\* While evhttp_make_request does not refuse at once, an RPC that is under way is
\* in the queue of the pool or on the connection it knows and on that alone, and
\* its timeout is pending only while it is there: whatever connections fail, end
\* and close, replies race timeouts, hooks abort and callbacks make more RPCs.
THEOREM RpcsAlwaysOwned ==
  ASSUME "refused" \notin Outcomes
  PROVE  Spec => []RpcsOwned
<1>1. RpcInv /\ [Next]_rpc => RpcInv'
  BY NextInv
<1> QED
  BY <1>1, InitInv, InvOwned, PTL DEF Spec

\* Under the same condition a reply that an RPC is given answers that RPC: one
\* that is late, after a timeout or the failure of the connection, is not taken
\* for the answer to the RPC that has the connection now.
THEOREM RepliesAlwaysMatch ==
  ASSUME "refused" \notin Outcomes
  PROVE  Spec => []ReplyMatches
<1>1. RpcInv /\ [Next]_rpc => RpcInv'
  BY NextInv
<1>2. RpcInv => ReplyMatches
  BY DEF RpcInv, Pool, ReplyMatches
<1> QED
  BY <1>1, <1>2, InitInv, PTL DEF Spec
=============================================================================
