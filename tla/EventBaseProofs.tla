-------------------------- MODULE EventBaseProofs --------------------------
(***************************************************************************)
(* Invariants of EventBase, for every set of events, every number of       *)
(* priorities and every bound.  The first part is about the queue record   *)
(* alone: event_queue_insert, event_queue_remove and what event_add,       *)
(* event_del and event_active make of them keep flags, queues and counters *)
(* in step.                                                                *)
(***************************************************************************)
EXTENDS EventBase, FiniteSetTheorems, TLAPS

\* What the queue operations preserve.
QueuesOK(b) ==
  /\ b \in QueueStates
  /\ Membership(b)
  /\ Counts(b)
  /\ \A e \in AllEvents : b.pri[e] < b.npri
  /\ ~b.fatal

\* c is b but for the flags, queues and counters.
SamePriorities(b, c) == c.pri = b.pri /\ c.npri = b.npri

Injective(s) == \A i, j \in 1 .. Len(s) : s[i] = s[j] => i = j
Elements(s) == {s[i] : i \in 1 .. Len(s)}

\* TAILQ_REMOVE takes exactly one element off a list without duplicates and
\* keeps the list free of duplicates.
LEMMA TailqRemoveElements ==
  ASSUME NEW S, NEW s \in Seq(S), NEW e \in Elements(s), Injective(s)
  PROVE  /\ TailqRemove(s, e) \in Seq(S)
         /\ Injective(TailqRemove(s, e))
         /\ Elements(TailqRemove(s, e)) = Elements(s) \ {e}
<1> DEFINE n == Len(s)
           P(k) == s[k] = e
           i == CHOOSE k \in 1 .. n : P(k)
           f == [k \in 1 .. n - 1 |-> IF k < i THEN s[k] ELSE s[k + 1]]
<1>1. n \in Nat /\ s \in [1 .. n -> S]
  OBVIOUS
<1>2. PICK m \in 1 .. n : s[m] = e
  BY DEF Elements
<1>3. i \in 1 .. n /\ s[i] = e
  BY <1>2
<1>4. TailqRemove(s, e) = f
  BY DEF TailqRemove
<1> HIDE DEF i, n
<1>5. n - 1 \in Nat
  BY <1>1, <1>3
<1>6. \A k \in 1 .. n - 1 : (IF k < i THEN s[k] ELSE s[k + 1]) \in S
  BY <1>1, <1>3
<1>7. f \in Seq(S) /\ Len(f) = n - 1
  BY <1>5, <1>6
<1>8. \A j, k \in 1 .. n : s[j] = s[k] => j = k
  BY DEF Injective, n
<1>9. Injective(f)
  <2> SUFFICES ASSUME NEW j \in 1 .. n - 1, NEW k \in 1 .. n - 1, f[j] = f[k]
               PROVE  j = k
    BY <1>7 DEF Injective
  <2>1. CASE j < i /\ k < i
    BY <2>1, <1>8, <1>1
  <2>2. CASE j < i /\ ~(k < i)
    BY <2>2, <1>8, <1>1, <1>3
  <2>3. CASE ~(j < i) /\ k < i
    BY <2>3, <1>8, <1>1, <1>3
  <2>4. CASE ~(j < i) /\ ~(k < i)
    BY <2>4, <1>8, <1>1, <1>3
  <2> QED
    BY <2>1, <2>2, <2>3, <2>4
<1>10. Elements(f) \subseteq Elements(s) \ {e}
  <2> SUFFICES ASSUME NEW j \in 1 .. n - 1
               PROVE  f[j] \in Elements(s) \ {e}
    BY <1>7 DEF Elements
  <2>1. CASE j < i
    BY <2>1, <1>8, <1>1, <1>3 DEF Elements, n
  <2>2. CASE ~(j < i)
    BY <2>2, <1>8, <1>1, <1>3 DEF Elements, n
  <2> QED
    BY <2>1, <2>2
<1>11. Elements(s) \ {e} \subseteq Elements(f)
  <2> SUFFICES ASSUME NEW j \in 1 .. n, s[j] # e
               PROVE  s[j] \in Elements(f)
    BY DEF Elements, n
  <2>1. CASE j < i
    <3>1. j \in 1 .. n - 1 /\ f[j] = s[j]
      BY <2>1, <1>1, <1>3
    <3> QED
      BY <3>1, <1>7 DEF Elements
  <2>2. CASE ~(j < i)
    <3>1. j - 1 \in 1 .. n - 1 /\ f[j - 1] = s[j]
      BY <2>2, <1>1, <1>3
    <3> QED
      BY <3>1, <1>7 DEF Elements
  <2> QED
    BY <2>1, <2>2
<1> QED
  BY <1>4, <1>7, <1>9, <1>10, <1>11

LEMMA AppendElements ==
  ASSUME NEW S, NEW s \in Seq(S), NEW e \in S, e \notin Elements(s), Injective(s)
  PROVE  /\ Append(s, e) \in Seq(S)
         /\ Injective(Append(s, e))
         /\ Elements(Append(s, e)) = Elements(s) \cup {e}
<1> DEFINE t == Append(s, e)
<1>1. /\ t \in Seq(S) /\ Len(t) = Len(s) + 1 /\ Len(s) \in Nat
      /\ \A i \in 1 .. Len(s) : t[i] = s[i]
      /\ t[Len(s) + 1] = e
  OBVIOUS
<1> HIDE DEF t
<1>2. Injective(t)
  <2> SUFFICES ASSUME NEW i \in 1 .. Len(t), NEW j \in 1 .. Len(t), t[i] = t[j]
               PROVE  i = j
    BY DEF Injective
  <2>1. CASE i \in 1 .. Len(s) /\ j \in 1 .. Len(s)
    BY <2>1, <1>1 DEF Injective
  <2>2. CASE i = Len(s) + 1 \/ j = Len(s) + 1
    BY <2>2, <1>1 DEF Elements
  <2> QED
    BY <2>1, <2>2, <1>1
<1>3. Elements(t) \subseteq Elements(s) \cup {e}
  BY <1>1 DEF Elements
<1>4. Elements(s) \cup {e} \subseteq Elements(t)
  BY <1>1 DEF Elements
<1> QED
  BY <1>1, <1>2, <1>3, <1>4 DEF t

LEMMA AllEventsFinite ==
  /\ IsFiniteSet(AllEvents)
  /\ \A T \in SUBSET AllEvents : IsFiniteSet(T) /\ Cardinality(T) \in Nat
<1>1. IsFiniteSet(Events \cup Once)
  BY EventsAssumption, FS_Union
<1>2. IsFiniteSet(AllEvents)
  BY <1>1, FS_AddElement DEF AllEvents
<1> QED
  BY <1>2, FS_Subset, FS_CardinalityType

\* event_queue_insert keeps flags, queues and counters in step.
LEMMA InsertOK ==
  ASSUME NEW b, QueuesOK(b), NEW e \in AllEvents, NEW queue \in Queues,
         queue \notin b.flags[e]
  PROVE  LET c == event_queue_insert(b, e, queue)
         IN  /\ QueuesOK(c)
             /\ c.flags = [b.flags EXCEPT ![e] = @ \cup {queue}]
             /\ SamePriorities(b, c)
<1> DEFINE c == event_queue_insert(b, e, queue)
<1>1. /\ b \in QueueStates /\ Membership(b) /\ Counts(b)
      /\ ~b.fatal /\ \A f \in AllEvents : b.pri[f] < b.npri
  BY DEF QueuesOK
<1>2. /\ c.flags = [b.flags EXCEPT ![e] = @ \cup {queue}]
      /\ c.pri = b.pri /\ c.npri = b.npri /\ c.fatal = b.fatal
      /\ c.count = IF e = SigEv THEN b.count ELSE b.count + 1
      /\ c.eventqueue = IF queue = "INSERTED" THEN b.eventqueue \cup {e} ELSE b.eventqueue
      /\ c.timeheap = IF queue = "TIMEOUT" THEN b.timeheap \cup {e} ELSE b.timeheap
      /\ c.countActive = IF queue = "ACTIVE" THEN b.countActive + 1 ELSE b.countActive
      /\ c.active = IF queue = "ACTIVE"
                    THEN [b.active EXCEPT ![b.pri[e]] = Append(@, e)] ELSE b.active
  BY DEF event_queue_insert, Uncounted
<1>3. /\ b.flags \in [AllEvents -> SUBSET Queues] /\ b.pri \in [AllEvents -> Pris]
      /\ b.active \in [Pris -> Seq(AllEvents)]
  BY <1>1 DEF QueueStates
<1>4. \A r \in Queues : On(c, r) = IF r = queue THEN On(b, r) \cup {e} ELSE On(b, r)
  BY <1>2, <1>3 DEF On
<1>5. e \notin On(b, queue)
  BY DEF On
<1>6. \A p \in Pris : ActiveQueueOK(c, p)
  <2> SUFFICES ASSUME NEW p \in Pris PROVE ActiveQueueOK(c, p)
    OBVIOUS
  <2> DEFINE s == b.active[p]
  <2>1. s \in Seq(AllEvents) /\ Injective(s) /\ Elements(s) = ActiveAt(b, p)
    BY <1>1, <1>3 DEF Membership, ActiveQueueOK, Injective, Elements
  <2>2. CASE queue = "ACTIVE" /\ p = b.pri[e]
    <3>1. c.active[p] = Append(s, e)
      BY <2>2, <1>2, <1>3
    <3>2. e \notin Elements(s)
      BY <2>1, <2>2, <1>5 DEF ActiveAt
    <3>3. Injective(Append(s, e)) /\ Elements(Append(s, e)) = ActiveAt(b, p) \cup {e}
      BY <2>1, <3>2, AppendElements
    <3>4. ActiveAt(c, p) = ActiveAt(b, p) \cup {e}
      BY <2>2, <1>2, <1>4 DEF ActiveAt, Queues
    <3> QED
      BY <3>1, <3>3, <3>4 DEF ActiveQueueOK, Injective, Elements
  <2>3. CASE queue # "ACTIVE" \/ p # b.pri[e]
    <3>1. c.active[p] = s
      BY <2>3, <1>2, <1>3
    <3>2. ActiveAt(c, p) = ActiveAt(b, p)
      BY <2>3, <1>2, <1>4 DEF ActiveAt, Queues
    <3> QED
      BY <3>1, <3>2, <2>1 DEF ActiveQueueOK, Injective, Elements
  <2> QED
    BY <2>2, <2>3
<1>7. Membership(c)
  BY <1>1, <1>2, <1>4, <1>6 DEF Membership, Queues
<1>8. Counts(c)
  <2>1. \A r \in Queues : On(b, r) \in SUBSET AllEvents /\ Counted(b, r) \in SUBSET AllEvents
    BY DEF On, Counted
  <2>2. \A r \in Queues : /\ IsFiniteSet(On(b, r)) /\ Cardinality(On(b, r)) \in Nat
                         /\ IsFiniteSet(Counted(b, r)) /\ Cardinality(Counted(b, r)) \in Nat
    BY <2>1, AllEventsFinite
  <2>3. \A r \in Queues : Counted(c, r) = IF r = queue /\ e # SigEv
                                         THEN Counted(b, r) \cup {e} ELSE Counted(b, r)
    BY <1>4 DEF Counted
  <2>4. \A r \in Queues :
          Cardinality(Counted(c, r)) = IF r = queue /\ e # SigEv
            THEN Cardinality(Counted(b, r)) + 1 ELSE Cardinality(Counted(b, r))
    BY <2>2, <2>3, <1>5, FS_AddElement DEF Counted
  <2>5. Cardinality(On(c, "ACTIVE")) = IF queue = "ACTIVE"
          THEN Cardinality(On(b, "ACTIVE")) + 1 ELSE Cardinality(On(b, "ACTIVE"))
    BY <2>2, <1>4, <1>5, FS_AddElement DEF Queues
  <2>6. c.countActive = Cardinality(On(c, "ACTIVE"))
    BY <2>5, <1>1, <1>2 DEF Counts
  <2>7. c.count = Cardinality(Counted(c, "INSERTED")) + Cardinality(Counted(c, "TIMEOUT"))
                  + Cardinality(Counted(c, "ACTIVE"))
    BY <2>2, <2>4, <1>1, <1>2 DEF Counts, Queues
  <2> QED
    BY <2>6, <2>7 DEF Counts
<1>9. c \in QueueStates
  <2>1. c.active \in [Pris -> Seq(AllEvents)]
    BY <1>2, <1>3
  <2>2. c.flags \in [AllEvents -> SUBSET Queues]
    BY <1>2, <1>3
  <2> QED
    BY <2>1, <2>2, <1>1 DEF QueueStates, event_queue_insert, Uncounted
<1> QED
  BY <1>1, <1>2, <1>7, <1>8, <1>9 DEF QueuesOK, SamePriorities
\* event_queue_remove keeps them in step, too.
LEMMA RemoveOK ==
  ASSUME NEW b, QueuesOK(b), NEW e \in AllEvents, NEW queue \in Queues,
         queue \in b.flags[e]
  PROVE  LET c == event_queue_remove(b, e, queue)
         IN  /\ QueuesOK(c)
             /\ c.flags = [b.flags EXCEPT ![e] = @ \ {queue}]
             /\ SamePriorities(b, c)
<1> DEFINE c == event_queue_remove(b, e, queue)
<1>1. /\ b \in QueueStates /\ Membership(b) /\ Counts(b)
      /\ ~b.fatal /\ \A f \in AllEvents : b.pri[f] < b.npri
  BY DEF QueuesOK
<1>2. /\ c.flags = [b.flags EXCEPT ![e] = @ \ {queue}]
      /\ c.pri = b.pri /\ c.npri = b.npri /\ c.fatal = b.fatal
      /\ c.count = IF e = SigEv THEN b.count ELSE b.count - 1
      /\ c.eventqueue = IF queue = "INSERTED" THEN b.eventqueue \ {e} ELSE b.eventqueue
      /\ c.timeheap = IF queue = "TIMEOUT" THEN b.timeheap \ {e} ELSE b.timeheap
      /\ c.countActive = IF queue = "ACTIVE" THEN b.countActive - 1 ELSE b.countActive
      /\ c.active = IF queue = "ACTIVE"
                    THEN [b.active EXCEPT ![b.pri[e]] = TailqRemove(@, e)] ELSE b.active
  BY DEF event_queue_remove, Uncounted
<1>3. /\ b.flags \in [AllEvents -> SUBSET Queues] /\ b.pri \in [AllEvents -> Pris]
      /\ b.active \in [Pris -> Seq(AllEvents)]
  BY <1>1 DEF QueueStates
<1>4. \A r \in Queues : On(c, r) = IF r = queue THEN On(b, r) \ {e} ELSE On(b, r)
  BY <1>2, <1>3 DEF On
<1>5. e \in On(b, queue)
  BY DEF On
<1>6. \A p \in Pris : ActiveQueueOK(c, p)
  <2> SUFFICES ASSUME NEW p \in Pris PROVE ActiveQueueOK(c, p)
    OBVIOUS
  <2> DEFINE s == b.active[p]
  <2>1. s \in Seq(AllEvents) /\ Injective(s) /\ Elements(s) = ActiveAt(b, p)
    BY <1>1, <1>3 DEF Membership, ActiveQueueOK, Injective, Elements
  <2>2. CASE queue = "ACTIVE" /\ p = b.pri[e]
    <3>1. c.active[p] = TailqRemove(s, e)
      BY <2>2, <1>2, <1>3
    <3>2. e \in Elements(s)
      BY <2>1, <2>2, <1>5 DEF ActiveAt
    <3>3. Injective(TailqRemove(s, e)) /\ Elements(TailqRemove(s, e)) = ActiveAt(b, p) \ {e}
      BY <2>1, <3>2, TailqRemoveElements
    <3>4. ActiveAt(c, p) = ActiveAt(b, p) \ {e}
      BY <2>2, <1>2, <1>4 DEF ActiveAt, Queues
    <3> QED
      BY <3>1, <3>3, <3>4 DEF ActiveQueueOK, Injective, Elements
  <2>3. CASE queue # "ACTIVE" \/ p # b.pri[e]
    <3>1. c.active[p] = s
      BY <2>3, <1>2, <1>3
    <3>2. ActiveAt(c, p) = ActiveAt(b, p)
      BY <2>3, <1>2, <1>4 DEF ActiveAt, Queues
    <3> QED
      BY <3>1, <3>2, <2>1 DEF ActiveQueueOK, Injective, Elements
  <2> QED
    BY <2>2, <2>3
<1>7. Membership(c)
  BY <1>1, <1>2, <1>4, <1>6 DEF Membership, Queues
<1>8. Counts(c)
  <2>1. \A r \in Queues : On(b, r) \in SUBSET AllEvents /\ Counted(b, r) \in SUBSET AllEvents
    BY DEF On, Counted
  <2>2. \A r \in Queues : /\ IsFiniteSet(On(b, r)) /\ Cardinality(On(b, r)) \in Nat
                         /\ IsFiniteSet(Counted(b, r)) /\ Cardinality(Counted(b, r)) \in Nat
    BY <2>1, AllEventsFinite
  <2>3. \A r \in Queues : Counted(c, r) = IF r = queue /\ e # SigEv
                                         THEN Counted(b, r) \ {e} ELSE Counted(b, r)
    BY <1>4 DEF Counted
  <2>4. \A r \in Queues :
          Cardinality(Counted(c, r)) = IF r = queue /\ e # SigEv
            THEN Cardinality(Counted(b, r)) - 1 ELSE Cardinality(Counted(b, r))
    BY <2>2, <2>3, <1>5, FS_RemoveElement DEF Counted
  <2>5. Cardinality(On(c, "ACTIVE")) = IF queue = "ACTIVE"
          THEN Cardinality(On(b, "ACTIVE")) - 1 ELSE Cardinality(On(b, "ACTIVE"))
    BY <2>2, <1>4, <1>5, FS_RemoveElement, ZenonT(40) DEF Queues
  <2>6. c.countActive = Cardinality(On(c, "ACTIVE"))
    BY <2>5, <1>1, <1>2 DEF Counts
  <2>7. c.count = Cardinality(Counted(c, "INSERTED")) + Cardinality(Counted(c, "TIMEOUT"))
                  + Cardinality(Counted(c, "ACTIVE"))
    BY <2>2, <2>4, <1>1, <1>2 DEF Counts, Queues
  <2> QED
    BY <2>6, <2>7 DEF Counts
<1>9. c \in QueueStates
  <2>1. c.active \in [Pris -> Seq(AllEvents)]
    <3>1. CASE queue # "ACTIVE"
      BY <3>1, <1>2, <1>3
    <3>2. CASE queue = "ACTIVE"
      <4> DEFINE s == b.active[b.pri[e]]
      <4>1. s \in Seq(AllEvents) /\ Injective(s) /\ Elements(s) = ActiveAt(b, b.pri[e])
        BY <1>1, <1>3 DEF Membership, ActiveQueueOK, Injective, Elements
      <4>2. e \in Elements(s)
        BY <4>1, <3>2, <1>5 DEF ActiveAt
      <4>3. TailqRemove(s, e) \in Seq(AllEvents)
        BY <4>1, <4>2, TailqRemoveElements
      <4> QED
        BY <4>3, <3>2, <1>2, <1>3, ZenonT(40)
    <3> QED
      BY <3>1, <3>2
  <2>2. c.flags \in [AllEvents -> SUBSET Queues]
    BY <1>2, <1>3
  <2> QED
    BY <2>1, <2>2, <1>1 DEF QueueStates, event_queue_remove, Uncounted
<1> QED
  BY <1>1, <1>2, <1>7, <1>8, <1>9 DEF QueuesOK, SamePriorities
LEMMA RemoveIfOnOK ==
  ASSUME NEW b, QueuesOK(b), NEW e \in AllEvents, NEW queue \in Queues
  PROVE  LET c == RemoveIfOn(b, e, queue)
         IN  /\ QueuesOK(c)
             /\ c.flags = [b.flags EXCEPT ![e] = @ \ {queue}]
             /\ SamePriorities(b, c)
<1>1. CASE queue \in b.flags[e]
  BY <1>1, RemoveOK DEF RemoveIfOn
<1>2. CASE queue \notin b.flags[e]
  <2>1. b.flags \in [AllEvents -> SUBSET Queues]
    BY DEF QueuesOK, QueueStates
  <2>2. b.flags = [b.flags EXCEPT ![e] = @ \ {queue}]
    BY <1>2, <2>1
  <2> QED
    BY <1>2, <2>2 DEF RemoveIfOn, SamePriorities
<1> QED
  BY <1>1, <1>2

\* event_del leaves the event on no queue and touches no other event.
LEMMA UnlinkOK ==
  ASSUME NEW b, QueuesOK(b), NEW e \in AllEvents
  PROVE  LET c == Unlink(b, e)
         IN  /\ QueuesOK(c)
             /\ c.flags = [b.flags EXCEPT ![e] = {}]
             /\ SamePriorities(b, c)
<1> DEFINE b1 == RemoveIfOn(b, e, "TIMEOUT")
           b2 == RemoveIfOn(b1, e, "ACTIVE")
           c == RemoveIfOn(b2, e, "INSERTED")
<1>1. /\ QueuesOK(b1) /\ b1.flags = [b.flags EXCEPT ![e] = @ \ {"TIMEOUT"}]
      /\ SamePriorities(b, b1)
  BY RemoveIfOnOK DEF Queues
<1> HIDE DEF b1
<1>2. /\ QueuesOK(b2) /\ b2.flags = [b1.flags EXCEPT ![e] = @ \ {"ACTIVE"}]
      /\ SamePriorities(b1, b2)
  BY <1>1, RemoveIfOnOK DEF Queues
<1> HIDE DEF b2
<1>3. /\ QueuesOK(c) /\ c.flags = [b2.flags EXCEPT ![e] = @ \ {"INSERTED"}]
      /\ SamePriorities(b2, c)
  BY <1>2, RemoveIfOnOK DEF Queues
<1> HIDE DEF c
<1>4. b.flags \in [AllEvents -> SUBSET Queues]
  BY DEF QueuesOK, QueueStates
<1>5. c.flags = [b.flags EXCEPT ![e] = {}]
  <2>1. /\ c.flags \in [AllEvents -> SUBSET Queues]
        /\ \A f \in AllEvents \ {e} : c.flags[f] = b.flags[f]
    BY <1>1, <1>2, <1>3, <1>4
  <2>2. c.flags[e] = ((b.flags[e] \ {"TIMEOUT"}) \ {"ACTIVE"}) \ {"INSERTED"}
    BY <1>1, <1>2, <1>3, <1>4
  <2>3. c.flags[e] = {}
    BY <2>2, <1>4 DEF Queues
  <2> QED
    BY <2>1, <2>3, <1>4
<1>6. Unlink(b, e) = c
  BY DEF Unlink, b1, b2, c
<1> QED
  BY <1>1, <1>2, <1>3, <1>5, <1>6 DEF SamePriorities

\* The priority of an event that is not active may change.
LEMMA SetPriorityOK ==
  ASSUME NEW b, QueuesOK(b), NEW e \in AllEvents, NEW p \in 0 .. b.npri - 1,
         "ACTIVE" \notin b.flags[e]
  PROVE  LET c == SetPriority(b, e, p)
         IN  QueuesOK(c) /\ c.flags = b.flags /\ c.npri = b.npri
<1> DEFINE c == SetPriority(b, e, p)
<1>1. /\ b \in QueueStates /\ Membership(b) /\ Counts(b)
      /\ ~b.fatal /\ \A f \in AllEvents : b.pri[f] < b.npri
  BY DEF QueuesOK
<1>2. /\ c.flags = b.flags /\ c.npri = b.npri /\ c.fatal = b.fatal
      /\ c.pri = [b.pri EXCEPT ![e] = p]
      /\ c.eventqueue = b.eventqueue /\ c.timeheap = b.timeheap
      /\ c.active = b.active /\ c.count = b.count /\ c.countActive = b.countActive
  BY DEF SetPriority, WithPriorities
<1>3. p \in Pris
  BY <1>1, BoundsAssumption DEF QueueStates, Pris
<1>4. b.pri \in [AllEvents -> Pris]
  BY <1>1 DEF QueueStates
<1>5. c \in QueueStates
  BY <1>1, <1>3 DEF QueueStates, SetPriority, WithPriorities
<1>6. \A r \in Queues : On(c, r) = On(b, r) /\ Counted(c, r) = Counted(b, r)
  BY <1>2 DEF On, Counted
<1>7. \A r \in Pris : ActiveAt(c, r) = ActiveAt(b, r)
  BY <1>2, <1>4, <1>6 DEF ActiveAt, On, Queues
<1>8. Membership(c)
  BY <1>1, <1>2, <1>6, <1>7 DEF Membership, ActiveQueueOK, Queues
<1>9. Counts(c)
  BY <1>1, <1>2, <1>6 DEF Counts, Queues
<1>10. \A f \in AllEvents : c.pri[f] < c.npri
  BY <1>1, <1>2, <1>4 DEF QueueStates
<1> QED
  BY <1>1, <1>2, <1>5, <1>8, <1>9, <1>10 DEF QueuesOK

\* event_base_priority_init, which refuses while events are active.
LEMMA PriorityInitOK ==
  ASSUME NEW b, QueuesOK(b), NEW n \in 1 .. MaxPri, b.countActive = 0,
         \A e \in AllEvents : b.pri[e] < n
  PROVE  LET c == WithPriorities(b, b.pri, n)
         IN  QueuesOK(c) /\ c.flags = b.flags
<1> DEFINE c == WithPriorities(b, b.pri, n)
<1>1. /\ b \in QueueStates /\ Membership(b) /\ Counts(b) /\ ~b.fatal
  BY DEF QueuesOK
<1>2. /\ c.flags = b.flags /\ c.npri = n /\ c.fatal = b.fatal /\ c.pri = b.pri
      /\ c.eventqueue = b.eventqueue /\ c.timeheap = b.timeheap
      /\ c.active = (IF n = b.npri THEN b.active ELSE [p \in Pris |-> <<>>])
      /\ c.count = b.count /\ c.countActive = b.countActive
  BY DEF WithPriorities
<1>3. c \in QueueStates
  BY <1>1 DEF QueueStates, WithPriorities
<1>4. \A r \in Queues : On(c, r) = On(b, r) /\ Counted(c, r) = Counted(b, r)
  BY <1>2 DEF On, Counted
<1>5. On(b, "ACTIVE") = {}
  <2>1. On(b, "ACTIVE") \in SUBSET AllEvents
    BY DEF On
  <2> QED
    BY <2>1, <1>1, AllEventsFinite, FS_EmptySet DEF Counts
<1>6. \A p \in Pris : ActiveQueueOK(c, p)
  <2> SUFFICES ASSUME NEW p \in Pris PROVE ActiveQueueOK(c, p)
    OBVIOUS
  <2>1. ActiveAt(c, p) = {} /\ ActiveAt(b, p) = {}
    BY <1>4, <1>5 DEF ActiveAt, Queues
  <2>2. CASE n = b.npri
    <3>1. c.active[p] = b.active[p]
      BY <2>2, <1>2
    <3>2. Injective(b.active[p]) /\ Elements(b.active[p]) = {}
      BY <2>1, <1>1 DEF Membership, ActiveQueueOK, Injective, Elements
    <3>3. Injective(c.active[p]) /\ Elements(c.active[p]) = {}
      BY <3>1, <3>2
    <3> QED
      BY <2>1, <3>3 DEF ActiveQueueOK, Injective, Elements
  <2>3. CASE n # b.npri
    BY <2>1, <2>3, <1>2 DEF ActiveQueueOK
  <2> QED
    BY <2>2, <2>3
<1>7. Membership(c)
  BY <1>1, <1>2, <1>4, <1>6 DEF Membership, Queues
<1>8. Counts(c)
  BY <1>1, <1>2, <1>4 DEF Counts, Queues
<1> QED
  BY <1>1, <1>2, <1>3, <1>7, <1>8 DEF QueuesOK

\* event_add up to the event queue: the event, and with the first signal
\* event ev_signal, is inserted when it has to be.
LEMMA LinkIOOK ==
  ASSUME NEW b, QueuesOK(b), NEW e \in AllEvents, e # SigEv
  PROVE  LET c == LinkIO(b, e)
             first == AddsSignal(b, e) /\ ~sigAdded /\ NeedsBackend(b, SigEv)
         IN  /\ QueuesOK(c) /\ SamePriorities(b, c)
             /\ c.flags \in [AllEvents -> SUBSET Queues]
             /\ \A f \in AllEvents \ {e, SigEv} : c.flags[f] = b.flags[f]
             /\ c.flags[SigEv] = IF first THEN b.flags[SigEv] \cup {"INSERTED"}
                                 ELSE b.flags[SigEv]
             /\ c.flags[e] = b.flags[e] \/ c.flags[e] = b.flags[e] \cup {"INSERTED"}
<1> DEFINE c == LinkIO(b, e)
           a == BackendAdd(b, e)
           first == AddsSignal(b, e) /\ ~sigAdded /\ NeedsBackend(b, SigEv)
<1>1. b.flags \in [AllEvents -> SUBSET Queues] /\ SigEv \in AllEvents
  BY DEF QueuesOK, QueueStates, AllEvents
<1>2. CASE ~NeedsBackend(b, e)
  BY <1>1, <1>2 DEF LinkIO, AddsSignal, SamePriorities
<1>3. CASE NeedsBackend(b, e)
  <2>1. c = event_queue_insert(a, e, "INSERTED")
    BY <1>3 DEF LinkIO
  <2>2. /\ QueuesOK(a) /\ SamePriorities(b, a) /\ a.flags \in [AllEvents -> SUBSET Queues]
        /\ \A f \in AllEvents \ {SigEv} : a.flags[f] = b.flags[f]
        /\ a.flags[SigEv] = IF first THEN b.flags[SigEv] \cup {"INSERTED"}
                            ELSE b.flags[SigEv]
    <3>1. CASE first
      <4>1. a = event_queue_insert(b, SigEv, "INSERTED") /\ "INSERTED" \notin b.flags[SigEv]
        BY <3>1 DEF BackendAdd, AddsSignal, NeedsBackend
      <4> HIDE DEF a, c, first
      <4>2. /\ QueuesOK(a) /\ a.flags = [b.flags EXCEPT ![SigEv] = @ \cup {"INSERTED"}]
            /\ SamePriorities(b, a)
        BY <4>1, <1>1, InsertOK DEF Queues
      <4> QED
        BY <4>2, <3>1, <1>1 DEF Queues
    <3>2. CASE ~first
      BY <3>2, <1>1, <1>3 DEF BackendAdd, AddsSignal, SamePriorities
    <3> QED
      BY <3>1, <3>2
  <2>3. "INSERTED" \notin a.flags[e]
    BY <2>2, <1>3 DEF NeedsBackend
  <2> HIDE DEF a, c
  <2>4. /\ QueuesOK(c) /\ c.flags = [a.flags EXCEPT ![e] = @ \cup {"INSERTED"}]
        /\ SamePriorities(a, c)
    BY <2>1, <2>2, <2>3, InsertOK, ZenonT(40) DEF Queues
  <2>5. SamePriorities(b, c)
    BY <2>2, <2>4 DEF SamePriorities
  <2>6. /\ c.flags \in [AllEvents -> SUBSET Queues]
        /\ \A f \in AllEvents \ {e} : c.flags[f] = a.flags[f]
        /\ c.flags[e] = a.flags[e] \cup {"INSERTED"}
    BY <2>2, <2>4 DEF Queues
  <2> QED
    BY <2>2, <2>4, <2>5, <2>6, <1>1 DEF c
<1> QED
  BY <1>2, <1>3

\* The rest of event_add: only the event itself changes queues.
LEMMA LinkTimeoutOK ==
  ASSUME NEW b, QueuesOK(b), NEW e \in AllEvents
  PROVE  LET c == LinkTimeout(b, e)
         IN  /\ QueuesOK(c) /\ SamePriorities(b, c)
             /\ c.flags \in [AllEvents -> SUBSET Queues]
             /\ \A f \in AllEvents \ {e} : c.flags[f] = b.flags[f]
             /\ "ACTIVE" \in c.flags[e] => "ACTIVE" \in b.flags[e] /\ "TIMEOUT" \notin res[e]
<1> DEFINE b1 == RemoveIfOn(b, e, "TIMEOUT")
           b2 == IF TimedOut(b1, e) THEN event_queue_remove(b1, e, "ACTIVE") ELSE b1
           c == event_queue_insert(b2, e, "TIMEOUT")
<1>1. b.flags \in [AllEvents -> SUBSET Queues]
  BY DEF QueuesOK, QueueStates
<1>2. /\ QueuesOK(b1) /\ b1.flags = [b.flags EXCEPT ![e] = @ \ {"TIMEOUT"}]
      /\ SamePriorities(b, b1)
  BY RemoveIfOnOK DEF Queues
<1> HIDE DEF b1
<1>3. /\ b1.flags \in [AllEvents -> SUBSET Queues] /\ "TIMEOUT" \notin b1.flags[e]
      /\ \A f \in AllEvents \ {e} : b1.flags[f] = b.flags[f]
      /\ "ACTIVE" \in b1.flags[e] <=> "ACTIVE" \in b.flags[e]
  BY <1>1, <1>2
<1>4. /\ QueuesOK(b2) /\ SamePriorities(b1, b2)
      /\ b2.flags \in [AllEvents -> SUBSET Queues] /\ "TIMEOUT" \notin b2.flags[e]
      /\ \A f \in AllEvents \ {e} : b2.flags[f] = b.flags[f]
      /\ "ACTIVE" \in b2.flags[e] => "ACTIVE" \in b.flags[e] /\ "TIMEOUT" \notin res[e]
  <2>1. CASE TimedOut(b1, e)
    <3>1. "ACTIVE" \in b1.flags[e] /\ b2 = event_queue_remove(b1, e, "ACTIVE")
      BY <2>1 DEF TimedOut
    <3> HIDE DEF b2
    <3>2. /\ QueuesOK(b2) /\ b2.flags = [b1.flags EXCEPT ![e] = @ \ {"ACTIVE"}]
          /\ SamePriorities(b1, b2)
      BY <3>1, <1>2, RemoveOK DEF Queues
    <3> QED
      BY <3>2, <1>3
  <2>2. CASE ~TimedOut(b1, e)
    BY <2>2, <1>2, <1>3 DEF SamePriorities, TimedOut
  <2> QED
    BY <2>1, <2>2
<1> HIDE DEF b2
<1>5. /\ QueuesOK(c) /\ c.flags = [b2.flags EXCEPT ![e] = @ \cup {"TIMEOUT"}]
      /\ SamePriorities(b2, c)
  <2>1. "TIMEOUT" \in Queues /\ QueuesOK(b2) /\ "TIMEOUT" \notin b2.flags[e]
    BY <1>4 DEF Queues
  <2> QED
    BY <2>1, InsertOK DEF c
<1> HIDE DEF c
<1>6. /\ c.flags \in [AllEvents -> SUBSET Queues]
      /\ \A f \in AllEvents \ {e} : c.flags[f] = b.flags[f]
      /\ "ACTIVE" \in c.flags[e] => "ACTIVE" \in b2.flags[e]
  BY <1>4, <1>5 DEF Queues
<1>7. LinkTimeout(b, e) = c
  BY DEF LinkTimeout, b1, b2, c
<1> QED
  BY <1>2, <1>4, <1>5, <1>6, <1>7 DEF SamePriorities

\* event_active: the event is on its active queue, whether it was before or not.
LEMMA ActivateOK ==
  ASSUME NEW b, QueuesOK(b), NEW e \in AllEvents, NEW r, NEW n, Activate(b, e, r, n)
  PROVE  /\ QueuesOK(q') /\ SamePriorities(b, q')
         /\ q'.flags = [b.flags EXCEPT ![e] = @ \cup {"ACTIVE"}]
<1>1. b.flags \in [AllEvents -> SUBSET Queues]
  BY DEF QueuesOK, QueueStates
<1>2. CASE "ACTIVE" \in b.flags[e]
  <2>1. q' = b
    BY <1>2 DEF Activate
  <2>2. b.flags = [b.flags EXCEPT ![e] = @ \cup {"ACTIVE"}]
    BY <1>1, <1>2
  <2> QED
    BY <2>1, <2>2 DEF SamePriorities
<1>3. CASE "ACTIVE" \notin b.flags[e]
  <2>1. q' = event_queue_insert(b, e, "ACTIVE")
    BY <1>3 DEF Activate
  <2> QED
    BY <2>1, <1>3, InsertOK DEF Queues
<1> QED
  BY <1>2, <1>3

-----------------------------------------------------------------------------
(* The inductive invariant.                                                *)

\* An event_once slot is freed by the one call its event makes: a slot whose
\* callback is about to run or running is in use and off the queues, and no
\* call follows.
OnceInv ==
  /\ OnceFreedOffQueues
  /\ \A o \in Once : evNcalls[o] <= 1
  /\ pc \in {"call", "callback"} /\ cur \in Once =>
       /\ q.flags[cur] = {}
       /\ ncalls <= 1
       /\ pc = "callback" => ncalls = 0
       /\ pc = "callback" \/ ncalls = 1 => once[cur] # "free"

\* A freed base has no event on any queue.
FreedInv == pc = "freed" => \A e \in AllEvents : q.flags[e] = {}

FieldsOK == EventFieldsOK /\ FlagFieldsOK /\ LoopFieldsOK /\ TimeFieldsOK

IInv == FieldsOK /\ QueuesOK(q) /\ SignalEventTracked /\ OnceInv /\ FreedInv

LEMMA NewQueuesOK == QueuesOK(NewQueues) /\ \A e \in AllEvents : NewQueues.flags[e] = {}
<1> DEFINE b == NewQueues
<1>1. b \in QueueStates
  BY BoundsAssumption DEF NewQueues, QueueStates, Pris
<1>2. /\ b.flags = [e \in AllEvents |-> {}] /\ b.pri = [e \in AllEvents |-> 0] /\ b.npri = 1
      /\ b.eventqueue = {} /\ b.timeheap = {} /\ b.active = [p \in Pris |-> <<>>]
      /\ b.count = 0 /\ b.countActive = 0 /\ b.fatal = FALSE
  BY DEF NewQueues
<1> HIDE DEF b
<1>3. \A r \in Queues : On(b, r) = {} /\ Counted(b, r) = {}
  BY <1>2 DEF On, Counted
<1>4. \A p \in Pris : ActiveQueueOK(b, p)
  BY <1>2, <1>3 DEF ActiveQueueOK, ActiveAt, Queues
<1>5. Membership(b)
  BY <1>2, <1>3, <1>4 DEF Membership, Queues
<1>6. /\ Cardinality(Counted(b, "INSERTED")) = 0 /\ Cardinality(Counted(b, "TIMEOUT")) = 0
      /\ Cardinality(Counted(b, "ACTIVE")) = 0 /\ Cardinality(On(b, "ACTIVE")) = 0
  BY <1>3, FS_EmptySet DEF Queues
<1>7. Counts(b)
  BY <1>2, <1>6 DEF Counts
<1>8. QueuesOK(b) /\ \A e \in AllEvents : b.flags[e] = {}
  BY <1>1, <1>2, <1>5, <1>7 DEF QueuesOK
<1> QED
  BY <1>8 DEF b

LEMMA InitIInv == Init => IInv
<1> SUFFICES ASSUME Init PROVE IInv
  OBVIOUS
<1> USE DEF Init
<1>1. FieldsOK
  <2>1. EventFieldsOK
    BY BoundsAssumption DEF EventFieldsOK
  <2>2. LoopFieldsOK
    <3>1. pc \in PcValues /\ cur \in AllEvents /\ lflags \subseteq {"ONCE", "NONBLOCK"}
      BY DEF AllEvents, PcValues
    <3>2. ncalls \in 0 .. MaxCalls /\ activeq \in Pris
      BY BoundsAssumption DEF Pris
    <3> QED
      BY <3>1, <3>2 DEF LoopFieldsOK
  <2>3. TimeFieldsOK
    BY BoundsAssumption DEF TimeFieldsOK
  <2>4. FlagFieldsOK
    BY DEF FlagFieldsOK
  <2> QED
    BY <2>1, <2>2, <2>3, <2>4 DEF FieldsOK
<1>2. QueuesOK(q)
  BY NewQueuesOK
<1>3. SignalEventTracked
  <2>1. q.flags[SigEv] = {} /\ ~sigAdded
    BY DEF NewQueues, AllEvents
  <2> QED
    BY <2>1 DEF SignalEventTracked
<1>4. OnceInv
  BY DEF OnceInv, OnceFreedOffQueues, NewQueues, AllEvents
<1>5. FreedInv
  BY DEF FreedInv
<1> QED
  BY <1>1, <1>2, <1>3, <1>4, <1>5 DEF IInv

LEMMA TimeTypes ==
  ASSUME FieldsOK
  PROVE  gettime \in 1 .. MaxTime /\ CorrectedTimeout \in [AllEvents -> Int]
<1>1. gettime \in 1 .. MaxTime
  BY DEF gettime, FieldsOK, TimeFieldsOK
<1>2. eventTv \in Int /\ timeout \in [AllEvents -> Int]
  BY DEF FieldsOK, TimeFieldsOK, EventFieldsOK
<1> QED
  BY <1>1, <1>2 DEF CorrectedTimeout

LEMMA AbortLoopType ==
  ASSUME FieldsOK, NEW e, AbortLoop(e)
  PROVE  ncalls' \in 0 .. MaxCalls /\ ncalls' <= ncalls
  BY BoundsAssumption DEF AbortLoop, FieldsOK, LoopFieldsOK

LEMMA ActivateType ==
  ASSUME FieldsOK, NEW b, NEW e \in AllEvents, NEW r \in SUBSET Results,
         NEW n \in 1 .. MaxCalls, Activate(b, e, r, n)
  PROVE  /\ res' \in [AllEvents -> SUBSET Results]
         /\ evNcalls' \in [AllEvents -> 0 .. MaxCalls]
         /\ evPncalls' \in [AllEvents -> {"null", "frame", "stale"}]
  BY BoundsAssumption DEF Activate, FieldsOK, EventFieldsOK

\* The event event_process_active takes is active and of the right priority.
LEMMA HeadActive ==
  ASSUME IInv, q.active[activeq] # <<>>
  PROVE  LET e == Head(q.active[activeq])
         IN  e \in AllEvents /\ "ACTIVE" \in q.flags[e]
<1> DEFINE s == q.active[activeq]
<1>1. activeq \in Pris /\ q \in QueueStates /\ Membership(q)
  BY DEF IInv, FieldsOK, LoopFieldsOK, QueuesOK
<1>2. s \in Seq(AllEvents) /\ s # <<>>
  BY <1>1 DEF QueueStates
<1>3. Head(s) = s[1] /\ 1 \in 1 .. Len(s)
  BY <1>2
<1>4. Elements(s) = ActiveAt(q, activeq)
  BY <1>1 DEF Membership, ActiveQueueOK, Elements
<1>5. Head(s) \in Elements(s)
  BY <1>3 DEF Elements
<1> QED
  BY <1>4, <1>5 DEF ActiveAt, On

\* Every step keeps the types of the variables other than q.
LEMMA FieldsStep ==
  ASSUME IInv, [Next]_vars
  PROVE  FieldsOK'
<1> USE BoundsAssumption DEF evVars, loopVars, timeVars, UserCode, LoopUnchanged
<1> USE DEF FieldsOK, EventFieldsOK, LoopFieldsOK, TimeFieldsOK
<1>0. FieldsOK /\ Events \subseteq AllEvents /\ Once \subseteq AllEvents /\ SigEv \in AllEvents
  BY DEF IInv, AllEvents
<1>1. ASSUME NEW e \in Events, EventSet(e)
      PROVE  FieldsOK'
  <2>1. FlagFieldsOK'
    BY <1>1, <1>0 DEF EventSet, FlagFieldsOK
  <2>2. EventFieldsOK' /\ LoopFieldsOK' /\ TimeFieldsOK'
    BY <1>1, <1>0 DEF EventSet
  <2> QED
    BY <2>1, <2>2
<1>2. ASSUME NEW e \in Events, NEW ok \in BOOLEAN, EventAdd(e, ok)
      PROVE  FieldsOK'
  <2>1. FlagFieldsOK'
    BY <1>2, <1>0 DEF EventAdd, FlagFieldsOK
  <2>2. EventFieldsOK' /\ LoopFieldsOK' /\ TimeFieldsOK'
    BY <1>2, <1>0 DEF EventAdd
  <2> QED
    BY <2>1, <2>2
<1>3. ASSUME NEW e \in Events, NEW tv \in Timeouts, NEW ok \in BOOLEAN,
             EventAddTimeout(e, tv, ok)
      PROVE  FieldsOK'
  <2>1. FlagFieldsOK'
    BY <1>3, <1>0 DEF EventAddTimeout, FlagFieldsOK
  <2>2. gettime + tv \in Int
    BY <1>3, <1>0, TimeTypes
  <2>3. timeout' \in [AllEvents -> Int] /\ cancelled' \subseteq AllEvents
    BY <1>3, <1>0, <2>2 DEF EventAddTimeout
  <2>4. ncalls' = ncalls \/ AbortLoop(e)
    BY <1>3 DEF EventAddTimeout
  <2>5. ncalls' \in 0 .. MaxCalls
    BY <1>0, <2>4, AbortLoopType
  <2>6. /\ UNCHANGED <<res, evNcalls, evPncalls, tvCache, eventTv, loopVars, once, timeVars>>
        /\ ops' \in 0 .. MaxOps
    BY <1>3, <1>0 DEF EventAddTimeout
  <2>7. EventFieldsOK'
    BY <1>0, <2>3, <2>6
  <2>8. LoopFieldsOK' /\ TimeFieldsOK'
    BY <1>0, <2>5, <2>6
  <2> QED
    BY <2>1, <2>7, <2>8
<1>4. ASSUME NEW e \in Events, EventDel(e)
      PROVE  FieldsOK'
  <2>1. FlagFieldsOK'
    BY <1>4, <1>0 DEF EventDel, FlagFieldsOK
  <2>2. EventFieldsOK' /\ LoopFieldsOK' /\ TimeFieldsOK'
    BY <1>4, <1>0, AbortLoopType DEF EventDel
  <2> QED
    BY <2>1, <2>2
<1>5. ASSUME NEW e \in Events, NEW r \in {"READ", "SIGNAL"}, NEW n \in 1 ..
             MaxCalls, EventActive(e, r, n)
      PROVE  FieldsOK'
  <2>0. {r} \in SUBSET Results /\ 1 \in 1 .. MaxCalls
    BY <1>5 DEF Results
  <2>1. FlagFieldsOK'
    BY <1>5, <1>0 DEF EventActive, FlagFieldsOK
  <2>2. /\ res' \in [AllEvents -> SUBSET Results]
        /\ evNcalls' \in [AllEvents -> 0 .. MaxCalls]
        /\ evPncalls' \in [AllEvents -> {"null", "frame", "stale"}]
    BY <1>5, <1>0, <2>0, ActivateType DEF EventActive
  <2>3. EventFieldsOK' /\ LoopFieldsOK' /\ TimeFieldsOK'
    BY <1>5, <1>0, <2>2 DEF EventActive
  <2> QED
    BY <2>1, <2>3
<1>6. ASSUME NEW e \in Events, NEW p \in Pris, EventPrioritySet(e, p)
      PROVE  FieldsOK'
  <2>1. FlagFieldsOK'
    BY <1>6, <1>0 DEF EventPrioritySet, FlagFieldsOK
  <2>2. EventFieldsOK' /\ LoopFieldsOK' /\ TimeFieldsOK'
    BY <1>6, <1>0 DEF EventPrioritySet
  <2> QED
    BY <2>1, <2>2
<1>7. ASSUME NEW o \in Once, NEW kind \in {"exit", "user"}, NEW tv \in Timeouts \cup
             {Forever}, NEW ok \in BOOLEAN, EventBaseOnce(o, kind, tv, ok)
      PROVE  FieldsOK'
  <2>1. FlagFieldsOK'
    BY <1>7, <1>0 DEF EventBaseOnce, FlagFieldsOK
  <2>2. EventFieldsOK' /\ LoopFieldsOK' /\ TimeFieldsOK'
    BY <1>7, <1>0, TimeTypes DEF EventBaseOnce, Forever
  <2> QED
    BY <2>1, <2>2
<1>8. ASSUME NEW n \in 1 .. MaxPri, EventBasePriorityInit(n)
      PROVE  FieldsOK'
  <2>1. FlagFieldsOK'
    BY <1>8, <1>0 DEF EventBasePriorityInit, FlagFieldsOK
  <2>2. EventFieldsOK' /\ LoopFieldsOK' /\ TimeFieldsOK'
    BY <1>8, <1>0 DEF EventBasePriorityInit
  <2> QED
    BY <2>1, <2>2
<1>9. ASSUME NEW ok \in BOOLEAN, EventReinit(ok)
      PROVE  FieldsOK'
  <2>1. FlagFieldsOK'
    BY <1>9, <1>0 DEF EventReinit, FlagFieldsOK
  <2>2. EventFieldsOK' /\ LoopFieldsOK' /\ TimeFieldsOK'
    BY <1>9, <1>0 DEF EventReinit
  <2> QED
    BY <2>1, <2>2
<1>10. ASSUME EventBaseLoopbreak
      PROVE  FieldsOK'
  <2>1. FlagFieldsOK'
    BY <1>10, <1>0 DEF EventBaseLoopbreak, FlagFieldsOK
  <2>2. EventFieldsOK' /\ LoopFieldsOK' /\ TimeFieldsOK'
    BY <1>10, <1>0 DEF EventBaseLoopbreak
  <2> QED
    BY <2>1, <2>2
<1>11. ASSUME EventBaseFree
      PROVE  FieldsOK'
  <2>1. FlagFieldsOK'
    BY <1>11, <1>0 DEF EventBaseFree, FlagFieldsOK
  <2>2. EventFieldsOK' /\ LoopFieldsOK' /\ TimeFieldsOK'
    BY <1>11, <1>0 DEF EventBaseFree, PcValues
  <2> QED
    BY <2>1, <2>2
<1>12. ASSUME NEW e \in AllEvents, NEW r \in {"READ", "WRITE"}, DispatchIO(e, r)
      PROVE  FieldsOK'
  <2>0. {r} \in SUBSET Results /\ 1 \in 1 .. MaxCalls
    BY <1>12 DEF Results
  <2>1. FlagFieldsOK'
    BY <1>12, <1>0 DEF DispatchIO, FlagFieldsOK
  <2>2. EventFieldsOK' /\ LoopFieldsOK' /\ TimeFieldsOK'
    BY <1>12, <1>0, ActivateType, <2>0 DEF DispatchIO
  <2> QED
    BY <2>1, <2>2
<1>13. ASSUME NEW e \in Events, NEW n \in 1 .. MaxCalls, DispatchSignal(e, n)
      PROVE  FieldsOK'
  <2>0. {"SIGNAL"} \in SUBSET Results /\ 1 \in 1 .. MaxCalls
    BY <1>13 DEF Results
  <2>1. FlagFieldsOK'
    BY <1>13, <1>0 DEF DispatchSignal, FlagFieldsOK
  <2>2. EventFieldsOK' /\ LoopFieldsOK' /\ TimeFieldsOK'
    BY <1>13, <1>0, ActivateType, AbortLoopType, <2>0 DEF DispatchSignal
  <2> QED
    BY <2>1, <2>2
<1>14. ASSUME LoopTerminate
      PROVE  FieldsOK'
  <2>1. FlagFieldsOK'
    BY <1>14, <1>0 DEF LoopTerminate, FlagFieldsOK
  <2>2. EventFieldsOK' /\ LoopFieldsOK' /\ TimeFieldsOK'
    BY <1>14, <1>0 DEF LoopTerminate, PcValues
  <2> QED
    BY <2>1, <2>2
<1>15. ASSUME LoopNoEvents
      PROVE  FieldsOK'
  <2>1. FlagFieldsOK'
    BY <1>15, <1>0 DEF LoopNoEvents, FlagFieldsOK
  <2>2. EventFieldsOK' /\ LoopFieldsOK' /\ TimeFieldsOK'
    BY <1>15, <1>0, TimeTypes DEF LoopNoEvents, PcValues
  <2> QED
    BY <2>1, <2>2
<1>16. ASSUME LoopDispatch
      PROVE  FieldsOK'
  <2>1. FlagFieldsOK'
    BY <1>16, <1>0 DEF LoopDispatch, FlagFieldsOK
  <2>2. EventFieldsOK' /\ LoopFieldsOK' /\ TimeFieldsOK'
    BY <1>16, <1>0, TimeTypes DEF LoopDispatch, PcValues, timeout_next, Forever,
       CorrectedTops
  <2> QED
    BY <2>1, <2>2
<1>17. ASSUME NEW e \in AllEvents, TimeoutProcess(e)
      PROVE  FieldsOK'
  <2>0. {"TIMEOUT"} \in SUBSET Results /\ 1 \in 1 .. MaxCalls
    BY <1>17 DEF Results
  <2>1. FlagFieldsOK'
    BY <1>17, <1>0 DEF TimeoutProcess, FlagFieldsOK
  <2>2. EventFieldsOK' /\ LoopFieldsOK' /\ TimeFieldsOK'
    BY <1>17, <1>0, ActivateType, AbortLoopType, <2>0 DEF TimeoutProcess
  <2> QED
    BY <2>1, <2>2
<1>18. ASSUME TimeoutsDone
      PROVE  FieldsOK'
  <2>1. FlagFieldsOK'
    BY <1>18, <1>0 DEF TimeoutsDone, FlagFieldsOK
  <2>2. EventFieldsOK' /\ LoopFieldsOK' /\ TimeFieldsOK'
    BY <1>18, <1>0 DEF TimeoutsDone, PcValues
  <2> QED
    BY <2>1, <2>2
<1>19. ASSUME ProcessNext
      PROVE  FieldsOK'
  <2>1. FlagFieldsOK'
    BY <1>19, <1>0 DEF ProcessNext, FlagFieldsOK
  <2>2. EventFieldsOK' /\ LoopFieldsOK' /\ TimeFieldsOK'
    BY <1>19, <1>0, HeadActive DEF ProcessNext, PcValues
  <2> QED
    BY <2>1, <2>2
<1>20. ASSUME Invoke
      PROVE  FieldsOK'
  <2>1. FlagFieldsOK'
    BY <1>20, <1>0 DEF Invoke, FlagFieldsOK
  <2>2. EventFieldsOK' /\ LoopFieldsOK' /\ TimeFieldsOK'
    BY <1>20, <1>0 DEF Invoke, PcValues
  <2> QED
    BY <2>1, <2>2
<1>21. ASSUME CallsDone
      PROVE  FieldsOK'
  <2>1. FlagFieldsOK'
    BY <1>21, <1>0 DEF CallsDone, FlagFieldsOK
  <2>2. EventFieldsOK' /\ LoopFieldsOK' /\ TimeFieldsOK'
    BY <1>21, <1>0 DEF CallsDone, PcValues
  <2> QED
    BY <2>1, <2>2
<1>22. ASSUME ProcessDone
      PROVE  FieldsOK'
  <2>1. FlagFieldsOK'
    BY <1>22, <1>0 DEF ProcessDone, FlagFieldsOK, AfterProcess
  <2>2. EventFieldsOK' /\ LoopFieldsOK' /\ TimeFieldsOK'
    BY <1>22, <1>0 DEF ProcessDone, PcValues, AfterProcess, FrameGone
  <2> QED
    BY <2>1, <2>2
<1>23. ASSUME CallbackReturn
      PROVE  FieldsOK'
  <2>1. FlagFieldsOK'
    BY <1>23, <1>0 DEF CallbackReturn, FlagFieldsOK, AfterProcess
  <2>2. EventFieldsOK' /\ LoopFieldsOK' /\ TimeFieldsOK'
    BY <1>23, <1>0 DEF CallbackReturn, PcValues, AfterProcess, FrameGone
  <2> QED
    BY <2>1, <2>2
<1>24. ASSUME NEW e \in AllEvents, FreeDelete(e)
      PROVE  FieldsOK'
  <2>1. FlagFieldsOK'
    BY <1>24, <1>0 DEF FreeDelete, FlagFieldsOK
  <2>2. EventFieldsOK' /\ LoopFieldsOK' /\ TimeFieldsOK'
    BY <1>24, <1>0, AbortLoopType DEF FreeDelete
  <2> QED
    BY <2>1, <2>2
<1>25. ASSUME FreeDealloc
      PROVE  FieldsOK'
  <2>1. FlagFieldsOK'
    BY <1>25, <1>0 DEF FreeDealloc, FlagFieldsOK
  <2>2. EventFieldsOK' /\ LoopFieldsOK' /\ TimeFieldsOK'
    BY <1>25, <1>0, AbortLoopType DEF FreeDealloc, PcValues
  <2> QED
    BY <2>1, <2>2
<1>26. ASSUME EventBaseNew
      PROVE  FieldsOK'
  <2>1. FlagFieldsOK'
    BY <1>26, <1>0 DEF EventBaseNew, FlagFieldsOK, FreshBase
  <2>2. EventFieldsOK' /\ LoopFieldsOK' /\ TimeFieldsOK'
    BY <1>26, <1>0 DEF EventBaseNew, PcValues, FreshBase
  <2> QED
    BY <2>1, <2>2
<1>27. ASSUME NEW f \in LoopFlags, LoopStart(f)
      PROVE  FieldsOK'
  <2>1. FlagFieldsOK'
    BY <1>27, <1>0 DEF LoopStart, FlagFieldsOK
  <2>2. EventFieldsOK' /\ LoopFieldsOK' /\ TimeFieldsOK'
    BY <1>27, <1>0 DEF LoopStart, PcValues
  <2> QED
    BY <2>1, <2>2
<1>28. ASSUME DispatchReturn
      PROVE  FieldsOK'
  <2>1. FlagFieldsOK'
    BY <1>28, <1>0 DEF DispatchReturn, FlagFieldsOK
  <2>2. EventFieldsOK' /\ LoopFieldsOK' /\ TimeFieldsOK'
    BY <1>28, <1>0 DEF DispatchReturn, PcValues
  <2> QED
    BY <2>1, <2>2
<1>29. ASSUME DispatchError
      PROVE  FieldsOK'
  <2>1. FlagFieldsOK'
    BY <1>29, <1>0 DEF DispatchError, FlagFieldsOK
  <2>2. EventFieldsOK' /\ LoopFieldsOK' /\ TimeFieldsOK'
    BY <1>29, <1>0 DEF DispatchError, PcValues
  <2> QED
    BY <2>1, <2>2
<1>30. ASSUME Tick
      PROVE  FieldsOK'
  <2>1. FlagFieldsOK'
    BY <1>30, <1>0 DEF Tick, FlagFieldsOK
  <2>2. EventFieldsOK' /\ LoopFieldsOK' /\ TimeFieldsOK'
    BY <1>30, <1>0 DEF Tick
  <2> QED
    BY <2>1, <2>2
<1>31. ASSUME StepBack
      PROVE  FieldsOK'
  <2>1. FlagFieldsOK'
    BY <1>31, <1>0 DEF StepBack, FlagFieldsOK
  <2>2. EventFieldsOK' /\ LoopFieldsOK' /\ TimeFieldsOK'
    BY <1>31, <1>0 DEF StepBack
  <2> QED
    BY <2>1, <2>2
<1>32. CASE UNCHANGED vars
  BY <1>32, <1>0 DEF vars, FlagFieldsOK
<1> QED
  BY <1>1, <1>2, <1>3, <1>4, <1>5, <1>6, <1>7, <1>8, <1>9, <1>10, <1>11, <1>12,
     <1>13, <1>14, <1>15, <1>16, <1>17, <1>18, <1>19, <1>20, <1>21, <1>22, <1>23,
     <1>24, <1>25, <1>26, <1>27, <1>28, <1>29, <1>30, <1>31, <1>32 DEF Next, UserOp,
     Dispatch, LoopStep, FreeStep

\* Steps that leave the queues alone.
LEMMA SameQueues ==
  ASSUME IInv, q' = q, sigAdded' = sigAdded, pc' = pc \/ pc' # "freed"
  PROVE  QueuesOK(q') /\ SignalEventTracked' /\ FreedInv'
<1>1. QueuesOK(q')
  BY DEF IInv
<1>2. SignalEventTracked'
  BY DEF IInv, SignalEventTracked
<1>3. FreedInv'
  BY DEF IInv, FreedInv
<1> QED
  BY <1>1, <1>2, <1>3

\* Steps that leave ev_signal alone.
LEMMA SignalUntouched ==
  ASSUME IInv, sigAdded' = sigAdded, q'.flags[SigEv] = q.flags[SigEv]
  PROVE  SignalEventTracked'
  BY DEF IInv, SignalEventTracked

\* The first signal event that is added brings ev_signal, and only that.
LEMMA AddTracksSignal ==
  ASSUME IInv, NEW e \in AllEvents, e # SigEv,
         NEW c, c.flags[SigEv] = LinkIO(q, e).flags[SigEv]
  PROVE  /\ sigAdded \/ AddsSignal(q, e) <=> "INSERTED" \in c.flags[SigEv]
         /\ "TIMEOUT" \notin c.flags[SigEv]
         /\ "ACTIVE" \in c.flags[SigEv] => sigAdded
<1>1. QueuesOK(q) /\ SignalEventTracked
  BY DEF IInv
<1>2. EvEvents[SigEv] \cap {"READ", "WRITE", "SIGNAL"} # {}
  BY EvEventsAssumption
<1>3. CASE sigAdded
  <2>1. c.flags[SigEv] = q.flags[SigEv]
    BY <1>1, <1>3, LinkIOOK
  <2> QED
    BY <2>1, <1>1, <1>3 DEF SignalEventTracked
<1>4. CASE ~sigAdded
  <2>1. NeedsBackend(q, SigEv)
    BY <1>1, <1>2, <1>4 DEF NeedsBackend, SignalEventTracked
  <2>2. c.flags[SigEv] = IF AddsSignal(q, e) THEN q.flags[SigEv] \cup {"INSERTED"}
                         ELSE q.flags[SigEv]
    BY <2>1, <1>1, <1>4, LinkIOOK
  <2> QED
    BY <2>2, <1>1, <1>4 DEF SignalEventTracked
<1> QED
  BY <1>3, <1>4

\* Every step keeps the queues consistent and tracks ev_signal.
LEMMA QueuesStep ==
  ASSUME IInv, [Next]_vars
  PROVE  QueuesOK(q') /\ SignalEventTracked' /\ FreedInv'
<1> USE DEF evVars, loopVars, timeVars, UserCode, LoopUnchanged
<1>0. /\ QueuesOK(q) /\ SignalEventTracked /\ OnceInv /\ FieldsOK
      /\ Events \subseteq AllEvents /\ Once \subseteq AllEvents /\ SigEv \in AllEvents
      /\ SigEv \notin Events /\ SigEv \notin Once
  BY EventsAssumption DEF IInv, AllEvents
<1>f. q.flags \in [AllEvents -> SUBSET Queues] /\ q.npri \in 1 .. MaxPri
      /\ q.timeheap = On(q, "TIMEOUT")
  BY <1>0 DEF QueuesOK, QueueStates, Membership
<1>m. q.npri \div 2 \in 0 .. q.npri - 1
  BY <1>f, BoundsAssumption
<1>1. ASSUME NEW e \in Events, EventSet(e)
      PROVE  QueuesOK(q') /\ SignalEventTracked' /\ FreedInv'
  <2>1. q' = SetPriority(q, e, q.npri \div 2) /\ "ACTIVE" \notin q.flags[e]
    BY <1>1 DEF EventSet
  <2>2. QueuesOK(q') /\ q'.flags = q.flags
    BY <2>1, <1>0, <1>m, SetPriorityOK
  <2>3. sigAdded' = sigAdded /\ pc' # "freed"
    BY <1>1 DEF EventSet
  <2> QED
    BY <2>2, <2>3, SignalUntouched DEF FreedInv
<1>2. ASSUME NEW e \in Events, NEW ok \in BOOLEAN, EventAdd(e, ok)
      PROVE  QueuesOK(q') /\ SignalEventTracked' /\ FreedInv'
  <2>1. pc' = pc /\ pc' # "freed"
    BY <1>2 DEF EventAdd
  <2>2. CASE NeedsBackend(q, e) /\ ~ok
    <3>1. q' = q /\ sigAdded' = sigAdded
      BY <1>2, <2>2, <1>0 DEF EventAdd, FieldsOK, FlagFieldsOK
    <3> QED
      BY <3>1, <2>1, SameQueues
  <2>3. CASE ~(NeedsBackend(q, e) /\ ~ok)
    <3>1. q' = LinkIO(q, e) /\ (sigAdded' <=> sigAdded \/ AddsSignal(q, e))
      BY <1>2, <2>3 DEF EventAdd
    <3>2. QueuesOK(q')
      BY <3>1, <1>0, LinkIOOK
    <3>3. SignalEventTracked'
      BY <3>1, <1>0, AddTracksSignal DEF SignalEventTracked
    <3> QED
      BY <2>1, <3>2, <3>3 DEF FreedInv
  <2> QED
    BY <2>2, <2>3
<1>3. ASSUME NEW e \in Events, NEW tv \in Timeouts, NEW ok \in BOOLEAN,
             EventAddTimeout(e, tv, ok)
      PROVE  QueuesOK(q') /\ SignalEventTracked' /\ FreedInv'
  <2>1. pc' = pc /\ pc' # "freed"
    BY <1>3 DEF EventAddTimeout
  <2> DEFINE fails == ~ok /\ (NeedsBackend(q, e) \/ "TIMEOUT" \notin q.flags[e])
  <2>2. CASE fails
    <3>1. q' = q /\ sigAdded' = sigAdded
      BY <1>3, <2>2, <1>0 DEF EventAddTimeout, FieldsOK, FlagFieldsOK
    <3> QED
      BY <3>1, <2>1, SameQueues
  <2>3. CASE ~fails
    <3> DEFINE b == LinkIO(q, e)
    <3>1. q' = LinkTimeout(b, e) /\ (sigAdded' <=> sigAdded \/ AddsSignal(q, e))
      BY <1>3, <2>3 DEF EventAddTimeout
    <3>2. QueuesOK(b)
      BY <1>0, LinkIOOK
    <3> HIDE DEF b
    <3>3. QueuesOK(q') /\ q'.flags[SigEv] = b.flags[SigEv]
      BY <3>1, <3>2, <1>0, LinkTimeoutOK
    <3>4. SignalEventTracked'
      BY <3>1, <3>3, <1>0, AddTracksSignal DEF SignalEventTracked, b
    <3> QED
      BY <2>1, <3>3, <3>4 DEF FreedInv
  <2> QED
    BY <2>2, <2>3
<1>4. ASSUME NEW e \in Events, EventDel(e)
      PROVE  QueuesOK(q') /\ SignalEventTracked' /\ FreedInv'
  <2>1. q' = Unlink(q, e) /\ sigAdded' = sigAdded /\ pc' # "freed"
    BY <1>4 DEF EventDel
  <2>2. QueuesOK(q') /\ q'.flags = [q.flags EXCEPT ![e] = {}]
    BY <2>1, <1>0, UnlinkOK
  <2>3. q'.flags[SigEv] = q.flags[SigEv]
    BY <2>2, <1>0, <1>f
  <2> QED
    BY <2>1, <2>2, <2>3, SignalUntouched DEF FreedInv
<1>5. ASSUME NEW e \in Events, NEW r \in {"READ", "SIGNAL"}, NEW n \in 1 .. MaxCalls,
             EventActive(e, r, n)
      PROVE  QueuesOK(q') /\ SignalEventTracked' /\ FreedInv'
  <2>1. Activate(q, e, {r}, n) /\ sigAdded' = sigAdded /\ pc' # "freed"
    BY <1>5 DEF EventActive
  <2>2. QueuesOK(q') /\ q'.flags = [q.flags EXCEPT ![e] = @ \cup {"ACTIVE"}]
    BY <2>1, <1>0, ActivateOK
  <2>3. q'.flags[SigEv] = q.flags[SigEv]
    BY <2>2, <1>0, <1>f
  <2> QED
    BY <2>1, <2>2, <2>3, SignalUntouched DEF FreedInv
<1>6. ASSUME NEW e \in Events, NEW p \in Pris, EventPrioritySet(e, p)
      PROVE  QueuesOK(q') /\ SignalEventTracked' /\ FreedInv'
  <2>1. q' = SetPriority(q, e, p) /\ "ACTIVE" \notin q.flags[e] /\ p < q.npri
    BY <1>6 DEF EventPrioritySet
  <2>2. p \in 0 .. q.npri - 1
    BY <2>1, <1>f, BoundsAssumption DEF Pris
  <2>3. QueuesOK(q') /\ q'.flags = q.flags
    BY <2>1, <2>2, <1>0, SetPriorityOK
  <2>4. sigAdded' = sigAdded /\ pc' # "freed"
    BY <1>6 DEF EventPrioritySet
  <2> QED
    BY <2>3, <2>4, SignalUntouched DEF FreedInv
<1>7. ASSUME NEW o \in Once, NEW kind \in {"exit", "user"},
             NEW tv \in Timeouts \cup {Forever}, NEW ok \in BOOLEAN,
             EventBaseOnce(o, kind, tv, ok)
      PROVE  QueuesOK(q') /\ SignalEventTracked' /\ FreedInv'
  <2> DEFINE b1 == SetPriority(q, o, q.npri \div 2)
             b2 == LinkIO(b1, o)
             b3 == LinkTimeout(b2, o)
  <2>1. q' \in {q, b2, b3} /\ sigAdded' = sigAdded /\ pc' # "freed" /\ q.flags[o] = {}
    BY <1>7, <1>0 DEF EventBaseOnce, OnceInv, OnceFreedOffQueues
  <2>2. QueuesOK(b1) /\ b1.flags = q.flags
    BY <2>1, <1>0, <1>m, SetPriorityOK
  <2>3. ~AddsSignal(b1, o)
    BY EvEventsAssumption DEF AddsSignal
  <2> HIDE DEF b1
  <2>4. QueuesOK(b2) /\ b2.flags[SigEv] = q.flags[SigEv]
    <3>1. o \in AllEvents /\ o # SigEv
      BY <1>0
    <3>2. QueuesOK(b2) /\ b2.flags[SigEv] = b1.flags[SigEv]
      BY <2>2, <2>3, <3>1, LinkIOOK
    <3> QED
      BY <2>2, <3>2
  <2> HIDE DEF b2
  <2>5. QueuesOK(b3) /\ b3.flags[SigEv] = q.flags[SigEv]
    BY <2>4, <1>0, LinkTimeoutOK
  <2> HIDE DEF b3
  <2>6. QueuesOK(q') /\ q'.flags[SigEv] = q.flags[SigEv]
    BY <2>1, <2>4, <2>5, <1>0
  <2> QED
    BY <2>1, <2>6, SignalUntouched DEF FreedInv
<1>8. ASSUME NEW n \in 1 .. MaxPri, EventBasePriorityInit(n)
      PROVE  QueuesOK(q') /\ SignalEventTracked' /\ FreedInv'
  <2>1. /\ q' = WithPriorities(q, q.pri, n) /\ q.countActive = 0
        /\ \A e \in AllEvents : q.pri[e] < n
        /\ sigAdded' = sigAdded /\ pc' # "freed"
    BY <1>8 DEF EventBasePriorityInit
  <2>2. QueuesOK(q') /\ q'.flags = q.flags
    BY <2>1, <1>0, PriorityInitOK
  <2> QED
    BY <2>1, <2>2, SignalUntouched DEF FreedInv
<1>9. ASSUME NEW ok \in BOOLEAN, EventReinit(ok)
      PROVE  QueuesOK(q') /\ SignalEventTracked' /\ FreedInv'
  <2> DEFINE b0 == event_queue_remove(q, SigEv, "INSERTED")
             b1 == IF sigAdded THEN RemoveIfOn(b0, SigEv, "ACTIVE") ELSE q
             again == ok /\ \E e \in b1.eventqueue : "SIGNAL" \in EvEvents[e]
             b2 == SetPriority(b1, SigEv, b1.npri \div 2)
             b3 == event_queue_insert(b2, SigEv, "INSERTED")
  <2>1. q' = (IF again THEN b3 ELSE b2) /\ (sigAdded' <=> again) /\ pc' # "freed"
    BY <1>9 DEF EventReinit
  <2>2. QueuesOK(b1) /\ b1.flags[SigEv] = {} /\ b1.npri = q.npri
    <3>1. CASE sigAdded
      <4>1. "INSERTED" \in q.flags[SigEv] /\ "TIMEOUT" \notin q.flags[SigEv]
        BY <3>1, <1>0 DEF SignalEventTracked
      <4>2. /\ QueuesOK(b0) /\ SamePriorities(q, b0)
            /\ b0.flags = [q.flags EXCEPT ![SigEv] = @ \ {"INSERTED"}]
        BY <4>1, <1>0, RemoveOK DEF Queues
      <4> HIDE DEF b0
      <4>3. /\ QueuesOK(b1) /\ SamePriorities(b0, b1)
            /\ b1.flags = [b0.flags EXCEPT ![SigEv] = @ \ {"ACTIVE"}]
        BY <4>2, <3>1, <1>0, RemoveIfOnOK DEF Queues
      <4> HIDE DEF b1
      <4>4. b1.flags[SigEv] = (q.flags[SigEv] \ {"INSERTED"}) \ {"ACTIVE"}
        BY <4>2, <4>3, <1>0, <1>f
      <4>5. b1.flags[SigEv] = {}
        BY <4>1, <4>4, <1>0, <1>f DEF Queues
      <4> QED
        BY <4>2, <4>3, <4>5 DEF SamePriorities
    <3>2. CASE ~sigAdded
      <4>1. q.flags[SigEv] = {}
        BY <3>2, <1>0, <1>f DEF SignalEventTracked, Queues
      <4> QED
        BY <4>1, <3>2, <1>0
    <3> QED
      BY <3>1, <3>2
  <2> HIDE DEF b1, again
  <2>3. QueuesOK(b2) /\ b2.flags[SigEv] = {}
    BY <2>2, <1>0, <1>m, SetPriorityOK
  <2> HIDE DEF b2
  <2>4. QueuesOK(b3) /\ b3.flags = [b2.flags EXCEPT ![SigEv] = @ \cup {"INSERTED"}]
    BY <2>3, <1>0, InsertOK DEF Queues
  <2> HIDE DEF b3
  <2>5. b2.flags \in [AllEvents -> SUBSET Queues]
    BY <2>3 DEF QueuesOK, QueueStates
  <2>6. b3.flags[SigEv] = {"INSERTED"}
    BY <2>3, <2>4, <2>5, <1>0
  <2>7. CASE again
    <3>1. q' = b3 /\ sigAdded'
      BY <2>1, <2>7
    <3> QED
      BY <3>1, <2>1, <2>4, <2>6 DEF SignalEventTracked, FreedInv
  <2>8. CASE ~again
    <3>1. q' = b2 /\ ~sigAdded'
      BY <2>1, <2>8
    <3> QED
      BY <3>1, <2>1, <2>3 DEF SignalEventTracked, FreedInv
  <2> QED
    BY <2>7, <2>8
<1>10. CASE EventBaseLoopbreak
  BY <1>10, SameQueues DEF EventBaseLoopbreak
<1>11. CASE EventBaseFree
  BY <1>11, SameQueues DEF EventBaseFree
<1>12. ASSUME NEW e \in AllEvents, NEW r \in {"READ", "WRITE"}, DispatchIO(e, r)
      PROVE  QueuesOK(q') /\ SignalEventTracked' /\ FreedInv'
  <2>1. /\ Activate(q, e, {r}, 1) /\ sigAdded' = sigAdded /\ pc' # "freed"
        /\ "INSERTED" \in q.flags[e]
    BY <1>12 DEF DispatchIO
  <2>2. QueuesOK(q') /\ q'.flags = [q.flags EXCEPT ![e] = @ \cup {"ACTIVE"}]
    BY <2>1, <1>0, ActivateOK
  <2>3. CASE e # SigEv
    <3>1. q'.flags[SigEv] = q.flags[SigEv]
      BY <2>2, <2>3, <1>0, <1>f
    <3> QED
      BY <2>1, <2>2, <3>1, SignalUntouched DEF FreedInv
  <2>4. CASE e = SigEv
    <3>1. q'.flags[SigEv] = q.flags[SigEv] \cup {"ACTIVE"}
      BY <2>2, <2>4, <1>0, <1>f
    <3> QED
      BY <2>1, <2>2, <2>4, <3>1, <1>0 DEF SignalEventTracked, FreedInv
  <2> QED
    BY <2>3, <2>4
<1>13. ASSUME NEW e \in Events, NEW n \in 1 .. MaxCalls, DispatchSignal(e, n)
      PROVE  QueuesOK(q') /\ SignalEventTracked' /\ FreedInv'
  <2> DEFINE b == IF "PERSIST" \in EvEvents[e] THEN q ELSE Unlink(q, e)
  <2>1. Activate(b, e, {"SIGNAL"}, n) /\ sigAdded' = sigAdded /\ pc' # "freed"
    BY <1>13 DEF DispatchSignal
  <2>2. QueuesOK(b) /\ b.flags \in [AllEvents -> SUBSET Queues]
        /\ b.flags[SigEv] = q.flags[SigEv]
    <3>1. QueuesOK(b) /\ (b.flags = q.flags \/ b.flags = [q.flags EXCEPT ![e] = {}])
      BY <1>0, UnlinkOK
    <3> HIDE DEF b
    <3> QED
      BY <3>1, <1>0, <1>f
  <2> HIDE DEF b
  <2>3. QueuesOK(q') /\ q'.flags = [b.flags EXCEPT ![e] = @ \cup {"ACTIVE"}]
    BY <2>1, <2>2, <1>0, ActivateOK
  <2>4. q'.flags[SigEv] = q.flags[SigEv]
    BY <2>2, <2>3, <1>0
  <2> QED
    BY <2>1, <2>3, <2>4, SignalUntouched DEF FreedInv
<1>14. CASE LoopTerminate
  BY <1>14, SameQueues DEF LoopTerminate
<1>15. CASE LoopNoEvents
  BY <1>15, SameQueues DEF LoopNoEvents
<1>16. CASE LoopDispatch
  BY <1>16, SameQueues DEF LoopDispatch
<1>17. ASSUME NEW e \in AllEvents, TimeoutProcess(e)
      PROVE  QueuesOK(q') /\ SignalEventTracked' /\ FreedInv'
  <2> DEFINE b == Unlink(q, e)
  <2>1. /\ Activate(b, e, {"TIMEOUT"}, 1) /\ sigAdded' = sigAdded /\ pc' # "freed"
        /\ e \in q.timeheap
    BY <1>17 DEF TimeoutProcess, IsTop
  <2>2. e # SigEv
    BY <2>1, <1>0, <1>f DEF On, SignalEventTracked
  <2>3. QueuesOK(b) /\ b.flags \in [AllEvents -> SUBSET Queues]
        /\ b.flags[SigEv] = q.flags[SigEv]
    <3>1. QueuesOK(b) /\ b.flags = [q.flags EXCEPT ![e] = {}]
      BY <1>0, UnlinkOK
    <3> HIDE DEF b
    <3> QED
      BY <3>1, <2>2, <1>0, <1>f
  <2> HIDE DEF b
  <2>4. QueuesOK(q') /\ q'.flags = [b.flags EXCEPT ![e] = @ \cup {"ACTIVE"}]
    BY <2>1, <2>3, ActivateOK
  <2>5. q'.flags[SigEv] = q.flags[SigEv]
    BY <2>2, <2>3, <2>4, <1>0
  <2> QED
    BY <2>1, <2>4, <2>5, SignalUntouched DEF FreedInv
<1>18. CASE TimeoutsDone
  <2>1. q' = q /\ sigAdded' = sigAdded /\ pc' # "freed"
    BY <1>18 DEF TimeoutsDone
  <2> QED
    BY <2>1, SameQueues
<1>19. CASE ProcessNext
  <2> DEFINE e == Head(q.active[activeq])
  <2>1. /\ q' = (IF "PERSIST" \in EvEvents[e] THEN event_queue_remove(q, e, "ACTIVE")
                 ELSE Unlink(q, e))
        /\ sigAdded' = sigAdded /\ pc' # "freed" /\ q.active[activeq] # <<>>
    BY <1>19 DEF ProcessNext
  <2>2. e \in AllEvents /\ "ACTIVE" \in q.flags[e]
    BY <2>1, HeadActive
  <2> HIDE DEF e
  <2>3. CASE "PERSIST" \in EvEvents[e]
    <3>1. QueuesOK(q') /\ q'.flags = [q.flags EXCEPT ![e] = @ \ {"ACTIVE"}]
      BY <2>1, <2>2, <2>3, <1>0, RemoveOK DEF Queues
    <3>2. q'.flags[SigEv] \in {q.flags[SigEv], q.flags[SigEv] \ {"ACTIVE"}}
      BY <3>1, <2>2, <1>0, <1>f
    <3> QED
      BY <2>1, <3>1, <3>2, <1>0 DEF SignalEventTracked, FreedInv
  <2>4. CASE "PERSIST" \notin EvEvents[e]
    <3>1. e # SigEv
      BY <2>4, EvEventsAssumption
    <3>2. QueuesOK(q') /\ q'.flags = [q.flags EXCEPT ![e] = {}]
      BY <2>1, <2>2, <2>4, <1>0, UnlinkOK
    <3>3. q'.flags[SigEv] = q.flags[SigEv]
      BY <3>1, <3>2, <1>0, <1>f
    <3> QED
      BY <2>1, <3>2, <3>3, SignalUntouched DEF FreedInv
  <2> QED
    BY <2>3, <2>4
<1>20. CASE Invoke
  BY <1>20, SameQueues DEF Invoke
<1>21. CASE CallsDone
  BY <1>21, SameQueues DEF CallsDone
<1>22. CASE ProcessDone
  BY <1>22, SameQueues DEF ProcessDone, AfterProcess
<1>23. CASE CallbackReturn
  BY <1>23, SameQueues DEF CallbackReturn, AfterProcess
<1>24. ASSUME NEW e \in AllEvents, FreeDelete(e)
      PROVE  QueuesOK(q') /\ SignalEventTracked' /\ FreedInv'
  <2>1. /\ q' = Unlink(q, e) /\ sigAdded' = sigAdded /\ pc' # "freed" /\ e # SigEv
    BY <1>24, <1>0, <1>f DEF FreeDelete, Deletable, On, SignalEventTracked
  <2>2. QueuesOK(q') /\ q'.flags = [q.flags EXCEPT ![e] = {}]
    BY <2>1, <1>0, UnlinkOK
  <2>3. q'.flags[SigEv] = q.flags[SigEv]
    BY <2>1, <2>2, <1>0, <1>f
  <2> QED
    BY <2>1, <2>2, <2>3, SignalUntouched DEF FreedInv
<1>25. CASE FreeDealloc
  <2>1. Deletable = {} /\ ~sigAdded' /\ q' = IF sigAdded THEN Unlink(q, SigEv) ELSE q
    BY <1>25 DEF FreeDealloc
  <2>2. \A e \in AllEvents : e # SigEv => q.flags[e] = {}
    BY <2>1 DEF Deletable
  <2>3. QueuesOK(q') /\ \A e \in AllEvents : q'.flags[e] = {}
    <3>1. CASE sigAdded
      <4>1. QueuesOK(q') /\ q'.flags = [q.flags EXCEPT ![SigEv] = {}]
        BY <2>1, <3>1, <1>0, UnlinkOK
      <4> QED
        BY <4>1, <2>2, <1>0, <1>f
    <3>2. CASE ~sigAdded
      <4>1. q.flags[SigEv] = {}
        BY <3>2, <1>0, <1>f DEF SignalEventTracked, Queues
      <4> QED
        BY <4>1, <2>1, <2>2, <3>2, <1>0
    <3> QED
      BY <3>1, <3>2
  <2> QED
    BY <2>1, <2>3, <1>0 DEF SignalEventTracked, FreedInv
<1>26. CASE EventBaseNew
  <2>1. q' = NewQueues /\ ~sigAdded' /\ pc' # "freed"
    BY <1>26 DEF EventBaseNew, FreshBase
  <2>2. QueuesOK(q') /\ q'.flags[SigEv] = {}
    BY <2>1, NewQueuesOK, <1>0
  <2> QED
    BY <2>1, <2>2 DEF SignalEventTracked, FreedInv
<1>27. ASSUME NEW f \in LoopFlags, LoopStart(f)
      PROVE  QueuesOK(q') /\ SignalEventTracked' /\ FreedInv'
  BY <1>27, SameQueues DEF LoopStart
<1>28. CASE DispatchReturn
  BY <1>28, SameQueues DEF DispatchReturn
<1>29. CASE DispatchError
  BY <1>29, SameQueues DEF DispatchError
<1>30. CASE Tick
  BY <1>30, SameQueues DEF Tick
<1>31. CASE StepBack
  BY <1>31, SameQueues DEF StepBack
<1>32. CASE UNCHANGED vars
  BY <1>32, SameQueues DEF vars
<1> QED
  BY <1>1, <1>2, <1>3, <1>4, <1>5, <1>6, <1>7, <1>8, <1>9, <1>10, <1>11, <1>12, <1>13,
     <1>14, <1>15, <1>16, <1>17, <1>18, <1>19, <1>20, <1>21, <1>22, <1>23, <1>24, <1>25,
     <1>26, <1>27, <1>28, <1>29, <1>30, <1>31, <1>32
     DEF Next, UserOp, Dispatch, LoopStep, FreeStep

\* Steps that put no event_once slot on a queue and start no call.
LEMMA OnceSame ==
  ASSUME IInv, once' = once,
         \A o \in Once : q'.flags[o] = q.flags[o] \/ q'.flags[o] = {},
         \A o \in Once : evNcalls'[o] = evNcalls[o] \/ evNcalls'[o] <= 1,
         \/ pc' \notin {"call", "callback"}
         \/ pc' = pc /\ cur' = cur /\ ncalls' \in Nat /\ ncalls' <= ncalls
  PROVE  OnceInv'
<1>1. OnceInv /\ ncalls \in Nat /\ evNcalls \in [AllEvents -> 0 .. MaxCalls]
  BY BoundsAssumption DEF IInv, FieldsOK, LoopFieldsOK, EventFieldsOK
<1>2. OnceFreedOffQueues'
  BY <1>1 DEF OnceInv, OnceFreedOffQueues
<1>3. \A o \in Once : evNcalls'[o] <= 1
  BY <1>1 DEF OnceInv
<1>4. pc' \in {"call", "callback"} /\ cur' \in Once =>
       /\ q'.flags[cur'] = {}
       /\ ncalls' <= 1
       /\ pc' = "callback" => ncalls' = 0
       /\ pc' = "callback" \/ ncalls' = 1 => once'[cur'] # "free"
  BY <1>1 DEF OnceInv
<1> QED
  BY <1>2, <1>3, <1>4 DEF OnceInv

\* Every step keeps the discipline of event_once slots.
LEMMA OnceStep ==
  ASSUME IInv, [Next]_vars
  PROVE  OnceInv'
<1> USE DEF evVars, loopVars, timeVars, UserCode, LoopUnchanged
<1>0. /\ QueuesOK(q) /\ OnceInv /\ ncalls \in Nat /\ cur \in AllEvents
      /\ evNcalls \in [AllEvents -> 0 .. MaxCalls] /\ once \in [Once -> {"free", "exit", "user"}]
      /\ Events \subseteq AllEvents /\ Once \subseteq AllEvents /\ SigEv \in AllEvents
      /\ SigEv \notin Once /\ SigEv \notin Events /\ Events \cap Once = {}
  BY EventsAssumption, BoundsAssumption
     DEF IInv, AllEvents, FieldsOK, LoopFieldsOK, EventFieldsOK
<1>f. q.flags \in [AllEvents -> SUBSET Queues] /\ q.timeheap = On(q, "TIMEOUT")
      /\ q.npri \in 1 .. MaxPri
  BY <1>0 DEF QueuesOK, QueueStates, Membership
<1>m. q.npri \div 2 \in 0 .. q.npri - 1
  BY <1>f, BoundsAssumption
<1>a. ASSUME NEW e, AbortLoop(e) PROVE ncalls' \in Nat /\ ncalls' <= ncalls
  BY <1>a, <1>0 DEF AbortLoop
<1>l. ASSUME NEW b, QueuesOK(b), NEW e \in AllEvents, e # SigEv
      PROVE  /\ QueuesOK(LinkIO(b, e))
             /\ \A o \in Once : o # e => LinkIO(b, e).flags[o] = b.flags[o]
  <2> DEFINE c == LinkIO(b, e)
  <2>1. QueuesOK(c) /\ \A f \in AllEvents \ {e, SigEv} : c.flags[f] = b.flags[f]
    BY <1>l, LinkIOOK
  <2> HIDE DEF c
  <2>2. QueuesOK(c) /\ \A o \in Once : o # e => c.flags[o] = b.flags[o]
    BY <2>1, <1>0
  <2> QED
    BY <2>2 DEF c
<1>1. ASSUME NEW e \in Events, EventSet(e)
      PROVE  OnceInv'
  <2>1. q'.flags = q.flags
    BY <1>1, <1>0 DEF EventSet, SetPriority, WithPriorities
  <2> QED
    BY <1>1, <1>0, <2>1, OnceSame DEF EventSet
<1>2. ASSUME NEW e \in Events, NEW ok \in BOOLEAN, EventAdd(e, ok)
      PROVE  OnceInv'
  <2>1. q' = q \/ q' = LinkIO(q, e)
    BY <1>2 DEF EventAdd
  <2>2. \A o \in Once : q'.flags[o] = q.flags[o]
    BY <2>1, <1>0, <1>l
  <2> QED
    BY <1>2, <1>0, <2>2, OnceSame DEF EventAdd
<1>3. ASSUME NEW e \in Events, NEW tv \in Timeouts, NEW ok \in BOOLEAN,
             EventAddTimeout(e, tv, ok)
      PROVE  OnceInv'
  <2> DEFINE b == LinkIO(q, e)
  <2>1. q' = q \/ q' = LinkTimeout(b, e)
    BY <1>3 DEF EventAddTimeout
  <2>2. QueuesOK(b) /\ \A o \in Once : b.flags[o] = q.flags[o]
    BY <1>0, <1>l
  <2> HIDE DEF b
  <2>3. \A o \in Once : q'.flags[o] = q.flags[o]
    <3>1. e \in AllEvents /\ Once \subseteq AllEvents \ {e}
      BY <1>0
    <3>2. \A f \in AllEvents \ {e} : LinkTimeout(b, e).flags[f] = b.flags[f]
      BY <2>2, <3>1, LinkTimeoutOK
    <3> QED
      BY <2>1, <2>2, <3>1, <3>2
  <2>4. ncalls' \in Nat /\ ncalls' <= ncalls
    BY <1>3, <1>0, <1>a DEF EventAddTimeout
  <2> QED
    BY <1>3, <1>0, <2>3, <2>4, OnceSame DEF EventAddTimeout
<1>4. ASSUME NEW e \in Events, EventDel(e)
      PROVE  OnceInv'
  <2>1. q' = Unlink(q, e) /\ ncalls' \in Nat /\ ncalls' <= ncalls
    BY <1>4, <1>a DEF EventDel
  <2>2. q'.flags = [q.flags EXCEPT ![e] = {}]
    BY <2>1, <1>0, UnlinkOK
  <2>3. \A o \in Once : q'.flags[o] = q.flags[o]
    BY <2>2, <1>0, <1>f
  <2> QED
    BY <1>4, <1>0, <2>1, <2>3, OnceSame DEF EventDel
<1>5. ASSUME NEW e \in Events, NEW r \in {"READ", "SIGNAL"}, NEW n \in 1 .. MaxCalls,
             EventActive(e, r, n)
      PROVE  OnceInv'
  <2>1. Activate(q, e, {r}, n)
    BY <1>5 DEF EventActive
  <2>2. q'.flags = [q.flags EXCEPT ![e] = @ \cup {"ACTIVE"}]
    BY <2>1, <1>0, ActivateOK
  <2>3. \A o \in Once : q'.flags[o] = q.flags[o]
    BY <2>2, <1>0, <1>f
  <2>4. \A o \in Once : evNcalls'[o] = evNcalls[o]
    BY <2>1, <1>0 DEF Activate
  <2> QED
    BY <1>5, <1>0, <2>3, <2>4, OnceSame DEF EventActive
<1>6. ASSUME NEW e \in Events, NEW p \in Pris, EventPrioritySet(e, p)
      PROVE  OnceInv'
  <2>1. q'.flags = q.flags
    BY <1>6, <1>0 DEF EventPrioritySet, SetPriority, WithPriorities
  <2> QED
    BY <1>6, <1>0, <2>1, OnceSame DEF EventPrioritySet
<1>7. ASSUME NEW o \in Once, NEW kind \in {"exit", "user"},
             NEW tv \in Timeouts \cup {Forever}, NEW ok \in BOOLEAN,
             EventBaseOnce(o, kind, tv, ok)
      PROVE  OnceInv'
  <2> DEFINE b1 == SetPriority(q, o, q.npri \div 2)
             b2 == LinkIO(b1, o)
             b3 == LinkTimeout(b2, o)
  <2>1. /\ \/ q' = q /\ once' = once
           \/ q' \in {b2, b3} /\ once' = [once EXCEPT ![o] = kind]
        /\ once[o] = "free" /\ q.flags[o] = {} /\ pc' = pc /\ cur' = cur /\ ncalls' = ncalls
        /\ evNcalls' = [evNcalls EXCEPT ![o] = 0]
    BY <1>7, <1>0 DEF EventBaseOnce, OnceInv, OnceFreedOffQueues
  <2>2. QueuesOK(b1) /\ b1.flags = q.flags
    BY <2>1, <1>0, <1>m, SetPriorityOK
  <2> HIDE DEF b1
  <2>3. QueuesOK(b2) /\ \A p \in Once \ {o} : b2.flags[p] = q.flags[p]
    BY <2>2, <1>0, <1>l
  <2> HIDE DEF b2
  <2>4. \A p \in Once \ {o} : b3.flags[p] = q.flags[p]
    BY <2>3, <1>0, LinkTimeoutOK
  <2> HIDE DEF b3
  <2>5. \A p \in Once \ {o} : q'.flags[p] = q.flags[p] /\ once'[p] = once[p]
    BY <2>1, <2>3, <2>4, <1>0
  <2>6. OnceFreedOffQueues'
    BY <2>1, <2>5, <1>0 DEF OnceInv, OnceFreedOffQueues
  <2>7. \A p \in Once : evNcalls'[p] <= 1
    BY <2>1, <1>0 DEF OnceInv
  <2>8. pc \in {"call", "callback"} => pc = "callback"
    BY <1>7 DEF EventBaseOnce
  <2> QED
    BY <2>1, <2>5, <2>6, <2>7, <2>8, <1>0 DEF OnceInv
<1>8. ASSUME NEW n \in 1 .. MaxPri, EventBasePriorityInit(n)
      PROVE  OnceInv'
  <2>1. q'.flags = q.flags
    BY <1>8, <1>0 DEF EventBasePriorityInit, WithPriorities
  <2> QED
    BY <1>8, <1>0, <2>1, OnceSame DEF EventBasePriorityInit
<1>9. ASSUME NEW ok \in BOOLEAN, EventReinit(ok)
      PROVE  OnceInv'
  <2> DEFINE b0 == event_queue_remove(q, SigEv, "INSERTED")
             b1 == IF sigAdded THEN RemoveIfOn(b0, SigEv, "ACTIVE") ELSE q
             b2 == SetPriority(b1, SigEv, b1.npri \div 2)
             b3 == event_queue_insert(b2, SigEv, "INSERTED")
  <2>1. q' \in {b2, b3} /\ pc' = "idle" /\ evNcalls' = [evNcalls EXCEPT ![SigEv] = 0]
    BY <1>9 DEF EventReinit
  <2>2. \A o \in Once : b1.flags[o] = q.flags[o]
    <3>1. CASE sigAdded
      <4>1. "INSERTED" \in q.flags[SigEv]
        BY <3>1 DEF IInv, SignalEventTracked
      <4>2. QueuesOK(b0) /\ b0.flags = [q.flags EXCEPT ![SigEv] = @ \ {"INSERTED"}]
        BY <4>1, <1>0, RemoveOK DEF Queues
      <4> HIDE DEF b0
      <4>3. b1.flags = [b0.flags EXCEPT ![SigEv] = @ \ {"ACTIVE"}]
        BY <4>2, <3>1, <1>0, RemoveIfOnOK DEF Queues
      <4> QED
        BY <4>2, <4>3, <1>0, <1>f
    <3>2. CASE ~sigAdded
      BY <3>2
    <3> QED
      BY <3>1, <3>2
  <2> HIDE DEF b1
  <2>3. b2.flags = b1.flags
    BY DEF SetPriority, WithPriorities
  <2> HIDE DEF b2
  <2>4. \A o \in Once : b3.flags[o] = b2.flags[o]
    BY <1>0 DEF event_queue_insert, Die
  <2> HIDE DEF b3
  <2>5. \A o \in Once : q'.flags[o] = q.flags[o] /\ evNcalls'[o] = evNcalls[o]
    BY <2>1, <2>2, <2>3, <2>4, <1>0
  <2> QED
    BY <1>9, <2>1, <2>5, <1>0, OnceSame DEF EventReinit
<1>10. CASE EventBaseLoopbreak
  BY <1>10, <1>0, OnceSame DEF EventBaseLoopbreak
<1>11. CASE EventBaseFree
  BY <1>11, <1>0, OnceSame DEF EventBaseFree
<1>12. ASSUME NEW e \in AllEvents, NEW r \in {"READ", "WRITE"}, DispatchIO(e, r)
      PROVE  OnceInv'
  <2>1. Activate(q, e, {r}, 1) /\ pc' = "dispatch" /\ "INSERTED" \in q.flags[e] /\ once' = once
    BY <1>12 DEF DispatchIO
  <2>2. q'.flags = [q.flags EXCEPT ![e] = @ \cup {"ACTIVE"}]
    BY <2>1, <1>0, ActivateOK
  <2>3. \A o \in Once : evNcalls'[o] <= 1
    BY <2>1, <1>0 DEF Activate, OnceInv
  <2>4. OnceFreedOffQueues'
    BY <2>1, <2>2, <1>0, <1>f DEF OnceInv, OnceFreedOffQueues
  <2> QED
    BY <2>1, <2>3, <2>4 DEF OnceInv
<1>13. ASSUME NEW e \in Events, NEW n \in 1 .. MaxCalls, DispatchSignal(e, n)
      PROVE  OnceInv'
  <2> DEFINE b == IF "PERSIST" \in EvEvents[e] THEN q ELSE Unlink(q, e)
  <2>1. Activate(b, e, {"SIGNAL"}, n) /\ pc' = "dispatch" /\ once' = once
    BY <1>13 DEF DispatchSignal
  <2>2. QueuesOK(b) /\ (b.flags = q.flags \/ b.flags = [q.flags EXCEPT ![e] = {}])
    BY <1>0, UnlinkOK
  <2> HIDE DEF b
  <2>3. q'.flags = [b.flags EXCEPT ![e] = @ \cup {"ACTIVE"}]
    BY <2>1, <2>2, <1>0, ActivateOK
  <2>4. \A o \in Once : q'.flags[o] = q.flags[o]
    BY <2>2, <2>3, <1>0, <1>f
  <2>5. \A o \in Once : evNcalls'[o] = evNcalls[o]
    BY <2>1, <1>0 DEF Activate
  <2> QED
    BY <2>1, <2>4, <2>5, OnceSame
<1>14. CASE LoopTerminate
  BY <1>14, <1>0, OnceSame DEF LoopTerminate
<1>15. CASE LoopNoEvents
  BY <1>15, <1>0, OnceSame DEF LoopNoEvents
<1>16. CASE LoopDispatch
  BY <1>16, <1>0, OnceSame DEF LoopDispatch
<1>17. ASSUME NEW e \in AllEvents, TimeoutProcess(e)
      PROVE  OnceInv'
  <2> DEFINE b == Unlink(q, e)
  <2>1. /\ Activate(b, e, {"TIMEOUT"}, 1) /\ pc' = "timeouts" /\ once' = once
        /\ "TIMEOUT" \in q.flags[e]
    BY <1>17, <1>f DEF TimeoutProcess, IsTop, On
  <2>2. QueuesOK(b) /\ b.flags = [q.flags EXCEPT ![e] = {}]
    BY <1>0, UnlinkOK
  <2> HIDE DEF b
  <2>3. q'.flags = [b.flags EXCEPT ![e] = @ \cup {"ACTIVE"}]
    BY <2>1, <2>2, ActivateOK
  <2>4. \A o \in Once : evNcalls'[o] <= 1
    BY <2>1, <1>0 DEF Activate, OnceInv
  <2>5. \A o \in Once : o # e => q'.flags[o] = q.flags[o]
    BY <2>2, <2>3, <1>0, <1>f
  <2>6. OnceFreedOffQueues'
    BY <2>1, <2>5, <1>0 DEF OnceInv, OnceFreedOffQueues
  <2> QED
    BY <2>1, <2>4, <2>6 DEF OnceInv
<1>18. CASE TimeoutsDone
  <2>1. pc' \notin {"call", "callback"}
    BY <1>18 DEF TimeoutsDone
  <2> QED
    BY <1>18, <2>1, <1>0, OnceSame DEF TimeoutsDone
<1>19. CASE ProcessNext
  <2> DEFINE e == Head(q.active[activeq])
  <2>1. /\ q' = (IF "PERSIST" \in EvEvents[e] THEN event_queue_remove(q, e, "ACTIVE")
                 ELSE Unlink(q, e))
        /\ once' = once /\ evNcalls' = evNcalls /\ cur' = e /\ ncalls' = evNcalls[e]
        /\ pc' = "call" /\ q.active[activeq] # <<>>
    BY <1>19 DEF ProcessNext
  <2>2. e \in AllEvents /\ "ACTIVE" \in q.flags[e]
    BY <2>1, HeadActive
  <2> HIDE DEF e
  <2>3. CASE e \in Once
    <3>1. "PERSIST" \notin EvEvents[e]
      BY <2>3, EvEventsAssumption
    <3>2. q'.flags = [q.flags EXCEPT ![e] = {}]
      BY <2>1, <2>2, <3>1, <1>0, UnlinkOK
    <3>3. once[e] # "free"
      BY <2>2, <2>3, <1>0 DEF OnceInv, OnceFreedOffQueues
    <3>4. OnceFreedOffQueues'
      BY <2>1, <2>2, <3>2, <1>0, <1>f DEF OnceInv, OnceFreedOffQueues
    <3>5. q'.flags[e] = {} /\ evNcalls[e] <= 1
      BY <2>2, <2>3, <3>2, <1>0, <1>f DEF OnceInv
    <3> QED
      BY <2>1, <3>3, <3>4, <3>5, <1>0 DEF OnceInv
  <2>4. CASE e \notin Once
    <3>1. \/ q'.flags = [q.flags EXCEPT ![e] = @ \ {"ACTIVE"}]
          \/ q'.flags = [q.flags EXCEPT ![e] = {}]
      BY <2>1, <2>2, <1>0, RemoveOK, UnlinkOK DEF Queues
    <3>2. \A o \in Once : q'.flags[o] = q.flags[o]
      BY <2>2, <2>4, <3>1, <1>0, <1>f
    <3> QED
      BY <2>1, <2>4, <3>2, <1>0 DEF OnceInv, OnceFreedOffQueues
  <2> QED
    BY <2>3, <2>4
<1>20. CASE Invoke
  <2>1. \A o \in Once : evNcalls'[o] <= 1
    BY <1>20, <1>0 DEF Invoke, OnceInv
  <2>2. OnceFreedOffQueues'
    BY <1>20, <1>0 DEF Invoke, OnceInv, OnceFreedOffQueues
  <2> QED
    BY <1>20, <2>1, <2>2, <1>0 DEF Invoke, OnceInv
<1>21. CASE CallsDone
  BY <1>21, <1>0, OnceSame DEF CallsDone
<1>22. CASE ProcessDone
  <2>1. pc' \notin {"call", "callback"}
    BY <1>22 DEF ProcessDone, AfterProcess
  <2> QED
    BY <1>22, <2>1, <1>0, OnceSame DEF ProcessDone
<1>23. CASE CallbackReturn
  <2>1. /\ once' = [o \in Once |-> IF o = cur THEN "free" ELSE once[o]]
        /\ q' = q /\ evNcalls' = evNcalls /\ cur' = cur /\ pc = "callback"
    BY <1>23 DEF CallbackReturn
  <2>2. pc' \notin {"call", "callback"} \/ (pc' = "call" /\ ncalls' = ncalls)
    BY <1>23 DEF CallbackReturn, AfterProcess
  <2>3. OnceFreedOffQueues'
    BY <2>1, <1>0 DEF OnceInv, OnceFreedOffQueues
  <2> QED
    BY <2>1, <2>2, <2>3, <1>0 DEF OnceInv
<1>24. ASSUME NEW e \in AllEvents, FreeDelete(e)
      PROVE  OnceInv'
  <2>1. q' = Unlink(q, e) /\ pc' = "free"
    BY <1>24 DEF FreeDelete
  <2>2. q'.flags = [q.flags EXCEPT ![e] = {}]
    BY <2>1, <1>0, UnlinkOK
  <2>3. \A o \in Once : q'.flags[o] = q.flags[o] \/ q'.flags[o] = {}
    BY <2>2, <1>0, <1>f
  <2> QED
    BY <1>24, <1>0, <2>1, <2>3, OnceSame DEF FreeDelete
<1>25. CASE FreeDealloc
  <2>1. (q' = q \/ q' = Unlink(q, SigEv)) /\ pc' = "freed"
    BY <1>25 DEF FreeDealloc
  <2>2. q'.flags = q.flags \/ q'.flags = [q.flags EXCEPT ![SigEv] = {}]
    BY <2>1, <1>0, UnlinkOK
  <2>3. \A o \in Once : q'.flags[o] = q.flags[o]
    BY <2>2, <1>0, <1>f
  <2> QED
    BY <1>25, <1>0, <2>1, <2>3, OnceSame DEF FreeDealloc
<1>26. CASE EventBaseNew
  <2>1. q' = NewQueues /\ evNcalls' = [e \in AllEvents |-> 0] /\ pc' = "idle"
    BY <1>26 DEF EventBaseNew, FreshBase
  <2> QED
    BY <2>1, <1>0, NewQueuesOK DEF OnceInv, OnceFreedOffQueues
<1>27. ASSUME NEW f \in LoopFlags, LoopStart(f)
      PROVE  OnceInv'
  BY <1>27, <1>0, OnceSame DEF LoopStart
<1>28. CASE DispatchReturn
  BY <1>28, <1>0, OnceSame DEF DispatchReturn
<1>29. CASE DispatchError
  BY <1>29, <1>0, OnceSame DEF DispatchError
<1>30. CASE Tick
  BY <1>30, <1>0, OnceSame DEF Tick
<1>31. CASE StepBack
  BY <1>31, <1>0, OnceSame DEF StepBack
<1>32. CASE UNCHANGED vars
  BY <1>32, <1>0, OnceSame DEF vars
<1> QED
  BY <1>1, <1>2, <1>3, <1>4, <1>5, <1>6, <1>7, <1>8, <1>9, <1>10, <1>11, <1>12, <1>13,
     <1>14, <1>15, <1>16, <1>17, <1>18, <1>19, <1>20, <1>21, <1>22, <1>23, <1>24, <1>25,
     <1>26, <1>27, <1>28, <1>29, <1>30, <1>31, <1>32
     DEF Next, UserOp, Dispatch, LoopStep, FreeStep

-----------------------------------------------------------------------------
(* Callbacks and the active queue.                                         *)

\* A deleted event is on no queue.
CancelInv == cancelled \subseteq Events /\ \A e \in cancelled : q.flags[e] = {}

\* While calls of a burst are outstanding, ev_ncalls of its event counts them,
\* ev_pncalls points to the local ncalls, and the event is neither deleted nor
\* active.
BurstInv ==
  pc \in {"call", "callback"} /\ ncalls > 0 =>
    /\ evNcalls[cur] = ncalls /\ evPncalls[cur] = "frame"
    /\ cur \notin cancelled /\ "ACTIVE" \notin q.flags[cur]

CallsInv == CancelInv /\ BurstInv /\ ActivationNotLost

\* An active event that was active before, with the same calls to make and,
\* unless the clock ran back, the same timeout.
StaysActive(f) ==
  /\ "ACTIVE" \in q.flags[f] /\ evNcalls'[f] = evNcalls[f]
  /\ UseMonotonic /\ "TIMEOUT" \in res'[f] => "TIMEOUT" \in res[f] /\ timeout'[f] = timeout[f]

\* An event that becomes active has calls to make and, if it timed out, is due.
BecomesActive(f) ==
  /\ evNcalls'[f] > 0
  /\ "TIMEOUT" \in res'[f] => timeout'[f] <= gettime
  /\ pc \in {"call", "callback"} => MayReuse(f)

ActiveEffect ==
  \A f \in AllEvents :
    "ACTIVE" \in q'.flags[f] => \/ StaysActive(f) \/ BecomesActive(f)
                                \/ pc = "call" /\ ncalls > 0 /\ f = cur /\ q' = q /\ res' = res
                                   /\ timeout' = timeout

CancelEffect ==
  /\ cancelled' \subseteq cancelled \cup Events
  /\ \A f \in cancelled' : q'.flags[f] = {} \/ (f \in cancelled /\ q.flags[f] # {})
                           \/ f \notin Events

\* Steps that take events off queues, or leave them there.
LEMMA EffectsOfRemoval ==
  ASSUME IInv, cancelled' = cancelled,
         \A f \in AllEvents :
           \/ q'.flags[f] = {}
           \/ /\ \/ q'.flags[f] \subseteq q.flags[f]
                 \/ f \notin Events /\ "ACTIVE" \notin q'.flags[f]
                 \/ f \notin Events /\ "ACTIVE" \in q.flags[f]
              /\ evNcalls'[f] = evNcalls[f] \/ "ACTIVE" \notin q'.flags[f]
              /\ res'[f] = res[f] \/ "ACTIVE" \notin q'.flags[f]
              /\ UseMonotonic => timeout'[f] = timeout[f] \/ "ACTIVE" \notin q'.flags[f]
  PROVE  ActiveEffect /\ CancelEffect
<1>1. ActiveEffect
  BY DEF ActiveEffect, StaysActive
<1>2. CancelEffect
  BY DEF CancelEffect, AllEvents
<1> QED
  BY <1>1, <1>2

\* event_add.
LEMMA EffectsOfAdd ==
  ASSUME IInv, NEW e \in Events, NEW t,
         \/ q' = q /\ timeout' = timeout /\ cancelled' = cancelled
         \/ q' = LinkIO(q, e) /\ timeout' = timeout /\ cancelled' = cancelled \ {e}
         \/ /\ q' = LinkTimeout(LinkIO(q, e), e) /\ cancelled' = cancelled \ {e}
            /\ timeout' = [timeout EXCEPT ![e] = t],
         evNcalls' = evNcalls, res' = res
  PROVE  ActiveEffect /\ CancelEffect
<1>0. /\ QueuesOK(q) /\ timeout \in [AllEvents -> Int]
      /\ Events \subseteq AllEvents /\ SigEv \in AllEvents /\ SigEv \notin Events
  BY EventsAssumption DEF IInv, AllEvents, FieldsOK, EventFieldsOK
<1> DEFINE b == LinkIO(q, e)
           c == LinkTimeout(b, e)
<1>1. /\ QueuesOK(b)
      /\ \A f \in AllEvents \ {e, SigEv} : b.flags[f] = q.flags[f]
      /\ b.flags[SigEv] = q.flags[SigEv] \/ b.flags[SigEv] = q.flags[SigEv] \cup {"INSERTED"}
      /\ b.flags[e] = q.flags[e] \/ b.flags[e] = q.flags[e] \cup {"INSERTED"}
  BY <1>0, LinkIOOK
<1>2. \A f \in AllEvents : "ACTIVE" \in b.flags[f] => "ACTIVE" \in q.flags[f]
  BY <1>1
<1> HIDE DEF b
<1>3. /\ \A f \in AllEvents \ {e} : c.flags[f] = b.flags[f]
      /\ "ACTIVE" \in c.flags[e] => "ACTIVE" \in b.flags[e] /\ "TIMEOUT" \notin res[e]
  BY <1>0, <1>1, LinkTimeoutOK
<1> HIDE DEF c
<1>4. CASE q' = q /\ timeout' = timeout /\ cancelled' = cancelled
  BY <1>4, EffectsOfRemoval
<1>5. CASE q' = b /\ timeout' = timeout /\ cancelled' = cancelled \ {e}
  <2>1. ActiveEffect
    BY <1>2, <1>5 DEF ActiveEffect, StaysActive
  <2>2. CancelEffect
    BY <1>0, <1>1, <1>5 DEF CancelEffect
  <2> QED
    BY <2>1, <2>2
<1>6. CASE /\ q' = c /\ cancelled' = cancelled \ {e} /\ timeout' = [timeout EXCEPT ![e] = t]
  <2>1. \A f \in AllEvents \ {e} : timeout'[f] = timeout[f]
    BY <1>0, <1>6
  <2>2. ActiveEffect
    BY <1>2, <1>3, <1>6, <2>1 DEF ActiveEffect, StaysActive
  <2>3. CancelEffect
    BY <1>0, <1>1, <1>3, <1>6 DEF CancelEffect
  <2> QED
    BY <2>2, <2>3
<1> QED
  BY <1>4, <1>5, <1>6 DEF b, c

\* event_active.
LEMMA EffectsOfActivate ==
  ASSUME IInv, NEW b, QueuesOK(b), NEW e \in AllEvents, NEW r \in SUBSET Results,
         NEW n \in 1 .. MaxCalls, Activate(b, e, r, n),
         b.flags = q.flags \/ b.flags = [q.flags EXCEPT ![e] = {}],
         timeout' = timeout, cancelled' \subseteq cancelled,
         e \in cancelled' => q.flags[e] # {},
         "TIMEOUT" \in r => timeout[e] <= gettime /\ "ACTIVE" \notin b.flags[e],
         pc \in {"call", "callback"} => MayReuse(e)
  PROVE  ActiveEffect /\ CancelEffect
<1>0. /\ q.flags \in [AllEvents -> SUBSET Queues] /\ QueuesOK(q)
      /\ evNcalls \in [AllEvents -> 0 .. MaxCalls] /\ res \in [AllEvents -> SUBSET Results]
      /\ Events \subseteq AllEvents
  BY DEF IInv, QueuesOK, QueueStates, FieldsOK, EventFieldsOK, AllEvents
<1>1. q'.flags = [b.flags EXCEPT ![e] = @ \cup {"ACTIVE"}]
  BY ActivateOK
<1>2. \A f \in AllEvents \ {e} : q'.flags[f] = q.flags[f]
  BY <1>0, <1>1
<1>3. \A f \in AllEvents \ {e} : evNcalls'[f] = evNcalls[f] /\ res'[f] = res[f]
  BY <1>0 DEF Activate
<1>4. CASE "ACTIVE" \in b.flags[e]
  <2>1. "ACTIVE" \in q.flags[e] /\ evNcalls' = evNcalls /\ res'[e] = res[e] \cup r
    BY <1>0, <1>4 DEF Activate
  <2>2. "TIMEOUT" \notin r
    BY <1>4
  <2> QED
    BY <1>0, <1>2, <1>3, <2>1, <2>2 DEF ActiveEffect, StaysActive, CancelEffect
<1>5. CASE "ACTIVE" \notin b.flags[e]
  <2>1. evNcalls'[e] = n /\ n > 0 /\ res'[e] = r
    BY <1>0, <1>5 DEF Activate
  <2>2. BecomesActive(e)
    BY <2>1 DEF BecomesActive
  <2> QED
    BY <1>0, <1>2, <1>3, <2>2 DEF ActiveEffect, StaysActive, CancelEffect
<1> QED
  BY <1>4, <1>5

\* What every step does to the active events and to the deleted ones.
LEMMA EffectsStep ==
  ASSUME IInv, [Next]_vars
  PROVE  ActiveEffect /\ CancelEffect
<1> USE DEF evVars, loopVars, timeVars, LoopUnchanged
<1>0. /\ QueuesOK(q) /\ OnceInv /\ SignalEventTracked /\ cur \in AllEvents
      /\ evNcalls \in [AllEvents -> 0 .. MaxCalls] /\ res \in [AllEvents -> SUBSET Results]
      /\ timeout \in [AllEvents -> Int]
      /\ Events \subseteq AllEvents /\ Once \subseteq AllEvents /\ SigEv \in AllEvents
      /\ SigEv \notin Once /\ SigEv \notin Events /\ Events \cap Once = {}
  BY EventsAssumption DEF IInv, AllEvents, FieldsOK, LoopFieldsOK, EventFieldsOK
<1>f. q.flags \in [AllEvents -> SUBSET Queues] /\ q.timeheap = On(q, "TIMEOUT")
      /\ q.npri \in 1 .. MaxPri
  BY <1>0 DEF QueuesOK, QueueStates, Membership
<1>m. q.npri \div 2 \in 0 .. q.npri - 1
  BY <1>f, BoundsAssumption
<1>n. 1 \in 1 .. MaxCalls
  BY BoundsAssumption
<1>s. ASSUME q'.flags = q.flags, UNCHANGED <<evNcalls, res, timeout, cancelled>>
      PROVE  ActiveEffect /\ CancelEffect
  BY <1>s, EffectsOfRemoval
<1>1. ASSUME NEW e \in Events, EventSet(e)
      PROVE  ActiveEffect /\ CancelEffect
  <2>1. q'.flags = q.flags /\ q.flags[e] = {} /\ cancelled' = cancelled /\ timeout' = timeout
    BY <1>1 DEF EventSet, SetPriority, WithPriorities
  <2>2. \A f \in AllEvents \ {e} : evNcalls'[f] = evNcalls[f] /\ res'[f] = res[f]
    BY <1>0, <1>1 DEF EventSet
  <2> QED
    BY <2>1, <2>2, EffectsOfRemoval
<1>2. ASSUME NEW e \in Events, NEW ok \in BOOLEAN, EventAdd(e, ok)
      PROVE  ActiveEffect /\ CancelEffect
  BY <1>2, EffectsOfAdd DEF EventAdd
<1>3. ASSUME NEW e \in Events, NEW tv \in Timeouts, NEW ok \in BOOLEAN,
             EventAddTimeout(e, tv, ok)
      PROVE  ActiveEffect /\ CancelEffect
  BY <1>3, EffectsOfAdd DEF EventAddTimeout
<1>4. ASSUME NEW e \in Events, EventDel(e)
      PROVE  ActiveEffect /\ CancelEffect
  <2>1. /\ q' = Unlink(q, e) /\ cancelled' = cancelled \cup {e}
        /\ UNCHANGED <<evNcalls, res, timeout>>
    BY <1>4 DEF EventDel
  <2>2. q'.flags = [q.flags EXCEPT ![e] = {}]
    BY <2>1, <1>0, UnlinkOK
  <2>3. q'.flags[e] = {} /\ \A f \in AllEvents \ {e} : q'.flags[f] = q.flags[f]
    BY <2>2, <1>0, <1>f
  <2> QED
    BY <2>1, <2>3, <1>0 DEF ActiveEffect, StaysActive, CancelEffect
<1>5. ASSUME NEW e \in Events, NEW r \in {"READ", "SIGNAL"}, NEW n \in 1 .. MaxCalls,
             EventActive(e, r, n)
      PROVE  ActiveEffect /\ CancelEffect
  <2>1. /\ Activate(q, e, {r}, n) /\ timeout' = timeout /\ cancelled' = cancelled \ {e}
        /\ MayReuse(e)
    BY <1>5 DEF EventActive
  <2>2. {r} \in SUBSET Results /\ "TIMEOUT" \notin {r}
    BY DEF Results
  <2> QED
    BY <2>1, <2>2, <1>0, EffectsOfActivate
<1>6. ASSUME NEW e \in Events, NEW p \in Pris, EventPrioritySet(e, p)
      PROVE  ActiveEffect /\ CancelEffect
  BY <1>6, <1>s DEF EventPrioritySet, SetPriority, WithPriorities
<1>7. ASSUME NEW o \in Once, NEW kind \in {"exit", "user"},
             NEW tv \in Timeouts \cup {Forever}, NEW ok \in BOOLEAN,
             EventBaseOnce(o, kind, tv, ok)
      PROVE  ActiveEffect /\ CancelEffect
  <2> DEFINE b1 == SetPriority(q, o, q.npri \div 2)
             b2 == LinkIO(b1, o)
             b3 == LinkTimeout(b2, o)
  <2>1. /\ q' \in {q, b2, b3} /\ q.flags[o] = {} /\ cancelled' = cancelled
        /\ evNcalls' = [evNcalls EXCEPT ![o] = 0] /\ res' = [res EXCEPT ![o] = {}]
    BY <1>7, <1>0 DEF EventBaseOnce, OnceInv, OnceFreedOffQueues
  <2>2. QueuesOK(b1) /\ b1.flags = q.flags
    BY <2>1, <1>0, <1>m, SetPriorityOK
  <2> HIDE DEF b1
  <2>3. o \in AllEvents /\ o # SigEv /\ o \notin Events
    BY <1>0
  <2>4. /\ QueuesOK(b2)
        /\ \A f \in AllEvents \ {o, SigEv} : b2.flags[f] = b1.flags[f]
        /\ b2.flags[SigEv] = b1.flags[SigEv] \/ b2.flags[SigEv] = b1.flags[SigEv] \cup {"INSERTED"}
        /\ b2.flags[o] = b1.flags[o] \/ b2.flags[o] = b1.flags[o] \cup {"INSERTED"}
    BY <2>2, <2>3, LinkIOOK
  <2> HIDE DEF b2
  <2>5. /\ \A f \in AllEvents \ {o} : b3.flags[f] = b2.flags[f]
        /\ "ACTIVE" \in b3.flags[o] => "ACTIVE" \in b2.flags[o]
    BY <2>3, <2>4, LinkTimeoutOK
  <2> HIDE DEF b3
  <2>6. /\ \A f \in AllEvents \ {o, SigEv} : q'.flags[f] = q.flags[f]
        /\ q'.flags[SigEv] = q.flags[SigEv] \/ q'.flags[SigEv] = q.flags[SigEv] \cup {"INSERTED"}
        /\ "ACTIVE" \notin q'.flags[o]
    BY <2>1, <2>2, <2>3, <2>4, <2>5, <1>0
  <2>7. \A f \in AllEvents \ {o} :
          evNcalls'[f] = evNcalls[f] /\ res'[f] = res[f] /\ timeout'[f] = timeout[f]
    BY <2>1, <1>0, <1>7 DEF EventBaseOnce
  <2> QED
    BY <2>1, <2>3, <2>6, <2>7, <1>0, EffectsOfRemoval
<1>8. ASSUME NEW n \in 1 .. MaxPri, EventBasePriorityInit(n)
      PROVE  ActiveEffect /\ CancelEffect
  BY <1>8, <1>s DEF EventBasePriorityInit, WithPriorities
<1>9. ASSUME NEW ok \in BOOLEAN, EventReinit(ok)
      PROVE  ActiveEffect /\ CancelEffect
  <2> DEFINE b0 == event_queue_remove(q, SigEv, "INSERTED")
             b1 == IF sigAdded THEN RemoveIfOn(b0, SigEv, "ACTIVE") ELSE q
             b2 == SetPriority(b1, SigEv, b1.npri \div 2)
             b3 == event_queue_insert(b2, SigEv, "INSERTED")
  <2>1. /\ q' \in {b2, b3} /\ evNcalls' = [evNcalls EXCEPT ![SigEv] = 0]
        /\ res' = [res EXCEPT ![SigEv] = {}] /\ timeout' = timeout /\ cancelled' = cancelled
    BY <1>9 DEF EventReinit
  <2>2. /\ \A f \in AllEvents \ {SigEv} : b1.flags[f] = q.flags[f]
        /\ "ACTIVE" \notin b1.flags[SigEv]
        /\ b1.flags \in [AllEvents -> SUBSET Queues]
    <3>1. CASE sigAdded
      <4>1. "INSERTED" \in q.flags[SigEv]
        BY <3>1, <1>0 DEF SignalEventTracked
      <4>2. QueuesOK(b0) /\ b0.flags = [q.flags EXCEPT ![SigEv] = @ \ {"INSERTED"}]
        BY <4>1, <1>0, RemoveOK DEF Queues
      <4> HIDE DEF b0
      <4>3. b1.flags = [b0.flags EXCEPT ![SigEv] = @ \ {"ACTIVE"}]
        BY <4>2, <3>1, <1>0, RemoveIfOnOK DEF Queues
      <4> QED
        BY <4>2, <4>3, <1>0, <1>f
    <3>2. CASE ~sigAdded
      BY <3>2, <1>0, <1>f DEF SignalEventTracked
    <3> QED
      BY <3>1, <3>2
  <2> HIDE DEF b1
  <2>3. b2.flags = b1.flags
    BY DEF SetPriority, WithPriorities
  <2> HIDE DEF b2
  <2>4. b3.flags = b2.flags \/ b3.flags = [b2.flags EXCEPT ![SigEv] = @ \cup {"INSERTED"}]
    BY DEF event_queue_insert, Die
  <2> HIDE DEF b3
  <2>5. /\ \A f \in AllEvents \ {SigEv} : q'.flags[f] = q.flags[f]
        /\ "ACTIVE" \notin q'.flags[SigEv]
    BY <2>1, <2>2, <2>3, <2>4, <1>0
  <2>6. \A f \in AllEvents \ {SigEv} : evNcalls'[f] = evNcalls[f] /\ res'[f] = res[f]
    BY <2>1, <1>0
  <2> QED
    BY <2>1, <2>5, <2>6, <1>0, EffectsOfRemoval
<1>10. CASE EventBaseLoopbreak \/ EventBaseFree
  BY <1>10, <1>s DEF EventBaseLoopbreak, EventBaseFree
<1>12. ASSUME NEW e \in AllEvents, NEW r \in {"READ", "WRITE"}, DispatchIO(e, r)
      PROVE  ActiveEffect /\ CancelEffect
  <2>1. /\ Activate(q, e, {r}, 1) /\ pc = "dispatch" /\ "INSERTED" \in q.flags[e]
        /\ timeout' = timeout /\ cancelled' = cancelled
    BY <1>12 DEF DispatchIO
  <2>2. {r} \in SUBSET Results /\ "TIMEOUT" \notin {r} /\ q.flags[e] # {}
    BY <2>1 DEF Results
  <2> QED
    BY <2>1, <2>2, <1>0, <1>n, EffectsOfActivate
<1>13. ASSUME NEW e \in Events, NEW n \in 1 .. MaxCalls, DispatchSignal(e, n)
      PROVE  ActiveEffect /\ CancelEffect
  <2> DEFINE b == IF "PERSIST" \in EvEvents[e] THEN q ELSE Unlink(q, e)
  <2>1. /\ Activate(b, e, {"SIGNAL"}, n) /\ pc = "dispatch" /\ "INSERTED" \in q.flags[e]
        /\ timeout' = timeout /\ cancelled' = cancelled
    BY <1>13 DEF DispatchSignal
  <2>2. QueuesOK(b) /\ (b.flags = q.flags \/ b.flags = [q.flags EXCEPT ![e] = {}])
    BY <1>0, UnlinkOK
  <2> HIDE DEF b
  <2>3. {"SIGNAL"} \in SUBSET Results /\ "TIMEOUT" \notin {"SIGNAL"} /\ q.flags[e] # {}
    BY <2>1 DEF Results
  <2> QED
    BY <2>1, <2>2, <2>3, <1>0, EffectsOfActivate
<1>14. CASE LoopTerminate \/ DispatchReturn \/ DispatchError \/ CallsDone \/ Tick \/ StepBack
  BY <1>14, <1>s DEF LoopTerminate, DispatchReturn, DispatchError, CallsDone, Tick, StepBack
<1>15. CASE LoopNoEvents \/ LoopDispatch
  <2>1. UseMonotonic => CorrectedTimeout = timeout
    BY DEF CorrectedTimeout, TimeRanBack
  <2> QED
    BY <1>15, <2>1, EffectsOfRemoval DEF LoopNoEvents, LoopDispatch
<1>17. ASSUME NEW e \in AllEvents, TimeoutProcess(e)
      PROVE  ActiveEffect /\ CancelEffect
  <2> DEFINE b == Unlink(q, e)
  <2>1. /\ Activate(b, e, {"TIMEOUT"}, 1) /\ pc = "timeouts" /\ timeout[e] <= gettime
        /\ "TIMEOUT" \in q.flags[e] /\ timeout' = timeout /\ cancelled' = cancelled
    BY <1>17, <1>f DEF TimeoutProcess, IsTop, On
  <2>2. QueuesOK(b) /\ b.flags = [q.flags EXCEPT ![e] = {}]
    BY <1>0, UnlinkOK
  <2> HIDE DEF b
  <2>3. {"TIMEOUT"} \in SUBSET Results /\ q.flags[e] # {} /\ "ACTIVE" \notin b.flags[e]
    BY <2>1, <2>2, <1>f DEF Results
  <2> QED
    BY <2>1, <2>2, <2>3, <1>n, EffectsOfActivate
<1>18. CASE TimeoutsDone
  BY <1>18, <1>s DEF TimeoutsDone
<1>19. CASE ProcessNext
  <2> DEFINE e == Head(q.active[activeq])
  <2>1. /\ q' = (IF "PERSIST" \in EvEvents[e] THEN event_queue_remove(q, e, "ACTIVE")
                 ELSE Unlink(q, e))
        /\ UNCHANGED <<evNcalls, res, timeout, cancelled>> /\ q.active[activeq] # <<>>
    BY <1>19 DEF ProcessNext
  <2>2. e \in AllEvents /\ "ACTIVE" \in q.flags[e]
    BY <2>1, HeadActive
  <2> HIDE DEF e
  <2>3. \/ q'.flags = [q.flags EXCEPT ![e] = @ \ {"ACTIVE"}]
        \/ q'.flags = [q.flags EXCEPT ![e] = {}]
    BY <2>1, <2>2, <1>0, RemoveOK, UnlinkOK DEF Queues
  <2>4. \A f \in AllEvents : q'.flags[f] \subseteq q.flags[f]
    BY <2>2, <2>3, <1>f
  <2> QED
    BY <2>1, <2>4, EffectsOfRemoval
<1>20. CASE Invoke
  <2>1. /\ q' = q /\ res' = res /\ timeout' = timeout /\ cancelled' = cancelled
        /\ pc = "call" /\ ncalls > 0
    BY <1>20 DEF Invoke
  <2>2. \A f \in AllEvents \ {cur} : evNcalls'[f] = evNcalls[f]
    BY <1>20, <1>0 DEF Invoke
  <2>3. ActiveEffect
    BY <2>1, <2>2 DEF ActiveEffect, StaysActive
  <2>4. CancelEffect
    BY <2>1 DEF CancelEffect
  <2> QED
    BY <2>3, <2>4
<1>22. CASE ProcessDone \/ CallbackReturn
  BY <1>22, <1>s DEF ProcessDone, CallbackReturn
<1>24. ASSUME NEW e \in AllEvents, FreeDelete(e)
      PROVE  ActiveEffect /\ CancelEffect
  <2>1. q' = Unlink(q, e) /\ UNCHANGED <<evNcalls, res, timeout, cancelled>>
    BY <1>24 DEF FreeDelete
  <2>2. q'.flags = [q.flags EXCEPT ![e] = {}]
    BY <2>1, <1>0, UnlinkOK
  <2>3. \A f \in AllEvents : q'.flags[f] \subseteq q.flags[f]
    BY <2>2, <1>f
  <2> QED
    BY <2>1, <2>3, EffectsOfRemoval
<1>25. CASE FreeDealloc
  <2>1. (q' = q \/ q' = Unlink(q, SigEv)) /\ UNCHANGED <<evNcalls, res, timeout, cancelled>>
    BY <1>25 DEF FreeDealloc
  <2>2. q'.flags = q.flags \/ q'.flags = [q.flags EXCEPT ![SigEv] = {}]
    BY <2>1, <1>0, UnlinkOK
  <2>3. \A f \in AllEvents : q'.flags[f] \subseteq q.flags[f]
    BY <2>2, <1>f
  <2> QED
    BY <2>1, <2>3, EffectsOfRemoval
<1>26. CASE EventBaseNew
  <2>1. q' = NewQueues /\ cancelled' = {}
    BY <1>26 DEF EventBaseNew, FreshBase
  <2> QED
    BY <2>1, NewQueuesOK DEF ActiveEffect, CancelEffect
<1>27. ASSUME NEW f \in LoopFlags, LoopStart(f)
      PROVE  ActiveEffect /\ CancelEffect
  BY <1>27, <1>s DEF LoopStart
<1>32. CASE UNCHANGED vars
  BY <1>32, <1>s DEF vars
<1> QED
  BY <1>1, <1>2, <1>3, <1>4, <1>5, <1>6, <1>7, <1>8, <1>9, <1>10, <1>12, <1>13,
     <1>14, <1>15, <1>17, <1>18, <1>19, <1>20, <1>22, <1>24, <1>25, <1>26, <1>27, <1>32
     DEF Next, UserOp, Dispatch, LoopStep, FreeStep

\* Steps that neither begin a burst nor make a call of one.
LEMMA BurstSame ==
  ASSUME ~ReuseInBurst, BurstInv, ActiveEffect, cur \in AllEvents,
         \/ pc' \notin {"call", "callback"}
         \/ ~(ncalls' > 0)
         \/ /\ pc \in {"call", "callback"} /\ cur' = cur /\ ncalls' = ncalls
            /\ cur \notin cancelled'
            /\ evNcalls'[cur] = evNcalls[cur] /\ evPncalls'[cur] = evPncalls[cur]
  PROVE  BurstInv'
<1> SUFFICES ASSUME pc' \in {"call", "callback"}, ncalls' > 0
             PROVE  /\ evNcalls'[cur'] = ncalls' /\ evPncalls'[cur'] = "frame"
                    /\ cur' \notin cancelled' /\ "ACTIVE" \notin q'.flags[cur']
  BY DEF BurstInv
<1>1. /\ pc \in {"call", "callback"} /\ cur' = cur /\ ncalls' = ncalls /\ ncalls > 0
      /\ cur \notin cancelled'
      /\ evNcalls'[cur] = evNcalls[cur] /\ evPncalls'[cur] = evPncalls[cur]
  OBVIOUS
<1>2. evNcalls[cur] = ncalls /\ evPncalls[cur] = "frame" /\ "ACTIVE" \notin q.flags[cur]
  BY <1>1 DEF BurstInv
<1>3. ~MayReuse(cur)
  BY <1>1 DEF MayReuse
<1>4. "ACTIVE" \notin q'.flags[cur]
  BY <1>1, <1>2, <1>3 DEF ActiveEffect, StaysActive, BecomesActive
<1> QED
  BY <1>1, <1>2, <1>4

\* Every step keeps the discipline of a burst.
LEMMA BurstStep ==
  ASSUME ~ReuseInBurst, IInv, CallsInv, ActiveEffect, [Next]_vars
  PROVE  BurstInv'
<1> USE DEF evVars, loopVars, timeVars, LoopUnchanged
<1>0. /\ QueuesOK(q) /\ cur \in AllEvents /\ ncalls \in Nat /\ BurstInv /\ CancelInv
      /\ evNcalls \in [AllEvents -> 0 .. MaxCalls]
      /\ evPncalls \in [AllEvents -> {"null", "frame", "stale"}]
      /\ q.flags \in [AllEvents -> SUBSET Queues]
      /\ OnceInv /\ Events \cap Once = {}
  BY EventsAssumption, BoundsAssumption
     DEF IInv, CallsInv, FieldsOK, LoopFieldsOK, EventFieldsOK, QueuesOK, QueueStates
<1>b. pc \in {"call", "callback"} /\ ncalls > 0 => cur \notin cancelled
  BY <1>0 DEF BurstInv
<1>s. ASSUME pc' = pc, cur' = cur, ncalls' = ncalls, evNcalls' = evNcalls,
             evPncalls' = evPncalls, cancelled' \subseteq cancelled
      PROVE  BurstInv'
  BY <1>0, <1>b, <1>s, BurstSame
<1>a. ASSUME NEW e, AbortLoop(e)
      PROVE  ncalls' = 0 \/ (ncalls' = ncalls /\ (evNcalls[e] = 0 \/ evPncalls[e] # "frame"))
  BY <1>a DEF AbortLoop
<1>r. ASSUME NEW e \in AllEvents, MayReuse(e), pc' = pc, cur' = cur, ncalls' = ncalls,
             cancelled' \subseteq cancelled,
             \A f \in AllEvents \ {e} : evNcalls'[f] = evNcalls[f] /\ evPncalls'[f] = evPncalls[f]
      PROVE  BurstInv'
  <2>1. CASE pc \in {"call", "callback"} /\ ncalls > 0
    <3>1. e # cur
      BY <1>0, <1>r, <2>1 DEF MayReuse
    <3> QED
      BY <1>0, <1>b, <1>r, <2>1, <3>1, BurstSame
  <2>2. CASE ~(pc \in {"call", "callback"} /\ ncalls > 0)
    BY <1>0, <1>r, <2>2, BurstSame
  <2> QED
    BY <2>1, <2>2
<1>1. ASSUME NEW e \in Events, EventSet(e)
      PROVE  BurstInv'
  BY <1>0, <1>1, <1>r DEF EventSet, AllEvents
<1>2. ASSUME NEW e \in Events, NEW ok \in BOOLEAN, EventAdd(e, ok)
      PROVE  BurstInv'
  BY <1>2, <1>s DEF EventAdd
<1>3. ASSUME NEW e \in Events, NEW tv \in Timeouts, NEW ok \in BOOLEAN,
             EventAddTimeout(e, tv, ok)
      PROVE  BurstInv'
  <2>1. /\ UNCHANGED <<evNcalls, evPncalls, pc, cur>> /\ cancelled' \subseteq cancelled
        /\ ncalls' = ncalls \/ AbortLoop(e)
    BY <1>3 DEF EventAddTimeout
  <2>2. ncalls' = ncalls \/ ncalls' = 0
    BY <2>1, <1>a
  <2> QED
    BY <1>0, <1>s, <2>1, <2>2, BurstSame
<1>4. ASSUME NEW e \in Events, EventDel(e)
      PROVE  BurstInv'
  <2>1. /\ UNCHANGED <<evNcalls, evPncalls, pc, cur>> /\ cancelled' = cancelled \cup {e}
        /\ AbortLoop(e)
    BY <1>4 DEF EventDel
  <2>2. CASE pc \in {"call", "callback"} /\ ncalls > 0 /\ e = cur
    <3>1. evNcalls[e] # 0 /\ evPncalls[e] = "frame"
      BY <1>0, <2>2 DEF BurstInv
    <3>2. ncalls' = 0
      BY <1>a, <2>1, <3>1
    <3> QED
      BY <1>0, <3>2, BurstSame
  <2>3. CASE ~(pc \in {"call", "callback"} /\ ncalls > 0 /\ e = cur)
    <3>1. ncalls' = 0 \/ ncalls' = ncalls
      BY <1>a, <2>1
    <3> QED
      BY <1>0, <1>b, <2>1, <2>3, <3>1, BurstSame
  <2> QED
    BY <2>2, <2>3
<1>5. ASSUME NEW e \in Events, NEW r \in {"READ", "SIGNAL"}, NEW n \in 1 .. MaxCalls,
             EventActive(e, r, n)
      PROVE  BurstInv'
  <2>1. /\ UNCHANGED <<pc, cur, ncalls>> /\ cancelled' \subseteq cancelled /\ MayReuse(e)
        /\ Activate(q, e, {r}, n)
    BY <1>5 DEF EventActive
  <2>2. \A f \in AllEvents \ {e} : evNcalls'[f] = evNcalls[f] /\ evPncalls'[f] = evPncalls[f]
    BY <1>0, <2>1 DEF Activate
  <2> QED
    BY <1>r, <2>1, <2>2 DEF AllEvents
<1>7. ASSUME NEW o \in Once, NEW kind \in {"exit", "user"},
             NEW tv \in Timeouts \cup {Forever}, NEW ok \in BOOLEAN,
             EventBaseOnce(o, kind, tv, ok)
      PROVE  BurstInv'
  <2>1. /\ UNCHANGED <<pc, cur, ncalls>> /\ cancelled' = cancelled /\ once[o] = "free"
        /\ evNcalls' = [evNcalls EXCEPT ![o] = 0] /\ evPncalls' = [evPncalls EXCEPT ![o] = "null"]
        /\ pc \in {"call", "callback"} => pc = "callback"
    BY <1>7 DEF EventBaseOnce, UserCode
  <2>2. pc \in {"call", "callback"} => o # cur
    BY <1>0, <2>1 DEF OnceInv
  <2> QED
    BY <1>0, <1>b, <2>1, <2>2, BurstSame
<1>8. ASSUME \/ EventBaseLoopbreak \/ Tick \/ StepBack \/ UNCHANGED vars
             \/ \E e \in Events, p \in Pris : EventPrioritySet(e, p)
             \/ \E n \in 1 .. MaxPri : EventBasePriorityInit(n)
      PROVE  BurstInv'
  BY <1>8, <1>s DEF EventBaseLoopbreak, Tick, StepBack, vars, EventPrioritySet,
                    EventBasePriorityInit
<1>9. ASSUME \/ \E ok \in BOOLEAN : EventReinit(ok) \/ EventBaseFree
             \/ LoopTerminate \/ LoopNoEvents \/ LoopDispatch \/ TimeoutsDone \/ CallsDone
             \/ ProcessDone \/ DispatchReturn \/ DispatchError
             \/ \E f \in LoopFlags : LoopStart(f)
      PROVE  BurstInv'
  <2>1. pc' \notin {"call", "callback"}
    BY <1>9 DEF EventReinit, EventBaseFree, LoopTerminate, LoopNoEvents, LoopDispatch,
                TimeoutsDone, CallsDone, ProcessDone, AfterProcess, DispatchReturn, DispatchError,
                LoopStart
  <2> QED
    BY <1>0, <2>1, BurstSame
<1>10. ASSUME \/ \E e \in AllEvents, r \in {"READ", "WRITE"} : DispatchIO(e, r)
              \/ \E e \in Events, n \in 1 .. MaxCalls : DispatchSignal(e, n)
              \/ \E e \in AllEvents : TimeoutProcess(e) \/ FreeDelete(e)
              \/ FreeDealloc \/ EventBaseNew
      PROVE  BurstInv'
  <2>1. pc' \notin {"call", "callback"}
    BY <1>10 DEF DispatchIO, DispatchSignal, TimeoutProcess, FreeDelete, FreeDealloc, EventBaseNew
  <2> QED
    BY <1>0, <2>1, BurstSame
<1>11. CASE ProcessNext
  <2> DEFINE e == Head(q.active[activeq])
  <2>1. /\ q' = (IF "PERSIST" \in EvEvents[e] THEN event_queue_remove(q, e, "ACTIVE")
                 ELSE Unlink(q, e))
        /\ evNcalls' = evNcalls /\ cancelled' = cancelled /\ q.active[activeq] # <<>>
        /\ cur' = e /\ ncalls' = evNcalls[e] /\ evPncalls' = [evPncalls EXCEPT ![e] = "frame"]
    BY <1>11 DEF ProcessNext
  <2>2. e \in AllEvents /\ "ACTIVE" \in q.flags[e]
    BY <2>1, HeadActive
  <2> HIDE DEF e
  <2>3. \/ q'.flags = [q.flags EXCEPT ![e] = @ \ {"ACTIVE"}]
        \/ q'.flags = [q.flags EXCEPT ![e] = {}]
    BY <2>1, <2>2, <1>0, RemoveOK, UnlinkOK DEF Queues
  <2>4. "ACTIVE" \notin q'.flags[e] /\ e \notin cancelled /\ evPncalls'[e] = "frame"
    BY <1>0, <2>1, <2>2, <2>3 DEF CancelInv
  <2> QED
    BY <2>1, <2>4 DEF BurstInv
<1>12. CASE Invoke
  <2>1. /\ ncalls > 0 /\ ncalls' = ncalls - 1 /\ cur' = cur /\ q' = q /\ cancelled' = cancelled
        /\ evNcalls' = [evNcalls EXCEPT ![cur] = ncalls - 1] /\ evPncalls' = evPncalls
        /\ pc = "call"
    BY <1>12 DEF Invoke
  <2>2. evPncalls[cur] = "frame" /\ cur \notin cancelled /\ "ACTIVE" \notin q.flags[cur]
    BY <1>0, <2>1 DEF BurstInv
  <2>3. evNcalls'[cur] = ncalls'
    BY <1>0, <2>1
  <2> QED
    BY <2>1, <2>2, <2>3 DEF BurstInv
<1>13. CASE CallbackReturn
  <2>1. /\ pc = "callback" /\ cur' = cur /\ evNcalls' = evNcalls /\ cancelled' = cancelled
        /\ \/ pc' \notin {"call", "callback"}
           \/ evPncalls' = evPncalls /\ ncalls' = ncalls
    BY <1>13 DEF CallbackReturn, AfterProcess
  <2> QED
    BY <1>0, <1>b, <2>1, BurstSame
<1> QED
  BY <1>1, <1>2, <1>3, <1>4, <1>5, <1>7, <1>8, <1>9, <1>10, <1>11, <1>12, <1>13
     DEF Next, UserOp, Dispatch, LoopStep, FreeStep

LEMMA CallsStep ==
  ASSUME ~ReuseInBurst, IInv, CallsInv, [Next]_vars
  PROVE  CallsInv'
<1>1. ActiveEffect /\ CancelEffect
  BY EffectsStep
<1>2. CancelInv'
  BY <1>1 DEF CallsInv, CancelInv, CancelEffect
<1>3. ActivationNotLost'
  <2> SUFFICES ASSUME NEW f \in AllEvents, "ACTIVE" \in q'.flags[f]
               PROVE  evNcalls'[f] > 0
    BY DEF ActivationNotLost
  <2>1. ~(pc = "call" /\ ncalls > 0 /\ f = cur /\ q' = q)
    BY DEF CallsInv, BurstInv
  <2> QED
    BY <1>1, <2>1 DEF ActiveEffect, StaysActive, BecomesActive, CallsInv, ActivationNotLost
<1>4. BurstInv'
  BY <1>1, BurstStep
<1> QED
  BY <1>2, <1>3, <1>4 DEF CallsInv

\* With a clock that does not run back the cached time is in the past.
DueInv == tvCache <= now /\ ActiveTimeoutsDue

LEMMA TransitiveOrder ==
  ASSUME NEW x \in Int, NEW y \in Int, NEW z \in Int, x <= y, y <= z
  PROVE  x <= z
  OBVIOUS

LEMMA DueStep ==
  ASSUME UseMonotonic, IInv, DueInv, [Next]_vars
  PROVE  DueInv'
<1>1. ActiveEffect
  BY EffectsStep
<1>2. /\ now \in Nat /\ tvCache \in Nat /\ gettime \in Int /\ timeout \in [AllEvents -> Int]
      /\ now' \in Nat /\ timeout' \in [AllEvents -> Int]
  BY FieldsStep, TimeTypes, BoundsAssumption DEF IInv, FieldsOK, TimeFieldsOK, EventFieldsOK
<1>3. gettime <= now
  BY <1>2 DEF gettime, DueInv
<1>4. (now' = now \/ now' = now + 1) /\ (tvCache' = tvCache \/ tvCache' = 0 \/ tvCache' = now)
  <2> USE DEF evVars, loopVars, timeVars, LoopUnchanged
  <2>1. CASE UserOp
    BY <2>1 DEF UserOp, EventSet, EventAdd, EventAddTimeout, EventDel, EventActive,
                EventPrioritySet, EventBaseOnce, EventBasePriorityInit, EventReinit,
                EventBaseLoopbreak, EventBaseFree
  <2>2. CASE Dispatch \/ FreeStep
    BY <2>2 DEF Dispatch, DispatchIO, DispatchSignal, FreeStep, FreeDelete, FreeDealloc,
                EventBaseNew, FreshBase
  <2>3. CASE LoopStep
    BY <2>3 DEF LoopStep, LoopTerminate, LoopNoEvents, LoopDispatch, TimeoutProcess,
                TimeoutsDone, ProcessNext, Invoke, CallsDone, ProcessDone, CallbackReturn,
                AfterProcess
  <2>4. CASE (\E f \in LoopFlags : LoopStart(f)) \/ DispatchReturn \/ DispatchError
    BY <2>4 DEF LoopStart, DispatchReturn, DispatchError
  <2>5. CASE Tick \/ StepBack \/ UNCHANGED vars
    BY <2>5 DEF Tick, StepBack, vars
  <2> QED
    BY <2>1, <2>2, <2>3, <2>4, <2>5 DEF Next
<1>5. now' >= now /\ tvCache' <= now'
  BY <1>2, <1>4 DEF DueInv
<1>6. ActiveTimeoutsDue'
  <2> SUFFICES ASSUME NEW f \in AllEvents, "ACTIVE" \in q'.flags[f], "TIMEOUT" \in res'[f]
               PROVE  timeout'[f] <= now'
    BY DEF ActiveTimeoutsDue
  <2>1. \/ "ACTIVE" \in q.flags[f] /\ "TIMEOUT" \in res[f] /\ timeout'[f] = timeout[f]
        \/ timeout'[f] <= gettime
    BY <1>1 DEF ActiveEffect, StaysActive, BecomesActive
  <2>2. timeout'[f] <= now
    BY <1>2, <1>3, <2>1, TransitiveOrder DEF DueInv, ActiveTimeoutsDue
  <2> QED
    BY <1>2, <1>5, <2>2, TransitiveOrder
<1> QED
  BY <1>5, <1>6 DEF DueInv

-----------------------------------------------------------------------------
(* The theorems.                                                           *)

LEMMA Invariance == Spec => []IInv
<1>1. IInv /\ [Next]_vars => IInv'
  BY FieldsStep, QueuesStep, OnceStep DEF IInv
<1> QED
  BY <1>1, InitIInv, PTL DEF Spec

\* Every variable of event.c's model keeps its type: in particular the counts
\* of outstanding calls never go below zero and every priority indexes one of
\* the allocated queues.
THEOREM TypeCorrect == Spec => []TypeOK
<1>1. IInv => TypeOK
  BY DEF IInv, FieldsOK, QueuesOK, TypeOK
<1> QED
  BY <1>1, Invariance, PTL

\* However API calls, callbacks, dispatch and base (re)initialisation are
\* interleaved, flags, queues and counters of the base agree and no
\* event_errx of event_queue_insert or event_queue_remove is reached.
THEOREM QueuesAlwaysConsistent == Spec => []QueuesConsistent
<1>1. IInv => QueuesConsistent
  BY DEF IInv, QueuesOK, QueuesConsistent
<1> QED
  BY <1>1, Invariance, PTL

\* ev_signal_added tells whether ev_signal is on the event queue, across
\* event_add, event_reinit and event_base_free.
THEOREM SignalEventAlwaysTracked == Spec => []SignalEventTracked
<1>1. IInv => SignalEventTracked
  BY DEF IInv
<1> QED
  BY <1>1, Invariance, PTL

\* A freed struct event_once is on no queue.
THEOREM OnceAlwaysFreedOffQueues == Spec => []OnceFreedOffQueues
<1>1. IInv => OnceFreedOffQueues
  BY DEF IInv, OnceInv
<1> QED
  BY <1>1, Invariance, PTL

\* The asserts of event_base_free hold: it leaves nothing on the queues.
THEOREM FreeAlwaysLeavesNothing == Spec => []FreeLeavesNothing
<1>1. IInv => FreeLeavesNothing
  <2> SUFFICES ASSUME IInv, pc = "freed" PROVE FreeLeavesNothing
    BY DEF FreeLeavesNothing
  <2>1. /\ \A r \in Queues : On(q, r) = {} /\ Counted(q, r) = {}
        /\ QueuesOK(q)
    BY DEF IInv, FreedInv, On, Counted
  <2>2. q.eventqueue = {} /\ q.timeheap = {}
    BY <2>1 DEF QueuesOK, Membership, Queues
  <2>3. \A p \in Pris : q.active[p] = <<>>
    <3> SUFFICES ASSUME NEW p \in Pris PROVE q.active[p] = <<>>
      OBVIOUS
    <3> DEFINE s == q.active[p]
    <3>0. q.active \in [Pris -> Seq(AllEvents)] /\ Membership(q) /\ On(q, "ACTIVE") = {}
      BY <2>1 DEF QueuesOK, QueueStates, Queues
    <3>1. s \in Seq(AllEvents)
      BY <3>0
    <3>2. {s[i] : i \in 1 .. Len(s)} = {}
      BY <3>0 DEF Membership, ActiveQueueOK, ActiveAt
    <3> HIDE DEF s
    <3>3. \A i \in 1 .. Len(s) : s[i] \in {s[j] : j \in 1 .. Len(s)}
      OBVIOUS
    <3>4. Len(s) \in Nat /\ ~(1 \in 1 .. Len(s))
      BY <3>1, <3>2, <3>3
    <3>5. Len(s) = 0
      BY <3>4
    <3>6. s = <<>>
      BY <3>1, <3>5
    <3> QED
      BY <3>6 DEF s
  <2>4. q.count = 0 /\ q.countActive = 0
    <3>1. /\ Cardinality(Counted(q, "INSERTED")) = 0 /\ Cardinality(Counted(q, "TIMEOUT")) = 0
          /\ Cardinality(Counted(q, "ACTIVE")) = 0 /\ Cardinality(On(q, "ACTIVE")) = 0
      BY <2>1, FS_EmptySet DEF Queues
    <3> QED
      BY <3>1, <2>1 DEF QueuesOK, Counts
  <2> QED
    BY <2>2, <2>3, <2>4 DEF FreeLeavesNothing
<1> QED
  BY <1>1, Invariance, PTL

\* As long as callbacks leave the event of a running burst alone, but for
\* deleting or adding it: event_del ends the calls at once, also those of the
\* burst event_process_active is in the middle of.
THEOREM DelAlwaysStopsCallbacks ==
  ASSUME ~ReuseInBurst
  PROVE  Spec => []DelStopsCallbacks
<1>1. Init => CallsInv
  BY NewQueuesOK DEF Init, CallsInv, CancelInv, BurstInv, ActivationNotLost
<1>2. IInv /\ CallsInv /\ [Next]_vars => CallsInv'
  BY CallsStep
<1>3. IInv /\ CallsInv => DelStopsCallbacks
  BY BoundsAssumption DEF CallsInv, BurstInv, DelStopsCallbacks, IInv, FieldsOK, LoopFieldsOK
<1> QED
  BY <1>1, <1>2, <1>3, Invariance, PTL DEF Spec

\* Under the same discipline, whatever is on an active queue has a call to make:
\* event_process_active loses no activation.
THEOREM ActivationsNeverLost ==
  ASSUME ~ReuseInBurst
  PROVE  Spec => []ActivationNotLost
<1>1. Init => CallsInv
  BY NewQueuesOK DEF Init, CallsInv, CancelInv, BurstInv, ActivationNotLost
<1>2. IInv /\ CallsInv /\ [Next]_vars => CallsInv'
  BY CallsStep
<1>3. CallsInv => ActivationNotLost
  BY DEF CallsInv
<1> QED
  BY <1>1, <1>2, <1>3, Invariance, PTL DEF Spec

\* With a monotonic clock a timer never fires early, and rescheduling an event
\* that has timed out, from any callback, takes it off the active queue.
THEOREM TimeoutsAlwaysDue ==
  ASSUME UseMonotonic
  PROVE  Spec => []ActiveTimeoutsDue
<1>1. Init => DueInv
  BY NewQueuesOK DEF Init, DueInv, ActiveTimeoutsDue
<1>2. IInv /\ DueInv /\ [Next]_vars => DueInv'
  BY DueStep
<1>3. DueInv => ActiveTimeoutsDue
  BY DEF DueInv
<1> QED
  BY <1>1, <1>2, <1>3, Invariance, PTL DEF Spec
=============================================================================
