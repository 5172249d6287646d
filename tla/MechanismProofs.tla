--------------------------- MODULE MechanismProofs ---------------------------
(***************************************************************************)
(* Proofs about epoll.c, poll.c and select.c: the tables of each keep what *)
(* event.c added, for every set of events and descriptors and every size   *)
(* of the arrays, so each of them implements FdTable.                      *)
(***************************************************************************)
EXTENDS Mechanisms, FiniteSetTheorems, FunctionTheorems, SequenceTheorems, TLAPS

-----------------------------------------------------------------------------
(* What the three have in common. *)

\* A size that is doubled is above the descriptor and loses nothing.
LEMMA DoubledSize ==
  ASSUME NEW n \in Nat, NEW fd \in Nat, NEW size \in Doubled(n, fd)
  PROVE  size \in Nat /\ fd < size /\ n <= size
<1>1. CASE fd < n
  BY <1>1 DEF Doubled
<1>2. CASE ~(fd < n)
  <2>1. size \in fd + 1 .. 2 * fd
    BY <1>2 DEF Doubled
  <2> QED
    BY <1>2, <2>1
<1> QED
  BY <1>1, <1>2

\* An event waits for something.
LEMMA EventFacts ==
  ASSUME NEW e \in Events
  PROVE  /\ e # NoEvent /\ ev_fd[e] \in Nat /\ ev_fd[e] \in Fds
         /\ ev_events[e] \in {{"READ"}, {"WRITE"}, {"READ", "WRITE"}}
<1>1. /\ e # NoEvent /\ ev_fd[e] \in Nat
      /\ ev_events[e] \in SUBSET {"READ", "WRITE"} /\ ev_events[e] # {}
  BY FdEventsAssumption
<1>2. ev_fd[e] \in Fds
  BY DEF Fds
<1>3. "READ" \in ev_events[e] \/ "WRITE" \in ev_events[e]
  BY <1>1
<1> QED
  BY <1>1, <1>2, <1>3

\* A descriptor is a small number.
LEMMA FdsAreNumbers == Fds \subseteq Nat
  BY FdEventsAssumption DEF Fds

\* In error a descriptor is not said to be ready for anything else.
LEMMA ReadinessFacts ==
  ASSUME NEW ready \in Readiness, NEW fd \in Fds
  PROVE  ready[fd] \in {{}, {"READ"}, {"WRITE"}, {"READ", "WRITE"}, {"ERR"}}
  BY DEF Readiness

\* The result an event is due, as FdTable has it.
Result(ready, e) ==
  IF "ERR" \in ready[ev_fd[e]] THEN ev_events[e] ELSE ev_events[e] \cap ready[ev_fd[e]]

\* The entries of by are for the events of S, and give them what they are due.
Gives(by, S, ready) ==
  /\ \A i \in DOMAIN by : \A e \in DOMAIN by[i] : e \in S /\ by[i][e] = Result(ready, e)
  /\ \A e \in S : \E i \in DOMAIN by : e \in DOMAIN by[i]

\* When every entry gives its events what they are due, that is what they get.
LEMMA MadeActiveIs ==
  ASSUME NEW by, NEW S, NEW ready, Gives(by, S, ready)
  PROVE  MadeActive(by) = [e \in S |-> Result(ready, e)]
<1>1. ASSUME NEW e \in S
      PROVE  UNION {by[i][e] : i \in {j \in DOMAIN by : e \in DOMAIN by[j]}} = Result(ready, e)
  <2>1. PICK k \in DOMAIN by : e \in DOMAIN by[k]
    BY DEF Gives
  <2>2. {by[i][e] : i \in {j \in DOMAIN by : e \in DOMAIN by[j]}} = {Result(ready, e)}
    BY <2>1 DEF Gives
  <2> QED
    BY <2>2
<1>2. UNION {DOMAIN by[i] : i \in DOMAIN by} = S
  BY DEF Gives
<1> QED
  BY <1>1, <1>2 DEF MadeActive

\* There are finitely many descriptors.
LEMMA FdsFinite == IsFiniteSet(Fds)
<1> DEFINE f == [e \in Events |-> ev_fd[e]]
<1>1. f \in [Events -> Fds] /\ \A fd \in Fds : \E e \in Events : f[e] = fd
  BY DEF Fds
<1>2. f \in Surjection(Events, Fds)
  BY <1>1, Fun_IsSurj
<1> QED
  BY <1>2, FS_Surjection, FdEventsAssumption

\* The events of one descriptor, one for each direction.
Slot == [evread : Events \cup {NoEvent}, evwrite : Events \cup {NoEvent}]

\* A slot has an event for a direction only if that event waits for it on the
\* descriptor, and then it has the event for all it waits for.
SlotOK(fd, slot) ==
  /\ slot.evread # NoEvent =>
       /\ ev_fd[slot.evread] = fd /\ "READ" \in ev_events[slot.evread]
       /\ "WRITE" \in ev_events[slot.evread] => slot.evwrite = slot.evread
  /\ slot.evwrite # NoEvent =>
       /\ ev_fd[slot.evwrite] = fd /\ "WRITE" \in ev_events[slot.evwrite]
       /\ "READ" \in ev_events[slot.evwrite] => slot.evread = slot.evwrite

With(slot, e) ==
  [evread  |-> IF "READ" \in ev_events[e] THEN e ELSE slot.evread,
   evwrite |-> IF "WRITE" \in ev_events[e] THEN e ELSE slot.evwrite]
Without(slot, e) ==
  [evread  |-> IF "READ" \in ev_events[e] THEN NoEvent ELSE slot.evread,
   evwrite |-> IF "WRITE" \in ev_events[e] THEN NoEvent ELSE slot.evwrite]

\* An event that finds its directions free joins the other one.
LEMMA WithFacts ==
  ASSUME NEW slot \in Slot, NEW e \in Events, SlotOK(ev_fd[e], slot),
         Held(slot) \cap ev_events[e] = {}
  PROVE  LET new == With(slot, e)
         IN  /\ new \in Slot /\ SlotOK(ev_fd[e], new)
             /\ Held(new) = Held(slot) \cup ev_events[e]
             /\ \A f \in Events : f \in {new.evread, new.evwrite} <=>
                                  f = e \/ f \in {slot.evread, slot.evwrite}
             /\ \A f \in Events : f \in {slot.evread, slot.evwrite} =>
                                  f # e /\ ev_events[e] \cap ev_events[f] = {}
  BY EventFacts DEF Slot, SlotOK, Held, With

\* An event that leaves takes nothing of the other one with it.
LEMMA WithoutFacts ==
  ASSUME NEW slot \in Slot, NEW e \in Events, SlotOK(ev_fd[e], slot),
         e \in {slot.evread, slot.evwrite}
  PROVE  LET new == Without(slot, e)
         IN  /\ new \in Slot /\ SlotOK(ev_fd[e], new)
             /\ Held(new) = Held(slot) \ ev_events[e]
             /\ \A f \in Events : f \in {new.evread, new.evwrite} <=>
                                  f # e /\ f \in {slot.evread, slot.evwrite}
  BY EventFacts DEF Slot, SlotOK, Held, Without

-----------------------------------------------------------------------------
(* epoll.c *)

EpollFields == {"fds", "nfds", "nevents", "kernel", "ready", "active"}

EpollType ==
  /\ DOMAIN epoll = EpollFields
  /\ epoll.nfds \in Nat /\ epoll.nevents \in Nat \ {0}
  /\ epoll.fds \in [0 .. epoll.nfds - 1 -> Slot]
  /\ epoll.kernel \in [Fds -> SUBSET {"READ", "WRITE"}]

EpollInv ==
  /\ EpollType
  /\ \A fd \in 0 .. epoll.nfds - 1 : SlotOK(fd, epoll.fds[fd])
  /\ KernelInStep

\* epoll_init.
LEMMA EpollInitInv == epoll = EpollNew => EpollInv /\ EpollTable!Init
<1> SUFFICES ASSUME epoll = EpollNew PROVE EpollInv /\ EpollTable!Init
  OBVIOUS
<1>1. NoSlot \in Slot /\ Held(NoSlot) = {}
  BY DEF NoSlot, Slot, Held
<1>2. EpollType
  BY <1>1, EpollAssumption DEF EpollType, EpollNew, EpollFields
<1>3. /\ \A fd \in 0 .. epoll.nfds - 1 : epoll.fds[fd] = NoSlot
      /\ epoll.kernel = [n \in Fds |-> {}]
      /\ epoll.ready = Quiet /\ epoll.active = <<>>
  BY DEF EpollNew
<1>4. KernelInStep
  <2> SUFFICES ASSUME NEW n \in Fds
               PROVE  epoll.kernel[n] = IF n < epoll.nfds THEN Held(epoll.fds[n]) ELSE {}
    BY DEF KernelInStep
  <2>1. n \in Nat /\ epoll.nfds \in Nat
    BY <1>2, FdsAreNumbers DEF EpollType
  <2>2. n < epoll.nfds => epoll.fds[n] = NoSlot
    BY <1>3, <2>1
  <2> QED
    BY <1>1, <1>3, <2>2
<1>5. \A fd \in 0 .. epoll.nfds - 1 : SlotOK(fd, epoll.fds[fd])
  BY <1>3 DEF SlotOK, NoSlot
<1>6. EpollAdded = {}
  BY <1>2, <1>3, EventFacts DEF EpollAdded, EpollType, NoSlot
<1> QED
  BY <1>2, <1>3, <1>4, <1>5, <1>6
     DEF EpollInv, EpollTable!Init, EpollTable!Quiet, EpollTable!Fds, Quiet, Fds

\* The table with more room: the slots there were, then empty ones.
LEMMA RecalcFacts ==
  ASSUME EpollInv, NEW size \in Nat, epoll.nfds <= size
  PROVE  LET s == Recalc(size)
         IN  /\ DOMAIN s = EpollFields /\ s.nfds = size
             /\ s.nevents = epoll.nevents /\ s.kernel = epoll.kernel
             /\ s.fds \in [0 .. size - 1 -> Slot]
             /\ \A fd \in 0 .. size - 1 :
                  /\ SlotOK(fd, s.fds[fd])
                  /\ s.fds[fd] = IF fd < epoll.nfds THEN epoll.fds[fd] ELSE NoSlot
             /\ \A n \in Fds : epoll.kernel[n] = IF n < size THEN Held(s.fds[n]) ELSE {}
             /\ \A f \in Events : f \in EpollAdded <=> ev_fd[f] < size /\
                                  f \in {s.fds[ev_fd[f]].evread, s.fds[ev_fd[f]].evwrite}
<1> DEFINE s == Recalc(size)
           long == [i \in 0 .. size - 1 |-> IF i < epoll.nfds THEN epoll.fds[i] ELSE NoSlot]
<1>1. /\ DOMAIN s = EpollFields /\ s.fds = long /\ s.nfds = size
      /\ s.nevents = epoll.nevents /\ s.kernel = epoll.kernel
  BY DEF Recalc, EpollInv, EpollType, EpollFields
<1>2. NoSlot \in Slot /\ \A fd : SlotOK(fd, NoSlot)
  BY DEF NoSlot, Slot, SlotOK
<1>3. \A fd \in 0 .. size - 1 :
        /\ long[fd] \in Slot /\ SlotOK(fd, long[fd])
        /\ long[fd] = IF fd < epoll.nfds THEN epoll.fds[fd] ELSE NoSlot
  BY <1>2 DEF EpollInv, EpollType
<1>4. long \in [0 .. size - 1 -> Slot]
  BY <1>3
<1> HIDE DEF long
<1>5. ASSUME NEW n \in Fds
      PROVE  epoll.kernel[n] = IF n < size THEN Held(long[n]) ELSE {}
  <2>1. n \in Nat /\ epoll.nfds \in Nat
    BY FdsAreNumbers DEF EpollInv, EpollType
  <2>2. epoll.kernel[n] = IF n < epoll.nfds THEN Held(epoll.fds[n]) ELSE {}
    BY DEF EpollInv, KernelInStep
  <2>3. Held(NoSlot) = {}
    BY DEF Held, NoSlot
  <2>4. n < size => long[n] = IF n < epoll.nfds THEN epoll.fds[n] ELSE NoSlot
    BY <1>3, <2>1
  <2>5. n < epoll.nfds => n < size
    BY <2>1
  <2> QED
    BY <2>2, <2>3, <2>4, <2>5
<1>6. ASSUME NEW f \in Events
      PROVE  f \in EpollAdded <=> ev_fd[f] < size /\
               f \in {long[ev_fd[f]].evread, long[ev_fd[f]].evwrite}
  <2>1. ev_fd[f] \in Nat /\ epoll.nfds \in Nat /\ f # NoEvent
    BY EventFacts DEF EpollInv, EpollType
  <2>2. ev_fd[f] < epoll.nfds => ev_fd[f] < size
    BY <2>1
  <2>3. ev_fd[f] < size =>
          long[ev_fd[f]] = IF ev_fd[f] < epoll.nfds THEN epoll.fds[ev_fd[f]] ELSE NoSlot
    BY <1>3, <2>1
  <2>4. f \notin {NoSlot.evread, NoSlot.evwrite}
    BY <2>1 DEF NoSlot
  <2> QED
    BY <2>2, <2>3, <2>4 DEF EpollAdded
<1> QED
  BY <1>1, <1>3, <1>4, <1>5, <1>6

\* epoll_add: the kernel is told of both directions, and the table has the
\* event beside those it had.
LEMMA EpollAddStep ==
  ASSUME EpollInv, NEW e \in Events, EpollAdd(e)
  PROVE  EpollInv' /\ EpollTable!Add(e)
<1> DEFINE fd == ev_fd[e]
<1>1. PICK size \in Doubled(epoll.nfds, fd) :
        LET s    == Recalc(size)
            slot == s.fds[fd]
        IN  /\ Held(slot) \cap ev_events[e] = {}
            /\ epoll' = [Processed(s) EXCEPT
                 !.fds[fd] = [evread  |-> IF "READ" \in ev_events[e] THEN e ELSE @.evread,
                              evwrite |-> IF "WRITE" \in ev_events[e] THEN e ELSE @.evwrite],
                 !.kernel[fd] = Held(slot) \cup ev_events[e]]
  BY DEF EpollAdd
<1>2. fd \in Nat /\ fd \in Fds /\ size \in Nat /\ fd < size /\ epoll.nfds <= size
  BY EventFacts, DoubledSize DEF EpollInv, EpollType
<1> DEFINE s    == Recalc(size)
           slot == s.fds[fd]
           new  == With(slot, e)
<1>3. /\ DOMAIN s = EpollFields /\ s.nfds = size
      /\ s.nevents = epoll.nevents /\ s.kernel = epoll.kernel
      /\ s.fds \in [0 .. size - 1 -> Slot]
      /\ \A n \in 0 .. size - 1 :
           SlotOK(n, s.fds[n])
      /\ \A n \in Fds : epoll.kernel[n] = IF n < size THEN Held(s.fds[n]) ELSE {}
      /\ \A f \in Events : f \in EpollAdded <=> ev_fd[f] < size /\
                           f \in {s.fds[ev_fd[f]].evread, s.fds[ev_fd[f]].evwrite}
  BY <1>2, RecalcFacts
<1>4. Held(slot) \cap ev_events[e] = {}
  BY <1>1
<1>5. epoll' = [Processed(s) EXCEPT
             !.fds[fd] = [evread  |-> IF "READ" \in ev_events[e] THEN e ELSE @.evread,
                          evwrite |-> IF "WRITE" \in ev_events[e] THEN e ELSE @.evwrite],
             !.kernel[fd] = Held(slot) \cup ev_events[e]]
  BY <1>1
<1> HIDE DEF s
<1>6. /\ DOMAIN epoll' = EpollFields /\ epoll'.fds = [s.fds EXCEPT ![fd] = new]
      /\ epoll'.nfds = size /\ epoll'.nevents = epoll.nevents
      /\ epoll'.kernel = [epoll.kernel EXCEPT ![fd] = Held(slot) \cup ev_events[e]]
      /\ epoll'.ready = Quiet /\ epoll'.active = <<>>
  BY <1>3, <1>5 DEF Processed, EpollFields, With
<1>7. slot \in Slot /\ SlotOK(fd, slot)
  BY <1>2, <1>3
<1>8. /\ new \in Slot /\ SlotOK(fd, new) /\ Held(new) = Held(slot) \cup ev_events[e]
      /\ \A f \in Events : f \in {new.evread, new.evwrite} <=>
                             f = e \/ f \in {slot.evread, slot.evwrite}
      /\ \A f \in Events : f \in {slot.evread, slot.evwrite} =>
                           f # e /\ ev_events[e] \cap ev_events[f] = {}
  BY <1>4, <1>7, WithFacts
<1> HIDE DEF new
<1>9. EpollType'
  BY <1>2, <1>3, <1>6, <1>8, EventFacts DEF EpollInv, EpollType, Held
<1>10. \A n \in 0 .. size - 1 : epoll'.fds[n] = IF n = fd THEN new ELSE s.fds[n]
  BY <1>2, <1>3, <1>6
<1>11. \A n \in 0 .. size - 1 : SlotOK(n, epoll'.fds[n])
  BY <1>3, <1>8, <1>10
<1>12. KernelInStep'
  <2> SUFFICES ASSUME NEW n \in Fds
               PROVE  epoll'.kernel[n] = IF n < epoll'.nfds THEN Held(epoll'.fds[n]) ELSE {}
    BY DEF KernelInStep
  <2>1. CASE n = fd
    <3>1. epoll'.fds[n] = new /\ n < epoll'.nfds
      BY <1>2, <1>6, <1>10, <2>1
    <3>2. epoll'.kernel[n] = Held(new)
      BY <1>2, <1>6, <1>8, <2>1 DEF EpollInv, EpollType
    <3> QED
      BY <3>1, <3>2
  <2>2. CASE n # fd
    <3>1. epoll'.kernel[n] = IF n < size THEN Held(s.fds[n]) ELSE {}
      BY <1>3, <1>6, <2>2 DEF EpollInv, EpollType
    <3>2. n < size => epoll'.fds[n] = s.fds[n]
      BY <1>2, <1>10, <2>2, FdsAreNumbers
    <3> QED
      BY <1>6, <3>1, <3>2
  <2> QED
    BY <2>1, <2>2
<1>13. \A f \in Events : f \in EpollAdded' <=> f = e \/ f \in EpollAdded
  BY <1>2, <1>6, <1>8, <1>10, <1>3, EventFacts DEF EpollAdded
<1>14. e \notin EpollAdded /\ \A f \in EpollAdded : ~Clash(e, f)
  BY <1>3, <1>8 DEF Clash, EpollAdded
<1>15. EpollAdded' = EpollAdded \cup {e}
  BY <1>13 DEF EpollAdded
<1> QED
  BY <1>6, <1>9, <1>11, <1>12, <1>14, <1>15
     DEF EpollInv, EpollTable!Add, EpollTable!Nothing, EpollTable!Quiet, EpollTable!Fds,
         EpollTable!Clash, Clash, Quiet, Fds

\* epoll_add fails: the table may have grown, nothing else has changed.
LEMMA EpollAddFailsStep ==
  ASSUME EpollInv, NEW e \in Events, EpollAddFails(e)
  PROVE  EpollInv' /\ EpollTable!Fail
<1>1. PICK size \in {epoll.nfds} \cup Doubled(epoll.nfds, ev_fd[e]) :
        epoll' = Processed(Recalc(size))
  BY DEF EpollAddFails
<1>2. size \in Nat /\ epoll.nfds <= size
  BY EventFacts, DoubledSize DEF EpollInv, EpollType
<1> DEFINE s == Recalc(size)
<1>3. /\ DOMAIN s = EpollFields /\ s.nfds = size
      /\ s.nevents = epoll.nevents /\ s.kernel = epoll.kernel
      /\ s.fds \in [0 .. size - 1 -> Slot]
      /\ \A n \in 0 .. size - 1 : SlotOK(n, s.fds[n])
      /\ \A n \in Fds : epoll.kernel[n] = IF n < size THEN Held(s.fds[n]) ELSE {}
      /\ \A f \in Events : f \in EpollAdded <=> ev_fd[f] < size /\
                           f \in {s.fds[ev_fd[f]].evread, s.fds[ev_fd[f]].evwrite}
  BY <1>2, RecalcFacts
<1>4. epoll' = Processed(s)
  BY <1>1
<1> HIDE DEF s
<1>5. /\ DOMAIN epoll' = EpollFields /\ epoll'.fds = s.fds /\ epoll'.nfds = size
      /\ epoll'.nevents = epoll.nevents /\ epoll'.kernel = epoll.kernel
      /\ epoll'.ready = Quiet /\ epoll'.active = <<>>
  BY <1>3, <1>4 DEF Processed, EpollFields
<1>6. EpollType'
  BY <1>2, <1>3, <1>5 DEF EpollInv, EpollType
<1>7. KernelInStep'
  BY <1>3, <1>5 DEF KernelInStep
<1>8. EpollAdded' = EpollAdded
  BY <1>3, <1>5 DEF EpollAdded
<1> QED
  BY <1>3, <1>5, <1>6, <1>7, <1>8
     DEF EpollInv, EpollTable!Fail, EpollTable!Nothing, EpollTable!Quiet, EpollTable!Fds,
         Quiet, Fds

\* epoll_del: the kernel is told what the other event of the descriptor wants.
LEMMA EpollDelStep ==
  ASSUME EpollInv, NEW e \in Events, EpollDel(e)
  PROVE  EpollInv' /\ EpollTable!Del(e)
<1> DEFINE fd   == ev_fd[e]
           slot == epoll.fds[fd]
           keepWrite == ev_events[e] = {"READ"} /\ slot.evwrite # NoEvent
           keepRead  == ev_events[e] = {"WRITE"} /\ slot.evread # NoEvent
           interest  == CASE keepWrite -> {"WRITE"} [] keepRead -> {"READ"} [] OTHER -> {}
           left == [evread  |-> IF keepRead THEN slot.evread ELSE NoEvent,
                    evwrite |-> IF keepWrite THEN slot.evwrite ELSE NoEvent]
<1>1. /\ fd < epoll.nfds /\ e \in {slot.evread, slot.evwrite}
      /\ epoll' = [Processed(epoll) EXCEPT
           !.fds[fd] = left,
           !.kernel[fd] = IF CtlRefuses("MOD", fd) THEN @ ELSE interest]
  BY DEF EpollDel
<1>2. /\ fd \in Nat /\ fd \in Fds /\ e # NoEvent /\ fd \in 0 .. epoll.nfds - 1
      /\ ev_events[e] \in {{"READ"}, {"WRITE"}, {"READ", "WRITE"}}
  BY <1>1, EventFacts DEF EpollInv, EpollType
<1>3. slot \in Slot /\ SlotOK(fd, slot) /\ epoll.kernel[fd] = Held(slot)
  BY <1>1, <1>2 DEF EpollInv, EpollType, KernelInStep
<1>4. ~CtlRefuses("MOD", fd)
  BY <1>1, <1>2, <1>3 DEF CtlRefuses, Held
<1>5. /\ left \in Slot /\ SlotOK(fd, left) /\ Held(left) = interest
      /\ \A f \in Events : f \in {left.evread, left.evwrite} <=>
                             f # e /\ f \in {slot.evread, slot.evwrite}
  BY <1>1, <1>2, <1>3, EventFacts DEF Slot, SlotOK, Held
<1>6. interest \in SUBSET {"READ", "WRITE"}
  OBVIOUS
<1> HIDE DEF left, interest
<1>7. /\ DOMAIN epoll' = EpollFields /\ epoll'.fds = [epoll.fds EXCEPT ![fd] = left]
      /\ epoll'.nfds = epoll.nfds /\ epoll'.nevents = epoll.nevents
      /\ epoll'.kernel = [epoll.kernel EXCEPT ![fd] = interest]
      /\ epoll'.ready = Quiet /\ epoll'.active = <<>>
  BY <1>1, <1>4 DEF Processed, EpollFields, EpollInv, EpollType
<1>8. EpollType'
  BY <1>2, <1>5, <1>6, <1>7 DEF EpollInv, EpollType
<1>9. \A n \in 0 .. epoll.nfds - 1 : epoll'.fds[n] = IF n = fd THEN left ELSE epoll.fds[n]
  BY <1>7 DEF EpollInv, EpollType
<1>10. \A n \in 0 .. epoll'.nfds - 1 : SlotOK(n, epoll'.fds[n])
  BY <1>5, <1>7, <1>9 DEF EpollInv
<1>11. KernelInStep'
  <2> SUFFICES ASSUME NEW n \in Fds
               PROVE  epoll'.kernel[n] = IF n < epoll'.nfds THEN Held(epoll'.fds[n]) ELSE {}
    BY DEF KernelInStep
  <2>1. epoll'.kernel[n] = IF n = fd THEN Held(left) ELSE epoll.kernel[n]
    BY <1>2, <1>5, <1>7 DEF EpollInv, EpollType
  <2>2. n < epoll.nfds => epoll'.fds[n] = IF n = fd THEN left ELSE epoll.fds[n]
    BY <1>9, FdsAreNumbers DEF EpollInv, EpollType
  <2>3. epoll.kernel[n] = IF n < epoll.nfds THEN Held(epoll.fds[n]) ELSE {}
    BY DEF EpollInv, KernelInStep
  <2> QED
    BY <1>1, <1>7, <2>1, <2>2, <2>3
<1>12. \A f \in Events : f \in EpollAdded' <=> f # e /\ f \in EpollAdded
  <2> SUFFICES ASSUME NEW f \in Events
               PROVE  f \in EpollAdded' <=> f # e /\ f \in EpollAdded
    OBVIOUS
  <2>1. ev_fd[f] < epoll.nfds =>
          epoll'.fds[ev_fd[f]] = IF ev_fd[f] = fd THEN left ELSE epoll.fds[ev_fd[f]]
    <3>1. ev_fd[f] \in Nat /\ epoll.nfds \in Nat
      BY EventFacts DEF EpollInv, EpollType
    <3>2. ev_fd[f] < epoll.nfds => ev_fd[f] \in 0 .. epoll.nfds - 1
      BY <3>1
    <3> QED
      BY <1>9, <3>2
  <2> QED
    BY <1>5, <1>7, <2>1 DEF EpollAdded
<1>13. e \in EpollAdded /\ EpollAdded' = EpollAdded \ {e}
  BY <1>1, <1>12 DEF EpollAdded
<1> QED
  BY <1>7, <1>8, <1>10, <1>11, <1>13
     DEF EpollInv, EpollTable!Del, EpollTable!Nothing, EpollTable!Quiet, EpollTable!Fds,
         Quiet, Fds

\* An entry that epoll_wait fills makes active the events of its descriptor
\* that are due something, and there is one.
LEMMA ActivatedFacts ==
  ASSUME EpollInv, NEW ready \in Readiness, NEW fd \in Fds,
         epoll.kernel[fd] # {}, Reported(ready[fd], epoll.kernel[fd]) # {}
  PROVE  LET a == Activated(ready, fd)
         IN  /\ DOMAIN a = {e \in EpollAdded : ev_fd[e] = fd /\ Result(ready, e) # {}}
             /\ \A e \in DOMAIN a : a[e] = Result(ready, e)
             /\ DOMAIN a # {}
<1> DEFINE slot == epoll.fds[fd]
           what == Reported(ready[fd], epoll.kernel[fd])
           r == IF what \cap {"READ", "ERR"} # {} THEN slot.evread ELSE NoEvent
           w == IF what \cap {"WRITE", "ERR"} # {} THEN slot.evwrite ELSE NoEvent
           a == [e \in {r, w} \ {NoEvent} |->
                   (IF e = r THEN {"READ"} ELSE {}) \cup (IF e = w THEN {"WRITE"} ELSE {})]
<1>1. Activated(ready, fd) = a
  BY DEF Activated
<1>2. fd \in 0 .. epoll.nfds - 1 /\ fd < epoll.nfds
  BY FdsAreNumbers DEF EpollInv, EpollType, KernelInStep
<1>3. slot \in Slot /\ SlotOK(fd, slot) /\ epoll.kernel[fd] = Held(slot)
  BY <1>2 DEF EpollInv, EpollType, KernelInStep
<1>4. \A e \in Events : e \in EpollAdded /\ ev_fd[e] = fd <=> e \in {slot.evread, slot.evwrite}
  BY <1>2, <1>3, EventFacts DEF EpollAdded, SlotOK
<1>5. ready[fd] \in {{"READ"}, {"WRITE"}, {"READ", "WRITE"}, {"ERR"}}
  BY ReadinessFacts DEF Reported
<1>6. ASSUME NEW e \in Events, ev_fd[e] = fd, e \in {slot.evread, slot.evwrite}
      PROVE  /\ e \in {r, w} <=> Result(ready, e) # {}
             /\ e = r <=> "READ" \in Result(ready, e)
             /\ e = w <=> "WRITE" \in Result(ready, e)
             /\ Result(ready, e) \in SUBSET {"READ", "WRITE"}
  BY <1>3, <1>5, <1>6, EventFacts DEF SlotOK, Held, Reported, Result
<1>7. {r, w} \ {NoEvent} \subseteq Events /\ {r, w} \ {NoEvent} # {}
  BY <1>3, <1>5 DEF Slot, Held, Reported
<1>8. \A e \in {r, w} \ {NoEvent} : e \in {slot.evread, slot.evwrite} /\ ev_fd[e] = fd
  BY <1>3 DEF SlotOK
<1>9. DOMAIN a = {r, w} \ {NoEvent}
  OBVIOUS
<1>10. {r, w} \ {NoEvent} = {e \in EpollAdded : ev_fd[e] = fd /\ Result(ready, e) # {}}
  <2>1. EpollAdded \subseteq Events
    BY DEF EpollAdded
  <2> HIDE DEF r, w, what, a
  <2> QED
    BY <1>4, <1>6, <1>7, <1>8, <2>1, EventFacts
<1>11. ASSUME NEW e \in {r, w} \ {NoEvent} PROVE a[e] = Result(ready, e)
  <2>1. a[e] = (IF e = r THEN {"READ"} ELSE {}) \cup (IF e = w THEN {"WRITE"} ELSE {})
    OBVIOUS
  <2> HIDE DEF r, w, what, a
  <2> QED
    BY <1>6, <1>7, <1>8, <2>1
<1> HIDE DEF r, w, what, a
<1> QED
  BY <1>1, <1>7, <1>9, <1>10, <1>11

\* epoll_dispatch: what it makes active is due, no descriptor is taken in part,
\* and something is if anything is due, for the array has room for one entry.
LEMMA EpollDispatchStep ==
  ASSUME EpollInv, NEW ready \in Readiness, NEW grow \in BOOLEAN,
         EpollDispatch(ready, grow)
  PROVE  EpollInv' /\ EpollTable!Dispatch
<1> DEFINE watched == {fd \in Fds : epoll.kernel[fd] # {} /\
                                    Reported(ready[fd], epoll.kernel[fd]) # {}}
           res == IF Cardinality(watched) < epoll.nevents THEN Cardinality(watched)
                  ELSE epoll.nevents
<1>1. PICK got \in SUBSET watched :
        /\ epoll.ready = Quiet /\ Cardinality(got) = res
        /\ epoll' = [epoll EXCEPT
             !.ready = ready, !.active = MadeActive([fd \in got |-> Activated(ready, fd)]),
             !.nevents = IF res = epoll.nevents /\ epoll.nevents < MaxNevents /\ grow
                         THEN 2 * @ ELSE @]
  BY DEF EpollDispatch
<1> DEFINE by == [fd \in got |-> Activated(ready, fd)]
<1>2. /\ DOMAIN epoll' = EpollFields /\ epoll'.fds = epoll.fds /\ epoll'.nfds = epoll.nfds
      /\ epoll'.nevents \in {epoll.nevents, 2 * epoll.nevents}
      /\ epoll'.kernel = epoll.kernel
      /\ epoll'.ready = ready /\ epoll'.active = MadeActive(by)
  BY <1>1 DEF EpollInv, EpollType, EpollFields
<1>3. EpollInv' /\ EpollAdded' = EpollAdded
  <2>1. epoll'.nevents \in Nat \ {0}
    BY <1>2 DEF EpollInv, EpollType
  <2> QED
    BY <1>2, <2>1 DEF EpollInv, EpollType, KernelInStep, EpollAdded
<1> DEFINE due  == {e \in EpollAdded : Result(ready, e) # {}}
           made == {e \in due : ev_fd[e] \in got}
<1>4. \A fd \in got :
        /\ DOMAIN by[fd] = {e \in due : ev_fd[e] = fd}
        /\ \A e \in DOMAIN by[fd] : by[fd][e] = Result(ready, e)
        /\ DOMAIN by[fd] # {}
  <2> SUFFICES ASSUME NEW fd \in got
               PROVE  /\ DOMAIN by[fd] = {e \in due : ev_fd[e] = fd}
                      /\ \A e \in DOMAIN by[fd] : by[fd][e] = Result(ready, e)
                      /\ DOMAIN by[fd] # {}
    OBVIOUS
  <2>1. by[fd] = Activated(ready, fd)
    OBVIOUS
  <2>2. /\ DOMAIN by[fd] = {e \in EpollAdded : ev_fd[e] = fd /\ Result(ready, e) # {}}
        /\ \A e \in DOMAIN by[fd] : by[fd][e] = Result(ready, e)
        /\ DOMAIN by[fd] # {}
    BY <2>1, ActivatedFacts
  <2> HIDE DEF by
  <2> QED
    BY <2>2
<1>5. DOMAIN by = got
  OBVIOUS
<1>6. epoll'.active = [e \in made |-> Result(ready, e)]
  <2> HIDE DEF by
  <2>1. Gives(by, made, ready)
    BY <1>4, <1>5 DEF Gives
  <2> HIDE DEF made
  <2>2. MadeActive(by) = [e \in made |-> Result(ready, e)]
    BY <2>1, MadeActiveIs
  <2> QED
    BY <1>2, <2>2
<1>7. \A e \in due : ev_fd[e] \in watched
  <2> SUFFICES ASSUME NEW e \in due PROVE ev_fd[e] \in watched
    OBVIOUS
  <2> DEFINE slot == epoll.fds[ev_fd[e]]
  <2>1. e \in Events /\ ev_fd[e] < epoll.nfds /\ e \in {slot.evread, slot.evwrite}
    BY DEF EpollAdded
  <2>2. ev_fd[e] \in Fds /\ ev_fd[e] \in 0 .. epoll.nfds - 1 /\ e # NoEvent
    BY <2>1, EventFacts DEF EpollInv, EpollType
  <2>3. slot \in Slot /\ SlotOK(ev_fd[e], slot) /\ epoll.kernel[ev_fd[e]] = Held(slot)
    BY <2>1, <2>2 DEF EpollInv, EpollType, KernelInStep
  <2> QED
    BY <2>1, <2>2, <2>3, EventFacts DEF Result, Reported, Held, SlotOK
<1>8. watched # {} => got # {}
  <2>1. IsFiniteSet(watched)
    BY FdsFinite, FS_Subset
  <2>2. watched # {} => Cardinality(watched) \in Nat \ {0}
    BY <2>1, FS_EmptySet, FS_CardinalityType
  <2>3. watched # {} => Cardinality(got) # 0
    BY <1>1, <2>2 DEF EpollInv, EpollType
  <2> QED
    BY <2>3, FS_EmptySet
<1>9. made \subseteq due /\ (due # {} => made # {})
  <2> HIDE DEF by, watched
  <2> QED
    BY <1>4, <1>7, <1>8
<1> HIDE DEF made, watched, by
<1>10. /\ epoll.ready = Quiet /\ epoll'.ready \in Readiness
       /\ DOMAIN epoll'.active = made
       /\ \A e \in made, f \in due : ev_fd[e] = ev_fd[f] => f \in made
  BY <1>1, <1>2, <1>6 DEF made
<1> QED
  BY <1>2, <1>3, <1>6, <1>9, <1>10
     DEF EpollTable!Dispatch, EpollTable!Due, EpollTable!Quiet, EpollTable!Fds,
         EpollTable!Readiness, Result, Quiet, Fds, Readiness

\* Each step of epoll.c keeps its tables in step and is one of FdTable.
LEMMA EpollStep ==
  ASSUME EpollInv, EpollNext
  PROVE  EpollInv' /\ EpollTable!Next
<1>1. ASSUME EpollDispatchFails PROVE EpollInv' /\ EpollTable!Fail
  <2>1. /\ DOMAIN epoll' = EpollFields /\ epoll'.fds = epoll.fds
        /\ epoll'.nfds = epoll.nfds /\ epoll'.nevents = epoll.nevents
        /\ epoll'.kernel = epoll.kernel /\ epoll'.ready = Quiet /\ epoll'.active = <<>>
    BY <1>1 DEF EpollDispatchFails, Processed, EpollFields, EpollInv, EpollType
  <2> QED
    BY <2>1 DEF EpollInv, EpollType, KernelInStep, EpollAdded, EpollTable!Fail,
                EpollTable!Nothing, EpollTable!Quiet, EpollTable!Fds, Quiet, Fds
<1>2. ASSUME NEW e \in Events, EpollAdd(e) \/ EpollAddFails(e) \/ EpollDel(e)
      PROVE  EpollInv' /\ EpollTable!Next
  BY <1>2, EpollAddStep, EpollAddFailsStep, EpollDelStep DEF EpollTable!Next
<1>3. ASSUME NEW ready \in Readiness, NEW grow \in BOOLEAN, EpollDispatch(ready, grow)
      PROVE  EpollInv' /\ EpollTable!Next
  BY <1>3, EpollDispatchStep DEF EpollTable!Next
<1> QED
  BY <1>1, <1>2, <1>3 DEF EpollNext, EpollTable!Next

-----------------------------------------------------------------------------
(* select.c *)

SelectFields == {"event_fds", "fdsz", "readset", "writeset", "r_by_fd", "w_by_fd",
                 "ready", "active"}

SelectType ==
  /\ DOMAIN select = SelectFields
  /\ select.event_fds \in Nat /\ select.fdsz \in Nat /\ select.event_fds < select.fdsz
  /\ select.readset \subseteq Fds /\ select.writeset \subseteq Fds
  /\ select.r_by_fd \in [0 .. select.fdsz - 1 -> Events \cup {NoEvent}]
  /\ select.w_by_fd \in [0 .. select.fdsz - 1 -> Events \cup {NoEvent}]

\* The events of one descriptor, as a slot of epoll.c has them.
SelectSlot(fd) == [evread |-> select.r_by_fd[fd], evwrite |-> select.w_by_fd[fd]]

\* The arrays have the events that wait, the sets have exactly their
\* descriptors, and select(2) is asked about all of these.
SelectInv ==
  /\ SelectType
  /\ \A fd \in 0 .. select.fdsz - 1 :
       /\ SlotOK(fd, SelectSlot(fd))
       /\ fd \in select.readset <=> select.r_by_fd[fd] # NoEvent
       /\ fd \in select.writeset <=> select.w_by_fd[fd] # NoEvent
  /\ \A fd \in select.readset \cup select.writeset : fd <= select.event_fds

\* select_init.
LEMMA SelectInitInv == select = SelectNew => SelectInv /\ SelectTable!Init
<1> SUFFICES ASSUME select = SelectNew PROVE SelectInv /\ SelectTable!Init
  OBVIOUS
<1>1. SelectType
  BY SelectAssumption DEF SelectType, SelectNew, SelectFields
<1>2. /\ \A fd \in 0 .. select.fdsz - 1 :
           select.r_by_fd[fd] = NoEvent /\ select.w_by_fd[fd] = NoEvent
      /\ select.readset = {} /\ select.writeset = {}
      /\ select.ready = Quiet /\ select.active = <<>>
  BY DEF SelectNew
<1>3. \A fd \in 0 .. select.fdsz - 1 : SlotOK(fd, SelectSlot(fd))
  BY <1>2 DEF SlotOK, SelectSlot
<1>4. SelectAdded = {}
  <2> SUFFICES ASSUME NEW e \in Events, ev_fd[e] < select.fdsz
               PROVE  e \notin {select.r_by_fd[ev_fd[e]], select.w_by_fd[ev_fd[e]]}
    BY DEF SelectAdded
  <2>1. ev_fd[e] \in 0 .. select.fdsz - 1
    BY <1>1, EventFacts DEF SelectType
  <2> QED
    BY <1>2, <2>1, EventFacts
<1> QED
  BY <1>1, <1>2, <1>3, <1>4
     DEF SelectInv, SelectTable!Init, SelectTable!Quiet, SelectTable!Fds, Quiet, Fds

\* select_resize: the events there were, then none.
LEMMA ResizeFacts ==
  ASSUME SelectInv, NEW size \in Nat, select.fdsz <= size
  PROVE  LET s == Resize(size)
         IN  /\ DOMAIN s = SelectFields /\ s.fdsz = size /\ s.event_fds = select.event_fds
             /\ s.readset = select.readset /\ s.writeset = select.writeset
             /\ s.r_by_fd \in [0 .. size - 1 -> Events \cup {NoEvent}]
             /\ s.w_by_fd \in [0 .. size - 1 -> Events \cup {NoEvent}]
             /\ \A fd \in 0 .. size - 1 :
                  /\ s.r_by_fd[fd] = IF fd < select.fdsz THEN select.r_by_fd[fd] ELSE NoEvent
                  /\ s.w_by_fd[fd] = IF fd < select.fdsz THEN select.w_by_fd[fd] ELSE NoEvent
<1> DEFINE s == Resize(size)
           r == [i \in 0 .. size - 1 |-> IF i < select.fdsz THEN select.r_by_fd[i] ELSE NoEvent]
           w == [i \in 0 .. size - 1 |-> IF i < select.fdsz THEN select.w_by_fd[i] ELSE NoEvent]
<1>1. /\ DOMAIN s = SelectFields /\ s.fdsz = size /\ s.event_fds = select.event_fds
      /\ s.readset = select.readset /\ s.writeset = select.writeset
      /\ s.r_by_fd = r /\ s.w_by_fd = w
  BY DEF Resize, SelectInv, SelectType, SelectFields
<1>2. \A i \in 0 .. size - 1 : i < select.fdsz =>
        select.r_by_fd[i] \in Events \cup {NoEvent} /\ select.w_by_fd[i] \in Events \cup {NoEvent}
  BY DEF SelectInv, SelectType
<1>3. r \in [0 .. size - 1 -> Events \cup {NoEvent}] /\ w \in [0 .. size - 1 -> Events \cup {NoEvent}]
  BY <1>2
<1> QED
  BY <1>1, <1>3

\* The events a slot of select.c has.
LEMMA SelectSlotFacts ==
  ASSUME SelectInv, NEW fd \in 0 .. select.fdsz - 1
  PROVE  /\ SelectSlot(fd) \in Slot /\ SlotOK(fd, SelectSlot(fd))
         /\ "READ" \in Held(SelectSlot(fd)) <=> fd \in select.readset
         /\ "WRITE" \in Held(SelectSlot(fd)) <=> fd \in select.writeset
         /\ \A f \in Events : ev_fd[f] = fd =>
              (f \in SelectAdded <=> f \in {SelectSlot(fd).evread, SelectSlot(fd).evwrite})
<1>1. select.r_by_fd[fd] \in Events \cup {NoEvent} /\ select.w_by_fd[fd] \in Events \cup {NoEvent}
  BY DEF SelectInv, SelectType
<1>2. fd < select.fdsz
  BY DEF SelectInv, SelectType
<1> QED
  BY <1>1, <1>2 DEF SelectInv, SelectSlot, Slot, Held, SelectAdded

\* select_add: the event joins the other one of its descriptor, and the
\* highest descriptor is kept.
LEMMA SelectAddStep ==
  ASSUME SelectInv, NEW e \in Events, SelectAdd(e)
  PROVE  SelectInv' /\ SelectTable!Add(e)
<1> DEFINE fd == ev_fd[e]
<1>1. PICK size \in SelectSizes(fd) :
        SelectFree(e) /\ select' = [Processed(Resize(size)) EXCEPT
           !.event_fds = Highest(@, fd),
           !.readset = IF "READ" \in ev_events[e] THEN @ \cup {fd} ELSE @,
           !.r_by_fd[fd] = IF "READ" \in ev_events[e] THEN e ELSE @,
           !.writeset = IF "WRITE" \in ev_events[e] THEN @ \cup {fd} ELSE @,
           !.w_by_fd[fd] = IF "WRITE" \in ev_events[e] THEN e ELSE @]
  BY DEF SelectAdd
<1>2. /\ fd \in Nat /\ fd \in Fds /\ size \in Nat /\ fd < size /\ select.fdsz <= size
      /\ e # NoEvent
  <2>1. fd \in Nat /\ fd \in Fds /\ e # NoEvent
    BY EventFacts
  <2>2. CASE select.event_fds < fd
    BY <2>1, <2>2, DoubledSize DEF SelectSizes, SelectInv, SelectType
  <2>3. CASE ~(select.event_fds < fd)
    BY <2>1, <2>3 DEF SelectSizes, SelectInv, SelectType
  <2> QED
    BY <2>1, <2>2, <2>3
<1> DEFINE s == Resize(size)
<1>3. /\ DOMAIN s = SelectFields /\ s.fdsz = size /\ s.event_fds = select.event_fds
      /\ s.readset = select.readset /\ s.writeset = select.writeset
      /\ s.r_by_fd \in [0 .. size - 1 -> Events \cup {NoEvent}]
      /\ s.w_by_fd \in [0 .. size - 1 -> Events \cup {NoEvent}]
      /\ \A n \in 0 .. size - 1 :
           /\ s.r_by_fd[n] = IF n < select.fdsz THEN select.r_by_fd[n] ELSE NoEvent
           /\ s.w_by_fd[n] = IF n < select.fdsz THEN select.w_by_fd[n] ELSE NoEvent
  BY <1>2, ResizeFacts
<1> HIDE DEF s
<1> DEFINE slot == [evread |-> s.r_by_fd[fd], evwrite |-> s.w_by_fd[fd]]
           new  == With(slot, e)
<1>4. /\ DOMAIN select' = SelectFields /\ select'.fdsz = size
      /\ select'.event_fds = Highest(select.event_fds, fd)
      /\ select'.readset = IF "READ" \in ev_events[e] THEN select.readset \cup {fd}
                           ELSE select.readset
      /\ select'.writeset = IF "WRITE" \in ev_events[e] THEN select.writeset \cup {fd}
                            ELSE select.writeset
      /\ select'.r_by_fd = [s.r_by_fd EXCEPT ![fd] = new.evread]
      /\ select'.w_by_fd = [s.w_by_fd EXCEPT ![fd] = new.evwrite]
      /\ select'.ready = Quiet /\ select'.active = <<>>
  <2>1. select' = [Processed(s) EXCEPT
           !.event_fds = Highest(@, fd),
           !.readset = IF "READ" \in ev_events[e] THEN @ \cup {fd} ELSE @,
           !.r_by_fd[fd] = IF "READ" \in ev_events[e] THEN e ELSE @,
           !.writeset = IF "WRITE" \in ev_events[e] THEN @ \cup {fd} ELSE @,
           !.w_by_fd[fd] = IF "WRITE" \in ev_events[e] THEN e ELSE @]
    BY <1>1 DEF s
  <2> QED
    BY <1>3, <2>1 DEF Processed, SelectFields, With
\* A descriptor the arrays had no room for is in neither set.
<1>5. \A n \in 0 .. size - 1 :
        /\ SlotOK(n, [evread |-> s.r_by_fd[n], evwrite |-> s.w_by_fd[n]])
        /\ n \in select.readset <=> s.r_by_fd[n] # NoEvent
        /\ n \in select.writeset <=> s.w_by_fd[n] # NoEvent
  <2> SUFFICES ASSUME NEW n \in 0 .. size - 1
               PROVE  /\ SlotOK(n, [evread |-> s.r_by_fd[n], evwrite |-> s.w_by_fd[n]])
                      /\ n \in select.readset <=> s.r_by_fd[n] # NoEvent
                      /\ n \in select.writeset <=> s.w_by_fd[n] # NoEvent
    OBVIOUS
  <2>1. CASE n < select.fdsz
    <3>1. n \in 0 .. select.fdsz - 1
      BY <2>1 DEF SelectInv, SelectType
    <3> QED
      BY <1>3, <2>1, <3>1 DEF SelectInv, SelectSlot
  <2>2. CASE ~(n < select.fdsz)
    <3>1. n \notin select.readset \cup select.writeset
      BY <2>2 DEF SelectInv, SelectType
    <3> QED
      BY <1>3, <2>2, <3>1 DEF SlotOK
  <2> QED
    BY <2>1, <2>2
<1>6. slot \in Slot /\ SlotOK(fd, slot) /\ Held(slot) \cap ev_events[e] = {}
  <2>1. fd \in 0 .. size - 1
    BY <1>2
  <2>2. slot \in Slot /\ SlotOK(fd, slot)
    BY <1>3, <1>5, <2>1 DEF Slot
  <2>3. Held(slot) \subseteq {"READ", "WRITE"}
    BY DEF Held
  <2>4. "READ" \in ev_events[e] => "READ" \notin Held(slot)
    BY <1>1, <1>5, <2>1 DEF SelectFree, Held
  <2>5. "WRITE" \in ev_events[e] => "WRITE" \notin Held(slot)
    BY <1>1, <1>5, <2>1 DEF SelectFree, Held
  <2> QED
    BY <2>2, <2>3, <2>4, <2>5
<1>7. /\ new \in Slot /\ SlotOK(fd, new)
      /\ \A f \in Events : f \in {new.evread, new.evwrite} <=>
                           f = e \/ f \in {slot.evread, slot.evwrite}
      /\ \A f \in Events : f \in {slot.evread, slot.evwrite} =>
                           f # e /\ ev_events[e] \cap ev_events[f] = {}
  BY <1>6, WithFacts
<1>8. /\ new.evread # NoEvent <=> "READ" \in ev_events[e] \/ s.r_by_fd[fd] # NoEvent
      /\ new.evwrite # NoEvent <=> "WRITE" \in ev_events[e] \/ s.w_by_fd[fd] # NoEvent
  BY <1>2 DEF With
<1> HIDE DEF new
<1>9. \A n \in 0 .. size - 1 :
        /\ select'.r_by_fd[n] = IF n = fd THEN new.evread ELSE s.r_by_fd[n]
        /\ select'.w_by_fd[n] = IF n = fd THEN new.evwrite ELSE s.w_by_fd[n]
  BY <1>3, <1>4
<1>10. SelectType'
  <2>1. select'.event_fds \in Nat /\ select'.event_fds < size
    BY <1>2, <1>4 DEF Highest, SelectInv, SelectType
  <2>2. select'.readset \subseteq Fds /\ select'.writeset \subseteq Fds
    BY <1>2, <1>4 DEF SelectInv, SelectType
  <2>3. new.evread \in Events \cup {NoEvent} /\ new.evwrite \in Events \cup {NoEvent}
    BY <1>7 DEF Slot
  <2> QED
    BY <1>2, <1>3, <1>4, <2>1, <2>2, <2>3 DEF SelectType
<1>11. \A n \in 0 .. size - 1 :
         /\ SlotOK(n, [evread |-> select'.r_by_fd[n], evwrite |-> select'.w_by_fd[n]])
         /\ n \in select'.readset <=> select'.r_by_fd[n] # NoEvent
         /\ n \in select'.writeset <=> select'.w_by_fd[n] # NoEvent
  <2> SUFFICES ASSUME NEW n \in 0 .. size - 1
               PROVE  /\ SlotOK(n, [evread |-> select'.r_by_fd[n], evwrite |-> select'.w_by_fd[n]])
                      /\ n \in select'.readset <=> select'.r_by_fd[n] # NoEvent
                      /\ n \in select'.writeset <=> select'.w_by_fd[n] # NoEvent
    OBVIOUS
  <2>1. CASE n = fd
    <3>1. SlotOK(n, [evread |-> select'.r_by_fd[n], evwrite |-> select'.w_by_fd[n]])
      BY <1>7, <1>9, <2>1 DEF SlotOK
    <3> QED
      BY <1>4, <1>5, <1>8, <1>9, <2>1, <3>1
  <2>2. CASE n # fd
    BY <1>4, <1>5, <1>9, <2>2
  <2> QED
    BY <2>1, <2>2
<1>12. \A n \in select'.readset \cup select'.writeset : n <= select'.event_fds
  <2> SUFFICES ASSUME NEW n \in select'.readset \cup select'.writeset
               PROVE  n <= select'.event_fds
    OBVIOUS
  <2>1. n = fd \/ n \in select.readset \cup select.writeset
    BY <1>4
  <2>2. n \in Nat
    BY <1>10, FdsAreNumbers DEF SelectType
  <2> QED
    BY <1>2, <1>4, <2>1, <2>2 DEF Highest, SelectInv, SelectType
<1>13. \A f \in Events : f \in SelectAdded <=>
         ev_fd[f] < size /\ f \in {s.r_by_fd[ev_fd[f]], s.w_by_fd[ev_fd[f]]}
  <2> SUFFICES ASSUME NEW f \in Events
               PROVE  f \in SelectAdded <=>
                        ev_fd[f] < size /\ f \in {s.r_by_fd[ev_fd[f]], s.w_by_fd[ev_fd[f]]}
    OBVIOUS
  <2>1. ev_fd[f] \in Nat /\ select.fdsz \in Nat /\ f # NoEvent
    BY EventFacts DEF SelectInv, SelectType
  <2>2. ev_fd[f] < select.fdsz => ev_fd[f] < size
    BY <1>2, <2>1
  <2>3. ev_fd[f] < size => ev_fd[f] \in 0 .. size - 1
    BY <1>2, <2>1
  <2> QED
    BY <1>3, <2>1, <2>2, <2>3 DEF SelectAdded
<1>14. \A f \in Events : f \in SelectAdded' <=> f = e \/ f \in SelectAdded
  <2> SUFFICES ASSUME NEW f \in Events
               PROVE  f \in SelectAdded' <=> f = e \/ f \in SelectAdded
    OBVIOUS
  <2>1. ev_fd[f] < size => ev_fd[f] \in 0 .. size - 1
    BY <1>2, EventFacts
  <2> QED
    BY <1>2, <1>4, <1>7, <1>9, <1>13, <2>1 DEF SelectAdded
<1>15. e \notin SelectAdded /\ \A f \in SelectAdded : ~Clash(e, f)
  BY <1>7, <1>13 DEF Clash, SelectAdded
<1>16. SelectAdded' = SelectAdded \cup {e}
  BY <1>14 DEF SelectAdded
<1>17. SelectInv'
  BY <1>4, <1>10, <1>11, <1>12 DEF SelectInv, SelectSlot
<1> QED
  BY <1>4, <1>15, <1>16, <1>17
     DEF SelectTable!Add, SelectTable!Nothing, SelectTable!Quiet, SelectTable!Fds,
         SelectTable!Clash, Clash, Quiet, Fds

\* select_del: the other event of the descriptor stays.
LEMMA SelectDelStep ==
  ASSUME SelectInv, NEW e \in Events, SelectDel(e)
  PROVE  SelectInv' /\ SelectTable!Del(e)
<1> DEFINE fd   == ev_fd[e]
           size == select.fdsz
           slot == SelectSlot(fd)
           new  == Without(slot, e)
<1>1. /\ fd < size /\ e \in {slot.evread, slot.evwrite}
      /\ select' = [Processed(select) EXCEPT
           !.readset = IF "READ" \in ev_events[e] THEN @ \ {fd} ELSE @,
           !.r_by_fd[fd] = IF "READ" \in ev_events[e] THEN NoEvent ELSE @,
           !.writeset = IF "WRITE" \in ev_events[e] THEN @ \ {fd} ELSE @,
           !.w_by_fd[fd] = IF "WRITE" \in ev_events[e] THEN NoEvent ELSE @]
  BY DEF SelectDel, SelectSlot
<1>2. size \in Nat /\ fd \in 0 .. size - 1
  BY <1>1, EventFacts DEF SelectInv, SelectType
<1>3. /\ DOMAIN select' = SelectFields /\ select'.fdsz = size
      /\ select'.event_fds = select.event_fds
      /\ select'.readset = IF "READ" \in ev_events[e] THEN select.readset \ {fd}
                           ELSE select.readset
      /\ select'.writeset = IF "WRITE" \in ev_events[e] THEN select.writeset \ {fd}
                            ELSE select.writeset
      /\ select'.r_by_fd = [select.r_by_fd EXCEPT ![fd] = new.evread]
      /\ select'.w_by_fd = [select.w_by_fd EXCEPT ![fd] = new.evwrite]
      /\ select'.ready = Quiet /\ select'.active = <<>>
  BY <1>1 DEF Processed, SelectFields, SelectInv, SelectType, Without, SelectSlot
<1>4. slot \in Slot /\ SlotOK(fd, slot)
  BY <1>2, SelectSlotFacts
<1>5. /\ new \in Slot /\ SlotOK(fd, new)
      /\ \A f \in Events : f \in {new.evread, new.evwrite} <=>
                           f # e /\ f \in {slot.evread, slot.evwrite}
  BY <1>1, <1>4, WithoutFacts
<1>6. /\ new.evread # NoEvent <=> "READ" \notin ev_events[e] /\ select.r_by_fd[fd] # NoEvent
      /\ new.evwrite # NoEvent <=> "WRITE" \notin ev_events[e] /\ select.w_by_fd[fd] # NoEvent
  BY DEF Without, SelectSlot
<1> HIDE DEF new
<1>7. \A n \in 0 .. size - 1 :
        /\ select'.r_by_fd[n] = IF n = fd THEN new.evread ELSE select.r_by_fd[n]
        /\ select'.w_by_fd[n] = IF n = fd THEN new.evwrite ELSE select.w_by_fd[n]
  BY <1>3 DEF SelectInv, SelectType
<1>8. SelectType'
  <2>1. select'.readset \subseteq Fds /\ select'.writeset \subseteq Fds
    BY <1>3 DEF SelectInv, SelectType
  <2>2. new.evread \in Events \cup {NoEvent} /\ new.evwrite \in Events \cup {NoEvent}
    BY <1>5 DEF Slot
  <2>3. /\ select'.r_by_fd \in [0 .. size - 1 -> Events \cup {NoEvent}]
        /\ select'.w_by_fd \in [0 .. size - 1 -> Events \cup {NoEvent}]
    <3>1. /\ select.r_by_fd \in [0 .. size - 1 -> Events \cup {NoEvent}]
          /\ select.w_by_fd \in [0 .. size - 1 -> Events \cup {NoEvent}]
      BY DEF SelectInv, SelectType
    <3> HIDE DEF size
    <3>2. [select.r_by_fd EXCEPT ![fd] = new.evread] \in [0 .. size - 1 -> Events \cup {NoEvent}]
      BY <2>2, <3>1
    <3>3. [select.w_by_fd EXCEPT ![fd] = new.evwrite] \in [0 .. size - 1 -> Events \cup {NoEvent}]
      BY <2>2, <3>1
    <3> QED
      BY <1>3, <3>2, <3>3
  <2>4. /\ select'.event_fds \in Nat /\ select'.fdsz \in Nat
        /\ select'.event_fds < select'.fdsz
    BY <1>3 DEF SelectInv, SelectType
  <2> QED
    BY <1>3, <2>1, <2>3, <2>4 DEF SelectType
<1>9. \A n \in 0 .. size - 1 :
         /\ SlotOK(n, [evread |-> select'.r_by_fd[n], evwrite |-> select'.w_by_fd[n]])
         /\ n \in select'.readset <=> select'.r_by_fd[n] # NoEvent
         /\ n \in select'.writeset <=> select'.w_by_fd[n] # NoEvent
  <2> SUFFICES ASSUME NEW n \in 0 .. size - 1
               PROVE  /\ SlotOK(n, [evread |-> select'.r_by_fd[n], evwrite |-> select'.w_by_fd[n]])
                      /\ n \in select'.readset <=> select'.r_by_fd[n] # NoEvent
                      /\ n \in select'.writeset <=> select'.w_by_fd[n] # NoEvent
    OBVIOUS
  <2>1. CASE n = fd
    <3>1. SlotOK(n, [evread |-> select'.r_by_fd[n], evwrite |-> select'.w_by_fd[n]])
      BY <1>5, <1>7, <2>1 DEF SlotOK
    <3>2. /\ n \in select.readset <=> select.r_by_fd[n] # NoEvent
          /\ n \in select.writeset <=> select.w_by_fd[n] # NoEvent
      BY DEF SelectInv
    <3> QED
      BY <1>3, <1>6, <1>7, <2>1, <3>1, <3>2
  <2>2. CASE n # fd
    BY <1>3, <1>7, <2>2 DEF SelectInv, SelectSlot
  <2> QED
    BY <2>1, <2>2
<1>10. \A n \in select'.readset \cup select'.writeset : n <= select'.event_fds
  BY <1>3 DEF SelectInv
<1>11. \A f \in Events : f \in SelectAdded' <=> f # e /\ f \in SelectAdded
  <2> SUFFICES ASSUME NEW f \in Events
               PROVE  f \in SelectAdded' <=> f # e /\ f \in SelectAdded
    OBVIOUS
  <2>1. ev_fd[f] < size => ev_fd[f] \in 0 .. size - 1
    BY <1>2, EventFacts
  <2> QED
    BY <1>3, <1>5, <1>7, <2>1 DEF SelectAdded, SelectSlot
<1>12. e \in SelectAdded /\ SelectAdded' = SelectAdded \ {e}
  BY <1>1, <1>11 DEF SelectAdded, SelectSlot
<1>13. SelectInv'
  BY <1>3, <1>8, <1>9, <1>10 DEF SelectInv, SelectSlot
<1> QED
  BY <1>3, <1>12, <1>13
     DEF SelectTable!Del, SelectTable!Nothing, SelectTable!Quiet, SelectTable!Fds, Quiet, Fds

\* A descriptor that select(2) looked at makes active its events that are due
\* something.
LEMMA SelectActivatedFacts ==
  ASSUME SelectInv, NEW ready \in Readiness, NEW i \in 0 .. select.event_fds
  PROVE  LET a == SelectActivated(ready, i)
         IN  /\ DOMAIN a = {e \in SelectAdded : ev_fd[e] = i /\ Result(ready, e) # {}}
             /\ \A e \in DOMAIN a : a[e] = Result(ready, e)
<1> DEFINE slot == SelectSlot(i)
           res == (IF i \in Polled(ready, select.readset, "READ") THEN {"READ"} ELSE {}) \cup
                  (IF i \in Polled(ready, select.writeset, "WRITE") THEN {"WRITE"} ELSE {})
           r == IF "READ" \in res THEN slot.evread ELSE NoEvent
           w == IF "WRITE" \in res THEN slot.evwrite ELSE NoEvent
           on == {x \in {r, w} \ {NoEvent} : res \cap ev_events[x] # {}}
           a == [e \in on |-> res \cap ev_events[e]]
<1>1. SelectActivated(ready, i) = a
  BY DEF SelectActivated, SelectSlot
<1>2. i \in 0 .. select.fdsz - 1
  BY DEF SelectInv, SelectType
<1>3. /\ slot \in Slot /\ SlotOK(i, slot)
      /\ "READ" \in Held(slot) <=> i \in select.readset
      /\ "WRITE" \in Held(slot) <=> i \in select.writeset
      /\ \A f \in Events : ev_fd[f] = i =>
           (f \in SelectAdded <=> f \in {slot.evread, slot.evwrite})
  BY <1>2, SelectSlotFacts
<1>4. /\ "READ" \in res <=> "READ" \in Held(slot) /\ ready[i] \cap {"READ", "ERR"} # {}
      /\ "WRITE" \in res <=> "WRITE" \in Held(slot) /\ ready[i] \cap {"WRITE", "ERR"} # {}
      /\ res \subseteq {"READ", "WRITE"}
  <2>1. i <= select.event_fds
    BY DEF SelectInv, SelectType
  <2> QED
    BY <1>3, <2>1 DEF Polled
<1> HIDE DEF res
<1>5. ASSUME NEW e \in Events, ev_fd[e] = i, e \in {slot.evread, slot.evwrite}
      PROVE  /\ res \cap ev_events[e] = Result(ready, e)
             /\ Result(ready, e) # {} => e \in {r, w}
  <2>1. i \in Fds
    BY <1>5 DEF Fds
  <2>2. ready[i] \in {{}, {"READ"}, {"WRITE"}, {"READ", "WRITE"}, {"ERR"}}
    BY <2>1, ReadinessFacts
  <2>3. ev_events[e] \subseteq Held(slot)
    BY <1>3, <1>5, EventFacts DEF SlotOK, Held
  <2>4. res \cap ev_events[e] = Result(ready, e)
    BY <1>4, <1>5, <2>2, <2>3, EventFacts DEF Result
  <2>5. /\ "READ" \in ev_events[e] => slot.evread = e
        /\ "WRITE" \in ev_events[e] => slot.evwrite = e
    BY <1>3, <1>5, EventFacts DEF SlotOK
  <2> QED
    BY <1>4, <2>4, <2>5
<1>6. \A e \in {r, w} \ {NoEvent} :
        e \in Events /\ e \in {slot.evread, slot.evwrite} /\ ev_fd[e] = i
  BY <1>3 DEF SlotOK, Slot
<1>7. on = {e \in SelectAdded : ev_fd[e] = i /\ Result(ready, e) # {}}
  <2>1. SelectAdded \subseteq Events
    BY DEF SelectAdded
  <2> HIDE DEF r, w
  <2>2. ASSUME NEW e \in on PROVE e \in SelectAdded /\ ev_fd[e] = i /\ Result(ready, e) # {}
    BY <1>3, <1>5, <1>6
  <2>3. ASSUME NEW e \in SelectAdded, ev_fd[e] = i, Result(ready, e) # {} PROVE e \in on
    BY <1>3, <1>5, <2>1, <2>3, EventFacts
  <2> QED
    BY <2>2, <2>3
<1>8. ASSUME NEW e \in on PROVE a[e] = Result(ready, e)
  <2> HIDE DEF r, w
  <2> QED
    BY <1>5, <1>6
<1>9. DOMAIN a = on
  OBVIOUS
<1> HIDE DEF a, on
<1> QED
  BY <1>1, <1>7, <1>8, <1>9

\* select_dispatch: everything that is due is made active.
LEMMA SelectDispatchStep ==
  ASSUME SelectInv, NEW ready \in Readiness, SelectDispatch(ready)
  PROVE  SelectInv' /\ SelectTable!Dispatch
<1> DEFINE by  == [i \in 0 .. select.event_fds |-> SelectActivated(ready, i)]
           due == {e \in SelectAdded : Result(ready, e) # {}}
<1>1. /\ select.ready = Quiet
      /\ select' = [select EXCEPT !.ready = ready, !.active = MadeActive(by)]
  BY DEF SelectDispatch
<1>2. DOMAIN by = 0 .. select.event_fds /\ \A i \in DOMAIN by : by[i] = SelectActivated(ready, i)
  OBVIOUS
<1> HIDE DEF by
<1>3. /\ DOMAIN select' = SelectFields /\ select'.fdsz = select.fdsz
      /\ select'.event_fds = select.event_fds
      /\ select'.readset = select.readset /\ select'.writeset = select.writeset
      /\ select'.r_by_fd = select.r_by_fd /\ select'.w_by_fd = select.w_by_fd
      /\ select'.ready = ready /\ select'.active = MadeActive(by)
  BY <1>1 DEF SelectInv, SelectType, SelectFields
<1>4. SelectInv' /\ SelectAdded' = SelectAdded
  BY <1>3 DEF SelectInv, SelectType, SelectSlot, SelectAdded
<1>5. \A i \in DOMAIN by :
        /\ DOMAIN by[i] = {e \in due : ev_fd[e] = i}
        /\ \A e \in DOMAIN by[i] : by[i][e] = Result(ready, e)
  <2> SUFFICES ASSUME NEW i \in 0 .. select.event_fds
               PROVE  /\ DOMAIN by[i] = {e \in due : ev_fd[e] = i}
                      /\ \A e \in DOMAIN by[i] : by[i][e] = Result(ready, e)
    BY <1>2
  <2>1. by[i] = SelectActivated(ready, i)
    BY <1>2
  <2>2. /\ DOMAIN by[i] = {e \in SelectAdded : ev_fd[e] = i /\ Result(ready, e) # {}}
        /\ \A e \in DOMAIN by[i] : by[i][e] = Result(ready, e)
    BY <2>1, SelectActivatedFacts
  <2> QED
    BY <2>2
<1>6. \A e \in SelectAdded : ev_fd[e] \in DOMAIN by
  <2> SUFFICES ASSUME NEW e \in SelectAdded PROVE ev_fd[e] \in 0 .. select.event_fds
    BY <1>2
  <2>1. e \in Events /\ ev_fd[e] < select.fdsz
    BY DEF SelectAdded
  <2>2. ev_fd[e] \in Nat /\ ev_fd[e] \in 0 .. select.fdsz - 1 /\ e # NoEvent
    BY <2>1, EventFacts DEF SelectInv, SelectType
  <2>3. ev_fd[e] \in select.readset \cup select.writeset
    BY <2>2 DEF SelectInv, SelectAdded
  <2> QED
    BY <2>2, <2>3 DEF SelectInv, SelectType
<1>7. Gives(by, due, ready)
  BY <1>5, <1>6 DEF Gives
<1> HIDE DEF due
<1>8. select'.active = [e \in due |-> Result(ready, e)]
  BY <1>3, <1>7, MadeActiveIs
<1>9. select.ready = Quiet /\ select'.ready \in Readiness /\ DOMAIN select'.active = due
  BY <1>1, <1>3, <1>8
<1> QED
  BY <1>3, <1>4, <1>8, <1>9
     DEF due, SelectTable!Dispatch, SelectTable!Due, SelectTable!Quiet, SelectTable!Fds,
         SelectTable!Readiness, Result, Quiet, Fds, Readiness

\* Each step of select.c keeps its arrays in step and is one of FdTable.
LEMMA SelectStep ==
  ASSUME SelectInv, SelectNext
  PROVE  SelectInv' /\ SelectTable!Next
<1>1. ASSUME select' = Processed(select) PROVE SelectInv' /\ SelectTable!Fail
  <2>1. /\ DOMAIN select' = SelectFields /\ select'.fdsz = select.fdsz
        /\ select'.event_fds = select.event_fds
        /\ select'.readset = select.readset /\ select'.writeset = select.writeset
        /\ select'.r_by_fd = select.r_by_fd /\ select'.w_by_fd = select.w_by_fd
        /\ select'.ready = Quiet /\ select'.active = <<>>
    BY <1>1 DEF Processed, SelectFields, SelectInv, SelectType
  <2> QED
    BY <2>1 DEF SelectInv, SelectType, SelectSlot, SelectAdded, SelectTable!Fail,
                SelectTable!Nothing, SelectTable!Quiet, SelectTable!Fds, Quiet, Fds
<1>2. ASSUME NEW e \in Events, SelectAdd(e) \/ SelectAddFails(e) \/ SelectDel(e)
      PROVE  SelectInv' /\ SelectTable!Next
  BY <1>1, <1>2, SelectAddStep, SelectDelStep DEF SelectTable!Next, SelectAddFails
<1>3. ASSUME NEW ready \in Readiness, SelectDispatch(ready)
      PROVE  SelectInv' /\ SelectTable!Next
  BY <1>3, SelectDispatchStep DEF SelectTable!Next
<1> QED
  BY <1>1, <1>2, <1>3 DEF SelectNext, SelectTable!Next, SelectDispatchFails

-----------------------------------------------------------------------------
(* poll.c.  The facts are about a record s, which is poll or what one of the *)
(* helpers of poll_add and poll_del makes of it.                             *)

PollFields == {"event_count", "set", "r_back", "w_back", "fd_count", "idxplus1",
               "ready", "active"}
Entry == [fd : Fds, events : SUBSET {"READ", "WRITE"}]

PollType(s) ==
  /\ DOMAIN s = PollFields
  /\ s.fd_count \in Nat
  /\ s.set \in Seq(Entry)
  /\ s.r_back \in Seq(Events \cup {NoEvent}) /\ Len(s.r_back) = Len(s.set)
  /\ s.w_back \in Seq(Events \cup {NoEvent}) /\ Len(s.w_back) = Len(s.set)
  /\ s.idxplus1 \in [0 .. s.fd_count - 1 -> 0 .. Len(s.set)]

PollSlot(s, i) == [evread |-> s.r_back[i], evwrite |-> s.w_back[i]]

\* An entry has its events beside it and asks poll(2) for what they wait for.
EntriesOK(s) ==
  \A i \in 1 .. Len(s.set) :
    SlotOK(s.set[i].fd, PollSlot(s, i)) /\ s.set[i].events = Held(PollSlot(s, i))

\* The index and the entries name each other: what poll_check_ok asserts.
IndexOK(s) ==
  /\ \A i \in 1 .. Len(s.set) : s.set[i].fd < s.fd_count /\ s.idxplus1[s.set[i].fd] = i
  /\ \A fd \in 0 .. s.fd_count - 1 : s.idxplus1[fd] > 0 => s.set[s.idxplus1[fd]].fd = fd

PollOK(s) == PollType(s) /\ EntriesOK(s) /\ IndexOK(s)

IndexOf(s, fd) == IF fd < s.fd_count THEN s.idxplus1[fd] ELSE 0
AddedTo(s) == {e \in Events : IndexOf(s, ev_fd[e]) \in 1 .. Len(s.set) /\
                 e \in {s.r_back[IndexOf(s, ev_fd[e])], s.w_back[IndexOf(s, ev_fd[e])]}}

PollInv == PollOK(poll)

\* The refinement mapping of Poll.
LEMMA PollAddedIs == PollInv => PollAdded = AddedTo(poll)
<1> SUFFICES ASSUME PollInv PROVE PollAdded = AddedTo(poll)
  OBVIOUS
<1>1. DOMAIN poll.set = 1 .. Len(poll.set)
  BY DEF PollInv, PollOK, PollType
<1>2. \A fd : Index(fd) = IndexOf(poll, fd)
  BY DEF Index, IndexOf
<1> QED
  BY <1>1, <1>2 DEF PollAdded, AddedTo

\* poll_init.
LEMMA PollInitInv == poll = PollNew => PollInv /\ PollTable!Init
<1> SUFFICES ASSUME poll = PollNew PROVE PollInv /\ PollTable!Init
  OBVIOUS
<1>1. /\ DOMAIN poll = PollFields /\ poll.fd_count = 0 /\ poll.set = <<>>
      /\ poll.r_back = <<>> /\ poll.w_back = <<>> /\ poll.idxplus1 = [n \in {} |-> 0]
      /\ poll.ready = Quiet /\ poll.active = <<>>
  BY DEF PollNew, PollFields
<1>2. 1 .. 0 = {} /\ 0 .. 0 - 1 = {}
  OBVIOUS
<1>3. /\ <<>> \in Seq(Entry) /\ <<>> \in Seq(Events \cup {NoEvent}) /\ Len(<<>>) = 0
  OBVIOUS
<1>4. PollType(poll)
  BY <1>1, <1>2, <1>3 DEF PollType
<1>5. EntriesOK(poll) /\ IndexOK(poll) /\ AddedTo(poll) = {}
  BY <1>1, <1>2, <1>3 DEF EntriesOK, IndexOK, AddedTo
<1>6. PollInv
  BY <1>4, <1>5 DEF PollInv, PollOK
<1>7. PollAdded = {}
  BY <1>5, <1>6, PollAddedIs
<1> QED
  BY <1>1, <1>6, <1>7 DEF PollTable!Init, PollTable!Quiet, PollTable!Fds, Quiet, Fds

\* Fields that the tables do not use, event_count among them, may change.
LEMMA SameTables ==
  ASSUME NEW s, PollOK(s), NEW u, DOMAIN u = PollFields, u.fd_count = s.fd_count,
         u.set = s.set, u.r_back = s.r_back, u.w_back = s.w_back, u.idxplus1 = s.idxplus1
  PROVE  PollOK(u) /\ AddedTo(u) = AddedTo(s)
<1>1. PollType(u)
  BY DEF PollOK, PollType
<1>2. EntriesOK(u) /\ IndexOK(u)
  BY DEF PollOK, EntriesOK, IndexOK, PollSlot
<1>3. AddedTo(u) = AddedTo(s)
  BY DEF AddedTo, IndexOf
<1> QED
  BY <1>1, <1>2, <1>3 DEF PollOK

\* The arrays of entries grow.
LEMMA GrowEntriesFacts ==
  ASSUME NEW s, PollOK(s)
  PROVE  LET u == GrowEntries(s)
         IN  PollOK(u) /\ AddedTo(u) = AddedTo(s) /\ u.fd_count = s.fd_count
             /\ u.idxplus1 = s.idxplus1 /\ u.set = s.set
<1> DEFINE u == GrowEntries(s)
<1>1. /\ DOMAIN u = PollFields /\ u.fd_count = s.fd_count /\ u.set = s.set
      /\ u.r_back = s.r_back /\ u.w_back = s.w_back /\ u.idxplus1 = s.idxplus1
  BY DEF GrowEntries, PollOK, PollType, PollFields
<1> HIDE DEF u
<1> QED
  BY <1>1, SameTables DEF u

\* The index grows: descriptors it had no room for have no entry.
LEMMA GrowIndexFacts ==
  ASSUME NEW s, PollOK(s), NEW size \in Nat, s.fd_count <= size
  PROVE  LET u == GrowIndex(s, size)
         IN  /\ PollOK(u) /\ AddedTo(u) = AddedTo(s) /\ u.fd_count = size
             /\ u.set = s.set /\ \A fd \in Nat : IndexOf(u, fd) = IndexOf(s, fd)
<1> DEFINE u == GrowIndex(s, size)
           long == [i \in 0 .. size - 1 |-> IF i < s.fd_count THEN s.idxplus1[i] ELSE 0]
<1>1. /\ DOMAIN u = PollFields /\ u.fd_count = size /\ u.set = s.set
      /\ u.r_back = s.r_back /\ u.w_back = s.w_back /\ u.idxplus1 = long
  BY DEF GrowIndex, PollOK, PollType, PollFields
<1>2. \A i \in 0 .. size - 1 : long[i] = IF i < s.fd_count THEN s.idxplus1[i] ELSE 0
  OBVIOUS
<1>3. \A i \in 0 .. size - 1 : long[i] \in 0 .. Len(s.set)
  <2>1. /\ s.fd_count \in Nat /\ Len(s.set) \in Nat
        /\ s.idxplus1 \in [0 .. s.fd_count - 1 -> 0 .. Len(s.set)]
    BY DEF PollOK, PollType
  <2> SUFFICES ASSUME NEW i \in 0 .. size - 1 PROVE long[i] \in 0 .. Len(s.set)
    OBVIOUS
  <2> HIDE DEF long
  <2>2. CASE i < s.fd_count
    <3>1. i \in 0 .. s.fd_count - 1
      BY <2>1, <2>2
    <3> QED
      BY <1>2, <2>1, <2>2, <3>1
  <2>3. CASE ~(i < s.fd_count)
    BY <1>2, <2>1, <2>3
  <2> QED
    BY <2>2, <2>3
<1>4. long \in [0 .. size - 1 -> 0 .. Len(s.set)]
  BY <1>3
<1> HIDE DEF u, long
<1>5. PollType(u)
  BY <1>1, <1>4 DEF PollOK, PollType
<1>6. EntriesOK(u)
  BY <1>1 DEF PollOK, EntriesOK, PollSlot
<1>7. \A fd \in Nat : IndexOf(u, fd) = IndexOf(s, fd)
  BY <1>1, <1>2 DEF IndexOf, PollOK, PollType
<1>8. IndexOK(u)
  <2>1. ASSUME NEW i \in 1 .. Len(u.set)
        PROVE  u.set[i].fd < u.fd_count /\ u.idxplus1[u.set[i].fd] = i
    <3>1. s.set[i] \in Entry
      BY <1>1 DEF PollOK, PollType
    <3>2. s.set[i].fd \in Nat
      BY <3>1, FdsAreNumbers DEF Entry
    <3>3. s.set[i].fd < s.fd_count /\ s.idxplus1[s.set[i].fd] = i
      BY <1>1 DEF PollOK, IndexOK
    <3>4. s.set[i].fd \in 0 .. size - 1
      BY <3>2, <3>3 DEF PollOK, PollType
    <3> QED
      BY <1>1, <1>2, <3>3, <3>4
  <2>2. ASSUME NEW fd \in 0 .. u.fd_count - 1, u.idxplus1[fd] > 0
        PROVE  u.set[u.idxplus1[fd]].fd = fd
    <3>1. fd \in 0 .. s.fd_count - 1 /\ u.idxplus1[fd] = s.idxplus1[fd]
      BY <1>1, <1>2, <2>2 DEF PollOK, PollType
    <3> QED
      BY <1>1, <2>2, <3>1 DEF PollOK, IndexOK
  <2> QED
    BY <2>1, <2>2 DEF IndexOK
<1>9. AddedTo(u) = AddedTo(s)
  BY <1>1, <1>7, EventFacts DEF AddedTo
<1> QED
  BY <1>1, <1>5, <1>6, <1>7, <1>8, <1>9 DEF PollOK, u

\* What the entry at i says, and whose it is.
LEMMA EntryFacts ==
  ASSUME NEW s, PollOK(s), NEW i \in 1 .. Len(s.set)
  PROVE  /\ s.set[i] \in Entry /\ s.set[i].fd \in Fds /\ s.set[i].fd \in 0 .. s.fd_count - 1
         /\ IndexOf(s, s.set[i].fd) = i
         /\ PollSlot(s, i) \in Slot /\ SlotOK(s.set[i].fd, PollSlot(s, i))
         /\ s.set[i].events = Held(PollSlot(s, i))
         /\ \A f \in Events : ev_fd[f] = s.set[i].fd =>
              (f \in AddedTo(s) <=> f \in {PollSlot(s, i).evread, PollSlot(s, i).evwrite})
<1>1. s.set[i] \in Entry /\ s.set[i].fd \in Fds
  <2>1. s.set[i] \in Entry
    BY DEF PollOK, PollType
  <2> QED
    BY <2>1 DEF Entry
<1>2. s.set[i].fd < s.fd_count /\ s.idxplus1[s.set[i].fd] = i
  BY DEF PollOK, IndexOK
<1>3. s.set[i].fd \in 0 .. s.fd_count - 1 /\ IndexOf(s, s.set[i].fd) = i
  BY <1>1, <1>2, FdsAreNumbers DEF PollOK, PollType, IndexOf
<1>4. s.r_back[i] \in Events \cup {NoEvent} /\ s.w_back[i] \in Events \cup {NoEvent}
  BY DEF PollOK, PollType
<1>5. PollSlot(s, i) \in Slot
  BY <1>4 DEF PollSlot, Slot
<1>6. SlotOK(s.set[i].fd, PollSlot(s, i)) /\ s.set[i].events = Held(PollSlot(s, i))
  BY DEF PollOK, EntriesOK
<1>7. \A f \in Events : ev_fd[f] = s.set[i].fd =>
        (f \in AddedTo(s) <=> f \in {PollSlot(s, i).evread, PollSlot(s, i).evwrite})
  BY <1>3 DEF AddedTo, PollSlot
<1> QED
  BY <1>1, <1>3, <1>5, <1>6, <1>7

\* A descriptor that has an index has an entry.
LEMMA IndexFacts ==
  ASSUME NEW s, PollOK(s), NEW fd \in Nat, IndexOf(s, fd) # 0
  PROVE  /\ fd \in 0 .. s.fd_count - 1 /\ IndexOf(s, fd) = s.idxplus1[fd]
         /\ IndexOf(s, fd) \in 1 .. Len(s.set)
         /\ s.set[IndexOf(s, fd)].fd = fd
<1>1. fd \in 0 .. s.fd_count - 1 /\ IndexOf(s, fd) = s.idxplus1[fd]
  BY DEF IndexOf, PollOK, PollType
<1>2. IndexOf(s, fd) \in 1 .. Len(s.set)
  BY <1>1 DEF PollOK, PollType
<1> QED
  BY <1>1, <1>2 DEF PollOK, IndexOK

\* From s to u the events of entry i change to those of new.
EntryChanged(s, u, i, new) ==
  /\ DOMAIN u = PollFields /\ u.fd_count = s.fd_count /\ u.idxplus1 = s.idxplus1
  /\ u.set = [s.set EXCEPT ![i] = [s.set[i] EXCEPT !.events = Held(new)]]
  /\ u.r_back = [s.r_back EXCEPT ![i] = new.evread]
  /\ u.w_back = [s.w_back EXCEPT ![i] = new.evwrite]

\* Then the tables stay in step, and the events of other entries are the same.
LEMMA EntryChanges ==
  ASSUME NEW s, PollOK(s), NEW i \in 1 .. Len(s.set), NEW new \in Slot,
         SlotOK(s.set[i].fd, new), NEW u, EntryChanged(s, u, i, new)
  PROVE  /\ PollOK(u) /\ Len(u.set) = Len(s.set) /\ PollSlot(u, i) = new
         /\ u.set[i].fd = s.set[i].fd /\ u.set[i].events = Held(new)
         /\ \A f \in Events : f \in AddedTo(u) <=>
              IF ev_fd[f] = s.set[i].fd THEN f \in {new.evread, new.evwrite} ELSE f \in AddedTo(s)
<1> DEFINE entry == [s.set[i] EXCEPT !.events = Held(new)]
<1>1. s.set[i] \in Entry
  BY EntryFacts
<1>2. entry \in Entry /\ entry.fd = s.set[i].fd /\ entry.events = Held(new)
  BY <1>1 DEF Entry, Held
<1> HIDE DEF entry
<1>3. /\ s.set \in Seq(Entry) /\ i \in 1 .. Len(s.r_back) /\ i \in 1 .. Len(s.w_back)
      /\ s.r_back \in Seq(Events \cup {NoEvent}) /\ s.w_back \in Seq(Events \cup {NoEvent})
      /\ Len(s.r_back) = Len(s.set) /\ Len(s.w_back) = Len(s.set)
  BY DEF PollOK, PollType
<1>4. new.evread \in Events \cup {NoEvent} /\ new.evwrite \in Events \cup {NoEvent}
  BY DEF Slot
<1>5. /\ u.set \in Seq(Entry) /\ Len(u.set) = Len(s.set)
      /\ \A j \in 1 .. Len(s.set) : u.set[j] = IF j = i THEN entry ELSE s.set[j]
  BY <1>2, <1>3, ExceptSeq DEF entry, EntryChanged
<1>6. /\ u.r_back \in Seq(Events \cup {NoEvent}) /\ Len(u.r_back) = Len(s.set)
      /\ \A j \in 1 .. Len(s.set) : u.r_back[j] = IF j = i THEN new.evread ELSE s.r_back[j]
  BY <1>3, <1>4, ExceptSeq DEF EntryChanged
<1>7. /\ u.w_back \in Seq(Events \cup {NoEvent}) /\ Len(u.w_back) = Len(s.set)
      /\ \A j \in 1 .. Len(s.set) : u.w_back[j] = IF j = i THEN new.evwrite ELSE s.w_back[j]
  BY <1>3, <1>4, ExceptSeq DEF EntryChanged
<1>8. \A j \in 1 .. Len(s.set) : u.set[j].fd = s.set[j].fd
  BY <1>2, <1>5
<1>9. PollType(u)
  BY <1>5, <1>6, <1>7 DEF PollOK, PollType, EntryChanged
<1>10. \A j \in 1 .. Len(s.set) : PollSlot(u, j) = IF j = i THEN new ELSE PollSlot(s, j)
  <2>1. new = [evread |-> new.evread, evwrite |-> new.evwrite]
    BY DEF Slot
  <2> QED
    BY <1>6, <1>7, <2>1 DEF PollSlot
<1>11. EntriesOK(u)
  <2> SUFFICES ASSUME NEW j \in 1 .. Len(s.set)
               PROVE  /\ SlotOK(u.set[j].fd, PollSlot(u, j))
                      /\ u.set[j].events = Held(PollSlot(u, j))
    BY <1>5 DEF EntriesOK
  <2>1. CASE j = i
    BY <1>2, <1>5, <1>10, <2>1
  <2>2. CASE j # i
    BY <1>5, <1>10, <2>2 DEF PollOK, EntriesOK
  <2> QED
    BY <2>1, <2>2
<1>12. IndexOK(u)
  <2>1. ASSUME NEW j \in 1 .. Len(u.set)
        PROVE  u.set[j].fd < u.fd_count /\ u.idxplus1[u.set[j].fd] = j
    BY <1>5, <1>8 DEF PollOK, IndexOK, EntryChanged
  <2>2. ASSUME NEW fd \in 0 .. u.fd_count - 1, u.idxplus1[fd] > 0
        PROVE  u.set[u.idxplus1[fd]].fd = fd
    <3>1. s.idxplus1[fd] \in 1 .. Len(s.set) /\ s.set[s.idxplus1[fd]].fd = fd
      BY <2>2 DEF PollOK, PollType, IndexOK, EntryChanged
    <3> QED
      BY <1>8, <3>1 DEF EntryChanged
  <2> QED
    BY <2>1, <2>2 DEF IndexOK
<1>13. PollOK(u)
  BY <1>9, <1>11, <1>12 DEF PollOK
<1>14. \A fd : IndexOf(u, fd) = IndexOf(s, fd)
  BY DEF IndexOf, EntryChanged
<1>15. ASSUME NEW f \in Events
       PROVE  f \in AddedTo(u) <=>
                IF ev_fd[f] = s.set[i].fd THEN f \in {new.evread, new.evwrite} ELSE f \in AddedTo(s)
  <2>1. CASE ev_fd[f] = s.set[i].fd
    <3>1. i \in 1 .. Len(u.set) /\ u.set[i].fd = s.set[i].fd /\ PollSlot(u, i) = new
      BY <1>5, <1>8, <1>10
    <3>2. f \in AddedTo(u) <=> f \in {PollSlot(u, i).evread, PollSlot(u, i).evwrite}
      BY <1>13, <2>1, <3>1, EntryFacts
    <3> QED
      BY <2>1, <3>1, <3>2
  <2>2. CASE ev_fd[f] # s.set[i].fd
    <3>1. ASSUME IndexOf(s, ev_fd[f]) \in 1 .. Len(s.set) PROVE IndexOf(s, ev_fd[f]) # i
      BY <2>2, <3>1, IndexFacts, EventFacts
    <3> QED
      BY <1>5, <1>6, <1>7, <1>14, <2>2, <3>1 DEF AddedTo
  <2> QED
    BY <2>1, <2>2
<1> QED
  BY <1>2, <1>5, <1>10, <1>13, <1>15

\* A descriptor without an entry gets one at the end, with no events.
LEMMA WithEntryFacts ==
  ASSUME NEW s, PollOK(s), NEW fd \in Fds, fd < s.fd_count
  PROVE  LET u == WithEntry(s, fd)
             i == u.idxplus1[fd]
         IN  /\ PollOK(u) /\ AddedTo(u) = AddedTo(s)
             /\ i \in 1 .. Len(u.set) /\ u.set[i].fd = fd
             /\ u.set[i].events = IF IndexOf(s, fd) > 0 THEN s.set[IndexOf(s, fd)].events ELSE {}
<1> DEFINE u == WithEntry(s, fd)
           n == Len(s.set)
<1>1. fd \in Nat /\ fd \in 0 .. s.fd_count - 1 /\ IndexOf(s, fd) = s.idxplus1[fd]
  BY FdsAreNumbers DEF PollOK, PollType, IndexOf
<1>2. s.idxplus1[fd] \in 0 .. n /\ n \in Nat
  BY <1>1 DEF PollOK, PollType
<1>3. CASE s.idxplus1[fd] > 0
  <2>1. u = s
    BY <1>3 DEF WithEntry
  <2> QED
    BY <1>1, <1>2, <1>3, <2>1, IndexFacts
<1>4. CASE ~(s.idxplus1[fd] > 0)
  <2> DEFINE entry == [fd |-> fd, events |-> {}]
  <2>1. s.idxplus1[fd] = 0
    BY <1>2, <1>4
  <2>2. /\ DOMAIN u = PollFields /\ u.fd_count = s.fd_count
        /\ u.set = Append(s.set, entry)
        /\ u.r_back = Append(s.r_back, NoEvent) /\ u.w_back = Append(s.w_back, NoEvent)
        /\ u.idxplus1 = [s.idxplus1 EXCEPT ![fd] = n + 1]
    BY <1>4 DEF WithEntry, PollOK, PollType, PollFields
  <2>3. entry \in Entry /\ entry.fd = fd /\ entry.events = {}
    BY DEF Entry
  <2> HIDE DEF u, entry
  <2>4. /\ s.set \in Seq(Entry) /\ Len(s.r_back) = n /\ Len(s.w_back) = n
        /\ s.r_back \in Seq(Events \cup {NoEvent}) /\ s.w_back \in Seq(Events \cup {NoEvent})
    BY DEF PollOK, PollType
  <2>5. /\ u.set \in Seq(Entry) /\ Len(u.set) = n + 1 /\ u.set[n + 1] = entry
        /\ \A j \in 1 .. n : u.set[j] = s.set[j]
    BY <2>2, <2>3, <2>4, AppendProperties
  <2>6. /\ u.r_back \in Seq(Events \cup {NoEvent}) /\ Len(u.r_back) = n + 1
        /\ u.r_back[n + 1] = NoEvent /\ \A j \in 1 .. n : u.r_back[j] = s.r_back[j]
    BY <2>2, <2>4, AppendProperties
  <2>7. /\ u.w_back \in Seq(Events \cup {NoEvent}) /\ Len(u.w_back) = n + 1
        /\ u.w_back[n + 1] = NoEvent /\ \A j \in 1 .. n : u.w_back[j] = s.w_back[j]
    BY <2>2, <2>4, AppendProperties
  <2>8. \A f \in 0 .. s.fd_count - 1 :
          /\ s.idxplus1[f] \in 0 .. n
          /\ u.idxplus1[f] = IF f = fd THEN n + 1 ELSE s.idxplus1[f]
    BY <2>2 DEF PollOK, PollType
  <2>9. u.idxplus1 \in [0 .. s.fd_count - 1 -> 0 .. n + 1]
    <3>1. \A f \in 0 .. s.fd_count - 1 : u.idxplus1[f] \in 0 .. n + 1
      BY <1>2, <2>8
    <3> QED
      BY <2>2, <3>1 DEF PollOK, PollType
  <2>10. PollType(u)
    BY <2>2, <2>5, <2>6, <2>7, <2>9 DEF PollOK, PollType
  <2>11. EntriesOK(u)
    <3> SUFFICES ASSUME NEW j \in 1 .. n + 1
                 PROVE  /\ SlotOK(u.set[j].fd, PollSlot(u, j))
                        /\ u.set[j].events = Held(PollSlot(u, j))
      BY <2>5 DEF EntriesOK
    <3>1. CASE j = n + 1
      BY <2>3, <2>5, <2>6, <2>7, <3>1 DEF SlotOK, Held, PollSlot
    <3>2. CASE j \in 1 .. n
      <4>1. PollSlot(u, j) = PollSlot(s, j) /\ u.set[j] = s.set[j]
        BY <2>5, <2>6, <2>7, <3>2 DEF PollSlot
      <4> QED
        BY <3>2, <4>1 DEF PollOK, EntriesOK
    <3> QED
      BY <1>2, <3>1, <3>2
  <2>12. IndexOK(u)
    <3>1. ASSUME NEW j \in 1 .. n + 1
          PROVE  u.set[j].fd < u.fd_count /\ u.idxplus1[u.set[j].fd] = j
      <4>1. CASE j = n + 1
        BY <1>1, <2>2, <2>3, <2>5, <2>8, <4>1
      <4>2. CASE j \in 1 .. n
        <5>1. /\ s.set[j].fd \in 0 .. s.fd_count - 1 /\ IndexOf(s, s.set[j].fd) = j
              /\ s.set[j].fd < s.fd_count
          BY <4>2, EntryFacts DEF PollOK, PollType
        <5>2. s.idxplus1[s.set[j].fd] = j /\ s.set[j].fd # fd
          BY <2>1, <4>2, <5>1 DEF IndexOf
        <5> QED
          BY <2>2, <2>5, <2>8, <4>2, <5>1, <5>2
      <4> QED
        BY <1>2, <4>1, <4>2
    <3>2. ASSUME NEW f \in 0 .. u.fd_count - 1, u.idxplus1[f] > 0
          PROVE  u.set[u.idxplus1[f]].fd = f
      <4>1. CASE f = fd
        BY <2>2, <2>3, <2>5, <2>8, <4>1
      <4>2. CASE f # fd
        <5>1. u.idxplus1[f] = s.idxplus1[f] /\ s.idxplus1[f] \in 1 .. n
          BY <1>2, <2>2, <2>8, <3>2, <4>2
        <5>2. s.set[s.idxplus1[f]].fd = f
          BY <2>2, <3>2, <5>1 DEF PollOK, IndexOK
        <5> QED
          BY <2>5, <5>1, <5>2
      <4> QED
        BY <4>1, <4>2
    <3> QED
      BY <2>5, <3>1, <3>2 DEF IndexOK
  <2>13. PollOK(u)
    BY <2>10, <2>11, <2>12 DEF PollOK
  <2>14. ASSUME NEW f \in Events PROVE f \in AddedTo(u) <=> f \in AddedTo(s)
    <3>1. CASE ev_fd[f] = fd
      <4>1. IndexOf(u, fd) = n + 1
        BY <1>1, <2>2, <2>8 DEF IndexOf
      <4>2. f \notin AddedTo(u)
        BY <2>6, <2>7, <3>1, <4>1, EventFacts DEF AddedTo
      <4>3. f \notin AddedTo(s)
        BY <1>1, <2>1, <3>1 DEF AddedTo
      <4> QED
        BY <4>2, <4>3
    <3>2. CASE ev_fd[f] # fd
      <4>1. IndexOf(u, ev_fd[f]) = IndexOf(s, ev_fd[f]) /\ IndexOf(s, ev_fd[f]) \in 0 .. n
        BY <2>2, <2>8, <3>2, <1>2, EventFacts DEF IndexOf, PollOK, PollType
      <4>2. IndexOf(u, ev_fd[f]) \in 1 .. Len(u.set) <=> IndexOf(s, ev_fd[f]) \in 1 .. n
        BY <1>2, <2>5, <4>1
      <4> QED
        BY <2>6, <2>7, <4>1, <4>2 DEF AddedTo
    <3> QED
      BY <3>1, <3>2
  <2>15. AddedTo(u) = AddedTo(s)
    BY <2>14 DEF AddedTo
  <2>16. u.idxplus1[fd] = n + 1 /\ n + 1 \in 1 .. Len(u.set)
    BY <1>1, <1>2, <2>5, <2>8
  <2>17. u.set[n + 1].fd = fd /\ u.set[n + 1].events = {} /\ ~(IndexOf(s, fd) > 0)
    BY <1>1, <1>4, <2>3, <2>5
  <2> QED
    BY <2>13, <2>15, <2>16, <2>17 DEF u
<1> QED
  BY <1>3, <1>4

\* poll_add: the event joins the other one of its descriptor.
LEMMA PollAddStep ==
  ASSUME PollInv, NEW e \in Events, PollAdd(e)
  PROVE  PollInv' /\ PollTable!Add(e)
<1> DEFINE fd == ev_fd[e]
<1>1. PICK size \in IndexSizes(fd) :
        LET s == WithEntry(GrowIndex(GrowEntries(poll), size), fd)
            i == s.idxplus1[fd]
        IN  /\ PollFree(e)
            /\ poll' = [Processed(s) EXCEPT !.set[i].events = @ \cup ev_events[e],
                           !.r_back[i] = IF "READ" \in ev_events[e] THEN e ELSE @,
                           !.w_back[i] = IF "WRITE" \in ev_events[e] THEN e ELSE @]
  BY DEF PollAdd
<1>2. fd \in Nat /\ fd \in Fds /\ size \in Nat /\ fd < size /\ poll.fd_count <= size
  <2>1. fd \in Nat /\ fd \in Fds /\ poll.fd_count \in Nat
    BY EventFacts DEF PollInv, PollOK, PollType
  <2>2. CASE fd < poll.fd_count
    BY <2>1, <2>2 DEF IndexSizes
  <2>3. CASE ~(fd < poll.fd_count)
    <3> DEFINE base == IF poll.fd_count < MinCount THEN MinCount ELSE 2 * poll.fd_count
    <3>1. base \in Nat /\ poll.fd_count <= base
      BY <2>1, PollAssumption
    <3>2. size \in Doubled(base, fd)
      BY <2>3 DEF IndexSizes
    <3> HIDE DEF base
    <3>3. size \in Nat /\ fd < size /\ base <= size
      BY <2>1, <3>1, <3>2, DoubledSize
    <3> QED
      BY <2>1, <3>1, <3>3
  <2> QED
    BY <2>2, <2>3
<1> DEFINE g == GrowEntries(poll)
           h == GrowIndex(g, size)
           s == WithEntry(h, fd)
           i == s.idxplus1[fd]
<1>3. /\ PollOK(g) /\ AddedTo(g) = AddedTo(poll) /\ g.fd_count = poll.fd_count
      /\ g.idxplus1 = poll.idxplus1 /\ g.set = poll.set
  BY GrowEntriesFacts DEF PollInv
<1> HIDE DEF g
<1>4. /\ PollOK(h) /\ AddedTo(h) = AddedTo(g) /\ h.fd_count = size
      /\ h.set = g.set /\ IndexOf(h, fd) = IndexOf(g, fd)
  BY <1>2, <1>3, GrowIndexFacts
<1> HIDE DEF h
<1>5. /\ PollOK(s) /\ AddedTo(s) = AddedTo(h)
      /\ i \in 1 .. Len(s.set) /\ s.set[i].fd = fd
      /\ s.set[i].events = IF IndexOf(h, fd) > 0 THEN h.set[IndexOf(h, fd)].events ELSE {}
  BY <1>2, <1>4, WithEntryFacts
<1>6. s.set[i].events \cap ev_events[e] = {}
  <2>1. Index(fd) = IndexOf(h, fd)
    BY <1>3, <1>4 DEF Index, IndexOf
  <2> QED
    BY <1>1, <1>3, <1>4, <1>5, <2>1 DEF PollFree
<1>7. poll' = [Processed(s) EXCEPT !.set[i].events = @ \cup ev_events[e],
                           !.r_back[i] = IF "READ" \in ev_events[e] THEN e ELSE @,
                           !.w_back[i] = IF "WRITE" \in ev_events[e] THEN e ELSE @]
  BY <1>1 DEF g, h
<1> HIDE DEF s
<1> DEFINE slot == PollSlot(s, i)
           new  == With(slot, e)
<1>8. slot \in Slot /\ SlotOK(fd, slot) /\ s.set[i].events = Held(slot)
  BY <1>5, EntryFacts
<1>9. /\ new \in Slot /\ SlotOK(fd, new) /\ Held(new) = Held(slot) \cup ev_events[e]
      /\ \A f \in Events : f \in {new.evread, new.evwrite} <=>
                           f = e \/ f \in {slot.evread, slot.evwrite}
      /\ \A f \in Events : f \in {slot.evread, slot.evwrite} =>
                           f # e /\ ev_events[e] \cap ev_events[f] = {}
  BY <1>6, <1>8, WithFacts
<1>10. /\ DOMAIN poll' = PollFields /\ poll'.fd_count = s.fd_count
       /\ poll'.idxplus1 = s.idxplus1
       /\ poll'.set = [s.set EXCEPT ![i] =
                         [s.set[i] EXCEPT !.events = s.set[i].events \cup ev_events[e]]]
       /\ poll'.r_back = [s.r_back EXCEPT ![i] = new.evread]
       /\ poll'.w_back = [s.w_back EXCEPT ![i] = new.evwrite]
       /\ poll'.ready = Quiet /\ poll'.active = <<>>
  BY <1>5, <1>7 DEF Processed, PollFields, PollOK, PollType, With, PollSlot
<1>11. poll'.set = [s.set EXCEPT ![i] = [s.set[i] EXCEPT !.events = Held(new)]]
  BY <1>8, <1>9, <1>10
<1> HIDE DEF new
<1>12. /\ PollOK(poll')
       /\ \A f \in Events : f \in AddedTo(poll') <=>
            IF ev_fd[f] = fd THEN f \in {new.evread, new.evwrite} ELSE f \in AddedTo(s)
  <2>1. EntryChanged(s, poll', i, new)
    BY <1>10, <1>11 DEF EntryChanged
  <2> QED
    BY <1>5, <1>9, <2>1, EntryChanges
<1>13. \A f \in Events : ev_fd[f] = fd =>
         (f \in AddedTo(s) <=> f \in {slot.evread, slot.evwrite})
  BY <1>5, EntryFacts
<1>14. AddedTo(s) = PollAdded /\ PollAdded \subseteq Events
  BY <1>3, <1>4, <1>5, PollAddedIs DEF PollAdded
<1>15. PollInv' /\ PollAdded' = AddedTo(poll')
  <2>1. PollInv'
    BY <1>12 DEF PollInv
  <2>2. (PollInv => PollAdded = AddedTo(poll))'
    BY PollAddedIs, PTL
  <2> QED
    BY <2>1, <2>2
<1>16. \A f \in Events : f \in AddedTo(poll') <=> f = e \/ f \in PollAdded
  BY <1>9, <1>12, <1>13, <1>14
<1>17. PollAdded' = PollAdded \cup {e}
  <2>1. AddedTo(poll') \subseteq Events
    BY DEF AddedTo
  <2> QED
    BY <1>14, <1>15, <1>16, <2>1
<1>18. e \notin PollAdded /\ \A f \in PollAdded : ~Clash(e, f)
  BY <1>9, <1>13, <1>14 DEF Clash
<1> QED
  BY <1>10, <1>15, <1>17, <1>18
     DEF PollTable!Add, PollTable!Nothing, PollTable!Quiet, PollTable!Fds,
         PollTable!Clash, Clash, Quiet, Fds

\* The array without its place i, which the last element fills.
LEMMA DropFacts ==
  ASSUME NEW S, NEW seq \in Seq(S), NEW n \in Nat, n = Len(seq), NEW i \in 1 .. n
  PROVE  LET d == SubSeq([seq EXCEPT ![i] = seq[n]], 1, n - 1)
         IN  /\ d \in Seq(S) /\ Len(d) = n - 1
             /\ \A k \in 1 .. n - 1 : d[k] = IF k = i THEN seq[n] ELSE seq[k]
<1> DEFINE c == [seq EXCEPT ![i] = seq[n]]
<1>1. seq[n] \in S /\ i \in 1 .. Len(seq)
  OBVIOUS
<1>2. \A k \in 1 .. n : c[k] = (IF k = i THEN seq[n] ELSE seq[k]) /\ c[k] \in S
  <2>1. c \in Seq(S) /\ Len(c) = n
    BY <1>1, ExceptSeq
  <2>2. \A k \in 1 .. n : c[k] = IF k = i THEN seq[n] ELSE seq[k]
    BY <1>1, ExceptSeq
  <2> QED
    BY <1>1, <2>2
<1> HIDE DEF c
<1>3. 1 \in Int /\ n - 1 \in Int /\ \A k \in 1 .. n - 1 : c[k] \in S
  BY <1>2
<1>4. /\ SubSeq(c, 1, n - 1) \in Seq(S)
      /\ Len(SubSeq(c, 1, n - 1)) = IF 1 <= n - 1 THEN n - 1 - 1 + 1 ELSE 0
      /\ \A k \in 1 .. n - 1 - 1 + 1 : SubSeq(c, 1, n - 1)[k] = c[1 + k - 1]
  BY <1>3, SubSeqProperties
<1>5. Len(SubSeq(c, 1, n - 1)) = n - 1
  BY <1>4
<1>6. \A k \in 1 .. n - 1 : SubSeq(c, 1, n - 1)[k] = IF k = i THEN seq[n] ELSE seq[k]
  BY <1>2, <1>4
<1> QED
  BY <1>4, <1>5, <1>6 DEF c

\* From s to u the entry i goes and the last entry takes its place.
EntryDropped(s, u, i) ==
  LET n == Len(s.set)
      Drop(seq) == SubSeq([seq EXCEPT ![i] = seq[n]], 1, n - 1)
      moved == [s.idxplus1 EXCEPT ![s.set[i].fd] = 0]
  IN  /\ DOMAIN u = PollFields /\ u.fd_count = s.fd_count
      /\ u.set = Drop(s.set) /\ u.r_back = Drop(s.r_back) /\ u.w_back = Drop(s.w_back)
      /\ u.idxplus1 = IF i = n THEN moved ELSE [moved EXCEPT ![s.set[n].fd] = i]

\* When the entry had no events the others keep theirs, and the index follows
\* the entry that moved.
LEMMA EntryDrops ==
  ASSUME NEW s, PollOK(s), NEW i \in 1 .. Len(s.set), s.set[i].events = {},
         NEW u, EntryDropped(s, u, i)
  PROVE  PollOK(u) /\ AddedTo(u) = AddedTo(s)
<1> DEFINE n == Len(s.set)
           fd == s.set[i].fd
           last == s.set[n].fd
<1>1. /\ s.set \in Seq(Entry) /\ n \in Nat /\ Len(s.r_back) = n /\ Len(s.w_back) = n
      /\ s.r_back \in Seq(Events \cup {NoEvent}) /\ s.w_back \in Seq(Events \cup {NoEvent})
  BY DEF PollOK, PollType
<1>2. /\ DOMAIN u = PollFields /\ u.fd_count = s.fd_count
      /\ u.idxplus1 = IF i = n THEN [s.idxplus1 EXCEPT ![fd] = 0]
                      ELSE [[s.idxplus1 EXCEPT ![fd] = 0] EXCEPT ![last] = i]
  BY DEF EntryDropped
<1>3. /\ u.set \in Seq(Entry) /\ Len(u.set) = n - 1
      /\ \A k \in 1 .. n - 1 : u.set[k] = IF k = i THEN s.set[n] ELSE s.set[k]
  BY <1>1, DropFacts DEF EntryDropped
<1>4. /\ u.r_back \in Seq(Events \cup {NoEvent}) /\ Len(u.r_back) = n - 1
      /\ \A k \in 1 .. n - 1 : u.r_back[k] = IF k = i THEN s.r_back[n] ELSE s.r_back[k]
  <2>1. u.r_back = SubSeq([s.r_back EXCEPT ![i] = s.r_back[n]], 1, n - 1)
    BY DEF EntryDropped
  <2> QED
    BY <1>1, <2>1, DropFacts
<1>5. /\ u.w_back \in Seq(Events \cup {NoEvent}) /\ Len(u.w_back) = n - 1
      /\ \A k \in 1 .. n - 1 : u.w_back[k] = IF k = i THEN s.w_back[n] ELSE s.w_back[k]
  <2>1. u.w_back = SubSeq([s.w_back EXCEPT ![i] = s.w_back[n]], 1, n - 1)
    BY DEF EntryDropped
  <2> QED
    BY <1>1, <2>1, DropFacts
<1>6. \A k \in 1 .. n : /\ s.set[k].fd \in 0 .. s.fd_count - 1 /\ s.set[k].fd < s.fd_count
                         /\ s.idxplus1[s.set[k].fd] = k /\ s.set[k].fd \in Fds
  <2> SUFFICES ASSUME NEW k \in 1 .. n
               PROVE  /\ s.set[k].fd \in 0 .. s.fd_count - 1 /\ s.set[k].fd < s.fd_count
                      /\ s.idxplus1[s.set[k].fd] = k /\ s.set[k].fd \in Fds
    OBVIOUS
  <2>1. s.set[k].fd \in 0 .. s.fd_count - 1 /\ s.set[k].fd \in Fds
    BY EntryFacts
  <2> QED
    BY <2>1 DEF PollOK, IndexOK
<1>7. n \in 1 .. n /\ (i # n => i \in 1 .. n - 1 /\ last # fd)
  <2>1. n \in 1 .. n /\ (i # n => i \in 1 .. n - 1)
    BY <1>1
  <2> QED
    BY <1>6, <2>1
<1>8. \A f \in 0 .. s.fd_count - 1 :
        u.idxplus1[f] = IF f = fd THEN 0 ELSE IF i # n /\ f = last THEN i ELSE s.idxplus1[f]
  BY <1>2, <1>6, <1>7 DEF PollOK, PollType
<1>9. \A f \in 0 .. s.fd_count - 1 :
        /\ s.idxplus1[f] \in 0 .. n
        /\ s.idxplus1[f] > 0 => s.idxplus1[f] \in 1 .. n /\ s.set[s.idxplus1[f]].fd = f
  BY DEF PollOK, PollType, IndexOK
<1>10. \A f \in 0 .. s.fd_count - 1 : u.idxplus1[f] \in 0 .. n - 1
  <2> SUFFICES ASSUME NEW f \in 0 .. s.fd_count - 1 PROVE u.idxplus1[f] \in 0 .. n - 1
    OBVIOUS
  <2>1. CASE f = fd
    BY <1>1, <1>7, <1>8, <2>1
  <2>2. CASE f # fd /\ i # n /\ f = last
    BY <1>1, <1>7, <1>8, <2>2
  <2>3. CASE f # fd /\ ~(i # n /\ f = last)
    <3>1. s.idxplus1[f] # n
      BY <1>7, <1>9, <2>3
    <3> QED
      BY <1>1, <1>8, <1>9, <2>3, <3>1
  <2> QED
    BY <2>1, <2>2, <2>3
<1>11. PollType(u)
  <2>1. u.idxplus1 \in [0 .. s.fd_count - 1 -> 0 .. n - 1]
    <3>1. s.idxplus1 \in [0 .. s.fd_count - 1 -> 0 .. n]
      BY DEF PollOK, PollType
    <3>2. DOMAIN u.idxplus1 = 0 .. s.fd_count - 1
      BY <1>2, <3>1
    <3>3. u.idxplus1 = [f \in 0 .. s.fd_count - 1 |-> u.idxplus1[f]]
      BY <1>2, <3>1, <3>2
    <3> QED
      BY <1>10, <3>3
  <2> QED
    BY <1>2, <1>3, <1>4, <1>5, <2>1 DEF PollOK, PollType
<1>12. \A k \in 1 .. n - 1 : PollSlot(u, k) = PollSlot(s, IF k = i THEN n ELSE k)
  BY <1>4, <1>5 DEF PollSlot
<1>13. EntriesOK(u)
  <2> SUFFICES ASSUME NEW k \in 1 .. n - 1
               PROVE  /\ SlotOK(u.set[k].fd, PollSlot(u, k))
                      /\ u.set[k].events = Held(PollSlot(u, k))
    BY <1>3 DEF EntriesOK
  <2>1. PICK j \in 1 .. n : u.set[k] = s.set[j] /\ PollSlot(u, k) = PollSlot(s, j)
    BY <1>3, <1>7, <1>12
  <2> QED
    BY <2>1 DEF PollOK, EntriesOK
<1>14. IndexOK(u)
  <2>1. ASSUME NEW k \in 1 .. n - 1
        PROVE  u.set[k].fd < u.fd_count /\ u.idxplus1[u.set[k].fd] = k
    <3>1. CASE k = i
      <4>1. i # n /\ u.set[k].fd = last
        BY <1>1, <1>3, <3>1
      <4> QED
        BY <1>2, <1>6, <1>7, <1>8, <3>1, <4>1
    <3>2. CASE k # i
      <4>1. u.set[k].fd = s.set[k].fd /\ k \in 1 .. n /\ k # n
        BY <1>1, <1>3, <3>2
      <4>2. s.set[k].fd # fd /\ s.set[k].fd # last
        BY <1>6, <1>7, <3>2, <4>1
      <4>3. u.idxplus1[s.set[k].fd] = k
        BY <1>6, <1>8, <4>1, <4>2
      <4> QED
        BY <1>2, <1>6, <4>1, <4>3
    <3> QED
      BY <3>1, <3>2
  <2>2. ASSUME NEW f \in 0 .. s.fd_count - 1, u.idxplus1[f] > 0
        PROVE  u.set[u.idxplus1[f]].fd = f
    <3>1. f # fd
      BY <1>8, <2>2
    <3>2. CASE i # n /\ f = last
      BY <1>3, <1>7, <1>8, <3>1, <3>2
    <3>3. CASE ~(i # n /\ f = last)
      <4>1. u.idxplus1[f] = s.idxplus1[f] /\ s.idxplus1[f] > 0
        BY <1>8, <2>2, <3>1, <3>3
      <4>2. s.set[s.idxplus1[f]].fd = f /\ s.idxplus1[f] # i
        BY <1>9, <3>1, <4>1
      <4>3. s.idxplus1[f] \in 1 .. n - 1
        BY <1>1, <1>10, <2>2, <4>1
      <4> QED
        BY <1>3, <4>1, <4>2, <4>3
    <3> QED
      BY <3>2, <3>3
  <2> QED
    BY <1>2, <1>3, <2>1, <2>2 DEF IndexOK
<1>15. ASSUME NEW f \in Events PROVE f \in AddedTo(u) <=> f \in AddedTo(s)
  <2> DEFINE d == ev_fd[f]
  <2>1. d \in Nat /\ f # NoEvent
    BY EventFacts
  <2>2. CASE d = fd
    <3>1. IndexOf(u, d) = 0
      BY <1>2, <1>6, <1>8, <2>2 DEF IndexOf
    <3>2. f \in AddedTo(s) <=> f \in {PollSlot(s, i).evread, PollSlot(s, i).evwrite}
      BY <2>2, EntryFacts
    <3>3. Held(PollSlot(s, i)) = {}
      BY EntryFacts
    <3> QED
      BY <2>1, <3>1, <3>2, <3>3 DEF AddedTo, Held
  <2>3. CASE d # fd /\ i # n /\ d = last
    <3>1. IndexOf(u, d) = i /\ IndexOf(s, d) = n
      BY <1>2, <1>6, <1>7, <1>8, <2>3 DEF IndexOf
    <3>2. u.r_back[i] = s.r_back[n] /\ u.w_back[i] = s.w_back[n]
      BY <1>4, <1>5, <1>7, <2>3
    <3> QED
      BY <1>3, <1>7, <2>3, <3>1, <3>2 DEF AddedTo
  <2>4. CASE d # fd /\ ~(i # n /\ d = last)
    <3>1. IndexOf(u, d) = IndexOf(s, d)
      BY <1>2, <1>8, <2>1, <2>4 DEF IndexOf, PollOK, PollType
    <3>2. CASE IndexOf(s, d) = 0
      BY <3>1, <3>2 DEF AddedTo
    <3>3. CASE IndexOf(s, d) # 0
      <4>1. /\ d \in 0 .. s.fd_count - 1 /\ IndexOf(s, d) = s.idxplus1[d]
            /\ IndexOf(s, d) \in 1 .. n /\ s.set[IndexOf(s, d)].fd = d
        BY <2>1, <3>3, IndexFacts
      <4>2. IndexOf(s, d) # i /\ IndexOf(s, d) # n
        BY <1>7, <2>4, <4>1
      <4>3. IndexOf(s, d) \in 1 .. n - 1
        BY <1>1, <4>1, <4>2
      <4> QED
        BY <1>3, <1>4, <1>5, <3>1, <4>1, <4>2, <4>3 DEF AddedTo
    <3> QED
      BY <3>2, <3>3
  <2> QED
    BY <2>2, <2>3, <2>4
<1>16. AddedTo(u) = AddedTo(s)
  BY <1>15 DEF AddedTo
<1> QED
  BY <1>11, <1>13, <1>14, <1>16 DEF PollOK

\* poll_del: the other event of the descriptor stays, and so do all the others
\* when an entry is dropped.
LEMMA PollDelStep ==
  ASSUME PollInv, NEW e \in Events, PollDel(e)
  PROVE  PollInv' /\ PollTable!Del(e)
<1> DEFINE fd == ev_fd[e]
           i == Index(fd)
           n == Len(poll.set)
           s == [Processed(poll) EXCEPT !.set[i].events = @ \ ev_events[e],
                        !.r_back[i] = IF "READ" \in ev_events[e] THEN NoEvent ELSE @,
                        !.w_back[i] = IF "WRITE" \in ev_events[e] THEN NoEvent ELSE @]
           Drop(seq) == SubSeq([seq EXCEPT ![i] = seq[n]], 1, n - 1)
           moved == [s.idxplus1 EXCEPT ![fd] = 0]
<1>1. /\ i > 0 /\ e \in {poll.r_back[i], poll.w_back[i]}
      /\ poll' = IF s.set[i].events # {} THEN s
                 ELSE [s EXCEPT !.set = Drop(@), !.r_back = Drop(@), !.w_back = Drop(@),
                                !.idxplus1 = IF i = n THEN moved
                                             ELSE [moved EXCEPT ![s.set[n].fd] = i]]
  BY DEF PollDel
<1>2. fd \in Nat /\ i = IndexOf(poll, fd) /\ i # 0
  <2>1. i > 0
    BY <1>1
  <2>2. fd \in Nat
    BY EventFacts
  <2>3. i = IndexOf(poll, fd)
    BY DEF Index, IndexOf
  <2> HIDE DEF i
  <2> QED
    BY <2>1, <2>2, <2>3
<1>3. i \in 1 .. n /\ poll.set[i].fd = fd
  BY <1>2, IndexFacts DEF PollInv
<1> HIDE DEF i
<1> DEFINE slot == PollSlot(poll, i)
           new  == Without(slot, e)
<1>4. /\ slot \in Slot /\ SlotOK(fd, slot) /\ poll.set[i].events = Held(slot)
      /\ \A f \in Events : ev_fd[f] = fd =>
           (f \in AddedTo(poll) <=> f \in {slot.evread, slot.evwrite})
  BY <1>3, EntryFacts DEF PollInv
<1>5. e \in {slot.evread, slot.evwrite}
  BY <1>1 DEF PollSlot
<1>6. /\ new \in Slot /\ SlotOK(fd, new) /\ Held(new) = Held(slot) \ ev_events[e]
      /\ \A f \in Events : f \in {new.evread, new.evwrite} <=>
                           f # e /\ f \in {slot.evread, slot.evwrite}
  BY <1>4, <1>5, WithoutFacts
<1>7. /\ DOMAIN s = PollFields /\ s.fd_count = poll.fd_count
      /\ s.idxplus1 = poll.idxplus1
      /\ s.set = [poll.set EXCEPT ![i] =
                         [poll.set[i] EXCEPT !.events = poll.set[i].events \ ev_events[e]]]
      /\ s.r_back = [poll.r_back EXCEPT ![i] = new.evread]
      /\ s.w_back = [poll.w_back EXCEPT ![i] = new.evwrite]
      /\ s.ready = Quiet /\ s.active = <<>>
  BY <1>3 DEF Processed, PollFields, PollInv, PollOK, PollType, Without, PollSlot
<1> HIDE DEF s, new
<1>8. EntryChanged(poll, s, i, new)
  BY <1>4, <1>6, <1>7 DEF EntryChanged
<1>9. /\ PollOK(s) /\ Len(s.set) = n /\ s.set[i].fd = fd
      /\ \A f \in Events : f \in AddedTo(s) <=>
           IF ev_fd[f] = fd THEN f \in {new.evread, new.evwrite} ELSE f \in AddedTo(poll)
  BY <1>3, <1>6, <1>8, EntryChanges DEF PollInv
<1>10. PollOK(poll') /\ AddedTo(poll') = AddedTo(s) /\ poll'.ready = Quiet /\ poll'.active = <<>>
  <2>1. CASE s.set[i].events # {}
    BY <1>1, <1>7, <1>9, <2>1
  <2>2. CASE s.set[i].events = {}
    <3>1. poll' = [s EXCEPT !.set = Drop(@), !.r_back = Drop(@), !.w_back = Drop(@),
                            !.idxplus1 = IF i = n THEN moved
                                         ELSE [moved EXCEPT ![s.set[n].fd] = i]]
      BY <1>1, <2>2
    <3>2. /\ DOMAIN poll' = PollFields /\ poll'.fd_count = s.fd_count
          /\ poll'.set = Drop(s.set) /\ poll'.r_back = Drop(s.r_back)
          /\ poll'.w_back = Drop(s.w_back)
          /\ poll'.idxplus1 = IF i = n THEN moved ELSE [moved EXCEPT ![s.set[n].fd] = i]
          /\ poll'.ready = s.ready /\ poll'.active = s.active
      BY <1>7, <3>1 DEF PollFields
    <3>3. EntryDropped(s, poll', i)
      BY <1>9, <3>2 DEF EntryDropped
    <3> QED
      BY <1>3, <1>7, <1>9, <2>2, <3>2, <3>3, EntryDrops
  <2> QED
    BY <2>1, <2>2
<1>11. AddedTo(poll) = PollAdded /\ PollAdded \subseteq Events
  BY PollAddedIs DEF PollAdded
<1>12. PollInv' /\ PollAdded' = AddedTo(poll')
  <2>1. PollInv'
    BY <1>10 DEF PollInv
  <2>2. (PollInv => PollAdded = AddedTo(poll))'
    BY PollAddedIs, PTL
  <2> QED
    BY <2>1, <2>2
<1>13. \A f \in Events : f \in AddedTo(poll') <=> f # e /\ f \in PollAdded
  BY <1>4, <1>6, <1>9, <1>10, <1>11
<1>14. e \in PollAdded /\ PollAdded' = PollAdded \ {e}
  <2>1. AddedTo(poll') \subseteq Events
    BY DEF AddedTo
  <2> QED
    BY <1>4, <1>5, <1>11, <1>12, <1>13, <2>1
<1> QED
  BY <1>10, <1>12, <1>14
     DEF PollTable!Del, PollTable!Nothing, PollTable!Quiet, PollTable!Fds, Quiet, Fds

\* An entry makes active its events that are due something.
LEMMA PollActivatedFacts ==
  ASSUME PollInv, NEW ready \in Readiness, NEW i \in 1 .. Len(poll.set)
  PROVE  LET a == PollActivated(ready, i)
         IN  /\ DOMAIN a = {e \in PollAdded : ev_fd[e] = poll.set[i].fd /\
                                              Result(ready, e) # {}}
             /\ \A e \in DOMAIN a : a[e] = Result(ready, e)
<1> DEFINE slot == PollSlot(poll, i)
           fd == poll.set[i].fd
           what == Reported(ready[fd], poll.set[i].events)
           res  == IF "ERR" \in what THEN {"READ", "WRITE"} ELSE what
           r == IF "READ" \in res THEN slot.evread ELSE NoEvent
           w == IF "WRITE" \in res THEN slot.evwrite ELSE NoEvent
           on == {x \in {r, w} \ {NoEvent} : res \cap ev_events[x] # {}}
           a == [e \in on |-> res \cap ev_events[e]]
<1>1. PollActivated(ready, i) = a
  BY DEF PollActivated, PollSlot
<1>2. /\ fd \in Fds /\ slot \in Slot /\ SlotOK(fd, slot) /\ poll.set[i].events = Held(slot)
      /\ \A f \in Events : ev_fd[f] = fd =>
           (f \in AddedTo(poll) <=> f \in {slot.evread, slot.evwrite})
  BY EntryFacts DEF PollInv
<1>3. AddedTo(poll) = PollAdded /\ PollAdded \subseteq Events
  BY PollAddedIs DEF PollAdded
<1>4. ready[fd] \in {{}, {"READ"}, {"WRITE"}, {"READ", "WRITE"}, {"ERR"}}
  BY <1>2, ReadinessFacts
<1>5. ASSUME NEW e \in Events, ev_fd[e] = fd, e \in {slot.evread, slot.evwrite}
      PROVE  /\ res \cap ev_events[e] = Result(ready, e)
             /\ Result(ready, e) # {} => e \in {r, w}
  <2>1. ev_events[e] \subseteq Held(slot)
    BY <1>2, <1>5, EventFacts DEF SlotOK, Held
  <2>2. res \cap ev_events[e] = Result(ready, e)
    BY <1>2, <1>4, <1>5, <2>1, EventFacts DEF Result, Reported
  <2>3. /\ "READ" \in ev_events[e] => slot.evread = e
        /\ "WRITE" \in ev_events[e] => slot.evwrite = e
    BY <1>2, <1>5, EventFacts DEF SlotOK
  <2> HIDE DEF res
  <2> QED
    BY <2>2, <2>3, EventFacts
<1> HIDE DEF res
<1>6. \A e \in {r, w} \ {NoEvent} :
        e \in Events /\ e \in {slot.evread, slot.evwrite} /\ ev_fd[e] = fd
  BY <1>2 DEF SlotOK, Slot
<1>7. on = {e \in PollAdded : ev_fd[e] = fd /\ Result(ready, e) # {}}
  <2> HIDE DEF r, w
  <2>1. ASSUME NEW e \in on PROVE e \in PollAdded /\ ev_fd[e] = fd /\ Result(ready, e) # {}
    BY <1>2, <1>3, <1>5, <1>6
  <2>2. ASSUME NEW e \in PollAdded, ev_fd[e] = fd, Result(ready, e) # {} PROVE e \in on
    BY <1>2, <1>3, <1>5, <2>2, EventFacts
  <2> QED
    BY <2>1, <2>2
<1>8. ASSUME NEW e \in on PROVE a[e] = Result(ready, e)
  <2> HIDE DEF r, w
  <2> QED
    BY <1>5, <1>6
<1>9. DOMAIN a = on
  OBVIOUS
<1> HIDE DEF a, on
<1> QED
  BY <1>1, <1>7, <1>8, <1>9

\* poll_dispatch: everything that is due is made active.
LEMMA PollDispatchStep ==
  ASSUME PollInv, NEW ready \in Readiness, PollDispatch(ready)
  PROVE  PollInv' /\ PollTable!Dispatch
<1> DEFINE by  == [i \in DOMAIN poll.set |-> PollActivated(ready, i)]
           due == {e \in PollAdded : Result(ready, e) # {}}
<1>1. /\ poll.ready = Quiet
      /\ poll' = [poll EXCEPT !.ready = ready, !.active = MadeActive(by)]
  BY DEF PollDispatch
<1>2. DOMAIN by = 1 .. Len(poll.set) /\ \A i \in DOMAIN by : by[i] = PollActivated(ready, i)
  BY DEF PollInv, PollOK, PollType
<1> HIDE DEF by
<1>3. /\ DOMAIN poll' = PollFields /\ poll'.fd_count = poll.fd_count /\ poll'.set = poll.set
      /\ poll'.r_back = poll.r_back /\ poll'.w_back = poll.w_back
      /\ poll'.idxplus1 = poll.idxplus1
      /\ poll'.ready = ready /\ poll'.active = MadeActive(by)
  BY <1>1 DEF PollInv, PollOK, PollType, PollFields
<1>4. PollInv' /\ PollAdded' = PollAdded
  <2>1. PollOK(poll')
    BY <1>3, SameTables DEF PollInv
  <2> QED
    BY <1>3, <2>1 DEF PollInv, PollAdded, Index
<1>5. \A i \in DOMAIN by :
        /\ DOMAIN by[i] = {e \in due : ev_fd[e] = poll.set[i].fd}
        /\ \A e \in DOMAIN by[i] : by[i][e] = Result(ready, e)
  <2> SUFFICES ASSUME NEW i \in 1 .. Len(poll.set)
               PROVE  /\ DOMAIN by[i] = {e \in due : ev_fd[e] = poll.set[i].fd}
                      /\ \A e \in DOMAIN by[i] : by[i][e] = Result(ready, e)
    BY <1>2
  <2>1. by[i] = PollActivated(ready, i)
    BY <1>2
  <2>2. /\ DOMAIN by[i] = {e \in PollAdded : ev_fd[e] = poll.set[i].fd /\ Result(ready, e) # {}}
        /\ \A e \in DOMAIN by[i] : by[i][e] = Result(ready, e)
    BY <2>1, PollActivatedFacts
  <2> QED
    BY <2>2
<1>6. \A e \in PollAdded : \E i \in DOMAIN by : poll.set[i].fd = ev_fd[e]
  <2> SUFFICES ASSUME NEW e \in PollAdded
               PROVE  \E i \in 1 .. Len(poll.set) : poll.set[i].fd = ev_fd[e]
    BY <1>2
  <2>1. e \in Events /\ IndexOf(poll, ev_fd[e]) \in 1 .. Len(poll.set)
    BY PollAddedIs DEF AddedTo
  <2>2. ev_fd[e] \in Nat /\ IndexOf(poll, ev_fd[e]) # 0
    BY <2>1, EventFacts
  <2> QED
    BY <2>1, <2>2, IndexFacts DEF PollInv
<1>7. Gives(by, due, ready)
  BY <1>5, <1>6 DEF Gives
<1> HIDE DEF due
<1>8. poll'.active = [e \in due |-> Result(ready, e)]
  BY <1>3, <1>7, MadeActiveIs
<1>9. poll.ready = Quiet /\ poll'.ready \in Readiness /\ DOMAIN poll'.active = due
  BY <1>1, <1>3, <1>8
<1> QED
  BY <1>3, <1>4, <1>8, <1>9
     DEF due, PollTable!Dispatch, PollTable!Due, PollTable!Quiet, PollTable!Fds,
         PollTable!Readiness, Result, Quiet, Fds, Readiness

\* Each step of poll.c keeps its tables in step and is one of FdTable.
LEMMA PollStep ==
  ASSUME PollInv, PollNext
  PROVE  PollInv' /\ PollTable!Next
<1>1. ASSUME NEW s, PollOK(s), s.set = poll.set, s.r_back = poll.r_back,
             s.w_back = poll.w_back, s.fd_count = poll.fd_count, s.idxplus1 = poll.idxplus1,
             poll' = Processed(s)
      PROVE  PollInv' /\ PollTable!Fail
  <2>1. /\ DOMAIN poll' = PollFields /\ poll'.fd_count = poll.fd_count
        /\ poll'.set = poll.set /\ poll'.r_back = poll.r_back /\ poll'.w_back = poll.w_back
        /\ poll'.idxplus1 = poll.idxplus1 /\ poll'.ready = Quiet /\ poll'.active = <<>>
    BY <1>1 DEF Processed, PollFields, PollOK, PollType
  <2>2. PollOK(poll')
    BY <2>1, SameTables DEF PollInv
  <2> QED
    BY <2>1, <2>2 DEF PollInv, PollAdded, Index, PollTable!Fail,
                      PollTable!Nothing, PollTable!Quiet, PollTable!Fds, Quiet, Fds
<1>2. ASSUME poll' = Processed(poll) PROVE PollInv' /\ PollTable!Fail
  BY <1>1, <1>2 DEF PollInv
<1>3. ASSUME poll' = Processed(GrowEntries(poll)) PROVE PollInv' /\ PollTable!Fail
  <2> DEFINE g == GrowEntries(poll)
  <2>1. /\ g.set = poll.set /\ g.r_back = poll.r_back /\ g.w_back = poll.w_back
        /\ g.fd_count = poll.fd_count /\ g.idxplus1 = poll.idxplus1
    BY DEF GrowEntries, PollInv, PollOK, PollType, PollFields
  <2>2. PollOK(g)
    BY GrowEntriesFacts DEF PollInv
  <2> HIDE DEF g
  <2> QED
    BY <1>1, <1>3, <2>1, <2>2 DEF g
<1>4. ASSUME NEW e \in Events, PollAdd(e) \/ PollAddFails(e) \/ PollDel(e)
      PROVE  PollInv' /\ PollTable!Next
  <2>1. CASE PollAddFails(e)
    BY <1>2, <1>3, <2>1 DEF PollAddFails, PollTable!Next
  <2> QED
    BY <1>4, <2>1, PollAddStep, PollDelStep DEF PollTable!Next
<1>5. ASSUME NEW ready \in Readiness, PollDispatch(ready)
      PROVE  PollInv' /\ PollTable!Next
  BY <1>5, PollDispatchStep DEF PollTable!Next
<1> QED
  BY <1>2, <1>4, <1>5 DEF PollNext, PollTable!Next, PollDispatchFails

-----------------------------------------------------------------------------
(* The base works with one of the three; the others are never touched. *)

\* The tables of all three stay in step with what was added.
LEMMA MechanismInvariance == Spec => [](EpollInv /\ PollInv /\ SelectInv)
<1> DEFINE Inv == EpollInv /\ PollInv /\ SelectInv
<1>1. Init => Inv
  BY EpollInitInv, PollInitInv, SelectInitInv DEF Init
<1>2. Inv /\ [Next]_vars => Inv'
  <2> SUFFICES ASSUME Inv, [Next]_vars PROVE Inv'
    OBVIOUS
  <2>1. UNCHANGED epoll => EpollInv'
    BY DEF EpollInv, EpollType, KernelInStep
  <2>2. UNCHANGED poll => PollInv'
    BY DEF PollInv
  <2>3. UNCHANGED select => SelectInv'
    BY DEF SelectInv, SelectType, SelectSlot
  <2> QED
    BY <2>1, <2>2, <2>3, EpollStep, PollStep, SelectStep DEF Next, vars
<1> QED
  BY <1>1, <1>2, PTL DEF Spec

\* The kernel watches what the table of epoll.c has events for, and no more,
\* after any sequence of adds, deletes and failures.
THEOREM KernelAlwaysInStep == Spec => []KernelInStep
<1>1. EpollInv => KernelInStep
  BY DEF EpollInv
<1> QED
  BY <1>1, MechanismInvariance, PTL

\* epoll.c implements what event.c expects of a mechanism.
THEOREM EpollIsTable == Spec => EpollImplements
<1>1. Init => EpollTable!Init
  BY EpollInitInv DEF Init
<1>2. EpollInv /\ [Next]_vars => [EpollTable!Next]_<<EpollAdded, epoll.ready, epoll.active>>
  <2>1. UNCHANGED epoll => UNCHANGED <<EpollAdded, epoll.ready, epoll.active>>
    BY DEF EpollAdded
  <2> QED
    BY <2>1, EpollStep DEF Next, vars
<1> QED
  BY <1>1, <1>2, MechanismInvariance, PTL DEF Spec, EpollImplements, EpollTable!Spec

\* poll.c implements what event.c expects of a mechanism.
THEOREM PollIsTable == Spec => PollImplements
<1>1. Init => PollTable!Init
  BY PollInitInv DEF Init
<1>2. PollInv /\ [Next]_vars => [PollTable!Next]_<<PollAdded, poll.ready, poll.active>>
  <2>1. UNCHANGED poll => UNCHANGED <<PollAdded, poll.ready, poll.active>>
    BY DEF PollAdded, Index
  <2> QED
    BY <2>1, PollStep DEF Next, vars
<1> QED
  BY <1>1, <1>2, MechanismInvariance, PTL DEF Spec, PollImplements, PollTable!Spec

\* select.c implements what event.c expects of a mechanism.
THEOREM SelectIsTable == Spec => SelectImplements
<1>1. Init => SelectTable!Init
  BY SelectInitInv DEF Init
<1>2. SelectInv /\ [Next]_vars => [SelectTable!Next]_<<SelectAdded, select.ready, select.active>>
  <2>1. UNCHANGED select => UNCHANGED <<SelectAdded, select.ready, select.active>>
    BY DEF SelectAdded
  <2> QED
    BY <2>1, SelectStep DEF Next, vars
<1> QED
  BY <1>1, <1>2, MechanismInvariance, PTL DEF Spec, SelectImplements, SelectTable!Spec
=============================================================================
