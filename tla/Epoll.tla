-------------------------------- MODULE Epoll --------------------------------
(***************************************************************************)
(* epoll.c: a table by descriptor with a reader and a writer each, and the *)
(* kernel's own set, which epoll_ctl must keep in step with the table.     *)
(***************************************************************************)
EXTENDS FdEvents

CONSTANTS
  InitialNfiles,              \* INITIAL_NFILES
  InitialNevents, MaxNevents  \* INITIAL_NEVENTS, MAX_NEVENTS

ASSUME EpollAssumption ==
  /\ InitialNfiles \in Nat \ {0} /\ InitialNevents \in Nat \ {0} /\ MaxNevents \in Nat

VARIABLE epoll   \* struct epollop, the kernel's set and what was made active

NoSlot == [evread |-> NoEvent, evwrite |-> NoEvent]

\* epoll_init
EpollNew ==
  [fds |-> [n \in 0 .. InitialNfiles - 1 |-> NoSlot], nfds |-> InitialNfiles,
   nevents |-> InitialNevents,
   kernel |-> [n \in Fds |-> {}],   \* what epfd watches a descriptor for
   ready |-> Quiet, active |-> <<>>]

\* epoll_recalc: the table with size entries.
Recalc(size) ==
  [epoll EXCEPT !.nfds = size,
                !.fds = [i \in 0 .. size - 1 |-> IF i < epoll.nfds THEN epoll.fds[i] ELSE NoSlot]]

Held(slot) == (IF slot.evread # NoEvent THEN {"READ"} ELSE {}) \cup
              (IF slot.evwrite # NoEvent THEN {"WRITE"} ELSE {})

\* epoll_ctl adds what is not watched and modifies what is; else it fails.
CtlRefuses(op, fd) ==
  \/ op = "ADD" /\ epoll.kernel[fd] # {}
  \/ op # "ADD" /\ epoll.kernel[fd] = {}

\* Mutant: the interest of the other event of the descriptor is left out.
EpollAddAlone(e) ==
  \E size \in Doubled(epoll.nfds, ev_fd[e]) :
  LET fd == ev_fd[e]
      s  == Recalc(size)
      slot == s.fds[fd]
      op == IF Held(slot) = {} THEN "ADD" ELSE "MOD"
  IN  /\ ~CtlRefuses(op, fd)
      /\ Held(slot) \cap ev_events[e] = {}
      /\ epoll' = [Processed(s) EXCEPT
           !.fds[fd] = [evread  |-> IF "READ" \in ev_events[e] THEN e ELSE @.evread,
                        evwrite |-> IF "WRITE" \in ev_events[e] THEN e ELSE @.evwrite],
           !.kernel[fd] = ev_events[e]]

EpollAdd(e) ==
  \E size \in Doubled(epoll.nfds, ev_fd[e]) :
  LET fd == ev_fd[e]
      s  == Recalc(size)
      slot == s.fds[fd]
      op == IF Held(slot) = {} THEN "ADD" ELSE "MOD"
  IN  /\ ~CtlRefuses(op, fd)
      /\ Held(slot) \cap ev_events[e] = {}
      /\ epoll' = [Processed(s) EXCEPT
           !.fds[fd] = [evread  |-> IF "READ" \in ev_events[e] THEN e ELSE @.evread,
                        evwrite |-> IF "WRITE" \in ev_events[e] THEN e ELSE @.evwrite],
           !.kernel[fd] = Held(slot) \cup ev_events[e]]

\* realloc fails, or, after the table has grown, epoll_ctl does.
EpollAddFails(e) ==
  /\ ev_fd[e] < epoll.nfds => Held(epoll.fds[ev_fd[e]]) \cap ev_events[e] = {}
  /\ \E size \in {epoll.nfds} \cup Doubled(epoll.nfds, ev_fd[e]) :
       epoll' = Processed(Recalc(size))

\* Mutant: the other event of the descriptor is forgotten.
EpollDelBoth(e) ==
  LET fd == ev_fd[e]
  IN  /\ fd < epoll.nfds /\ e \in {epoll.fds[fd].evread, epoll.fds[fd].evwrite}
      /\ epoll' = [Processed(epoll) EXCEPT !.fds[fd] = NoSlot, !.kernel[fd] = {}]

EpollDel(e) ==
  LET fd   == ev_fd[e]
      slot == epoll.fds[fd]
      keepWrite == ev_events[e] = {"READ"} /\ slot.evwrite # NoEvent
      keepRead  == ev_events[e] = {"WRITE"} /\ slot.evread # NoEvent
      interest  == CASE keepWrite -> {"WRITE"} [] keepRead -> {"READ"} [] OTHER -> {}
      left == [evread  |-> IF keepRead THEN slot.evread ELSE NoEvent,
               evwrite |-> IF keepWrite THEN slot.evwrite ELSE NoEvent]
  IN  /\ fd < epoll.nfds /\ e \in {slot.evread, slot.evwrite}
      /\ epoll' = [Processed(epoll) EXCEPT
           !.fds[fd] = left,
           !.kernel[fd] = IF CtlRefuses("MOD", fd) THEN @ ELSE interest]

\* What one entry of the array of epoll_wait makes active.
Activated(ready, fd) ==
  LET what == Reported(ready[fd], epoll.kernel[fd])
      r == IF what \cap {"READ", "ERR"} # {} THEN epoll.fds[fd].evread ELSE NoEvent
      w == IF what \cap {"WRITE", "ERR"} # {} THEN epoll.fds[fd].evwrite ELSE NoEvent
  IN  [e \in {r, w} \ {NoEvent} |->
         (IF e = r THEN {"READ"} ELSE {}) \cup (IF e = w THEN {"WRITE"} ELSE {})]

\* epoll_wait fills at most nevents entries; a full array doubles for the next
\* call if there is memory (grow).
EpollDispatch(ready, grow) ==
  LET watched == {fd \in Fds : epoll.kernel[fd] # {} /\
                               Reported(ready[fd], epoll.kernel[fd]) # {}}
      Least(a, b) == IF a < b THEN a ELSE b
      res  == Least(Cardinality(watched), epoll.nevents)
      full == res = epoll.nevents /\ epoll.nevents < MaxNevents
  IN  \E got \in SUBSET watched :
        /\ epoll.ready = Quiet /\ Cardinality(got) = res
        /\ epoll' = [epoll EXCEPT
             !.ready = ready, !.active = MadeActive([fd \in got |-> Activated(ready, fd)]),
             !.nevents = IF full /\ grow THEN 2 * @ ELSE @]

\* epoll_wait is interrupted by a signal or fails, or the base has processed
\* what was active.
EpollDispatchFails == epoll' = Processed(epoll)

EpollNext ==
  \/ \E e \in Events : EpollAdd(e) \/ EpollAddFails(e) \/ EpollDel(e)
  \/ \E ready \in Readiness, grow \in BOOLEAN : EpollDispatch(ready, grow)
  \/ EpollDispatchFails

-----------------------------------------------------------------------------
EpollAdded == {e \in Events : ev_fd[e] < epoll.nfds /\
                 e \in {epoll.fds[ev_fd[e]].evread, epoll.fds[ev_fd[e]].evwrite}}
EpollTable == INSTANCE FdTable WITH added <- EpollAdded, ready <- epoll.ready,
                                     active <- epoll.active

\* epoll.c keeps the promise of a mechanism: through growth of both its arrays,
\* deletion of one of two events of a descriptor, and calls that fail.
EpollImplements == EpollTable!Spec

\* The kernel watches exactly what the table has events for, so that nothing
\* is missed and nothing is reported again and again to nobody.
KernelInStep ==
  \A fd \in Fds : epoll.kernel[fd] = IF fd < epoll.nfds THEN Held(epoll.fds[fd]) ELSE {}
==============================================================================
