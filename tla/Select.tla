------------------------------- MODULE Select -------------------------------
(***************************************************************************)
(* select.c: a bit and an event for each descriptor and direction, in      *)
(* arrays that grow with the highest descriptor and never shrink.          *)
(***************************************************************************)
EXTENDS FdEvents

CONSTANT FdsPerMask   \* NFDBITS: descriptors for each word of an fd_set

ASSUME SelectAssumption == FdsPerMask \in Nat \ {0}

VARIABLE select   \* struct selectop and what was made active

\* select_init: room for one word, as 33 descriptors take at most.  fdsz is
\* event_fdsz, counted in descriptors.
SelectNew ==
  LET none == [n \in 0 .. FdsPerMask - 1 |-> NoEvent]
  IN  [event_fds |-> 0, fdsz |-> FdsPerMask, readset |-> {}, writeset |-> {},
       r_by_fd |-> none, w_by_fd |-> none, ready |-> Quiet, active |-> <<>>]

\* select_resize.
Resize(size) ==
  LET Longer(f) == [i \in 0 .. size - 1 |-> IF i < select.fdsz THEN f[i] ELSE NoEvent]
  IN  [select EXCEPT !.fdsz = size, !.r_by_fd = Longer(@), !.w_by_fd = Longer(@)]

\* The sizes select_add asks for: words are doubled when fd is the highest.
SelectSizes(fd) == IF select.event_fds < fd THEN Doubled(select.fdsz, fd) ELSE {select.fdsz}

Highest(a, b) == IF a > b THEN a ELSE b

\* The event has its place to itself.
SelectFree(e) ==
  /\ "READ" \in ev_events[e] => ev_fd[e] \notin select.readset
  /\ "WRITE" \in ev_events[e] => ev_fd[e] \notin select.writeset

\* Mutant: the highest descriptor is the last one.
SelectAddLastFd(e) ==
  \E size \in Doubled(select.fdsz, ev_fd[e]) :
  LET fd == ev_fd[e]
      s  == Resize(size)
  IN  /\ SelectFree(e)
      /\ select' = [Processed(s) EXCEPT
           !.event_fds = fd,
           !.readset = IF "READ" \in ev_events[e] THEN @ \cup {fd} ELSE @,
           !.r_by_fd[fd] = IF "READ" \in ev_events[e] THEN e ELSE @,
           !.writeset = IF "WRITE" \in ev_events[e] THEN @ \cup {fd} ELSE @,
           !.w_by_fd[fd] = IF "WRITE" \in ev_events[e] THEN e ELSE @]

SelectAdd(e) ==
  \E size \in SelectSizes(ev_fd[e]) :
  LET fd == ev_fd[e]
      s  == Resize(size)
  IN  /\ SelectFree(e)
      /\ select' = [Processed(s) EXCEPT
           !.event_fds = Highest(@, fd),
           !.readset = IF "READ" \in ev_events[e] THEN @ \cup {fd} ELSE @,
           !.r_by_fd[fd] = IF "READ" \in ev_events[e] THEN e ELSE @,
           !.writeset = IF "WRITE" \in ev_events[e] THEN @ \cup {fd} ELSE @,
           !.w_by_fd[fd] = IF "WRITE" \in ev_events[e] THEN e ELSE @]

\* One of the reallocs of select_resize fails.
SelectAddFails(e) ==
  /\ SelectFree(e) /\ select.fdsz \notin SelectSizes(ev_fd[e])
  /\ select' = Processed(select)

SelectDel(e) ==
  LET fd == ev_fd[e]
  IN  /\ fd < select.fdsz /\ e \in {select.r_by_fd[fd], select.w_by_fd[fd]}
      /\ select' = [Processed(select) EXCEPT
           !.readset = IF "READ" \in ev_events[e] THEN @ \ {fd} ELSE @,
           !.r_by_fd[fd] = IF "READ" \in ev_events[e] THEN NoEvent ELSE @,
           !.writeset = IF "WRITE" \in ev_events[e] THEN @ \ {fd} ELSE @,
           !.w_by_fd[fd] = IF "WRITE" \in ev_events[e] THEN NoEvent ELSE @]

\* select(2) looks at the descriptors below event_fds + 1.  A descriptor in
\* error is ready for all.
Polled(ready, set, what) ==
  {fd \in set : fd <= select.event_fds /\ ready[fd] \cap {what, "ERR"} # {}}

\* What descriptor i makes active; the order of the descriptors is random.
SelectActivated(ready, i) ==
  LET res == (IF i \in Polled(ready, select.readset, "READ") THEN {"READ"} ELSE {}) \cup
             (IF i \in Polled(ready, select.writeset, "WRITE") THEN {"WRITE"} ELSE {})
      r == IF "READ" \in res THEN select.r_by_fd[i] ELSE NoEvent
      w == IF "WRITE" \in res THEN select.w_by_fd[i] ELSE NoEvent
  IN  [e \in {x \in {r, w} \ {NoEvent} : res \cap ev_events[x] # {}} |->
         res \cap ev_events[e]]

SelectDispatch(ready) ==
  /\ select.ready = Quiet
  /\ select' = [select EXCEPT
       !.ready = ready,
       !.active = MadeActive([i \in 0 .. select.event_fds |-> SelectActivated(ready, i)])]

SelectDispatchFails == select' = Processed(select)

SelectNext ==
  \/ \E e \in Events : SelectAdd(e) \/ SelectAddFails(e) \/ SelectDel(e)
  \/ \E ready \in Readiness : SelectDispatch(ready)
  \/ SelectDispatchFails

-----------------------------------------------------------------------------
SelectAdded == {e \in Events : ev_fd[e] < select.fdsz /\
                  e \in {select.r_by_fd[ev_fd[e]], select.w_by_fd[ev_fd[e]]}}
SelectTable == INSTANCE FdTable WITH added <- SelectAdded, ready <- select.ready,
                                      active <- select.active

\* select.c keeps the promise of a mechanism: the highest descriptor covers
\* every event, whichever order they are added and deleted in.
SelectImplements == SelectTable!Spec
=============================================================================
