-------------------------------- MODULE Poll --------------------------------
(***************************************************************************)
(* poll.c: an array without holes for poll(2), two arrays of events beside *)
(* it, and an index by descriptor; an entry that is deleted is filled with *)
(* the last one.                                                           *)
(***************************************************************************)
EXTENDS FdEvents, Sequences

CONSTANT MinCount   \* the least size of the arrays, 32 in poll.c

ASSUME PollAssumption == MinCount \in Nat \ {0, 1}

VARIABLE poll   \* struct pollop and what was made active

\* poll_init.  set is event_set up to nfds; r_back and w_back are event_r_back
\* and event_w_back; idxplus1 is idxplus1_by_fd.
PollNew == [event_count |-> 0, set |-> <<>>, r_back |-> <<>>, w_back |-> <<>>,
            fd_count |-> 0, idxplus1 |-> [n \in {} |-> 0], ready |-> Quiet, active |-> <<>>]

Index(fd) == IF fd < poll.fd_count THEN poll.idxplus1[fd] ELSE 0

\* The arrays of entries have room for one more.
GrowEntries(s) ==
  IF Len(s.set) + 1 < s.event_count THEN s
  ELSE [s EXCEPT !.event_count = IF @ < MinCount THEN MinCount ELSE 2 * @]

\* The sizes of an index that has fd.
IndexSizes(fd) ==
  IF fd < poll.fd_count THEN {poll.fd_count}
  ELSE Doubled(IF poll.fd_count < MinCount THEN MinCount ELSE 2 * poll.fd_count, fd)

GrowIndex(s, size) ==
  [s EXCEPT !.fd_count = size,
            !.idxplus1 = [i \in 0 .. size - 1 |-> IF i < s.fd_count THEN s.idxplus1[i] ELSE 0]]

\* The entry of fd, made if there is none.
WithEntry(s, fd) ==
  IF s.idxplus1[fd] > 0 THEN s
  ELSE [s EXCEPT !.set = Append(@, [fd |-> fd, events |-> {}]),
                 !.r_back = Append(@, NoEvent), !.w_back = Append(@, NoEvent),
                 !.idxplus1[fd] = Len(s.set) + 1]

\* The event has its place to itself.
PollFree(e) ==
  Index(ev_fd[e]) > 0 => poll.set[Index(ev_fd[e])].events \cap ev_events[e] = {}

PollAdd(e) ==
  \E size \in IndexSizes(ev_fd[e]) :
  LET s == WithEntry(GrowIndex(GrowEntries(poll), size), ev_fd[e])
      i == s.idxplus1[ev_fd[e]]
  IN  /\ PollFree(e)
      /\ poll' = [Processed(s) EXCEPT !.set[i].events = @ \cup ev_events[e],
                           !.r_back[i] = IF "READ" \in ev_events[e] THEN e ELSE @,
                           !.w_back[i] = IF "WRITE" \in ev_events[e] THEN e ELSE @]

\* realloc fails: at once, or for the index when the entries have room.
PollAddFails(e) ==
  /\ PollFree(e)
  /\ \/ GrowEntries(poll) # poll /\ poll' = Processed(poll)
     \/ /\ ev_fd[e] >= poll.fd_count
        /\ poll' = Processed(GrowEntries(poll))

\* Mutant: the entry that is moved keeps its old index.
PollDelStaleIndex(e) ==
  LET i == Index(ev_fd[e])
      n == Len(poll.set)
      s == [Processed(poll) EXCEPT !.set[i].events = @ \ ev_events[e],
                        !.r_back[i] = IF "READ" \in ev_events[e] THEN NoEvent ELSE @,
                        !.w_back[i] = IF "WRITE" \in ev_events[e] THEN NoEvent ELSE @]
      Drop(seq) == SubSeq([seq EXCEPT ![i] = seq[n]], 1, n - 1)
  IN  /\ i > 0 /\ e \in {poll.r_back[i], poll.w_back[i]}
      /\ poll' = IF s.set[i].events # {} THEN s
                 ELSE [s EXCEPT !.set = Drop(@), !.r_back = Drop(@), !.w_back = Drop(@),
                                !.idxplus1 = [@ EXCEPT ![ev_fd[e]] = 0]]

PollDel(e) ==
  LET i == Index(ev_fd[e])
      n == Len(poll.set)
      s == [Processed(poll) EXCEPT !.set[i].events = @ \ ev_events[e],
                        !.r_back[i] = IF "READ" \in ev_events[e] THEN NoEvent ELSE @,
                        !.w_back[i] = IF "WRITE" \in ev_events[e] THEN NoEvent ELSE @]
      Drop(seq) == SubSeq([seq EXCEPT ![i] = seq[n]], 1, n - 1)
      moved == [s.idxplus1 EXCEPT ![ev_fd[e]] = 0]
  IN  /\ i > 0 /\ e \in {poll.r_back[i], poll.w_back[i]}
      /\ poll' = IF s.set[i].events # {} THEN s
                 ELSE [s EXCEPT !.set = Drop(@), !.r_back = Drop(@), !.w_back = Drop(@),
                                !.idxplus1 = IF i = n THEN moved
                                             ELSE [moved EXCEPT ![s.set[n].fd] = i]]

\* What the entry at i makes active; the order of the entries is random.
PollActivated(ready, i) ==
  LET what == Reported(ready[poll.set[i].fd], poll.set[i].events)
      res  == IF "ERR" \in what THEN {"READ", "WRITE"} ELSE what
      r == IF "READ" \in res THEN poll.r_back[i] ELSE NoEvent
      w == IF "WRITE" \in res THEN poll.w_back[i] ELSE NoEvent
  IN  [e \in {x \in {r, w} \ {NoEvent} : res \cap ev_events[x] # {}} |->
         res \cap ev_events[e]]

PollDispatch(ready) ==
  /\ poll.ready = Quiet
  /\ poll' = [poll EXCEPT
       !.ready = ready,
       !.active = MadeActive([i \in DOMAIN poll.set |-> PollActivated(ready, i)])]

PollDispatchFails == poll' = Processed(poll)

PollNext ==
  \/ \E e \in Events : PollAdd(e) \/ PollAddFails(e) \/ PollDel(e)
  \/ \E ready \in Readiness : PollDispatch(ready)
  \/ PollDispatchFails

-----------------------------------------------------------------------------
PollAdded == {e \in Events : Index(ev_fd[e]) \in DOMAIN poll.set /\
                e \in {poll.r_back[Index(ev_fd[e])], poll.w_back[Index(ev_fd[e])]}}
PollTable == INSTANCE FdTable WITH added <- PollAdded, ready <- poll.ready,
                                    active <- poll.active

\* poll.c keeps the promise of a mechanism, whichever entries are deleted and
\* moved, and whichever of its arrays has grown when memory runs out.
PollImplements == PollTable!Spec
=============================================================================
