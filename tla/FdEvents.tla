------------------------------ MODULE FdEvents ------------------------------
(***************************************************************************)
(* The events on descriptors that event.c hands to a mechanism (struct     *)
(* event, ev_fd and ev_events) and what a kernel may say of a descriptor.  *)
(***************************************************************************)
EXTENDS Integers, FiniteSets

CONSTANTS
  Events,      \* events that may be added
  ev_fd,       \* the descriptor of each, a small number
  ev_events,   \* what each waits for: a set of "READ", "WRITE"
  NoEvent      \* NULL

Fds == {ev_fd[e] : e \in Events}

ASSUME FdEventsAssumption ==
  /\ IsFiniteSet(Events) /\ NoEvent \notin Events
  /\ \A e \in Events : ev_fd[e] \in Nat
  /\ \A e \in Events : ev_events[e] \in (SUBSET {"READ", "WRITE"}) \ {{}}

\* A state of the descriptors: ready for something, or in error.
Readiness == [Fds -> {{}, {"READ"}, {"WRITE"}, {"READ", "WRITE"}, {"ERR"}}]
Quiet == [fd \in Fds |-> {}]

\* The record of a mechanism once event_process_active has seen to what the
\* last dispatch made active, which event_base_loop does before the next one.
Processed(s) == [s EXCEPT !.ready = Quiet, !.active = <<>>]

\* Two events that want the same of the same descriptor.  User code adds no
\* two such events: a mechanism keeps one event for each.
Clash(e, f) == e # f /\ ev_fd[e] = ev_fd[f] /\ ev_events[e] \cap ev_events[f] # {}

\* What a descriptor is reported for to one who asked for wanted.
Reported(ready, wanted) == ready \cap (wanted \cup {"ERR"})

\* The size that n is doubled to until it is above fd: n, or the one power of
\* two times n between fd and twice fd.
Doubled(n, fd) ==
  IF fd < n THEN {n} ELSE {m \in fd + 1 .. 2 * fd : \E j \in 1 .. fd : m = n * 2^j}

\* event_active for each entry i of a dispatch and each event of by[i]: a
\* result that comes again is added to the one there is.
MadeActive(by) ==
  [e \in UNION {DOMAIN by[i] : i \in DOMAIN by} |->
     UNION {by[i][e] : i \in {j \in DOMAIN by : e \in DOMAIN by[j]}}]
=============================================================================
