----------------------------- MODULE Mechanisms -----------------------------
(***************************************************************************)
(* event_base_new takes the first mechanism of eventops whose init         *)
(* succeeds, and the base works with that one from then on.                *)
(***************************************************************************)
EXTENDS Epoll, Poll, Select

VARIABLE evsel   \* the mechanism of the base

vars == <<evsel, epoll, poll, select>>

\* eventops of event.c, in their order.  Each of them but the last may be
\* unavailable: an environment variable, the kernel, no memory.
Init ==
  /\ evsel \in {"epoll", "poll", "select"}
  /\ epoll = EpollNew /\ poll = PollNew /\ select = SelectNew

Next ==
  \/ evsel = "epoll" /\ EpollNext /\ UNCHANGED <<evsel, poll, select>>
  \/ evsel = "poll" /\ PollNext /\ UNCHANGED <<evsel, epoll, select>>
  \/ evsel = "select" /\ SelectNext /\ UNCHANGED <<evsel, epoll, poll>>

Spec == Init /\ [][Next]_vars
=============================================================================
