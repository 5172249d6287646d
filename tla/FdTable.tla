------------------------------- MODULE FdTable -------------------------------
(***************************************************************************)
(* What a mechanism promises event.c (struct eventop): it keeps a set of   *)
(* events, and dispatch makes active events of that set, each for what it  *)
(* waits for and its descriptor is ready for, or for all it waits for when *)
(* the descriptor is in error.  It may leave descriptors for the next      *)
(* dispatch, not all of them, and it takes each one whole.                 *)
(***************************************************************************)
EXTENDS FdEvents

VARIABLES
  added,    \* the events the mechanism has
  ready,    \* what the descriptors were ready for in the last dispatch
  active    \* what it passed to event_active: a function from event to result

\* The result an event is due.
Due(state, e) ==
  IF "ERR" \in state[ev_fd[e]] THEN ev_events[e] ELSE ev_events[e] \cap state[ev_fd[e]]

Init == added = {} /\ ready = Quiet /\ active = <<>>

Nothing == ready' = Quiet /\ active' = <<>>

Add(e) ==
  /\ e \notin added /\ \A f \in added : ~Clash(e, f)
  /\ added' = added \cup {e}
  /\ Nothing

Del(e) ==
  /\ e \in added
  /\ added' = added \ {e}
  /\ Nothing

Dispatch ==
  LET due == {e \in added : Due(ready', e) # {}}
      got == DOMAIN active'
  IN  /\ ready = Quiet /\ ready' \in Readiness
      /\ got \subseteq due /\ (due # {} => got # {})
      /\ \A e \in got, f \in due : ev_fd[e] = ev_fd[f] => f \in got
      /\ active' = [e \in got |-> Due(ready', e)]
      /\ UNCHANGED added

\* A call fails, or the base has processed what was active.
Fail == Nothing /\ UNCHANGED added

Next == (\E e \in Events : Add(e) \/ Del(e)) \/ Dispatch \/ Fail
Spec == Init /\ [][Next]_<<added, ready, active>>
==============================================================================
