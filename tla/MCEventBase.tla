---------------------------- MODULE MCEventBase ----------------------------
(***************************************************************************)
(* EventBase on small instances.  Of the events a program can have, each   *)
(* instance takes the ones whose interplay its properties are about.       *)
(***************************************************************************)
EXTENDS EventBase

CONSTANTS
  io,   \* read, one shot
  pw,   \* write, persistent
  sg,   \* signal, persistent
  s1,   \* signal, one shot
  tm,   \* a timer (evtimer_set; also what event_base_loopexit makes)
  rd    \* event_base_once(EV_READ)

MCEvEvents ==
  [e \in AllEvents |->
     CASE e \in {io, rd} -> {"READ"}
       [] e = pw         -> {"WRITE", "PERSIST"}
       [] e = sg         -> {"SIGNAL", "PERSIST"}
       [] e = s1         -> {"SIGNAL"}
       [] e = SigEv      -> {"READ", "PERSIST"}
       [] OTHER          -> {}]
=============================================================================
