------------------------------ MODULE EvSignal ------------------------------
(***************************************************************************)
(* Signal handling: signal.c and the part of epoll_dispatch that calls it. *)
(*                                                                         *)
(* The signal handler interrupts the thread of the event loop between any  *)
(* two of its steps.  It counts the signal and sends a byte through a      *)
(* socket pair whose other end the loop watches with the internal event    *)
(* ev_signal.  Actions are steps of the thread, except Deliver, which is   *)
(* one run of the handler: sigfillset keeps other signals away from it.    *)
(***************************************************************************)
EXTENDS Naturals, FiniteSets

CONSTANTS
  NSIG,        \* signals are 1 .. NSIG - 1
  Events,      \* the signal events user code owns
  EventSignal, \* EVENT_SIGNAL(ev): the signal each event waits for
  Persistent,  \* the events with EV_PERSIST
  PipeSize,    \* the bytes the socket pair holds before send fails
  MaxSignals,  \* bound on the signals delivered
  MaxOps,      \* bound on the calls user code makes
  AddMayFail   \* may evsel->add of ev_signal fail?

Signals == 1 .. NSIG - 1

ASSUME SignalAssumption ==
  /\ NSIG \in Nat \ {0} /\ EventSignal \in [Events -> Signals]
  /\ Persistent \subseteq Events /\ IsFiniteSet(Events)
  /\ PipeSize \in Nat \ {0, 1}
  /\ MaxSignals \in Nat /\ MaxOps \in Nat /\ AddMayFail \in BOOLEAN

VARIABLES
  disposition,    \* of each signal, in the kernel: "other" or "evsignal_handler"
  sh_old,         \* the saved disposition, or "null"
  evsigevents,    \* the events on the list of each signal
  ev_signal_added,
  evsignal_base,  \* "null", "base", or "dangling": it points to a freed base
  evsigcaught, evsignal_caught,
  pipe,           \* bytes in the socket pair
  active,         \* signal events on the active queue
  evSignalActive, \* ev_signal is on the active queue
  pc,             \* where the thread is
  adding, ret,    \* the event evsignal_add has installed a handler for, if
                  \* any, and the place it returns to
  i, ncalls, tmp, \* locals of evsignal_process; tmp holds the load of "-="
  interrupted,    \* a signal arrived during epoll_wait
  owed,           \* history: events a signal was caught for, not active since
  sent, ops

sigVars  == <<disposition, sh_old, evsigevents, ev_signal_added, evsignal_base>>
caught   == <<evsigcaught, evsignal_caught>>
locals   == <<i, ncalls, tmp>>
adds     == <<adding, ret>>
vars == <<disposition, sh_old, evsigevents, ev_signal_added, evsignal_base,
          evsigcaught, evsignal_caught, pipe, active, evSignalActive, pc,
          adding, ret, i, ncalls, tmp, interrupted, owed, sent, ops>>

-----------------------------------------------------------------------------
(* The handler.                                                            *)

\* Mutant: the byte that wakes up the loop is not sent.
DeliverSilently(s) ==
  /\ sent < MaxSignals
  /\ disposition[s] = "evsignal_handler" /\ evsignal_base # "null"
  /\ evsigcaught' = [evsigcaught EXCEPT ![s] = @ + 1]
  /\ evsignal_caught' = TRUE
  /\ interrupted' = (interrupted \/ pc = "wait")
  /\ owed' = owed \cup evsigevents[s]
  /\ sent' = sent + 1
  /\ UNCHANGED <<sigVars, pipe, active, evSignalActive, pc, adds, locals, ops>>

\* evsignal_handler runs; a signal with another disposition is not ours.
\* Without a base it returns.  What it writes through a dangling pointer ends
\* up in the new base, if that has the address of the old one, or elsewhere.
Deliver(s) ==
  /\ sent < MaxSignals
  /\ disposition[s] = "evsignal_handler"
  /\ \/ /\ evsignal_base # "null"
        /\ evsigcaught' = [evsigcaught EXCEPT ![s] = @ + 1]
        /\ evsignal_caught' = TRUE
        /\ pipe' = IF pipe < PipeSize THEN pipe + 1 ELSE pipe
     \/ /\ evsignal_base # "base"
        /\ UNCHANGED <<caught, pipe>>
  /\ interrupted' = (interrupted \/ pc = "wait")
  /\ owed' = owed \cup evsigevents[s]
  /\ sent' = sent + 1
  /\ UNCHANGED <<sigVars, active, evSignalActive, pc, adds, locals, ops>>

-----------------------------------------------------------------------------
(* Calls of user code, outside of the loop or in a callback.               *)

UserCode ==
  /\ pc \in {"idle", "callback"}
  /\ ops < MaxOps
  /\ ops' = ops + 1

Registered(e) == e \in evsigevents[EventSignal[e]]

\* evsignal_add, from event_add of an event that is neither added nor active,
\* up to sigaction in _evsignal_set_handler, which a signal may follow at once.
\* If that fails, or there is no memory for it, no disposition is saved.
evsignal_add(e, ok) ==
  LET s == EventSignal[e]
  IN  /\ UserCode
      /\ ~Registered(e) /\ e \notin active
      /\ \/ /\ evsigevents[s] # {} /\ ok
            /\ evsigevents' = [evsigevents EXCEPT ![s] = @ \cup {e}]
            /\ UNCHANGED <<disposition, sh_old, adding, ret, pc>>
         \/ /\ evsigevents[s] = {} /\ ~ok
            /\ sh_old' = [sh_old EXCEPT ![s] = "null"]
            /\ UNCHANGED <<disposition, evsigevents, adding, ret, pc>>
         \/ /\ evsigevents[s] = {} /\ ok
            /\ sh_old' = [sh_old EXCEPT ![s] = disposition[s]]
            /\ disposition' = [disposition EXCEPT ![s] = "evsignal_handler"]
            /\ adding' = {e} /\ ret' = pc /\ pc' = "adding"
            /\ UNCHANGED evsigevents
      /\ UNCHANGED <<ev_signal_added, evsignal_base, caught, pipe, active,
                     evSignalActive, locals, interrupted, owed, sent>>

\* evsignal_add goes on: it sets evsignal_base and, the first time, calls
\* event_add(&sig->ev_signal), which may fail.
AddFinish(ok) ==
  /\ pc = "adding"
  /\ ok \/ (AddMayFail /\ ~ev_signal_added)
  /\ evsignal_base' = "base"
  /\ ev_signal_added' = (ev_signal_added \/ ok)
  /\ evsigevents' = [s \in Signals |->
                       evsigevents[s] \cup {e \in adding : ok /\ EventSignal[e] = s}]
  /\ pc' = ret /\ adding' = {} /\ ret' = "idle"
  /\ UNCHANGED <<disposition, sh_old, caught, pipe, active, evSignalActive, locals,
                 interrupted, owed, sent, ops>>

\* Mutant: the handler stays when the last event of the signal goes.
RemoveKeepsHandler(e) ==
  /\ evsigevents' = [evsigevents EXCEPT ![EventSignal[e]] = @ \ {e}]
  /\ UNCHANGED <<disposition, sh_old>>

\* evsignal_del: the last event of a signal restores the old disposition.
Remove(e) ==
  LET s == EventSignal[e]
  IN  /\ evsigevents' = [evsigevents EXCEPT ![s] = @ \ {e}]
      /\ IF Registered(e) /\ evsigevents[s] = {e}
         THEN /\ disposition' = [disposition EXCEPT ![s] = sh_old[s]]
              /\ sh_old' = [sh_old EXCEPT ![s] = "null"]
         ELSE UNCHANGED <<disposition, sh_old>>

\* event_del of a signal event.
evsignal_del(e) ==
  /\ UserCode
  /\ Remove(e)
  /\ active' = active \ {e}
  /\ owed' = owed \ {e}
  /\ UNCHANGED <<ev_signal_added, evsignal_base, caught, pipe, evSignalActive, pc,
                 adds, locals, interrupted, sent>>

\* _evsignal_restore_handler for every signal that has a saved disposition.
Restored == [s \in Signals |-> IF sh_old[s] = "null" THEN disposition[s] ELSE sh_old[s]]

\* event_base_free: the events are deleted, then evsignal_dealloc.
\* evsignal_base keeps its value.
EventBaseFree ==
  /\ UserCode
  /\ pc = "idle"
  /\ disposition' = Restored
  /\ sh_old' = [s \in Signals |-> "null"]
  /\ evsigevents' = [s \in Signals |-> {}]
  /\ ev_signal_added' = FALSE
  /\ evsignal_base' = IF evsignal_base = "base" THEN "dangling" ELSE evsignal_base
  /\ active' = {} /\ evSignalActive' = FALSE /\ owed' = {}
  /\ pc' = "freed"
  /\ UNCHANGED <<caught, pipe, adds, locals, interrupted, sent>>

\* event_base_new: evsignal_init.
EventBaseNew ==
  /\ pc = "freed"
  /\ evsigcaught' = [s \in Signals |-> 0]
  /\ evsignal_caught' = FALSE
  /\ pipe' = 0
  /\ pc' = "idle"
  /\ UNCHANGED <<sigVars, active, evSignalActive, adds, locals, interrupted, owed,
                 sent, ops>>

\* event_reinit in the child after a fork: evsignal_dealloc restores the
\* handlers, evsignal_init starts from nothing, and evsignal_add is called
\* for the events again.  What was caught before was sent to the parent.
EventReinit ==
  /\ UserCode
  /\ pc = "idle"
  /\ disposition' = [s \in Signals |->
                       IF evsigevents[s] # {} THEN "evsignal_handler" ELSE Restored[s]]
  /\ sh_old' = [s \in Signals |-> IF evsigevents[s] # {} THEN Restored[s] ELSE "null"]
  /\ ev_signal_added' = (\E s \in Signals : evsigevents[s] # {})
  /\ evsigcaught' = [s \in Signals |-> 0]
  /\ evsignal_caught' = FALSE
  /\ pipe' = 0
  /\ evSignalActive' = FALSE
  /\ owed' = {}
  /\ evsignal_base' = IF \E s \in Signals : evsigevents[s] # {} THEN "base"
                      ELSE evsignal_base
  /\ UNCHANGED <<evsigevents, active, pc, adds, locals, interrupted, sent>>

-----------------------------------------------------------------------------
(* The loop, as far as signals are concerned.                              *)

LoopUnchanged == UNCHANGED <<adds, sent, ops>>

\* event_base_loop is called, or begins its next iteration.
EnterWait ==
  /\ pc \in {"idle", "active"}
  /\ pc = "active" => active = {} /\ ~evSignalActive
  /\ evsignal_base' = IF ev_signal_added THEN "base" ELSE evsignal_base
  /\ interrupted' = FALSE
  /\ pc' = "wait"
  /\ LoopUnchanged
  /\ UNCHANGED <<disposition, sh_old, evsigevents, ev_signal_added, caught, pipe,
                 active, evSignalActive, locals, owed>>

\* event_base_loop returns.
LoopEnds ==
  /\ pc = "active" /\ active = {} /\ ~evSignalActive
  /\ pc' = "idle"
  /\ LoopUnchanged
  /\ UNCHANGED <<sigVars, caught, pipe, active, evSignalActive, locals, interrupted,
                 owed>>

\* epoll_wait returns -1 with EINTR.
WaitInterrupted ==
  /\ pc = "wait" /\ interrupted
  /\ pc' = "process"
  /\ LoopUnchanged
  /\ UNCHANGED <<sigVars, caught, pipe, active, evSignalActive, locals, interrupted,
                 owed>>

\* epoll_wait returns, perhaps for the sake of other events, and reports
\* ev_signal if there is a byte to read.  The flag is tested afterwards, and
\* ev_signal becomes active after the events of the signals.
WaitReturns ==
  /\ pc = "wait"
  /\ evSignalActive' = (ev_signal_added /\ pipe > 0)
  /\ pc' = "check"
  /\ LoopUnchanged
  /\ UNCHANGED <<sigVars, caught, pipe, active, locals, interrupted, owed>>

Check ==
  /\ pc = "check"
  /\ pc' = IF evsignal_caught THEN "process" ELSE "active"
  /\ LoopUnchanged
  /\ UNCHANGED <<sigVars, caught, pipe, active, evSignalActive, locals, interrupted,
                 owed>>

\* evsignal_process: the flag is cleared before the counters are scanned.
Process ==
  /\ pc = "process"
  /\ evsignal_caught' = FALSE
  /\ i' = 1
  /\ pc' = "scan"
  /\ LoopUnchanged
  /\ UNCHANGED <<sigVars, evsigcaught, pipe, active, evSignalActive, ncalls, tmp,
                 interrupted, owed>>

\* "ncalls = sig->evsigcaught[i]"
Scan ==
  /\ pc = "scan" /\ i \in Signals
  /\ ncalls' = evsigcaught[i]
  /\ IF evsigcaught[i] = 0 THEN i' = i + 1 /\ pc' = "scan"
     ELSE i' = i /\ pc' = "load"
  /\ LoopUnchanged
  /\ UNCHANGED <<sigVars, caught, pipe, active, evSignalActive, tmp, interrupted,
                 owed>>

\* Mutant: the flag is cleared when the scan is done.
ScanEndClearsFlag ==
  /\ pc = "scan" /\ i = NSIG
  /\ evsignal_caught' = FALSE
  /\ pc' = "active"
  /\ LoopUnchanged
  /\ UNCHANGED <<sigVars, evsigcaught, pipe, active, evSignalActive, locals,
                 interrupted, owed>>

ScanEnd ==
  /\ pc = "scan" /\ i = NSIG
  /\ pc' = "active"
  /\ LoopUnchanged
  /\ UNCHANGED <<sigVars, caught, pipe, active, evSignalActive, locals, interrupted,
                 owed>>

\* "sig->evsigcaught[i] -= ncalls" is a load and a store on most machines.
SubtractLoad ==
  /\ pc = "load"
  /\ tmp' = evsigcaught[i]
  /\ pc' = "store"
  /\ LoopUnchanged
  /\ UNCHANGED <<sigVars, caught, pipe, active, evSignalActive, i, ncalls,
                 interrupted, owed>>

SubtractStore ==
  /\ pc = "store"
  /\ evsigcaught' = [evsigcaught EXCEPT ![i] = tmp - ncalls]
  /\ pc' = "activate"
  /\ LoopUnchanged
  /\ UNCHANGED <<sigVars, evsignal_caught, pipe, active, evSignalActive, locals,
                 interrupted, owed>>

\* Mutant: the loop ends with the first event.
ActivateFirst ==
  /\ pc = "activate"
  /\ \E first \in SUBSET evsigevents[i] :
       /\ Cardinality(first) <= 1 /\ (evsigevents[i] # {} => first # {})
       /\ active' = active \cup first
       /\ owed' = owed \ first
  /\ i' = i + 1
  /\ pc' = "scan"
  /\ LoopUnchanged
  /\ UNCHANGED <<sigVars, caught, pipe, evSignalActive, ncalls, tmp, interrupted>>

\* The loop over the events of signal i: event_del those that do not persist,
\* event_active all of them.
ActivateEvents ==
  /\ pc = "activate"
  /\ LET stay == evsigevents[i] \cap Persistent
     IN  /\ evsigevents' = [evsigevents EXCEPT ![i] = stay]
         /\ IF evsigevents[i] # {} /\ stay = {}
            THEN /\ disposition' = [disposition EXCEPT ![i] = sh_old[i]]
                 /\ sh_old' = [sh_old EXCEPT ![i] = "null"]
            ELSE UNCHANGED <<disposition, sh_old>>
  /\ active' = active \cup evsigevents[i]
  /\ owed' = owed \ evsigevents[i]
  /\ i' = i + 1
  /\ pc' = "scan"
  /\ LoopUnchanged
  /\ UNCHANGED <<ev_signal_added, evsignal_base, caught, pipe, evSignalActive, ncalls,
                 tmp, interrupted>>

\* event_process_active: evsignal_cb reads one byte.
evsignal_cb ==
  /\ pc = "active" /\ evSignalActive
  /\ evSignalActive' = FALSE
  /\ pipe' = IF pipe > 0 THEN pipe - 1 ELSE 0
  /\ LoopUnchanged
  /\ UNCHANGED <<sigVars, caught, active, pc, locals, interrupted, owed>>

\* event_process_active calls the callback of a signal event.
Callback(e) ==
  /\ pc = "active" /\ e \in active
  /\ active' = active \ {e}
  /\ pc' = "callback"
  /\ LoopUnchanged
  /\ UNCHANGED <<sigVars, caught, pipe, evSignalActive, locals, interrupted, owed>>

CallbackReturn ==
  /\ pc = "callback"
  /\ pc' = "active"
  /\ LoopUnchanged
  /\ UNCHANGED <<sigVars, caught, pipe, active, evSignalActive, locals, interrupted,
                 owed>>

-----------------------------------------------------------------------------
Init ==
  /\ disposition = [s \in Signals |-> "other"]
  /\ sh_old = [s \in Signals |-> "null"]
  /\ evsigevents = [s \in Signals |-> {}]
  /\ ev_signal_added = FALSE /\ evsignal_base = "null"
  /\ evsigcaught = [s \in Signals |-> 0] /\ evsignal_caught = FALSE
  /\ pipe = 0
  /\ active = {} /\ evSignalActive = FALSE
  /\ pc = "idle" /\ adding = {} /\ ret = "idle" /\ i = 1 /\ ncalls = 0 /\ tmp = 0
  /\ interrupted = FALSE /\ owed = {} /\ sent = 0 /\ ops = 0

UserOp ==
  \/ \E e \in Events, ok \in BOOLEAN : evsignal_add(e, ok)
  \/ \E e \in Events : evsignal_del(e)
  \/ EventBaseFree \/ EventReinit \/ EventBaseNew

LoopStep ==
  \/ \E ok \in BOOLEAN : AddFinish(ok)
  \/ Check \/ Process \/ Scan \/ ScanEnd \/ SubtractLoad \/ SubtractStore
  \/ ActivateEvents \/ evsignal_cb \/ (\E e \in Events : Callback(e)) \/ CallbackReturn

Wait == EnterWait \/ WaitInterrupted \/ WaitReturns

Next == UserOp \/ LoopStep \/ Wait \/ LoopEnds \/ \E s \in Signals : Deliver(s)

Spec == Init /\ [][Next]_vars

\* epoll_wait must return only for a byte in the pipe or an interrupt.
MustReturn == (pipe > 0 \/ interrupted) /\ (WaitInterrupted \/ WaitReturns)

FairSpec ==
  /\ Spec
  /\ WF_vars(LoopStep) /\ WF_vars(MustReturn)
  /\ WF_vars(pc = "active" /\ (EnterWait \/ LoopEnds))

-----------------------------------------------------------------------------
(* Properties.                                                             *)

PcValues == {"idle", "adding", "wait", "check", "process", "scan", "load",
             "store", "activate", "active", "callback", "freed"}

FlagTypes ==
  /\ ev_signal_added \in BOOLEAN /\ evsignal_caught \in BOOLEAN
  /\ evSignalActive \in BOOLEAN /\ interrupted \in BOOLEAN

HandlerTypes ==
  /\ disposition \in [Signals -> {"other", "evsignal_handler"}]
  /\ sh_old \in [Signals -> {"null", "other", "evsignal_handler"}]
  /\ evsignal_base \in {"null", "base", "dangling"}

EventTypes ==
  /\ evsigevents \in [Signals -> SUBSET Events]
  /\ active \subseteq Events /\ owed \subseteq Events /\ adding \subseteq Events

CounterTypes ==
  /\ evsigcaught \in [Signals -> Nat]
  /\ pipe \in 0 .. PipeSize
  /\ pc \in PcValues /\ ret \in {"idle", "callback"}
  /\ i \in 1 .. NSIG /\ ncalls \in Nat /\ tmp \in Nat
  /\ sent \in 0 .. MaxSignals /\ ops \in 0 .. MaxOps

\* The type invariant of signal.c's state: what is installed or restored is a
\* disposition, and the counters do not go below zero.
TypeOK == FlagTypes /\ HandlerTypes /\ EventTypes /\ CounterTypes

\* A signal that was caught for an event is not forgotten before the event is
\* active: it is counted, or evsignal_process is about to activate the events
\* of that signal, even when the handler interrupts "-=" (signal.c:332-347).
CaughtNotForgotten ==
  \A e \in owed :
    \/ evsigcaught[EventSignal[e]] > 0
    \/ pc \in {"load", "store", "activate"} /\ i = EventSignal[e]

\* The loop does not wait in epoll_wait with a counted signal unless a byte in
\* the socket pair will wake it up and the flag then sends it to
\* evsignal_process (signal.c:110-114, epoll.c:210-212).
NoSleepOverSignal ==
  \A s \in Signals :
    evsigcaught[s] > 0 /\ pc = "wait" => evsignal_caught /\ pipe > 0

\* The handler of libevent is installed exactly for the signals that have
\* events, or for which evsignal_add is about to insert one; the disposition
\* the program had comes back with the last of them, with event_base_free and
\* across event_reinit (signal.c:229-245, 288-294).
HandlersRestored ==
  \A s \in Signals :
    disposition[s] = IF evsigevents[s] = {} /\ \A e \in adding : EventSignal[e] # s
                     THEN "other" ELSE "evsignal_handler"

\* While a signal has events, the handler counts it in the base they were
\* added to, whatever bases were freed before (signal.c:233-234, 304-312).
HandlerHasBase ==
  \A s \in Signals : evsigevents[s] # {} => evsignal_base = "base"

\* A signal caught for an event makes the event active, or it is deleted,
\* while the loop runs (signal.c:323-347).
SignalsReachEvents ==
  \A e \in Events : (e \in owed /\ pc # "idle") ~> (e \notin owed \/ pc = "idle")
=============================================================================
