--------------------------- MODULE EvSignalProofs ---------------------------
(***************************************************************************)
(* No signal is forgotten and the loop never sleeps over one, for any set  *)
(* of events and signals, any socket buffer of at least two bytes and      *)
(* whether or not additions fail.                                          *)
(***************************************************************************)
EXTENDS EvSignal, TLAPS

Scanning == pc \in {"scan", "load", "store", "activate"}

\* An event is on the list of its signal, and a signal with events has a saved
\* disposition.
ListsOK ==
  \A s \in Signals :
    /\ \A e \in evsigevents[s] : EventSignal[e] = s
    /\ evsigevents[s] # {} => sh_old[s] # "null"
    /\ evsigevents[s] # {} => evsignal_base = "base"

\* While evsignal_add is at work its signal has a saved disposition.
AddingOK ==
  /\ \A e \in adding : sh_old[EventSignal[e]] # "null"
  /\ adding # {} => pc = "adding"

\* Signals are owed to registered events only.
OwedOK ==
  /\ \A e \in owed : e \in evsigevents[EventSignal[e]]
  /\ pc = "freed" => \A s \in Signals : evsigevents[s] = {}
  /\ CaughtNotForgotten

\* Where the subtraction of ncalls stands.
SubtractOK ==
  /\ pc \in {"load", "store", "activate"} => i \in Signals
  /\ pc = "load" => evsigcaught[i] >= ncalls
  /\ pc = "store" => tmp >= ncalls /\ evsigcaught[i] >= tmp

\* A counted signal has the flag set, unless the scan has yet to come to it.
FlagOK ==
  /\ \A s \in Signals : evsigcaught[s] > 0 => evsignal_caught \/ (Scanning /\ i <= s)
  /\ pc = "load" /\ evsigcaught[i] > ncalls => evsignal_caught
  /\ pc = "store" /\ evsigcaught[i] > ncalls => evsignal_caught
  /\ pc = "activate" /\ evsigcaught[i] > 0 => evsignal_caught

\* A counted signal has a byte in the pipe.  When ev_signal is active and
\* there is one byte only, no signal came since epoll_wait returned: what is
\* counted is still to be scanned.
PipeOK ==
  /\ \A s \in Signals : evsigcaught[s] > 0 => pipe > 0
  /\ evSignalActive => pipe > 0 /\ pc \notin {"idle", "wait", "freed"}
  /\ evSignalActive /\ pc = "adding" => ret = "callback"
  /\ evSignalActive /\ pipe <= 1 =>
       /\ pc \in {"active", "callback", "adding"} => \A s \in Signals : evsigcaught[s] = 0
       /\ Scanning => \A s \in Signals : evsigcaught[s] > 0 => i <= s
       /\ pc \in {"load", "store"} => evsigcaught[i] = ncalls
       /\ pc = "activate" => evsigcaught[i] = 0

SigInv == TypeOK /\ ListsOK /\ AddingOK /\ OwedOK /\ SubtractOK /\ FlagOK /\ PipeOK

LEMMA InitSigInv == Init => SigInv
<1> SUFFICES ASSUME Init PROVE SigInv
  OBVIOUS
<1> USE SignalAssumption DEF Init
<1>1. FlagTypes /\ HandlerTypes /\ EventTypes
  BY DEF FlagTypes, HandlerTypes, EventTypes
<1>2. CounterTypes
  BY DEF CounterTypes, Signals, PcValues
<1>3. ListsOK /\ AddingOK /\ OwedOK /\ SubtractOK /\ FlagOK /\ PipeOK
  BY DEF ListsOK, AddingOK, OwedOK, SubtractOK, FlagOK, PipeOK, CaughtNotForgotten, Scanning
<1> QED
  BY <1>1, <1>2, <1>3 DEF SigInv, TypeOK

\* What evsignal_add may change.
LEMMA AddEffect ==
  ASSUME NEW e \in Events, NEW ok \in BOOLEAN, evsignal_add(e, ok)
  PROVE  /\ pc \in {"idle", "callback"} /\ ops < MaxOps /\ ops' = ops + 1
         /\ UNCHANGED <<evsignal_base, evsigcaught, evsignal_caught, pipe, active,
                        evSignalActive, i, ncalls, tmp, interrupted, owed, sent>>
         /\ \/ UNCHANGED <<adding, ret, pc>>
            \/ adding' = {e} /\ ret' = pc /\ pc' = "adding"
         /\ \/ evsigevents' = evsigevents
            \/ /\ evsigevents[EventSignal[e]] # {} /\ sh_old' = sh_old
               /\ evsigevents' = [evsigevents EXCEPT ![EventSignal[e]] = @ \cup {e}]
  BY DEF evsignal_add, UserCode, caught, locals

\* A signal whose disposition is restored has one that was saved.
LEMMA SavedType ==
  ASSUME SigInv, NEW s \in Signals, evsigevents[s] # {}
  PROVE  sh_old[s] \in {"other", "evsignal_handler"}
  BY DEF SigInv, ListsOK, TypeOK, HandlerTypes

\* The flags are Booleans.
LEMMA FlagTypesStep ==
  ASSUME SigInv, [Next]_vars
  PROVE  FlagTypes'
<1> USE SignalAssumption DEF SigInv, TypeOK, FlagTypes, sigVars, caught, adds,
         locals, LoopUnchanged
<1>1. ASSUME NEW e \in Events,
             NEW ok \in BOOLEAN, evsignal_add(e, ok)
      PROVE  FlagTypes'
  BY <1>1 DEF evsignal_add, UserCode
<1>2. ASSUME NEW e \in Events, evsignal_del(e)
      PROVE  FlagTypes'
  BY <1>2 DEF evsignal_del, Remove, UserCode, Registered
<1>3. CASE EventBaseFree
  BY <1>3 DEF EventBaseFree, UserCode, Restored
<1>4. CASE EventReinit
  BY <1>4 DEF EventReinit, UserCode, Restored
<1>5. CASE EventBaseNew
  BY <1>5 DEF EventBaseNew
<1>6. CASE Check
  BY <1>6 DEF Check
<1>7. CASE Process
  BY <1>7 DEF Process
<1>8. CASE Scan
  BY <1>8 DEF Scan
<1>9. CASE ScanEnd
  BY <1>9 DEF ScanEnd
<1>10. CASE SubtractLoad
  BY <1>10 DEF SubtractLoad
<1>11. CASE SubtractStore
  BY <1>11 DEF SubtractStore
<1>12. CASE ActivateEvents
  BY <1>12 DEF ActivateEvents
<1>13. CASE evsignal_cb
  BY <1>13 DEF evsignal_cb
<1>14. ASSUME NEW e \in Events, Callback(e)
      PROVE  FlagTypes'
  BY <1>14 DEF Callback
<1>15. CASE CallbackReturn
  BY <1>15 DEF CallbackReturn
<1>16. CASE EnterWait
  BY <1>16 DEF EnterWait
<1>17. CASE WaitInterrupted
  BY <1>17 DEF WaitInterrupted
<1>18. CASE WaitReturns
  BY <1>18 DEF WaitReturns
<1>19. CASE LoopEnds
  BY <1>19 DEF LoopEnds
<1>20. ASSUME NEW s \in Signals, Deliver(s)
      PROVE  FlagTypes'
  BY <1>20 DEF Deliver
<1>21. ASSUME NEW ok \in BOOLEAN, AddFinish(ok)
      PROVE  FlagTypes'
  BY <1>21 DEF AddFinish
<1>22. CASE UNCHANGED vars
  BY <1>22 DEF vars
<1> QED
  BY <1>1, <1>2, <1>3, <1>4, <1>5, <1>6, <1>7, <1>8, <1>9, <1>10, <1>11,
     <1>12, <1>13, <1>14, <1>15, <1>16, <1>17, <1>18, <1>19, <1>20, <1>21, <1>22
     DEF Next, UserOp, LoopStep, Wait

\* What is installed, saved and restored is a disposition.
LEMMA HandlerTypesStep ==
  ASSUME SigInv, [Next]_vars
  PROVE  HandlerTypes'
<1> USE SignalAssumption DEF SigInv, TypeOK, ListsOK, HandlerTypes, CounterTypes,
         Signals, SubtractOK, FlagTypes, EventTypes, sigVars, caught, adds,
         locals, LoopUnchanged
<1>1. ASSUME NEW e \in Events,
             NEW ok \in BOOLEAN, evsignal_add(e, ok)
      PROVE  HandlerTypes'
  BY <1>1, ZenonT(40) DEF evsignal_add, UserCode
<1>2. ASSUME NEW e \in Events, evsignal_del(e)
      PROVE  HandlerTypes'
  <2> DEFINE t == EventSignal[e]
  <2>1. t \in Signals
    OBVIOUS
  <2>2. \/ disposition' = disposition /\ sh_old' = sh_old
        \/ /\ evsigevents[t] # {}
           /\ disposition' = [disposition EXCEPT ![t] = sh_old[t]]
           /\ sh_old' = [sh_old EXCEPT ![t] = "null"]
    BY <1>2 DEF evsignal_del, Remove
  <2>3. evsignal_base' = evsignal_base
    BY <1>2 DEF evsignal_del
  <2> QED
    BY <2>1, <2>2, <2>3, SavedType
<1>3. CASE EventBaseFree
  BY <1>3 DEF EventBaseFree, UserCode, Restored
<1>4. CASE EventReinit
  BY <1>4 DEF EventReinit, UserCode, Restored
<1>5. CASE EventBaseNew
  BY <1>5 DEF EventBaseNew
<1>6. CASE Check
  BY <1>6 DEF Check
<1>7. CASE Process
  BY <1>7 DEF Process
<1>8. CASE Scan
  BY <1>8 DEF Scan
<1>9. CASE ScanEnd
  BY <1>9 DEF ScanEnd
<1>10. CASE SubtractLoad
  BY <1>10 DEF SubtractLoad
<1>11. CASE SubtractStore
  BY <1>11 DEF SubtractStore
<1>12. CASE ActivateEvents
  <2>1. i \in Signals
    BY <1>12 DEF ActivateEvents
  <2>2. \/ disposition' = disposition /\ sh_old' = sh_old
        \/ /\ evsigevents[i] # {}
           /\ disposition' = [disposition EXCEPT ![i] = sh_old[i]]
           /\ sh_old' = [sh_old EXCEPT ![i] = "null"]
    BY <1>12 DEF ActivateEvents
  <2>3. evsignal_base' = evsignal_base
    BY <1>12 DEF ActivateEvents
  <2> QED
    BY <2>1, <2>2, <2>3, SavedType
<1>13. CASE evsignal_cb
  BY <1>13 DEF evsignal_cb
<1>14. ASSUME NEW e \in Events, Callback(e)
      PROVE  HandlerTypes'
  BY <1>14 DEF Callback
<1>15. CASE CallbackReturn
  BY <1>15 DEF CallbackReturn
<1>16. CASE EnterWait
  BY <1>16 DEF EnterWait
<1>17. CASE WaitInterrupted
  BY <1>17 DEF WaitInterrupted
<1>18. CASE WaitReturns
  BY <1>18 DEF WaitReturns
<1>19. CASE LoopEnds
  BY <1>19 DEF LoopEnds
<1>20. ASSUME NEW s \in Signals, Deliver(s)
      PROVE  HandlerTypes'
  BY <1>20 DEF Deliver
<1>21. ASSUME NEW ok \in BOOLEAN, AddFinish(ok)
      PROVE  HandlerTypes'
  BY <1>21 DEF AddFinish
<1>22. CASE UNCHANGED vars
  BY <1>22 DEF vars
<1> QED
  BY <1>1, <1>2, <1>3, <1>4, <1>5, <1>6, <1>7, <1>8, <1>9, <1>10, <1>11,
     <1>12, <1>13, <1>14, <1>15, <1>16, <1>17, <1>18, <1>19, <1>20, <1>21, <1>22
     DEF Next, UserOp, LoopStep, Wait

\* Lists and the active queue hold events.
LEMMA EventTypesStep ==
  ASSUME SigInv, [Next]_vars
  PROVE  EventTypes'
<1> USE SignalAssumption DEF SigInv, TypeOK, EventTypes, CounterTypes, Signals,
         sigVars, caught, adds,
         locals, LoopUnchanged
<1>1. ASSUME NEW e \in Events,
             NEW ok \in BOOLEAN, evsignal_add(e, ok)
      PROVE  EventTypes'
  <2>1. \/ evsigevents' = evsigevents
        \/ evsigevents' = [evsigevents EXCEPT ![EventSignal[e]] = @ \cup {e}]
    BY <1>1, AddEffect
  <2>2. active' = active /\ owed' = owed
    BY <1>1, AddEffect
  <2>3. EventSignal[e] \in Signals
    OBVIOUS
  <2>4. \A t \in Signals, x \in SUBSET Events :
          [evsigevents EXCEPT ![t] = x] \in [Signals -> SUBSET Events]
    OBVIOUS
  <2>5. evsigevents[EventSignal[e]] \cup {e} \in SUBSET Events
    BY <2>3
  <2>6. adding' \subseteq Events
    BY <1>1, AddEffect
  <2> QED
    BY <2>1, <2>2, <2>3, <2>4, <2>5, <2>6, SMTT(30)
<1>2. ASSUME NEW e \in Events, evsignal_del(e)
      PROVE  EventTypes'
  BY <1>2 DEF evsignal_del, Remove, UserCode, Registered
<1>3. CASE EventBaseFree
  BY <1>3 DEF EventBaseFree, UserCode, Restored
<1>4. CASE EventReinit
  BY <1>4 DEF EventReinit, UserCode, Restored
<1>5. CASE EventBaseNew
  BY <1>5 DEF EventBaseNew
<1>6. CASE Check
  BY <1>6 DEF Check
<1>7. CASE Process
  BY <1>7 DEF Process
<1>8. CASE Scan
  BY <1>8 DEF Scan
<1>9. CASE ScanEnd
  BY <1>9 DEF ScanEnd
<1>10. CASE SubtractLoad
  BY <1>10 DEF SubtractLoad
<1>11. CASE SubtractStore
  BY <1>11 DEF SubtractStore
<1>12. CASE ActivateEvents
  <2>1. i \in Signals
    BY <1>12 DEF ActivateEvents, SubtractOK
  <2>2. /\ evsigevents' = [evsigevents EXCEPT ![i] = evsigevents[i] \cap Persistent]
        /\ active' = active \cup evsigevents[i] /\ owed' = owed \ evsigevents[i]
        /\ adding' = adding
    BY <1>12 DEF ActivateEvents
  <2> QED
    BY <2>1, <2>2
<1>13. CASE evsignal_cb
  BY <1>13 DEF evsignal_cb
<1>14. ASSUME NEW e \in Events, Callback(e)
      PROVE  EventTypes'
  BY <1>14 DEF Callback
<1>15. CASE CallbackReturn
  BY <1>15 DEF CallbackReturn
<1>16. CASE EnterWait
  BY <1>16 DEF EnterWait
<1>17. CASE WaitInterrupted
  BY <1>17 DEF WaitInterrupted
<1>18. CASE WaitReturns
  BY <1>18 DEF WaitReturns
<1>19. CASE LoopEnds
  BY <1>19 DEF LoopEnds
<1>20. ASSUME NEW s \in Signals, Deliver(s)
      PROVE  EventTypes'
  BY <1>20 DEF Deliver
<1>21. ASSUME NEW ok \in BOOLEAN, AddFinish(ok)
      PROVE  EventTypes'
  BY <1>21 DEF AddFinish
<1>22. CASE UNCHANGED vars
  BY <1>22 DEF vars
<1> QED
  BY <1>1, <1>2, <1>3, <1>4, <1>5, <1>6, <1>7, <1>8, <1>9, <1>10, <1>11,
     <1>12, <1>13, <1>14, <1>15, <1>16, <1>17, <1>18, <1>19, <1>20, <1>21, <1>22
     DEF Next, UserOp, LoopStep, Wait

\* Events are on the list of their signal; handlers are saved and restored with the lists.
LEMMA ListsStep ==
  ASSUME SigInv, [Next]_vars
  PROVE  ListsOK'
<1> USE SignalAssumption DEF SigInv, TypeOK, ListsOK, HandlerTypes, SubtractOK,
         EventTypes, CounterTypes, Signals, sigVars, caught, adds,
         locals, LoopUnchanged
<1>1. ASSUME NEW e \in Events,
             NEW ok \in BOOLEAN, evsignal_add(e, ok)
      PROVE  ListsOK'
  <2> DEFINE t == EventSignal[e]
  <2>1. t \in Signals
    OBVIOUS
  <2>2. \A u \in Signals : \A f \in evsigevents'[u] : EventSignal[f] = u
    <3>1. \/ evsigevents' = evsigevents
          \/ evsigevents' = [evsigevents EXCEPT ![EventSignal[e]] = @ \cup {e}]
      BY <1>1, AddEffect
    <3>2. \A u \in Signals : evsigevents'[u] \subseteq evsigevents[u]
                             \cup (IF u = t THEN {e} ELSE {})
      BY <2>1, <3>1
    <3> QED
      BY <3>2
  <2>3. evsignal_base' = evsignal_base
    BY <1>1, AddEffect
  <2>4. \A u \in Signals : evsigevents'[u] # {} => evsigevents[u] # {}
    BY <1>1, <2>1 DEF evsignal_add
  <2>5. \A u \in Signals : evsigevents[u] # {} => sh_old'[u] = sh_old[u]
    BY <1>1, <2>1 DEF evsignal_add
  <2> QED
    BY <2>2, <2>3, <2>4, <2>5
<1>2. ASSUME NEW e \in Events, evsignal_del(e)
      PROVE  ListsOK'
  BY <1>2 DEF evsignal_del, Remove, UserCode, Registered
<1>3. CASE EventBaseFree
  BY <1>3 DEF EventBaseFree, UserCode, Restored
<1>4. CASE EventReinit
  BY <1>4 DEF EventReinit, UserCode, Restored
<1>5. CASE EventBaseNew
  BY <1>5 DEF EventBaseNew
<1>6. CASE Check
  BY <1>6 DEF Check
<1>7. CASE Process
  BY <1>7 DEF Process
<1>8. CASE Scan
  BY <1>8 DEF Scan
<1>9. CASE ScanEnd
  BY <1>9 DEF ScanEnd
<1>10. CASE SubtractLoad
  BY <1>10 DEF SubtractLoad
<1>11. CASE SubtractStore
  BY <1>11 DEF SubtractStore
<1>12. CASE ActivateEvents
  BY <1>12 DEF ActivateEvents
<1>13. CASE evsignal_cb
  BY <1>13 DEF evsignal_cb
<1>14. ASSUME NEW e \in Events, Callback(e)
      PROVE  ListsOK'
  BY <1>14 DEF Callback
<1>15. CASE CallbackReturn
  BY <1>15 DEF CallbackReturn
<1>16. CASE EnterWait
  BY <1>16 DEF EnterWait
<1>17. CASE WaitInterrupted
  BY <1>17 DEF WaitInterrupted
<1>18. CASE WaitReturns
  BY <1>18 DEF WaitReturns
<1>19. CASE LoopEnds
  BY <1>19 DEF LoopEnds
<1>20. ASSUME NEW s \in Signals, Deliver(s)
      PROVE  ListsOK'
  BY <1>20 DEF Deliver
<1>21. ASSUME NEW ok \in BOOLEAN, AddFinish(ok)
      PROVE  ListsOK'
  <2>1. /\ sh_old' = sh_old /\ evsignal_base' = "base"
        /\ evsigevents' = [s \in Signals |->
             evsigevents[s] \cup {e \in adding : ok /\ EventSignal[e] = s}]
    BY <1>21 DEF AddFinish
  <2>2. \A s \in Signals : evsigevents'[s] =
           evsigevents[s] \cup {e \in adding : ok /\ EventSignal[e] = s}
    BY <2>1
  <2>3. \A s \in Signals : \A e \in evsigevents'[s] :
          e \in evsigevents[s] \/ (e \in adding /\ EventSignal[e] = s)
    BY <2>2
  <2>4. \A s \in Signals : \A e \in evsigevents'[s] : EventSignal[e] = s
    BY <2>3
  <2>5. \A s \in Signals : evsigevents'[s] # {} => sh_old[s] # "null"
    BY <2>3 DEF AddingOK
  <2> QED
    BY <2>1, <2>4, <2>5
<1>22. CASE UNCHANGED vars
  BY <1>22 DEF vars
<1> QED
  BY <1>1, <1>2, <1>3, <1>4, <1>5, <1>6, <1>7, <1>8, <1>9, <1>10, <1>11,
     <1>12, <1>13, <1>14, <1>15, <1>16, <1>17, <1>18, <1>19, <1>20, <1>21, <1>22
     DEF Next, UserOp, LoopStep, Wait

\* No counter goes below zero.
LEMMA CounterTypesStep ==
  ASSUME SigInv, [Next]_vars
  PROVE  CounterTypes'
<1> USE SignalAssumption DEF SigInv, TypeOK, CounterTypes, SubtractOK, Signals,
         PcValues, sigVars, caught, adds,
         locals, LoopUnchanged
<1>1. ASSUME NEW e \in Events,
             NEW ok \in BOOLEAN, evsignal_add(e, ok)
      PROVE  CounterTypes'
  <2>1. /\ evsigcaught' = evsigcaught /\ pipe' = pipe /\ i' = i
        /\ ncalls' = ncalls /\ tmp' = tmp /\ sent' = sent
        /\ ops < MaxOps /\ ops' = ops + 1
    BY <1>1, AddEffect
  <2>2. pc' \in PcValues /\ ret' \in {"idle", "callback"}
    BY <1>1, AddEffect
  <2> QED
    BY <2>1, <2>2
<1>2. ASSUME NEW e \in Events, evsignal_del(e)
      PROVE  CounterTypes'
  BY <1>2 DEF evsignal_del, Remove, UserCode, Registered
<1>3. CASE EventBaseFree
  BY <1>3 DEF EventBaseFree, UserCode, Restored
<1>4. CASE EventReinit
  BY <1>4 DEF EventReinit, UserCode, Restored
<1>5. CASE EventBaseNew
  BY <1>5 DEF EventBaseNew
<1>6. CASE Check
  BY <1>6 DEF Check
<1>7. CASE Process
  BY <1>7 DEF Process
<1>8. CASE Scan
  BY <1>8 DEF Scan
<1>9. CASE ScanEnd
  BY <1>9 DEF ScanEnd
<1>10. CASE SubtractLoad
  BY <1>10 DEF SubtractLoad
<1>11. CASE SubtractStore
  BY <1>11 DEF SubtractStore
<1>12. CASE ActivateEvents
  BY <1>12 DEF ActivateEvents
<1>13. CASE evsignal_cb
  BY <1>13 DEF evsignal_cb
<1>14. ASSUME NEW e \in Events, Callback(e)
      PROVE  CounterTypes'
  BY <1>14 DEF Callback
<1>15. CASE CallbackReturn
  BY <1>15 DEF CallbackReturn
<1>16. CASE EnterWait
  BY <1>16 DEF EnterWait
<1>17. CASE WaitInterrupted
  BY <1>17 DEF WaitInterrupted
<1>18. CASE WaitReturns
  BY <1>18 DEF WaitReturns
<1>19. CASE LoopEnds
  BY <1>19 DEF LoopEnds
<1>20. ASSUME NEW s \in Signals, Deliver(s)
      PROVE  CounterTypes'
  BY <1>20 DEF Deliver
<1>21. ASSUME NEW ok \in BOOLEAN, AddFinish(ok)
      PROVE  CounterTypes'
  BY <1>21 DEF AddFinish
<1>22. CASE UNCHANGED vars
  BY <1>22 DEF vars
<1> QED
  BY <1>1, <1>2, <1>3, <1>4, <1>5, <1>6, <1>7, <1>8, <1>9, <1>10, <1>11,
     <1>12, <1>13, <1>14, <1>15, <1>16, <1>17, <1>18, <1>19, <1>20, <1>21, <1>22
     DEF Next, UserOp, LoopStep, Wait

\* A signal is owed until the events of the signal are activated.
LEMMA OwedStep ==
  ASSUME SigInv, [Next]_vars
  PROVE  OwedOK'
<1> USE SignalAssumption DEF SigInv, TypeOK, ListsOK, OwedOK, CaughtNotForgotten,
         EventTypes, CounterTypes, SubtractOK, Signals, sigVars, caught, adds,
         locals, LoopUnchanged
<1>1. ASSUME NEW e \in Events,
             NEW ok \in BOOLEAN, evsignal_add(e, ok)
      PROVE  OwedOK'
  <2>1. /\ owed' = owed /\ evsigcaught' = evsigcaught
        /\ pc \in {"idle", "callback"} /\ pc' # "freed"
    BY <1>1, AddEffect
  <2>2. \A t \in Signals : evsigevents[t] \subseteq evsigevents'[t]
    <3>1. \/ evsigevents' = evsigevents
          \/ evsigevents' = [evsigevents EXCEPT ![EventSignal[e]] = @ \cup {e}]
      BY <1>1, AddEffect
    <3> QED
      BY <3>1, SMTT(30)
  <2> QED
    BY <2>1, <2>2
<1>2. ASSUME NEW e \in Events, evsignal_del(e)
      PROVE  OwedOK'
  BY <1>2 DEF evsignal_del, Remove, UserCode, Registered
<1>3. CASE EventBaseFree
  BY <1>3 DEF EventBaseFree, UserCode, Restored
<1>4. CASE EventReinit
  BY <1>4 DEF EventReinit, UserCode, Restored
<1>5. CASE EventBaseNew
  BY <1>5 DEF EventBaseNew
<1>6. CASE Check
  BY <1>6 DEF Check
<1>7. CASE Process
  BY <1>7 DEF Process
<1>8. CASE Scan
  BY <1>8 DEF Scan
<1>9. CASE ScanEnd
  BY <1>9 DEF ScanEnd
<1>10. CASE SubtractLoad
  BY <1>10 DEF SubtractLoad
<1>11. CASE SubtractStore
  BY <1>11 DEF SubtractStore
<1>12. CASE ActivateEvents
  BY <1>12 DEF ActivateEvents
<1>13. CASE evsignal_cb
  BY <1>13 DEF evsignal_cb
<1>14. ASSUME NEW e \in Events, Callback(e)
      PROVE  OwedOK'
  BY <1>14 DEF Callback
<1>15. CASE CallbackReturn
  BY <1>15 DEF CallbackReturn
<1>16. CASE EnterWait
  BY <1>16 DEF EnterWait
<1>17. CASE WaitInterrupted
  BY <1>17 DEF WaitInterrupted
<1>18. CASE WaitReturns
  BY <1>18 DEF WaitReturns
<1>19. CASE LoopEnds
  BY <1>19 DEF LoopEnds
<1>20. ASSUME NEW s \in Signals, Deliver(s)
      PROVE  OwedOK'
  BY <1>20 DEF Deliver
<1>21. ASSUME NEW ok \in BOOLEAN, AddFinish(ok)
      PROVE  OwedOK'
  BY <1>21 DEF AddFinish
<1>22. CASE UNCHANGED vars
  BY <1>22 DEF vars
<1> HIDE SignalAssumption DEF SigInv, OwedOK
<1> QED
  BY <1>1, <1>2, <1>3, <1>4, <1>5, <1>6, <1>7, <1>8, <1>9, <1>10, <1>11,
     <1>12, <1>13, <1>14, <1>15, <1>16, <1>17, <1>18, <1>19, <1>20, <1>21, <1>22
     DEF Next, UserOp, LoopStep, Wait

\* Nothing but a signal happens while evsignal_add is at work.
LEMMA AddingStep ==
  ASSUME SigInv, [Next]_vars
  PROVE  AddingOK'
<1> USE SignalAssumption DEF SigInv, TypeOK, AddingOK, ListsOK, SubtractOK, HandlerTypes, EventTypes,
         CounterTypes, Signals, 
         sigVars, caught, adds,
         locals, LoopUnchanged
<1>1. ASSUME NEW e \in Events,
             NEW ok \in BOOLEAN, evsignal_add(e, ok)
      PROVE  AddingOK'
  BY <1>1 DEF evsignal_add, UserCode
<1>2. ASSUME NEW e \in Events, evsignal_del(e)
      PROVE  AddingOK'
  BY <1>2 DEF evsignal_del, Remove, UserCode, Registered
<1>3. CASE EventBaseFree
  BY <1>3 DEF EventBaseFree, UserCode, Restored
<1>4. CASE EventReinit
  BY <1>4 DEF EventReinit, UserCode, Restored
<1>5. CASE EventBaseNew
  BY <1>5 DEF EventBaseNew
<1>6. CASE Check
  BY <1>6 DEF Check
<1>7. CASE Process
  BY <1>7 DEF Process
<1>8. CASE Scan
  BY <1>8 DEF Scan
<1>9. CASE ScanEnd
  BY <1>9 DEF ScanEnd
<1>10. CASE SubtractLoad
  BY <1>10 DEF SubtractLoad
<1>11. CASE SubtractStore
  BY <1>11 DEF SubtractStore
<1>12. CASE ActivateEvents
  BY <1>12 DEF ActivateEvents
<1>13. CASE evsignal_cb
  BY <1>13 DEF evsignal_cb
<1>14. ASSUME NEW e \in Events, Callback(e)
      PROVE  AddingOK'
  BY <1>14 DEF Callback
<1>15. CASE CallbackReturn
  BY <1>15 DEF CallbackReturn
<1>16. CASE EnterWait
  BY <1>16 DEF EnterWait
<1>17. CASE WaitInterrupted
  BY <1>17 DEF WaitInterrupted
<1>18. CASE WaitReturns
  BY <1>18 DEF WaitReturns
<1>19. CASE LoopEnds
  BY <1>19 DEF LoopEnds
<1>20. ASSUME NEW s \in Signals, Deliver(s)
      PROVE  AddingOK'
  BY <1>20 DEF Deliver
<1>21. ASSUME NEW ok \in BOOLEAN, AddFinish(ok)
      PROVE  AddingOK'
  BY <1>21 DEF AddFinish
<1>22. CASE UNCHANGED vars
  BY <1>22 DEF vars
<1> QED
  BY <1>1, <1>2, <1>3, <1>4, <1>5, <1>6, <1>7, <1>8, <1>9, <1>10, <1>11,
     <1>12, <1>13, <1>14, <1>15, <1>16, <1>17, <1>18, <1>19, <1>20, <1>21, <1>22
     DEF Next, UserOp, LoopStep, Wait

\* The handler only adds to a counter that is being subtracted from.
LEMMA SubtractStep ==
  ASSUME SigInv, [Next]_vars
  PROVE  SubtractOK'
<1> USE SignalAssumption DEF SigInv, TypeOK, SubtractOK, CounterTypes, Signals,
         sigVars, caught, adds,
         locals, LoopUnchanged
<1>1. ASSUME NEW e \in Events,
             NEW ok \in BOOLEAN, evsignal_add(e, ok)
      PROVE  SubtractOK'
  BY <1>1 DEF evsignal_add, UserCode
<1>2. ASSUME NEW e \in Events, evsignal_del(e)
      PROVE  SubtractOK'
  BY <1>2 DEF evsignal_del, Remove, UserCode, Registered
<1>3. CASE EventBaseFree
  BY <1>3 DEF EventBaseFree, UserCode, Restored
<1>4. CASE EventReinit
  BY <1>4 DEF EventReinit, UserCode, Restored
<1>5. CASE EventBaseNew
  BY <1>5 DEF EventBaseNew
<1>6. CASE Check
  BY <1>6 DEF Check
<1>7. CASE Process
  BY <1>7 DEF Process
<1>8. CASE Scan
  BY <1>8 DEF Scan
<1>9. CASE ScanEnd
  BY <1>9 DEF ScanEnd
<1>10. CASE SubtractLoad
  BY <1>10 DEF SubtractLoad
<1>11. CASE SubtractStore
  BY <1>11 DEF SubtractStore
<1>12. CASE ActivateEvents
  BY <1>12 DEF ActivateEvents
<1>13. CASE evsignal_cb
  BY <1>13 DEF evsignal_cb
<1>14. ASSUME NEW e \in Events, Callback(e)
      PROVE  SubtractOK'
  BY <1>14 DEF Callback
<1>15. CASE CallbackReturn
  BY <1>15 DEF CallbackReturn
<1>16. CASE EnterWait
  BY <1>16 DEF EnterWait
<1>17. CASE WaitInterrupted
  BY <1>17 DEF WaitInterrupted
<1>18. CASE WaitReturns
  BY <1>18 DEF WaitReturns
<1>19. CASE LoopEnds
  BY <1>19 DEF LoopEnds
<1>20. ASSUME NEW s \in Signals, Deliver(s)
      PROVE  SubtractOK'
  BY <1>20 DEF Deliver
<1>21. ASSUME NEW ok \in BOOLEAN, AddFinish(ok)
      PROVE  SubtractOK'
  BY <1>21 DEF AddFinish
<1>22. CASE UNCHANGED vars
  BY <1>22 DEF vars
<1> QED
  BY <1>1, <1>2, <1>3, <1>4, <1>5, <1>6, <1>7, <1>8, <1>9, <1>10, <1>11,
     <1>12, <1>13, <1>14, <1>15, <1>16, <1>17, <1>18, <1>19, <1>20, <1>21, <1>22
     DEF Next, UserOp, LoopStep, Wait

\* The flag is set by the handler and cleared before the scan only.
LEMMA FlagStep ==
  ASSUME SigInv, [Next]_vars
  PROVE  FlagOK'
<1> USE SignalAssumption DEF SigInv, TypeOK, FlagOK, SubtractOK, CounterTypes,
         FlagTypes, Signals, Scanning, sigVars, caught, adds,
         locals, LoopUnchanged
<1>1. ASSUME NEW e \in Events,
             NEW ok \in BOOLEAN, evsignal_add(e, ok)
      PROVE  FlagOK'
  BY <1>1 DEF evsignal_add, UserCode
<1>2. ASSUME NEW e \in Events, evsignal_del(e)
      PROVE  FlagOK'
  BY <1>2 DEF evsignal_del, Remove, UserCode, Registered
<1>3. CASE EventBaseFree
  BY <1>3 DEF EventBaseFree, UserCode, Restored
<1>4. CASE EventReinit
  BY <1>4 DEF EventReinit, UserCode, Restored
<1>5. CASE EventBaseNew
  BY <1>5 DEF EventBaseNew
<1>6. CASE Check
  BY <1>6 DEF Check
<1>7. CASE Process
  BY <1>7 DEF Process
<1>8. CASE Scan
  BY <1>8 DEF Scan
<1>9. CASE ScanEnd
  BY <1>9 DEF ScanEnd
<1>10. CASE SubtractLoad
  BY <1>10 DEF SubtractLoad
<1>11. CASE SubtractStore
  BY <1>11 DEF SubtractStore
<1>12. CASE ActivateEvents
  BY <1>12 DEF ActivateEvents
<1>13. CASE evsignal_cb
  BY <1>13 DEF evsignal_cb
<1>14. ASSUME NEW e \in Events, Callback(e)
      PROVE  FlagOK'
  BY <1>14 DEF Callback
<1>15. CASE CallbackReturn
  BY <1>15 DEF CallbackReturn
<1>16. CASE EnterWait
  BY <1>16 DEF EnterWait
<1>17. CASE WaitInterrupted
  BY <1>17 DEF WaitInterrupted
<1>18. CASE WaitReturns
  BY <1>18 DEF WaitReturns
<1>19. CASE LoopEnds
  BY <1>19 DEF LoopEnds
<1>20. ASSUME NEW s \in Signals, Deliver(s)
      PROVE  FlagOK'
  BY <1>20 DEF Deliver
<1>21. ASSUME NEW ok \in BOOLEAN, AddFinish(ok)
      PROVE  FlagOK'
  BY <1>21 DEF AddFinish
<1>22. CASE UNCHANGED vars
  BY <1>22 DEF vars
<1> QED
  BY <1>1, <1>2, <1>3, <1>4, <1>5, <1>6, <1>7, <1>8, <1>9, <1>10, <1>11,
     <1>12, <1>13, <1>14, <1>15, <1>16, <1>17, <1>18, <1>19, <1>20, <1>21, <1>22
     DEF Next, UserOp, LoopStep, Wait

\* One byte is read per iteration, after the scan.
LEMMA PipeStep ==
  ASSUME SigInv, [Next]_vars
  PROVE  PipeOK'
<1> USE SignalAssumption DEF SigInv, TypeOK, PipeOK, FlagOK, SubtractOK,
         CounterTypes, FlagTypes, Signals, Scanning, sigVars, caught, adds,
         locals, LoopUnchanged
<1>1. ASSUME NEW e \in Events,
             NEW ok \in BOOLEAN, evsignal_add(e, ok)
      PROVE  PipeOK'
  BY <1>1 DEF evsignal_add, UserCode
<1>2. ASSUME NEW e \in Events, evsignal_del(e)
      PROVE  PipeOK'
  BY <1>2 DEF evsignal_del, Remove, UserCode, Registered
<1>3. CASE EventBaseFree
  BY <1>3 DEF EventBaseFree, UserCode, Restored
<1>4. CASE EventReinit
  BY <1>4 DEF EventReinit, UserCode, Restored
<1>5. CASE EventBaseNew
  BY <1>5 DEF EventBaseNew
<1>6. CASE Check
  BY <1>6 DEF Check
<1>7. CASE Process
  BY <1>7 DEF Process
<1>8. CASE Scan
  BY <1>8 DEF Scan
<1>9. CASE ScanEnd
  BY <1>9 DEF ScanEnd
<1>10. CASE SubtractLoad
  BY <1>10 DEF SubtractLoad
<1>11. CASE SubtractStore
  BY <1>11 DEF SubtractStore
<1>12. CASE ActivateEvents
  BY <1>12 DEF ActivateEvents
<1>13. CASE evsignal_cb
  BY <1>13 DEF evsignal_cb
<1>14. ASSUME NEW e \in Events, Callback(e)
      PROVE  PipeOK'
  BY <1>14 DEF Callback
<1>15. CASE CallbackReturn
  BY <1>15 DEF CallbackReturn
<1>16. CASE EnterWait
  BY <1>16 DEF EnterWait
<1>17. CASE WaitInterrupted
  BY <1>17 DEF WaitInterrupted
<1>18. CASE WaitReturns
  BY <1>18 DEF WaitReturns
<1>19. CASE LoopEnds
  BY <1>19 DEF LoopEnds
<1>20. ASSUME NEW s \in Signals, Deliver(s)
      PROVE  PipeOK'
  <2>1. /\ evSignalActive' = evSignalActive /\ pc' = pc /\ i' = i /\ ncalls' = ncalls
        /\ ret' = ret
    BY <1>20 DEF Deliver
  <2>2. CASE evsigcaught' = evsigcaught /\ pipe' = pipe
    BY <2>1, <2>2
  <2>3. CASE /\ evsigcaught' = [evsigcaught EXCEPT ![s] = evsigcaught[s] + 1]
             /\ pipe' = (IF pipe < PipeSize THEN pipe + 1 ELSE pipe)
    <3>1. pipe' \in Nat /\ pipe' > 0 /\ (pipe > 0 => pipe' >= 2)
      BY <2>3
    <3>2. evSignalActive => pipe > 0 /\ pc \notin {"idle", "wait", "freed"}
      OBVIOUS
    <3>3. evSignalActive /\ pc = "adding" => ret = "callback"
      OBVIOUS
    <3>4. ~(evSignalActive /\ pipe' <= 1)
      BY <3>1, <3>2
    <3> QED
      BY <2>1, <2>3, <3>1, <3>2, <3>3, <3>4
  <2> QED
    BY <1>20, <2>2, <2>3 DEF Deliver
<1>21. ASSUME NEW ok \in BOOLEAN, AddFinish(ok)
      PROVE  PipeOK'
  BY <1>21 DEF AddFinish
<1>22. CASE UNCHANGED vars
  BY <1>22 DEF vars
<1> QED
  BY <1>1, <1>2, <1>3, <1>4, <1>5, <1>6, <1>7, <1>8, <1>9, <1>10, <1>11,
     <1>12, <1>13, <1>14, <1>15, <1>16, <1>17, <1>18, <1>19, <1>20, <1>21, <1>22
     DEF Next, UserOp, LoopStep, Wait

LEMMA SigInvariance == Spec => []SigInv
<1>1. SigInv /\ [Next]_vars => SigInv'
  BY FlagTypesStep, HandlerTypesStep, EventTypesStep, CounterTypesStep, ListsStep,
     AddingStep, OwedStep, SubtractStep, FlagStep, PipeStep DEF SigInv, TypeOK
<1> QED
  BY <1>1, InitSigInv, PTL DEF Spec

\* The handlers that are restored are handlers that were saved, and the
\* counters never go below zero.
THEOREM SignalTypes == Spec => []TypeOK
<1>1. SigInv => TypeOK
  BY DEF SigInv
<1> QED
  BY <1>1, SigInvariance, PTL

\* A signal caught for an event stays counted until evsignal_process activates
\* the events of the signal, wherever the handler interrupts it.
THEOREM CaughtNeverForgotten == Spec => []CaughtNotForgotten
<1>1. SigInv => CaughtNotForgotten
  BY DEF SigInv, OwedOK
<1> QED
  BY <1>1, SigInvariance, PTL

\* A signal that has events is counted in the base they were added to.
THEOREM EventsHaveBase == Spec => []HandlerHasBase
<1>1. SigInv => HandlerHasBase
  BY DEF SigInv, ListsOK, HandlerHasBase
<1> QED
  BY <1>1, SigInvariance, PTL

\* The loop never waits in epoll_wait with a counted signal and nothing to wake
\* it up.
THEOREM NeverSleepsOverSignal == Spec => []NoSleepOverSignal
<1>1. SigInv => NoSleepOverSignal
  BY DEF SigInv, FlagOK, PipeOK, Scanning, NoSleepOverSignal
<1> QED
  BY <1>1, SigInvariance, PTL
-----------------------------------------------------------------------------
(* The dispositions come back, when event_add of ev_signal does not fail.  *)

\* libevent's handler is to be installed for s.
Owned(s) == evsigevents[s] # {} \/ \E e \in adding : EventSignal[e] = s

\* What is saved for a signal is the disposition the program had, and nothing
\* is saved for a signal that has no events.
SavedOK ==
  \A s \in Signals :
    IF Owned(s) THEN disposition[s] = "evsignal_handler" /\ sh_old[s] = "other"
    ELSE disposition[s] = "other" /\ sh_old[s] = "null"

\* A step that takes an event off its list, or several, restores the disposition
\* with the last.
LEMMA RemovalKeepsSaved ==
  ASSUME SigInv, SavedOK, NEW s \in Signals, NEW left \in SUBSET evsigevents[s],
         adding = {}, adding' = adding,
         evsigevents' = [evsigevents EXCEPT ![s] = left],
         IF evsigevents[s] # {} /\ left = {}
         THEN /\ disposition' = [disposition EXCEPT ![s] = sh_old[s]]
              /\ sh_old' = [sh_old EXCEPT ![s] = "null"]
         ELSE UNCHANGED <<disposition, sh_old>>
  PROVE  SavedOK'
<1>1. /\ disposition \in [Signals -> {"other", "evsignal_handler"}]
      /\ sh_old \in [Signals -> {"null", "other", "evsignal_handler"}]
      /\ evsigevents \in [Signals -> SUBSET Events]
  BY DEF SigInv, TypeOK, HandlerTypes, EventTypes
<1>2. /\ \A t \in Signals : Owned(t) <=> evsigevents[t] # {}
      /\ \A t \in Signals : Owned(t)' <=> evsigevents'[t] # {}
  BY DEF Owned
<1>3. \A t \in Signals \ {s} :
        /\ evsigevents'[t] = evsigevents[t] /\ disposition'[t] = disposition[t]
        /\ sh_old'[t] = sh_old[t]
  BY <1>1
<1>4. evsigevents'[s] = left
  BY <1>1
<1>5. CASE evsigevents[s] # {} /\ left = {}
  <2>1. disposition'[s] = sh_old[s] /\ sh_old'[s] = "null" /\ sh_old[s] = "other"
    BY <1>1, <1>2, <1>5 DEF SavedOK
  <2> QED
    BY <1>2, <1>3, <1>4, <1>5, <2>1 DEF SavedOK
<1>6. CASE ~(evsigevents[s] # {} /\ left = {})
  BY <1>2, <1>3, <1>4, <1>6 DEF SavedOK
<1> QED
  BY <1>5, <1>6

LEMMA SavedStep ==
  ASSUME ~AddMayFail, SigInv, SavedOK, [Next]_vars
  PROVE  SavedOK'
<1>0. /\ disposition \in [Signals -> {"other", "evsignal_handler"}]
      /\ sh_old \in [Signals -> {"null", "other", "evsignal_handler"}]
      /\ evsigevents \in [Signals -> SUBSET Events] /\ adding \subseteq Events
      /\ EventSignal \in [Events -> Signals]
      /\ pc # "adding" => adding = {}
  BY SignalAssumption DEF SigInv, TypeOK, HandlerTypes, EventTypes, AddingOK
<1>1. CASE UNCHANGED <<disposition, sh_old, evsigevents, adding>>
  BY <1>1 DEF SavedOK, Owned
<1>2. ASSUME NEW e \in Events, NEW ok \in BOOLEAN, evsignal_add(e, ok)
      PROVE  SavedOK'
  <2> DEFINE t == EventSignal[e]
  <2>1. t \in Signals /\ adding = {}
    BY <1>0, <1>2 DEF evsignal_add, UserCode
  <2>2. \A u \in Signals : Owned(u) <=> evsigevents[u] # {}
    BY <2>1 DEF Owned
  <2>3. CASE evsigevents[t] # {}
    <3>1. /\ evsigevents' = [evsigevents EXCEPT ![t] = @ \cup {e}]
          /\ UNCHANGED <<disposition, sh_old, adding>>
      BY <1>2, <2>3 DEF evsignal_add
    <3>2. \A u \in Signals : Owned(u)' <=> Owned(u)
      <4>1. \A u \in Signals : evsigevents'[u] = {} <=> evsigevents[u] = {}
        BY <1>0, <2>1, <2>3, <3>1
      <4> QED
        BY <3>1, <4>1 DEF Owned
    <3> QED
      BY <3>1, <3>2 DEF SavedOK
  <2>4. CASE evsigevents[t] = {} /\ ~ok
    <3>1. /\ sh_old' = [sh_old EXCEPT ![t] = "null"]
          /\ UNCHANGED <<disposition, evsigevents, adding>>
      BY <1>2, <2>4 DEF evsignal_add
    <3>2. sh_old' = sh_old
      BY <1>0, <2>1, <2>2, <2>4, <3>1 DEF SavedOK
    <3> QED
      BY <1>1, <3>1, <3>2
  <2>5. CASE evsigevents[t] = {} /\ ok
    <3>1. /\ sh_old' = [sh_old EXCEPT ![t] = disposition[t]]
          /\ disposition' = [disposition EXCEPT ![t] = "evsignal_handler"]
          /\ adding' = {e} /\ evsigevents' = evsigevents
      BY <1>2, <2>5 DEF evsignal_add
    <3>2. sh_old'[t] = "other" /\ disposition'[t] = "evsignal_handler"
      BY <1>0, <2>1, <2>2, <2>5, <3>1 DEF SavedOK
    <3>3. \A u \in Signals \ {t} : sh_old'[u] = sh_old[u] /\ disposition'[u] = disposition[u]
      BY <1>0, <3>1
    <3>4. \A u \in Signals : Owned(u)' <=> Owned(u) \/ u = t
      BY <2>2, <3>1 DEF Owned
    <3> HIDE DEF t
    <3> QED
      BY <3>2, <3>3, <3>4 DEF SavedOK
  <2> QED
    BY <2>3, <2>4, <2>5
<1>3. ASSUME NEW e \in Events, evsignal_del(e)
      PROVE  SavedOK'
  <2> DEFINE t == EventSignal[e]
  <2>1. t \in Signals /\ adding = {} /\ adding' = adding
    BY <1>0, <1>3 DEF evsignal_del, UserCode, adds
  <2>2. evsigevents' = [evsigevents EXCEPT ![t] = evsigevents[t] \ {e}]
    BY <1>3 DEF evsignal_del, Remove
  <2>3. Registered(e) /\ evsigevents[t] = {e} <=> evsigevents[t] # {} /\ evsigevents[t] \ {e} = {}
    BY DEF Registered
  <2>4. IF evsigevents[t] # {} /\ evsigevents[t] \ {e} = {}
        THEN /\ disposition' = [disposition EXCEPT ![t] = sh_old[t]]
             /\ sh_old' = [sh_old EXCEPT ![t] = "null"]
        ELSE UNCHANGED <<disposition, sh_old>>
    BY <1>3, <2>3 DEF evsignal_del, Remove
  <2> HIDE DEF t
  <2> QED
    BY <2>1, <2>2, <2>4, RemovalKeepsSaved
<1>4. CASE EventBaseFree
  <2>1. /\ disposition' = Restored /\ sh_old' = [s \in Signals |-> "null"]
        /\ evsigevents' = [s \in Signals |-> {}] /\ adding = {} /\ adding' = adding
    BY <1>0, <1>4 DEF EventBaseFree, UserCode, adds
  <2>2. \A s \in Signals : Restored[s] = "other"
    BY DEF Restored, SavedOK
  <2>3. \A s \in Signals : ~Owned(s)'
    BY <2>1 DEF Owned
  <2> QED
    BY <2>1, <2>2, <2>3 DEF SavedOK
<1>5. CASE EventReinit
  <2>1. /\ disposition' = [s \in Signals |-> IF evsigevents[s] # {} THEN "evsignal_handler"
                                             ELSE Restored[s]]
        /\ sh_old' = [s \in Signals |-> IF evsigevents[s] # {} THEN Restored[s] ELSE "null"]
        /\ evsigevents' = evsigevents /\ adding = {} /\ adding' = adding
    BY <1>0, <1>5 DEF EventReinit, UserCode, adds
  <2>2. \A s \in Signals : Restored[s] = "other"
    BY DEF Restored, SavedOK
  <2>3. \A s \in Signals : Owned(s)' <=> evsigevents[s] # {}
    BY <2>1 DEF Owned
  <2> QED
    BY <2>1, <2>2, <2>3 DEF SavedOK
<1>6. CASE ActivateEvents
  <2> DEFINE stay == evsigevents[i] \cap Persistent
  <2>1. i \in Signals /\ adding = {} /\ adding' = adding
    BY <1>0, <1>6 DEF ActivateEvents, SigInv, SubtractOK, LoopUnchanged, adds
  <2>2. /\ evsigevents' = [evsigevents EXCEPT ![i] = stay]
        /\ IF evsigevents[i] # {} /\ stay = {}
           THEN /\ disposition' = [disposition EXCEPT ![i] = sh_old[i]]
                /\ sh_old' = [sh_old EXCEPT ![i] = "null"]
           ELSE UNCHANGED <<disposition, sh_old>>
    BY <1>6 DEF ActivateEvents
  <2>3. stay \subseteq evsigevents[i]
    OBVIOUS
  <2> HIDE DEF stay
  <2> QED
    BY <2>1, <2>2, <2>3, RemovalKeepsSaved
<1>7. ASSUME NEW ok \in BOOLEAN, AddFinish(ok)
      PROVE  SavedOK'
  <2>1. ok /\ UNCHANGED <<disposition, sh_old>> /\ adding' = {}
    BY <1>7 DEF AddFinish
  <2>2. \A s \in Signals : evsigevents'[s] = evsigevents[s] \cup {e \in adding : EventSignal[e] = s}
    BY <1>7, <2>1 DEF AddFinish
  <2>3. \A s \in Signals : Owned(s)' <=> Owned(s)
    BY <2>1, <2>2 DEF Owned
  <2> QED
    BY <2>1, <2>3 DEF SavedOK
<1>8. CASE \/ EventBaseNew \/ Check \/ Process \/ Scan \/ ScanEnd \/ SubtractLoad
           \/ SubtractStore \/ evsignal_cb \/ (\E e \in Events : Callback(e))
           \/ CallbackReturn \/ Wait \/ LoopEnds \/ (\E s \in Signals : Deliver(s))
           \/ UNCHANGED vars
  BY <1>1, <1>8
  DEF EventBaseNew, Check, Process, Scan, ScanEnd, SubtractLoad, SubtractStore, evsignal_cb,
      Callback, CallbackReturn, Wait, EnterWait, WaitInterrupted, WaitReturns, LoopEnds, Deliver,
      LoopUnchanged, sigVars, adds, vars
<1> QED
  BY <1>2, <1>3, <1>4, <1>5, <1>6, <1>7, <1>8 DEF Next, UserOp, LoopStep

\* If event_add of ev_signal never fails, libevent's handler is installed for
\* the signals that have events and for no other, and what comes back is the
\* disposition the program had.  (When it fails, evsignal_add returns with the
\* handler installed and no event on the list, and the next call saves
\* libevent's own handler.)
THEOREM DispositionsComeBack ==
  ASSUME ~AddMayFail
  PROVE  Spec => []HandlersRestored
<1>1. Init => SavedOK
  BY DEF Init, SavedOK, Owned
<1>2. SigInv /\ SavedOK /\ [Next]_vars => SavedOK'
  BY SavedStep
<1>3. SavedOK => HandlersRestored
  BY DEF SavedOK, Owned, HandlersRestored
<1> QED
  BY <1>1, <1>2, <1>3, SigInvariance, PTL DEF Spec
=============================================================================
