----------------------------- MODULE EventBase -----------------------------
(***************************************************************************)
(* The core of libevent 1.4: event.c, one event_base used by one thread.   *)
(*                                                                         *)
(* The program alternates between library code (event_base_loop and what   *)
(* it calls) and user code.  User code runs outside of the loop (pc =      *)
(* "idle") and inside the callbacks the loop invokes (pc = "callback"),    *)
(* and there it may call every operation of the API.  The kernel           *)
(* mechanism (epoll, poll, select) and the signal code are seen through    *)
(* the calls event.c makes: evsel->add may fail, evsel->dispatch activates *)
(* events that are on the inserted queue.                                  *)
(***************************************************************************)
EXTENDS Integers, Sequences, FiniteSets

CONSTANTS
  Events,       \* the events user code owns (struct event)
  Once,         \* struct event_once slots that event_base_once may allocate
  SigEv,        \* base->sig.ev_signal, the one EVLIST_INTERNAL event
  EvEvents,     \* ev_events of each event: subset of EventTypes
  MaxPri,       \* bound on the number of priorities
  MaxCalls,     \* bound on the ncalls a burst of signals produces
  Timeouts,     \* the tv arguments event_add is given
  MaxTime,      \* bound on the clock
  MaxOps,       \* bound on the calls user code makes
  LoopFlags,    \* the flags event_base_loop is called with
  UseMonotonic, \* use_monotonic: clock_gettime(CLOCK_MONOTONIC) works
  MaxBack,      \* bound on backward clock steps when it does not
  ReuseInBurst  \* may a callback event_set or event_active its own event
                \* while calls of the same burst are outstanding?

AllEvents  == Events \cup Once \cup {SigEv}
EventTypes == {"READ", "WRITE", "SIGNAL", "PERSIST"}
Queues     == {"TIMEOUT", "INSERTED", "ACTIVE"}
Results    == {"TIMEOUT", "READ", "WRITE", "SIGNAL"}
Pris       == 0 .. MaxPri - 1
Forever    == -1          \* tv_p == NULL in event_base_loop

ASSUME EventsAssumption ==
  /\ IsFiniteSet(Events) /\ IsFiniteSet(Once)
  /\ Events \cap Once = {} /\ SigEv \notin Events \cup Once

ASSUME EvEventsAssumption ==
  /\ EvEvents \in [AllEvents -> SUBSET EventTypes]
  /\ EvEvents[SigEv] = {"READ", "PERSIST"}
  \* event_base_once refuses EV_SIGNAL and strips everything but READ|WRITE
  /\ \A o \in Once : EvEvents[o] \subseteq {"READ", "WRITE"}
  \* evsignal_add dies on EV_SIGNAL together with EV_READ or EV_WRITE
  /\ \A e \in AllEvents :
       "SIGNAL" \in EvEvents[e] => EvEvents[e] \subseteq {"SIGNAL", "PERSIST"}

ASSUME BoundsAssumption ==
  /\ MaxPri \in Nat \ {0} /\ MaxCalls \in Nat \ {0}
  /\ Timeouts \subseteq Nat
  /\ MaxTime \in Nat \ {0} /\ MaxOps \in Nat /\ MaxBack \in Nat
  /\ LoopFlags \subseteq SUBSET {"ONCE", "NONBLOCK"}
  /\ UseMonotonic \in BOOLEAN /\ ReuseInBurst \in BOOLEAN

VARIABLES
  q,           \* the queues of the base and the flags of the events
  res,         \* ev_res
  evNcalls,    \* ev_ncalls
  evPncalls,   \* ev_pncalls: "null", "frame" (&ncalls of a running
               \* event_process_active) or "stale" (of one that returned)
  timeout,     \* ev_timeout
  gotterm, brk,          \* event_gotterm, event_break
  tvCache, eventTv,      \* tv_cache (0: cleared) and event_tv
  sigAdded,    \* sig.ev_signal_added
  pc,          \* where the thread is
  cur,         \* the event whose callback event_process_active runs
  ncalls,      \* the local ncalls of event_process_active
  activeq,     \* the local activeq of event_process_active
  wake,        \* when the dispatch in progress gives up waiting, or Forever
  lflags,      \* flags of the event_base_loop in progress
  once,        \* what each event_once slot is: "free", "exit" or "user"
  now,         \* the clock
  backs, ops,  \* how often the clock stepped back, calls user code made
  cancelled    \* history: events deleted and not scheduled again since

evVars   == <<res, evNcalls, evPncalls, timeout>>
loopVars == <<pc, cur, activeq, wake, lflags>>
timeVars == <<now, backs>>
vars == <<q, res, evNcalls, evPncalls, timeout, gotterm, brk, tvCache, eventTv,
          sigAdded, pc, cur, ncalls, activeq, wake, lflags, once, now, backs,
          ops, cancelled>>

-----------------------------------------------------------------------------
(* Queues: event_queue_insert, event_queue_remove and their compositions.   *)

\* TAILQ_REMOVE of an element that is on the list.
TailqRemove(s, e) ==
  LET i == CHOOSE j \in 1 .. Len(s) : s[j] = e
  IN  [k \in 1 .. Len(s) - 1 |-> IF k < i THEN s[k] ELSE s[k + 1]]

\* event_errx(1, ...): the process exits; nothing after it matters.
Die(b) == [b EXCEPT !.fatal = TRUE]

Uncounted(e) == e = SigEv      \* ev_flags & EVLIST_INTERNAL

event_queue_insert(b, e, queue) ==
  IF queue \in b.flags[e]
  THEN IF queue = "ACTIVE" THEN b ELSE Die(b)
  ELSE [flags       |-> [b.flags EXCEPT ![e] = @ \cup {queue}],
        pri         |-> b.pri,
        npri        |-> b.npri,
        eventqueue  |-> IF queue = "INSERTED" THEN b.eventqueue \cup {e} ELSE b.eventqueue,
        timeheap    |-> IF queue = "TIMEOUT" THEN b.timeheap \cup {e} ELSE b.timeheap,
        active      |-> IF queue = "ACTIVE"
                        THEN [b.active EXCEPT ![b.pri[e]] = Append(@, e)] ELSE b.active,
        count       |-> IF Uncounted(e) THEN b.count ELSE b.count + 1,
        countActive |-> IF queue = "ACTIVE" THEN b.countActive + 1 ELSE b.countActive,
        fatal       |-> b.fatal]

event_queue_remove(b, e, queue) ==
  IF queue \notin b.flags[e]
  THEN Die(b)
  ELSE [flags       |-> [b.flags EXCEPT ![e] = @ \ {queue}],
        pri         |-> b.pri,
        npri        |-> b.npri,
        eventqueue  |-> IF queue = "INSERTED" THEN b.eventqueue \ {e} ELSE b.eventqueue,
        timeheap    |-> IF queue = "TIMEOUT" THEN b.timeheap \ {e} ELSE b.timeheap,
        active      |-> IF queue = "ACTIVE"
                        THEN [b.active EXCEPT ![b.pri[e]] = TailqRemove(@, e)] ELSE b.active,
        count       |-> IF Uncounted(e) THEN b.count ELSE b.count - 1,
        countActive |-> IF queue = "ACTIVE" THEN b.countActive - 1 ELSE b.countActive,
        fatal       |-> b.fatal]

\* The priorities change: of events, or their number, which comes with a new
\* array of active queues.
WithPriorities(b, pri, npri) ==
  [flags       |-> b.flags,
   pri         |-> pri,
   npri        |-> npri,
   eventqueue  |-> b.eventqueue,
   timeheap    |-> b.timeheap,
   active      |-> IF npri = b.npri THEN b.active ELSE [p \in Pris |-> <<>>],
   count       |-> b.count,
   countActive |-> b.countActive,
   fatal       |-> b.fatal]

SetPriority(b, e, p) == WithPriorities(b, [b.pri EXCEPT ![e] = p], b.npri)

RemoveIfOn(b, e, queue) ==
  IF queue \in b.flags[e] THEN event_queue_remove(b, e, queue) ELSE b

\* What event_del does to the queues.
Unlink(b, e) ==
  RemoveIfOn(RemoveIfOn(RemoveIfOn(b, e, "TIMEOUT"), e, "ACTIVE"), e, "INSERTED")

\* Does event_add call evsel->add?
NeedsBackend(b, e) ==
  /\ EvEvents[e] \cap {"READ", "WRITE", "SIGNAL"} # {}
  /\ b.flags[e] \cap {"INSERTED", "ACTIVE"} = {}

AddsSignal(b, e) == NeedsBackend(b, e) /\ "SIGNAL" \in EvEvents[e]

\* evsel->add: the first signal event brings base->sig.ev_signal with it.
BackendAdd(b, e) ==
  IF "SIGNAL" \in EvEvents[e] /\ ~sigAdded /\ NeedsBackend(b, SigEv)
  THEN event_queue_insert(b, SigEv, "INSERTED") ELSE b

\* event_add up to and including the insertion in the event queue.
LinkIO(b, e) ==
  IF NeedsBackend(b, e)
  THEN event_queue_insert(BackendAdd(b, e), e, "INSERTED") ELSE b

\* Is the event active because it timed out?
TimedOut(b, e) == "ACTIVE" \in b.flags[e] /\ "TIMEOUT" \in res[e]

\* Mutant: the rescheduled event stays on the active queue.
LinkTimeoutKeepsActive(b, e) ==
  event_queue_insert(RemoveIfOn(b, e, "TIMEOUT"), e, "TIMEOUT")

\* The rest of event_add: replace the timeout, leave the active queue.
LinkTimeout(b, e) ==
  LET b1 == RemoveIfOn(b, e, "TIMEOUT")
      b2 == IF TimedOut(b1, e) THEN event_queue_remove(b1, e, "ACTIVE") ELSE b1
  IN  event_queue_insert(b2, e, "TIMEOUT")

-----------------------------------------------------------------------------
(* Time.                                                                   *)

gettime == IF tvCache # 0 THEN tvCache ELSE now

\* min_heap_top: an event with the least timeout.
IsTop(e) == e \in q.timeheap /\ \A f \in q.timeheap : timeout[e] <= timeout[f]

\* timeout_correct: what the heap's timeouts and event_tv become.
TimeRanBack == ~UseMonotonic /\ gettime < eventTv
CorrectedTimeout ==
  IF TimeRanBack
  THEN [e \in AllEvents |->
          IF e \in q.timeheap THEN timeout[e] - (eventTv - gettime) ELSE timeout[e]]
  ELSE timeout

\* min_heap_top once the timeouts are corrected.
CorrectedTops ==
  {e \in q.timeheap : \A f \in q.timeheap : CorrectedTimeout[e] <= CorrectedTimeout[f]}

\* Mutant: for a timer that is due already dispatch is not bounded.
timeout_next_SkipsDue ==
  IF q.timeheap = {} THEN {Forever}
  ELSE {IF CorrectedTimeout[e] <= gettime THEN Forever
        ELSE CorrectedTimeout[e] - gettime : e \in CorrectedTops}

\* timeout_next: how long dispatch may wait (a set of one element).
timeout_next ==
  IF q.timeheap = {} THEN {Forever}
  ELSE {IF CorrectedTimeout[e] <= gettime THEN 0
        ELSE CorrectedTimeout[e] - gettime : e \in CorrectedTops}

\* The clock moves while user code or the kernel runs.
Tick ==
  /\ pc \in {"idle", "callback", "dispatch"}
  /\ now < MaxTime
  /\ now' = now + 1
  /\ UNCHANGED <<q, evVars, gotterm, brk, tvCache, eventTv, sigAdded, loopVars,
                 ncalls, once, backs, ops, cancelled>>

\* gettimeofday may be set back.
StepBack ==
  /\ ~UseMonotonic
  /\ pc \in {"idle", "callback", "dispatch"}
  /\ now > 1 /\ backs < MaxBack
  /\ now' = now - 1
  /\ backs' = backs + 1
  /\ UNCHANGED <<q, evVars, gotterm, brk, tvCache, eventTv, sigAdded, loopVars,
                 ncalls, once, ops, cancelled>>

-----------------------------------------------------------------------------
(* API operations user code calls.                                         *)

\* User code runs outside of the loop and in the callbacks of its events.
UserCode ==
  /\ pc = "idle" \/ (pc = "callback" /\ cur \in Events)
     \/ (pc = "callback" /\ cur \in Once /\ once[cur] = "user")
  /\ ops < MaxOps
  /\ ops' = ops + 1

\* "*ev->ev_pncalls = 0" of event_del and event_add.  Through a pointer into
\* a frame that is gone the store hits whatever lives there now: nothing that
\* matters, or the ncalls of a running event_process_active.
AbortLoop(e) ==
  \/ /\ evNcalls[e] # 0 /\ evPncalls[e] \in {"frame", "stale"}
     /\ ncalls' = 0
  \/ /\ evNcalls[e] = 0 \/ evPncalls[e] \in {"null", "stale"}
     /\ ncalls' = ncalls

\* What user code keeps its hands off when it is disciplined: the event whose
\* burst of calls is under way.
MayReuse(e) == ReuseInBurst \/ pc = "idle" \/ e # cur \/ ncalls = 0

\* event_set (and event_base_set) on an event that is on no queue.
EventSet(e) ==
  /\ UserCode
  /\ MayReuse(e)
  /\ q.flags[e] = {}
  /\ q' = SetPriority(q, e, q.npri \div 2)
  /\ res' = [res EXCEPT ![e] = {}]
  /\ evNcalls' = [evNcalls EXCEPT ![e] = 0]
  /\ evPncalls' = [evPncalls EXCEPT ![e] = "null"]
  /\ UNCHANGED <<timeout, gotterm, brk, tvCache, eventTv, sigAdded, loopVars,
                 ncalls, once, timeVars, cancelled>>

\* event_add(ev, NULL); ok: evsel->add succeeds.
EventAdd(e, ok) ==
  /\ UserCode
  /\ LET fails == NeedsBackend(q, e) /\ ~ok
     IN  /\ q' = IF fails THEN q ELSE LinkIO(q, e)
         /\ sigAdded' = (sigAdded \/ (~fails /\ AddsSignal(q, e)))
         /\ cancelled' = IF fails THEN cancelled ELSE cancelled \ {e}
  /\ UNCHANGED <<evVars, gotterm, brk, tvCache, eventTv, loopVars, ncalls, once,
                 timeVars>>

\* event_add(ev, &tv); ok: min_heap_reserve and evsel->add succeed.
EventAddTimeout(e, tv, ok) ==
  /\ UserCode
  /\ gettime + tv <= MaxTime
  /\ LET fails == ~ok /\ (NeedsBackend(q, e) \/ "TIMEOUT" \notin q.flags[e])
     IN  /\ q' = IF fails THEN q ELSE LinkTimeout(LinkIO(q, e), e)
         /\ sigAdded' = (sigAdded \/ (~fails /\ AddsSignal(q, e)))
         /\ IF ~fails /\ TimedOut(q, e) THEN AbortLoop(e) ELSE ncalls' = ncalls
         /\ timeout' = IF fails THEN timeout
                       ELSE [timeout EXCEPT ![e] = gettime + tv]
         /\ cancelled' = IF fails THEN cancelled ELSE cancelled \ {e}
  /\ UNCHANGED <<res, evNcalls, evPncalls, gotterm, brk, tvCache, eventTv,
                 loopVars, once, timeVars>>

\* Mutant: the calls of the burst under way are not aborted.
EventDelKeepsCalls(e) ==
  /\ UserCode
  /\ q' = Unlink(q, e)
  /\ cancelled' = cancelled \cup {e}
  /\ UNCHANGED <<evVars, gotterm, brk, tvCache, eventTv, sigAdded, loopVars, ncalls,
                 once, timeVars>>

EventDel(e) ==
  /\ UserCode
  /\ AbortLoop(e)
  /\ q' = Unlink(q, e)
  /\ cancelled' = cancelled \cup {e}
  /\ UNCHANGED <<evVars, gotterm, brk, tvCache, eventTv, sigAdded, loopVars, once,
                 timeVars>>

\* event_active from a state whose queues are b.
Activate(b, e, r, n) ==
  IF "ACTIVE" \in b.flags[e]
  THEN /\ q' = b
       /\ res' = [res EXCEPT ![e] = @ \cup r]
       /\ UNCHANGED <<evNcalls, evPncalls>>
  ELSE /\ q' = event_queue_insert(b, e, "ACTIVE")
       /\ res' = [res EXCEPT ![e] = r]
       /\ evNcalls' = [evNcalls EXCEPT ![e] = n]
       /\ evPncalls' = [evPncalls EXCEPT ![e] = "null"]

\* User code calls event_active(ev, res, ncalls) itself.
EventActive(e, r, n) ==
  /\ UserCode
  /\ MayReuse(e)
  /\ Activate(q, e, {r}, n)
  /\ cancelled' = cancelled \ {e}
  /\ UNCHANGED <<timeout, gotterm, brk, tvCache, eventTv, sigAdded, loopVars,
                 ncalls, once, timeVars>>

\* Mutant: the priority of an active event may change.
EventPrioritySetAnytime(e, p) ==
  /\ UserCode
  /\ p < q.npri
  /\ q' = SetPriority(q, e, p)
  /\ UNCHANGED <<evVars, gotterm, brk, tvCache, eventTv, sigAdded, loopVars,
                 ncalls, once, timeVars, cancelled>>

EventPrioritySet(e, p) ==
  /\ UserCode
  /\ "ACTIVE" \notin q.flags[e]
  /\ p < q.npri
  /\ q' = SetPriority(q, e, p)
  /\ UNCHANGED <<evVars, gotterm, brk, tvCache, eventTv, sigAdded, loopVars,
                 ncalls, once, timeVars, cancelled>>

\* Documented for the time before the first dispatch; user code does not
\* take away priorities that its events have.
EventBasePriorityInit(n) ==
  /\ UserCode
  /\ pc = "idle"
  /\ q.countActive = 0
  /\ \A e \in AllEvents : q.pri[e] < n
  /\ q' = WithPriorities(q, q.pri, n)
  /\ UNCHANGED <<evVars, gotterm, brk, tvCache, eventTv, sigAdded, loopVars,
                 ncalls, once, timeVars, cancelled>>

\* event_base_once and, with kind = "exit", event_base_loopexit: a new event
\* with its own copy of the arguments; tv = Forever stands for NULL, ok: calloc
\* and event_add succeed.
EventBaseOnce(o, kind, tv, ok) ==
  /\ UserCode
  /\ once[o] = "free"
  /\ kind = "exit" => EvEvents[o] = {}
  /\ gettime + tv <= MaxTime
  /\ LET fresh == SetPriority(q, o, q.npri \div 2)
         timed == EvEvents[o] = {} \/ tv # Forever
         due   == gettime + (IF tv = Forever THEN 0 ELSE tv)
         armed == LinkIO(fresh, o)
     IN  /\ q' = IF ~ok THEN q ELSE IF timed THEN LinkTimeout(armed, o) ELSE armed
         /\ once' = IF ~ok THEN once ELSE [once EXCEPT ![o] = kind]
         /\ timeout' = IF timed /\ ok THEN [timeout EXCEPT ![o] = due]
                       ELSE timeout
  /\ res' = [res EXCEPT ![o] = {}]
  /\ evNcalls' = [evNcalls EXCEPT ![o] = 0]
  /\ evPncalls' = [evPncalls EXCEPT ![o] = "null"]
  /\ UNCHANGED <<gotterm, brk, tvCache, eventTv, sigAdded, loopVars, ncalls,
                 timeVars, cancelled>>

EventBaseLoopbreak ==
  /\ UserCode
  /\ brk' = TRUE
  /\ UNCHANGED <<q, evVars, gotterm, tvCache, eventTv, sigAdded, loopVars, ncalls,
                 once, timeVars, cancelled>>

\* event_reinit after fork(): ev_signal leaves its queues, the mechanism is
\* set up again and re-learns the event queue; ok: so does the signal code.
EventReinit(ok) ==
  /\ UserCode
  /\ pc = "idle"
  /\ LET b1 == IF sigAdded
               THEN RemoveIfOn(event_queue_remove(q, SigEv, "INSERTED"),
                               SigEv, "ACTIVE")
               ELSE q
         again == ok /\ \E e \in b1.eventqueue : "SIGNAL" \in EvEvents[e]
         b2 == SetPriority(b1, SigEv, b1.npri \div 2)
     IN  /\ q' = IF again THEN event_queue_insert(b2, SigEv, "INSERTED") ELSE b2
         /\ sigAdded' = again
  /\ res' = [res EXCEPT ![SigEv] = {}]
  /\ evNcalls' = [evNcalls EXCEPT ![SigEv] = 0]
  /\ evPncalls' = [evPncalls EXCEPT ![SigEv] = "null"]
  /\ UNCHANGED <<timeout, gotterm, brk, tvCache, eventTv, loopVars, ncalls, once,
                 timeVars, cancelled>>

-----------------------------------------------------------------------------
(* event_base_loop.                                                        *)

LoopUnchanged == UNCHANGED <<once, timeVars, ops>>

\* The call: the time cache is cleared.
LoopStart(f) ==
  /\ pc = "idle"
  /\ pc' = "top"
  /\ lflags' = f
  /\ tvCache' = 0
  /\ LoopUnchanged
  /\ UNCHANGED <<q, evVars, gotterm, brk, eventTv, sigAdded, cur, ncalls, activeq,
                 wake, cancelled>>

\* event_gotterm and event_break end the loop at the top of an iteration.
LoopTerminate ==
  /\ pc = "top"
  /\ gotterm \/ brk
  /\ gotterm' = FALSE
  /\ brk' = (brk /\ gotterm)
  /\ tvCache' = 0
  /\ pc' = "idle"
  /\ LoopUnchanged
  /\ UNCHANGED <<q, evVars, eventTv, sigAdded, cur, ncalls, activeq, wake, lflags,
                 cancelled>>

\* "return (1)": no events; the time cache is left as it is.
LoopNoEvents ==
  /\ pc = "top" /\ ~gotterm /\ ~brk
  /\ q.count <= 0
  /\ timeout' = CorrectedTimeout
  /\ eventTv' = IF UseMonotonic THEN eventTv ELSE gettime
  /\ pc' = "idle"
  /\ LoopUnchanged
  /\ UNCHANGED <<q, res, evNcalls, evPncalls, gotterm, brk, tvCache, sigAdded, cur,
                 ncalls, activeq, wake, lflags, cancelled>>

\* timeout_correct, timeout_next, and the call of evsel->dispatch.
LoopDispatch ==
  /\ pc = "top" /\ ~gotterm /\ ~brk
  /\ q.count > 0
  /\ timeout' = CorrectedTimeout
  /\ \E tv \in IF q.countActive = 0 /\ "NONBLOCK" \notin lflags
                THEN timeout_next ELSE {0} :
       wake' = IF tv = Forever THEN Forever ELSE now + tv
  /\ eventTv' = gettime
  /\ tvCache' = 0
  /\ pc' = "dispatch"
  /\ LoopUnchanged
  /\ UNCHANGED <<q, res, evNcalls, evPncalls, gotterm, brk, sigAdded, cur, ncalls,
                 activeq, lflags, cancelled>>

\* The mechanism found an fd ready: event_active(ev, EV_READ or EV_WRITE, 1).
DispatchIO(e, r) ==
  /\ pc = "dispatch"
  /\ "INSERTED" \in q.flags[e]
  /\ r \in EvEvents[e] \cap {"READ", "WRITE"}
  /\ Activate(q, e, {r}, 1)
  /\ LoopUnchanged
  /\ UNCHANGED <<timeout, gotterm, brk, tvCache, eventTv, sigAdded, loopVars,
                 ncalls, cancelled>>

\* evsignal_process: n signals were caught; an event that is not persistent
\* is deleted before it is activated.
DispatchSignal(e, n) ==
  /\ pc = "dispatch"
  /\ "INSERTED" \in q.flags[e]
  /\ "SIGNAL" \in EvEvents[e]
  /\ IF "PERSIST" \in EvEvents[e]
     THEN Activate(q, e, {"SIGNAL"}, n) /\ ncalls' = ncalls
     ELSE Activate(Unlink(q, e), e, {"SIGNAL"}, n) /\ AbortLoop(e)
  /\ LoopUnchanged
  /\ UNCHANGED <<timeout, gotterm, brk, tvCache, eventTv, sigAdded, loopVars,
                 cancelled>>

\* dispatch returns 0 (events found, time is up, or EINTR).
DispatchReturn ==
  /\ pc = "dispatch"
  /\ pc' = "timeouts"
  /\ tvCache' = now
  /\ LoopUnchanged
  /\ UNCHANGED <<q, evVars, gotterm, brk, eventTv, sigAdded, cur, ncalls, activeq,
                 wake, lflags, cancelled>>

\* dispatch fails and so does event_base_loop.
DispatchError ==
  /\ pc = "dispatch"
  /\ pc' = "idle"
  /\ LoopUnchanged
  /\ UNCHANGED <<q, evVars, gotterm, brk, tvCache, eventTv, sigAdded, cur, ncalls,
                 activeq, wake, lflags, cancelled>>

\* One round of the loop of timeout_process.
TimeoutProcess(e) ==
  /\ pc = "timeouts"
  /\ IsTop(e) /\ timeout[e] <= gettime
  /\ Activate(Unlink(q, e), e, {"TIMEOUT"}, 1)
  /\ AbortLoop(e)
  /\ LoopUnchanged
  /\ UNCHANGED <<timeout, gotterm, brk, tvCache, eventTv, sigAdded, loopVars,
                 cancelled>>

\* Mutant: event_process_active is called from two active events on.
TimeoutsDoneOffByOne ==
  /\ pc = "timeouts"
  /\ \A e \in q.timeheap : timeout[e] > gettime
  /\ pc' = IF q.countActive > 1 THEN "process" ELSE "top"
  /\ LoopUnchanged
  /\ UNCHANGED <<q, evVars, gotterm, brk, tvCache, eventTv, sigAdded, cur, ncalls,
                 activeq, wake, lflags, cancelled>>

\* timeout_process is done; on to event_process_active, which takes the first
\* priority that has active events.
TimeoutsDone ==
  /\ pc = "timeouts"
  /\ \A e \in q.timeheap : timeout[e] > gettime
  /\ IF q.countActive > 0
     THEN /\ \E p \in Pris :
               /\ q.active[p] # <<>>
               /\ \A r \in Pris : r < p => q.active[r] = <<>>
               /\ activeq' = p
          /\ pc' = "process"
          /\ tvCache' = tvCache
     ELSE /\ activeq' = activeq
          /\ IF "NONBLOCK" \in lflags
             THEN pc' = "idle" /\ tvCache' = 0
             ELSE pc' = "top" /\ tvCache' = tvCache
  /\ LoopUnchanged
  /\ UNCHANGED <<q, evVars, gotterm, brk, eventTv, sigAdded, cur, ncalls, wake,
                 lflags, cancelled>>

\* Mutant: every event is treated as persistent.
ProcessNextPersists ==
  /\ pc = "process"
  /\ q.active[activeq] # <<>>
  /\ LET e == Head(q.active[activeq])
     IN  /\ cur' = e
         /\ q' = event_queue_remove(q, e, "ACTIVE")
         /\ ncalls' = evNcalls[e]
         /\ evPncalls' = [evPncalls EXCEPT ![e] = "frame"]
  /\ pc' = "call"
  /\ LoopUnchanged
  /\ UNCHANGED <<res, evNcalls, timeout, gotterm, brk, tvCache, eventTv, sigAdded,
                 activeq, wake, lflags, cancelled>>

\* event_process_active takes the next event off the queue.
ProcessNext ==
  /\ pc = "process"
  /\ q.active[activeq] # <<>>
  /\ LET e == Head(q.active[activeq])
     IN  /\ cur' = e
         /\ q' = IF "PERSIST" \in EvEvents[e]
                 THEN event_queue_remove(q, e, "ACTIVE") ELSE Unlink(q, e)
         /\ ncalls' = evNcalls[e]
         /\ evPncalls' = [evPncalls EXCEPT ![e] = "frame"]
  /\ pc' = "call"
  /\ LoopUnchanged
  /\ UNCHANGED <<res, evNcalls, timeout, gotterm, brk, tvCache, eventTv, sigAdded,
                 activeq, wake, lflags, cancelled>>

\* "while (ncalls)": one more call of the callback.
Invoke ==
  /\ pc = "call"
  /\ ncalls > 0
  /\ ncalls' = ncalls - 1
  /\ evNcalls' = [evNcalls EXCEPT ![cur] = ncalls - 1]
  /\ pc' = "callback"
  /\ LoopUnchanged
  /\ UNCHANGED <<q, res, evPncalls, timeout, gotterm, brk, tvCache, eventTv,
                 sigAdded, cur, activeq, wake, lflags, cancelled>>

\* Mutant: ev_ncalls is cleared after the last call.
CallsDoneClears ==
  /\ pc = "call"
  /\ ncalls = 0
  /\ evNcalls' = [evNcalls EXCEPT ![cur] = 0]
  /\ pc' = "process"
  /\ LoopUnchanged
  /\ UNCHANGED <<q, res, evPncalls, timeout, gotterm, brk, tvCache, eventTv,
                 sigAdded, cur, ncalls, activeq, wake, lflags, cancelled>>

CallsDone ==
  /\ pc = "call"
  /\ ncalls = 0
  /\ pc' = "process"
  /\ LoopUnchanged
  /\ UNCHANGED <<q, evVars, gotterm, brk, tvCache, eventTv, sigAdded, cur, ncalls,
                 activeq, wake, lflags, cancelled>>

\* event_process_active is back in event_base_loop; its frame is gone.
FrameGone == [e \in AllEvents |-> IF evPncalls[e] = "frame" THEN "stale" ELSE evPncalls[e]]
AfterProcess ==
  /\ evPncalls' = FrameGone
  /\ ncalls' = 0
  /\ IF q.countActive = 0 /\ "ONCE" \in lflags
     THEN pc' = "idle" /\ tvCache' = 0
     ELSE pc' = "top" /\ tvCache' = tvCache

\* Mutant: event_once_cb frees the slot and forgets the exit.
CallbackReturnForgetsExit ==
  /\ pc = "callback"
  /\ once' = [o \in Once |-> IF o = cur THEN "free" ELSE once[o]]
  /\ IF brk THEN AfterProcess
     ELSE pc' = "call" /\ UNCHANGED <<evPncalls, ncalls, tvCache>>
  /\ UNCHANGED <<q, res, evNcalls, timeout, gotterm, brk, eventTv, sigAdded, cur,
                 activeq, wake, lflags, timeVars, ops, cancelled>>

\* The callback returns.  event_loopexit_cb sets event_gotterm, event_once_cb
\* frees its slot, and event_break leaves event_process_active at once.
CallbackReturn ==
  /\ pc = "callback"
  /\ gotterm' = (gotterm \/ (cur \in Once /\ once[cur] = "exit"))
  /\ once' = [o \in Once |-> IF o = cur THEN "free" ELSE once[o]]
  /\ IF brk THEN AfterProcess
     ELSE pc' = "call" /\ UNCHANGED <<evPncalls, ncalls, tvCache>>
  /\ UNCHANGED <<q, res, evNcalls, timeout, brk, eventTv, sigAdded, cur, activeq,
                 wake, lflags, timeVars, ops, cancelled>>

ProcessDone ==
  /\ pc = "process"
  /\ q.active[activeq] = <<>>
  /\ AfterProcess
  /\ LoopUnchanged
  /\ UNCHANGED <<q, res, evNcalls, timeout, gotterm, brk, eventTv, sigAdded, cur,
                 activeq, wake, lflags, cancelled>>

-----------------------------------------------------------------------------
(* event_base_free and event_base_new.                                     *)

EventBaseFree ==
  /\ UserCode
  /\ pc = "idle"
  /\ pc' = "free"
  /\ UNCHANGED <<q, evVars, gotterm, brk, tvCache, eventTv, sigAdded, cur, ncalls,
                 activeq, wake, lflags, once, timeVars, cancelled>>

\* Mutant: the loop over the active queues is missing.
DeletableNotActive ==
  {e \in AllEvents : e \in q.timeheap \/ (e # SigEv /\ "INSERTED" \in q.flags[e])}

\* The three loops of event_base_free: event_del every event of the event
\* queue and of the active queues that is not internal, and every event of
\* the heap.
Deletable ==
  {e \in AllEvents : e \in q.timeheap \/ (e # SigEv /\ q.flags[e] # {})}

FreeDelete(e) ==
  /\ pc = "free"
  /\ e \in Deletable
  /\ AbortLoop(e)
  /\ q' = Unlink(q, e)
  /\ LoopUnchanged
  /\ UNCHANGED <<evVars, gotterm, brk, tvCache, eventTv, sigAdded, loopVars,
                 cancelled>>

\* evsel->dealloc: evsignal_dealloc deletes ev_signal if it was added.
FreeDealloc ==
  /\ pc = "free"
  /\ Deletable = {}
  /\ IF sigAdded THEN q' = Unlink(q, SigEv) /\ AbortLoop(SigEv)
     ELSE UNCHANGED <<q, ncalls>>
  /\ sigAdded' = FALSE
  /\ pc' = "freed"
  /\ LoopUnchanged
  /\ UNCHANGED <<evVars, gotterm, brk, tvCache, eventTv, cur, activeq, wake, lflags,
                 cancelled>>

NewQueues ==
  [flags       |-> [e \in AllEvents |-> {}],
   pri         |-> [e \in AllEvents |-> 0],
   npri        |-> 1,
   eventqueue  |-> {},
   timeheap    |-> {},
   active      |-> [p \in Pris |-> <<>>],
   count       |-> 0,
   countActive |-> 0,
   fatal       |-> FALSE]

\* event_base_new, and event_set for the events of the program.
FreshBase ==
  /\ q' = NewQueues
  /\ res' = [e \in AllEvents |-> {}]
  /\ evNcalls' = [e \in AllEvents |-> 0]
  /\ evPncalls' = [e \in AllEvents |-> "null"]
  /\ timeout' = [e \in AllEvents |-> 0]
  /\ gotterm' = FALSE /\ brk' = FALSE
  /\ tvCache' = 0 /\ eventTv' = now
  /\ sigAdded' = FALSE

EventBaseNew ==
  /\ pc = "freed"
  /\ FreshBase
  /\ pc' = "idle"
  /\ once' = [o \in Once |-> "free"]
  /\ cancelled' = {}
  /\ UNCHANGED <<cur, ncalls, activeq, wake, lflags, timeVars, ops>>

-----------------------------------------------------------------------------
Init ==
  /\ q = NewQueues
  /\ res = [e \in AllEvents |-> {}]
  /\ evNcalls = [e \in AllEvents |-> 0]
  /\ evPncalls = [e \in AllEvents |-> "null"]
  /\ timeout = [e \in AllEvents |-> 0]
  /\ gotterm = FALSE /\ brk = FALSE
  /\ tvCache = 0 /\ eventTv = 1
  /\ sigAdded = FALSE
  /\ pc = "idle" /\ cur = SigEv /\ ncalls = 0 /\ activeq = 0 /\ wake = 0
  /\ lflags = {}
  /\ once = [o \in Once |-> "free"]
  /\ now = 1 /\ backs = 0 /\ ops = 0
  /\ cancelled = {}

UserOp ==
  \/ \E e \in Events :
       \/ EventSet(e) \/ EventDel(e)
       \/ \E ok \in BOOLEAN : EventAdd(e, ok)
       \/ \E tv \in Timeouts, ok \in BOOLEAN : EventAddTimeout(e, tv, ok)
       \/ \E r \in {"READ", "SIGNAL"}, n \in 1 .. MaxCalls : EventActive(e, r, n)
       \/ \E p \in Pris : EventPrioritySet(e, p)
  \/ \E o \in Once, kind \in {"exit", "user"}, tv \in Timeouts \cup {Forever},
        ok \in BOOLEAN : EventBaseOnce(o, kind, tv, ok)
  \/ \E n \in 1 .. MaxPri : EventBasePriorityInit(n)
  \/ \E ok \in BOOLEAN : EventReinit(ok)
  \/ EventBaseLoopbreak
  \/ EventBaseFree

Dispatch ==
  \/ \E e \in AllEvents, r \in {"READ", "WRITE"} : DispatchIO(e, r)
  \/ \E e \in Events, n \in 1 .. MaxCalls : DispatchSignal(e, n)

\* Steps of the library that nothing but the library decides on.
LoopStep ==
  \/ LoopTerminate \/ LoopNoEvents \/ LoopDispatch
  \/ \E e \in AllEvents : TimeoutProcess(e)
  \/ TimeoutsDone \/ ProcessNext \/ Invoke \/ CallsDone \/ ProcessDone
  \/ CallbackReturn

FreeStep == (\E e \in AllEvents : FreeDelete(e)) \/ FreeDealloc \/ EventBaseNew

Next ==
  \/ UserOp \/ Dispatch \/ LoopStep \/ FreeStep
  \/ \E f \in LoopFlags : LoopStart(f)
  \/ DispatchReturn \/ DispatchError
  \/ Tick \/ StepBack

\* dispatch returns once it found an event or its time is up; a wait that the
\* bounded clock cannot measure ends with the clock.
DispatchDue ==
  /\ DispatchReturn
  /\ q.countActive > 0 \/ (wake # Forever /\ (now >= wake \/ now = MaxTime))

Spec == Init /\ [][Next]_vars

\* The library keeps running, callbacks return, the kernel honours the timeout
\* it is given, and time passes even if dispatch is interrupted all the time.
FairSpec == Spec /\ WF_vars(LoopStep) /\ WF_vars(DispatchDue) /\ SF_vars(Tick)

-----------------------------------------------------------------------------
(* Properties.                                                             *)

PcValues == {"idle", "top", "dispatch", "timeouts", "process", "call", "callback",
             "free", "freed"}

QueueStates ==
  [flags       : [AllEvents -> SUBSET Queues],
   pri         : [AllEvents -> Pris],
   npri        : 1 .. MaxPri,
   eventqueue  : SUBSET AllEvents,
   timeheap    : SUBSET AllEvents,
   active      : [Pris -> Seq(AllEvents)],
   count       : Int,
   countActive : Int,
   fatal       : BOOLEAN]

EventFieldsOK ==
  /\ res \in [AllEvents -> SUBSET Results]
  /\ evNcalls \in [AllEvents -> 0 .. MaxCalls]
  /\ evPncalls \in [AllEvents -> {"null", "frame", "stale"}]
  /\ timeout \in [AllEvents -> Int]
  /\ once \in [Once -> {"free", "exit", "user"}]
  /\ cancelled \subseteq AllEvents

FlagFieldsOK == gotterm \in BOOLEAN /\ brk \in BOOLEAN /\ sigAdded \in BOOLEAN

LoopFieldsOK ==
  /\ pc \in PcValues
  /\ cur \in AllEvents /\ ncalls \in 0 .. MaxCalls /\ activeq \in Pris
  /\ lflags \subseteq {"ONCE", "NONBLOCK"}

TimeFieldsOK ==
  /\ tvCache \in 0 .. MaxTime /\ eventTv \in 1 .. MaxTime /\ wake \in Int
  /\ now \in 1 .. MaxTime /\ backs \in 0 .. MaxBack /\ ops \in 0 .. MaxOps

\* The type invariant of event.c's state.
TypeOK ==
  /\ q \in QueueStates
  /\ EventFieldsOK /\ FlagFieldsOK /\ LoopFieldsOK /\ TimeFieldsOK

On(b, queue) == {e \in AllEvents : queue \in b.flags[e]}
Counted(b, queue) == On(b, queue) \ {SigEv}
ActiveAt(b, p) == {e \in On(b, "ACTIVE") : b.pri[e] = p}

\* A queue of priority p holds exactly the active events of that priority,
\* each once.
ActiveQueueOK(b, p) ==
  /\ \A i, j \in 1 .. Len(b.active[p]) :
       b.active[p][i] = b.active[p][j] => i = j
  /\ {b.active[p][i] : i \in 1 .. Len(b.active[p])} = ActiveAt(b, p)

\* The flags of every event name exactly the queues it is on.
Membership(b) ==
  /\ b.eventqueue = On(b, "INSERTED")
  /\ b.timeheap = On(b, "TIMEOUT")
  /\ \A p \in Pris : ActiveQueueOK(b, p)

\* event_count counts the (event, queue) pairs of events that are not
\* internal, event_count_active all active events.
Counts(b) ==
  /\ b.count = Cardinality(Counted(b, "INSERTED")) + Cardinality(Counted(b, "TIMEOUT"))
               + Cardinality(Counted(b, "ACTIVE"))
  /\ b.countActive = Cardinality(On(b, "ACTIVE"))

\* Whatever user code calls, in whatever callback: the flags of every event,
\* the three queues and the two counters of the base agree, every priority
\* indexes an existing queue, and no call reaches the event_errx of
\* event_queue_insert or event_queue_remove (event.c:919-979).
QueuesConsistent ==
  /\ Membership(q)
  /\ Counts(q)
  /\ \A e \in AllEvents : q.pri[e] < q.npri
  /\ ~q.fatal

\* ev_signal is on the event queue exactly when ev_signal_added says so, it
\* has no timeout and is active only while it is added; event_reinit and
\* evsignal_dealloc rely on it (event.c:272-282).
SignalEventTracked ==
  /\ sigAdded <=> "INSERTED" \in q.flags[SigEv]
  /\ "TIMEOUT" \notin q.flags[SigEv]
  /\ "ACTIVE" \in q.flags[SigEv] => sigAdded

\* The asserts at the end of event_base_free: all queues are empty.
FreeLeavesNothing ==
  pc = "freed" => /\ q.eventqueue = {} /\ q.timeheap = {}
                  /\ \A p \in Pris : q.active[p] = <<>>
                  /\ q.count = 0 /\ q.countActive = 0

\* A struct event_once that event_once_cb has freed is on no queue
\* (event.c:546-553): none of its memory is reached again.
OnceFreedOffQueues ==
  \A o \in Once : once[o] = "free" => q.flags[o] = {}

\* After event_del(ev) the callback of ev is not called again until ev is
\* added or activated again, even by the burst of calls it was deleted from
\* (event.c:375-384, "Allows deletes to work"; event.h:224).
DelStopsCallbacks == pc = "call" /\ cur \in cancelled => ncalls = 0

\* An event on an active queue has calls to make: event_process_active never
\* drops an activation (event.c:376-378).
ActivationNotLost ==
  \A e \in AllEvents : "ACTIVE" \in q.flags[e] => evNcalls[e] > 0

\* An event that is active because it timed out is due: rescheduling it takes
\* it off the active queue first (event.c:744-758).
ActiveTimeoutsDue ==
  \A e \in AllEvents :
    "ACTIVE" \in q.flags[e] /\ "TIMEOUT" \in res[e] => timeout[e] <= now

Running == pc \notin {"idle", "free", "freed"}

\* While the loop runs, an active event leaves the active queue: its callback
\* is called or it is deleted, however often other events become active
\* (event.c:352-386).
ActiveEventsHandled ==
  \A e \in AllEvents :
    ("ACTIVE" \in q.flags[e] /\ Running) ~> ("ACTIVE" \notin q.flags[e] \/ ~Running)

\* While the loop runs, a timer that is set is taken off the heap: it fires or
\* is deleted, and a stream of I/O events does not keep it there
\* (event.c:895-917).
TimersFire ==
  \A e \in AllEvents :
    (e \in q.timeheap /\ Running) ~> (e \notin q.timeheap \/ ~Running)

\* event_loopexit ends the loop it was called in (event.c:411-431, 477-480).
LoopexitEnds ==
  \A o \in Once : (once[o] = "exit" /\ Running) ~> ~Running
=============================================================================
