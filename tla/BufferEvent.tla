---------------------------- MODULE BufferEvent ----------------------------
(***************************************************************************)
(* bufferevent (evbuffer.c): two events and two evbuffers on a descriptor. *)
(*                                                                         *)
(* ev_read and ev_write carry the flags event.c gives them (EventBase has  *)
(* that part in full): event_add, event_del, dispatch and timeout_process  *)
(* are modelled by what they do to one event.  Of the buffers the lengths  *)
(* matter (EvBuffer has the rest).  User callbacks are the last thing a    *)
(* handler does, so that what user code does in one is an action between   *)
(* two handlers, as is what it does in the callbacks of other events.      *)
(***************************************************************************)
EXTENDS Integers, FiniteSets

CONSTANTS
  Marks,        \* the watermarks user code sets for reading, <<low, high>>
  IntMax,       \* INT_MAX: a size_t that is larger wraps when it is an int
  MaxBytes,     \* bound on the bytes that arrive
  MaxOut,       \* bound on the bytes in the output buffer
  MaxOps,       \* bound on the calls of user code
  EvselMayFail  \* may evsel->add and evsel->del fail?

Dirs == {"READ", "WRITE"}

ASSUME BufferEventAssumption ==
  /\ \A m \in Marks : m[1] \in Nat /\ m[2] \in 0 .. 2 * IntMax + 1
  /\ IntMax \in Nat /\ MaxBytes \in Nat /\ MaxOut \in Nat /\ MaxOps \in Nat
  /\ EvselMayFail \in BOOLEAN

VARIABLES
  enabled,   \* the directions that are enabled
  flags,     \* EVLIST_INSERTED, _TIMEOUT, _ACTIVE of ev_read and ev_write
  res,       \* ev_res of an active event: "io" or "timeout"
  timeout,   \* is a timeout set for the direction?
  low, high, \* wm_read
  input,     \* the length of the input buffer
  output,    \* the length of the output buffer
  pressure,  \* bufferevent_read_pressure_cb is the callback of the input buffer
  avail,     \* bytes the descriptor has to read
  closed,    \* the peer has closed or reset the connection
  wanted,    \* history: the directions user code tried to enable and did not
             \* disable since
  stopped,   \* history: the directions that came to an end (the error callback
             \* was called, bufferevent_setfd, or evsel->add failed) and were
             \* not scheduled again
  freed, arrived, ops

conf  == <<enabled, timeout, low, high, wanted>>
kernel == <<avail, closed, arrived>>
vars  == <<enabled, flags, res, timeout, low, high, input, output, pressure, avail,
           closed, wanted, stopped, freed, arrived, ops>>

-----------------------------------------------------------------------------
(* What event.c does to one event.  f is its set of flags.                 *)

Outcomes == IF EvselMayFail THEN BOOLEAN ELSE {TRUE}

\* event_add fails: evsel->add is called, and fails.
Refused(f, ok) == ~ok /\ f \cap {"INSERTED", "ACTIVE"} = {}

\* event_add: an active event is not registered with the mechanism, and a
\* new timeout takes an event off the active queue that is there because of
\* the old one.
Added(f, r, tv, ok) ==
  LET io == IF f \cap {"INSERTED", "ACTIVE"} = {} THEN f \cup {"INSERTED"} ELSE f
      expired == tv /\ "ACTIVE" \in f /\ r = "timeout"
  IN  IF Refused(f, ok) THEN f
      ELSE (IF expired THEN io \ {"ACTIVE"} ELSE io) \cup (IF tv THEN {"TIMEOUT"} ELSE {})

\* bufferevent_add(ev, timeout)
BuffereventAdd(fl, d, ok) ==
  /\ flags' = [fl EXCEPT ![d] = Added(@, res[d], timeout[d], ok)]
  /\ stopped' = IF Refused(fl[d], ok) THEN stopped \cup {d} ELSE stopped \ {d}

\* event_del
Deleted(fl, d) == [fl EXCEPT ![d] = {}]

\* epoll_dispatch reports the descriptor: event_active.  EPOLLHUP and EPOLLERR
\* report both directions.
Dispatch(d) ==
  /\ ~freed
  /\ "INSERTED" \in flags[d]
  /\ d = "READ" => avail > 0 \/ closed
  /\ flags' = [flags EXCEPT ![d] = @ \cup {"ACTIVE"}]
  /\ res' = [res EXCEPT ![d] = "io"]
  /\ UNCHANGED <<conf, input, output, pressure, kernel, stopped, freed, ops>>

\* timeout_process
TimeoutProcess(d) ==
  /\ ~freed
  /\ "TIMEOUT" \in flags[d]
  /\ flags' = [flags EXCEPT ![d] = {"ACTIVE"}]
  /\ res' = [res EXCEPT ![d] = "timeout"]
  /\ UNCHANGED <<conf, input, output, pressure, kernel, stopped, freed, ops>>

-----------------------------------------------------------------------------
(* Callbacks of the events.  event_process_active has deleted the event.   *)

Running(d, why) == ~freed /\ "ACTIVE" \in flags[d] /\ res[d] = why

\* The error callback is called; the event is not scheduled again.
ErrorCb(d) ==
  /\ flags' = Deleted(flags, d)
  /\ stopped' = stopped \cup {d}
  /\ UNCHANGED <<conf, res, input, output, pressure, kernel, freed, ops>>

\* A timeout, in either direction.
TimeoutCb(d) == Running(d, "timeout") /\ ErrorCb(d)

\* howmuch, an int: the high watermark less the length
Howmuch == LET n == high - input IN IF n > IntMax THEN n - 2 * (IntMax + 1) ELSE n

\* "we don't want to read more data than would make us reach the watermark"
MayRead == high # 0 => Howmuch > 0

\* The end of the file, or an error of read.
ReadFails ==
  /\ Running("READ", "io")
  /\ MayRead
  /\ closed
  /\ ErrorCb("READ")

\* "we might have lowered the watermark, stop reading"
ReadStops ==
  /\ Running("READ", "io")
  /\ ~MayRead
  /\ flags' = Deleted(flags, "READ")
  /\ pressure' = TRUE
  /\ UNCHANGED <<conf, res, input, output, kernel, stopped, freed, ops>>

\* EAGAIN or EINTR: "goto reschedule".
ReadAgain(ok) ==
  /\ Running("READ", "io")
  /\ MayRead
  /\ BuffereventAdd(Deleted(flags, "READ"), "READ", ok)
  /\ UNCHANGED <<conf, res, input, output, pressure, kernel, freed, ops>>

\* bufferevent_readcb when evbuffer_read returns n > 0; it reads no more than
\* the high watermark allows.  The event is added; when the buffer is full it
\* is deleted again and back pressure begins.
ReadOk(n, ok) ==
  LET len == input + n
      full == high # 0 /\ len >= high /\ ~(low # 0 /\ len < low)
  IN  /\ Running("READ", "io")
      /\ MayRead
      /\ n \in 1 .. avail
      /\ high # 0 => n <= Howmuch
      /\ input' = len /\ avail' = avail - n
      /\ IF full THEN flags' = Deleted(flags, "READ") /\ pressure' = TRUE /\ UNCHANGED stopped
         ELSE BuffereventAdd(Deleted(flags, "READ"), "READ", ok) /\ UNCHANGED pressure
      /\ UNCHANGED <<conf, res, output, closed, arrived, freed, ops>>

\* An error of write.
WriteFails ==
  /\ Running("WRITE", "io")
  /\ output > 0 /\ closed
  /\ ErrorCb("WRITE")

\* EAGAIN, EINTR or EINPROGRESS.
WriteAgain(ok) ==
  /\ Running("WRITE", "io")
  /\ output > 0
  /\ BuffereventAdd(Deleted(flags, "WRITE"), "WRITE", ok)
  /\ UNCHANGED <<conf, res, input, output, pressure, kernel, freed, ops>>

\* Mutant: a write is expected to take everything.
WriteOnce(n, ok) ==
  /\ Running("WRITE", "io")
  /\ n \in 0 .. output /\ (output > 0 => n > 0)
  /\ output' = output - n
  /\ flags' = Deleted(flags, "WRITE")
  /\ UNCHANGED <<conf, res, input, pressure, kernel, stopped, freed, ops>>

\* bufferevent_writecb when write takes n bytes, or there is nothing to write.
WriteOk(n, ok) ==
  /\ Running("WRITE", "io")
  /\ n \in 0 .. output /\ (output > 0 => n > 0)
  /\ output' = output - n
  /\ IF output > n THEN BuffereventAdd(Deleted(flags, "WRITE"), "WRITE", ok)
     ELSE flags' = Deleted(flags, "WRITE") /\ UNCHANGED stopped
  /\ UNCHANGED <<conf, res, input, pressure, kernel, freed, ops>>

-----------------------------------------------------------------------------
(* Calls of user code.                                                     *)

UserCode == ~freed /\ ops < MaxOps /\ ops' = ops + 1

\* Mutant: reading is scheduled although it is disabled.
PressureAlways(now, hi, ok) ==
  IF hi = 0 \/ now < hi THEN pressure' = FALSE /\ BuffereventAdd(flags, "READ", ok)
  ELSE UNCHANGED <<pressure, flags, stopped>>

\* Mutant: reading is not scheduled again.
PressureForgets(now, hi, ok) ==
  /\ pressure' = (pressure /\ hi # 0 /\ now >= hi)
  /\ UNCHANGED <<flags, stopped>>

\* bufferevent_read_pressure_cb when the input buffer has now bytes and hi is
\* the high watermark.
PressureCb(now, hi, ok) ==
  IF hi = 0 \/ now < hi
  THEN /\ pressure' = FALSE
       /\ IF "READ" \in enabled THEN BuffereventAdd(flags, "READ", ok)
          ELSE UNCHANGED <<flags, stopped>>
  ELSE UNCHANGED <<pressure, flags, stopped>>

\* "if (buf->off < size) size = buf->off"
Taken(n) == IF input < n THEN input ELSE n

\* bufferevent_read, or evbuffer_drain of the input buffer
bufferevent_read(n, ok) ==
  /\ UserCode
  /\ input' = input - Taken(n)
  /\ IF Taken(n) > 0 /\ pressure THEN PressureCb(input', high, ok)
     ELSE UNCHANGED <<pressure, flags, stopped>>
  /\ UNCHANGED <<conf, res, output, kernel, freed>>

\* bufferevent_write and bufferevent_write_buffer, of n bytes.  (When
\* evbuffer_add fails nothing changes.)
bufferevent_write(n, ok) ==
  /\ UserCode
  /\ output + n <= MaxOut
  /\ output' = output + n
  /\ IF n > 0 /\ "WRITE" \in enabled THEN BuffereventAdd(flags, "WRITE", ok)
     ELSE UNCHANGED <<flags, stopped>>
  /\ UNCHANGED <<conf, res, input, pressure, kernel, freed>>

\* bufferevent_enable: the first addition that fails ends it, and enabled is
\* left as it was.
bufferevent_enable(ds, ok) ==
  LET refused == {d \in ds : Refused(flags[d], ok[d])}
      done == IF "READ" \in refused THEN {} ELSE ds \ refused
  IN  /\ UserCode
      /\ flags' = [d \in Dirs |-> IF d \in done
                                  THEN Added(flags[d], res[d], timeout[d], ok[d])
                                  ELSE flags[d]]
      /\ stopped' = stopped \ done
      /\ enabled' = IF refused = {} THEN enabled \cup ds ELSE enabled
      /\ wanted' = wanted \cup ds
      /\ UNCHANGED <<timeout, low, high, res, input, output, pressure, kernel, freed>>

\* bufferevent_disable: the first event_del that fails (evsel->del does, after
\* the flags are cleared) ends it, and enabled is left as it was.
bufferevent_disable(ds, ok) ==
  LET failed == {d \in ds : ~ok[d] /\ "INSERTED" \in flags[d]}
      done == IF "READ" \in failed THEN {"READ"} ELSE ds
  IN  /\ UserCode
      /\ flags' = [d \in Dirs |-> IF d \in done THEN {} ELSE flags[d]]
      /\ enabled' = IF failed = {} THEN enabled \ ds ELSE enabled
      /\ wanted' = IF failed = {} THEN wanted \ ds ELSE wanted
      /\ stopped' = IF failed = {} THEN stopped ELSE stopped \cup done
      /\ UNCHANGED <<timeout, low, high, res, input, output, pressure, kernel, freed>>

\* event_pending(ev, EV_READ or EV_WRITE)
Pending(d) == "INSERTED" \in flags[d] \/ ("ACTIVE" \in flags[d] /\ res[d] = "io")

bufferevent_settimeout(ds) ==
  LET tv == [d \in Dirs |-> d \in ds]
  IN  /\ UserCode
      /\ timeout' = tv
      /\ flags' = [d \in Dirs |->
                     IF Pending(d) THEN Added(flags[d], res[d], tv[d], TRUE) ELSE flags[d]]
      /\ UNCHANGED <<enabled, low, high, wanted, res, input, output, pressure, kernel,
                     stopped, freed>>

\* Mutant: the new watermark is not compared with the buffer.
WatermarkUnchecked(m, ok) ==
  /\ UserCode
  /\ low' = m[1] /\ high' = m[2]
  /\ UNCHANGED <<enabled, timeout, wanted, res, flags, input, output, pressure, kernel,
                 stopped, freed>>

\* bufferevent_setwatermark: new watermarks for reading, or the old ones when
\* the call is for EV_WRITE
bufferevent_setwatermark(m, ok) ==
  /\ UserCode
  /\ low' = m[1] /\ high' = m[2]
  /\ PressureCb(input, m[2], ok)
  /\ UNCHANGED <<enabled, timeout, wanted, res, input, output, kernel, freed>>

\* bufferevent_setfd: "might have to manually trigger event registration"
bufferevent_setfd ==
  /\ UserCode
  /\ flags' = [d \in Dirs |-> {}]
  /\ stopped' = Dirs
  /\ avail' = 0 /\ closed' = FALSE
  /\ UNCHANGED <<conf, res, input, output, pressure, arrived, freed>>

bufferevent_free ==
  /\ UserCode
  /\ flags' = [d \in Dirs |-> {}]
  /\ freed' = TRUE
  /\ UNCHANGED <<conf, res, input, output, pressure, kernel, stopped>>

-----------------------------------------------------------------------------
(* The peer.                                                               *)

Arrive ==
  /\ ~closed /\ arrived < MaxBytes
  /\ avail' = avail + 1 /\ arrived' = arrived + 1
  /\ UNCHANGED <<conf, flags, res, input, output, pressure, closed, stopped, freed, ops>>

Close ==
  /\ ~closed
  /\ closed' = TRUE
  /\ UNCHANGED <<conf, flags, res, input, output, pressure, avail, stopped, freed, arrived,
                 ops>>

-----------------------------------------------------------------------------
\* bufferevent_new: writing is enabled.
Init ==
  /\ enabled = {"WRITE"} /\ wanted = {"WRITE"} /\ stopped = {}
  /\ flags = [d \in Dirs |-> {}] /\ res = [d \in Dirs |-> "io"]
  /\ timeout = [d \in Dirs |-> FALSE]
  /\ low = 0 /\ high = 0 /\ input = 0 /\ output = 0 /\ pressure = FALSE
  /\ avail = 0 /\ closed = FALSE /\ freed = FALSE /\ arrived = 0 /\ ops = 0

UserOp ==
  \/ \E n \in 1 .. MaxBytes, ok \in Outcomes : bufferevent_read(n, ok)
  \/ \E n \in 0 .. MaxOut, ok \in Outcomes : bufferevent_write(n, ok)
  \/ \E ds \in SUBSET Dirs, ok \in [Dirs -> Outcomes] : bufferevent_enable(ds, ok)
  \/ \E ds \in SUBSET Dirs, ok \in [Dirs -> Outcomes] : bufferevent_disable(ds, ok)
  \/ \E ds \in SUBSET Dirs : bufferevent_settimeout(ds)
  \/ \E m \in Marks \cup {<<low, high>>}, ok \in Outcomes : bufferevent_setwatermark(m, ok)
  \/ bufferevent_setfd \/ bufferevent_free

Readcb ==
  \/ ReadFails \/ ReadStops
  \/ \E ok \in Outcomes : ReadAgain(ok) \/ \E n \in 1 .. avail : ReadOk(n, ok)

Writecb ==
  \/ WriteFails
  \/ \E ok \in Outcomes : WriteAgain(ok) \/ \E n \in 0 .. output : WriteOk(n, ok)

Loop(d) == Dispatch(d) \/ TimeoutProcess(d) \/ TimeoutCb(d)

Next ==
  \/ UserOp \/ Readcb \/ Writecb \/ Arrive \/ Close
  \/ \E d \in Dirs : Loop(d)

Spec == Init /\ [][Next]_vars

\* The loop runs: what is ready is reported, timeouts expire and active events
\* are processed.  A descriptor that is ready is not refused for ever.
FairSpec ==
  /\ Spec
  /\ \A d \in Dirs : WF_vars(Dispatch(d) /\ "ACTIVE" \notin flags[d])
  /\ \A d \in Dirs : WF_vars(TimeoutProcess(d)) /\ WF_vars(TimeoutCb(d))
  /\ WF_vars(Readcb) /\ SF_vars(\E n \in 1 .. avail, ok \in Outcomes : ReadOk(n, ok))
  /\ WF_vars(Writecb) /\ SF_vars(\E n \in 0 .. output, ok \in Outcomes : WriteOk(n, ok))

-----------------------------------------------------------------------------
(* Properties.                                                             *)

\* The type invariant; nothing is taken from the input buffer that is not
\* there (evbuffer.c:359-360).
TypeOK ==
  /\ enabled \subseteq Dirs /\ wanted \subseteq Dirs /\ stopped \subseteq Dirs
  /\ flags \in [Dirs -> SUBSET {"INSERTED", "TIMEOUT", "ACTIVE"}]
  /\ res \in [Dirs -> {"io", "timeout"}] /\ timeout \in [Dirs -> BOOLEAN]
  /\ low \in Nat /\ high \in Nat /\ input \in 0 .. MaxBytes /\ output \in 0 .. MaxOut
  /\ avail \in 0 .. MaxBytes
  /\ pressure \in BOOLEAN /\ closed \in BOOLEAN /\ freed \in BOOLEAN

\* "If the read buffer is beyond the high watermark, the buffevent stops
\* reading from the network" (event.h:949-950): reading is held back only while
\* the input buffer is at the high watermark, however the watermark and the
\* buffer change (evbuffer.c:84-88, 110-119, 142-148).
PressureOnlyWhenFull == pressure => high # 0 /\ input >= high

\* No callback is to come of a direction that was disabled and not asked for
\* since, or of a bufferevent that is freed (evbuffer.c:387-401, 308-318).
DisabledStaysQuiet ==
  \A d \in Dirs : d \notin wanted \/ freed => flags[d] = {}

\* What arrives is read, unless reading is held back, disabled or at an end
\* (evbuffer.c:92-161).
InputIsRead ==
  (avail > 0) ~> (avail = 0 \/ pressure \/ "READ" \notin enabled \/ "READ" \in stopped
                  \/ freed)

\* What is written leaves, unless writing is disabled or at an end
\* (evbuffer.c:163-220).
OutputLeaves ==
  (output > 0) ~> (output = 0 \/ "WRITE" \notin enabled \/ "WRITE" \in stopped \/ freed)
=============================================================================
