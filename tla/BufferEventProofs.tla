------------------------- MODULE BufferEventProofs -------------------------
(***************************************************************************)
(* A bufferevent that is disabled or freed stays quiet, and reading is     *)
(* held back only at the high watermark: for any watermarks, any number of *)
(* bytes, and any failures of evsel->add and evsel->del.                   *)
(***************************************************************************)
EXTENDS BufferEvent, TLAPS

\* What was read and what waits to be read has arrived.
BytesArrived ==
  /\ arrived \in 0 .. MaxBytes /\ ops \in Nat
  /\ input + avail <= arrived

\* bufferevent_enable sets no bit that was not asked for.
EnabledWanted == enabled \subseteq wanted

QuietInv == TypeOK /\ BytesArrived /\ EnabledWanted /\ DisabledStaysQuiet

\* The high watermark is one an int can hold.
MarksFit == \A m \in Marks : m[2] <= IntMax

FullInv == TypeOK /\ high <= IntMax /\ PressureOnlyWhenFull

-----------------------------------------------------------------------------
(* One event: event_add and bufferevent_add.                               *)

Flags == SUBSET {"INSERTED", "TIMEOUT", "ACTIVE"}

LEMMA OutcomesBoolean == Outcomes \subseteq BOOLEAN
  BY DEF Outcomes

\* event_add leaves a set of flags.
LEMMA AddedType ==
  ASSUME NEW f \in Flags, NEW r, NEW tv, NEW ok
  PROVE  Added(f, r, tv, ok) \in Flags
  BY DEF Added, Flags

\* event_del leaves no flag of the event, and the others as they were.
LEMMA DeletedFacts ==
  ASSUME NEW fl \in [Dirs -> Flags], NEW d \in Dirs
  PROVE  /\ Deleted(fl, d) \in [Dirs -> Flags]
         /\ Deleted(fl, d)[d] = {}
         /\ \A c \in Dirs \ {d} : Deleted(fl, d)[c] = fl[c]
  BY DEF Deleted, Flags

\* bufferevent_add touches only its event.
LEMMA BuffereventAddFacts ==
  ASSUME NEW fl \in [Dirs -> Flags], NEW d \in Dirs, NEW ok, stopped \subseteq Dirs,
         BuffereventAdd(fl, d, ok)
  PROVE  /\ flags' \in [Dirs -> Flags]
         /\ stopped' \subseteq Dirs
         /\ \A c \in Dirs \ {d} : flags'[c] = fl[c]
<1>1. Added(fl[d], res[d], timeout[d], ok) \in Flags
  BY AddedType
<1> QED
  BY <1>1 DEF BuffereventAdd

\* So does event_del followed by bufferevent_add.
LEMMA ReaddFacts ==
  ASSUME TypeOK, NEW d \in Dirs, NEW ok, BuffereventAdd(Deleted(flags, d), d, ok)
  PROVE  /\ flags' \in [Dirs -> Flags]
         /\ stopped' \subseteq Dirs
         /\ \A c \in Dirs \ {d} : flags'[c] = flags[c]
<1>1. flags \in [Dirs -> Flags] /\ stopped \subseteq Dirs
  BY DEF TypeOK, Flags
<1>2. /\ Deleted(flags, d) \in [Dirs -> Flags]
      /\ \A c \in Dirs \ {d} : Deleted(flags, d)[c] = flags[c]
  BY <1>1, DeletedFacts
<1> QED
  BY <1>1, <1>2, BuffereventAddFacts

\* The callback of the input buffer schedules reading only when it is enabled,
\* and holds back only at the watermark.
LEMMA PressureCbFacts ==
  ASSUME TypeOK, NEW now \in Nat, NEW hi \in Nat, NEW ok, PressureCb(now, hi, ok)
  PROVE  /\ flags' \in [Dirs -> Flags]
         /\ stopped' \subseteq Dirs
         /\ pressure' \in BOOLEAN
         /\ pressure' => hi # 0 /\ now >= hi
         /\ \A c \in Dirs : c \in enabled \/ flags'[c] = flags[c]
<1>1. flags \in [Dirs -> Flags] /\ stopped \subseteq Dirs /\ pressure \in BOOLEAN
  BY DEF TypeOK, Flags
<1>2. CASE (hi = 0 \/ now < hi) /\ "READ" \in enabled
  <2>1. BuffereventAdd(flags, "READ", ok) /\ pressure' = FALSE
    BY <1>2 DEF PressureCb
  <2>2. /\ flags' \in [Dirs -> Flags] /\ stopped' \subseteq Dirs
        /\ \A c \in Dirs \ {"READ"} : flags'[c] = flags[c]
    BY <1>1, <2>1, BuffereventAddFacts DEF Dirs
  <2> QED
    BY <1>2, <2>1, <2>2
<1>3. CASE (hi = 0 \/ now < hi) /\ "READ" \notin enabled
  <2>1. pressure' = FALSE /\ flags' = flags /\ stopped' = stopped
    BY <1>3 DEF PressureCb
  <2> QED
    BY <1>1, <2>1
<1>4. CASE ~(hi = 0 \/ now < hi)
  <2>1. pressure' = pressure /\ flags' = flags /\ stopped' = stopped
    BY <1>4 DEF PressureCb
  <2> QED
    BY <1>1, <1>4, <2>1
<1> QED
  BY <1>2, <1>3, <1>4
-----------------------------------------------------------------------------
(* Types and bytes.                                                        *)

LEMMA SmallerSum ==
  ASSUME NEW i \in Int, NEW j \in Int, NEW a \in Int, NEW r \in Int, j <= i, i + a <= r
  PROVE  j + a <= r
  OBVIOUS

\* Calls of user code.
LEMMA UserOpTypes ==
  ASSUME TypeOK, BytesArrived, UserOp
  PROVE  TypeOK' /\ BytesArrived'
<1>0. /\ flags \in [Dirs -> Flags] /\ stopped \subseteq Dirs
      /\ input \in Nat /\ avail \in Nat /\ arrived \in Nat /\ ops \in Nat /\ output \in Nat
      /\ MaxBytes \in Nat /\ MaxOut \in Nat
  BY BufferEventAssumption DEF TypeOK, BytesArrived, Flags
<1>1. ASSUME NEW n \in 1 .. MaxBytes, NEW ok \in Outcomes, bufferevent_read(n, ok)
      PROVE  TypeOK' /\ BytesArrived'
  <2>1. /\ input' \in 0 .. MaxBytes /\ input' <= input
        /\ ops' = ops + 1 /\ output' = output /\ freed' = freed /\ res' = res
        /\ enabled' = enabled /\ timeout' = timeout /\ low' = low /\ high' = high
        /\ wanted' = wanted /\ avail' = avail /\ closed' = closed /\ arrived' = arrived
    BY <1>0, <1>1 DEF bufferevent_read, UserCode, Taken, conf, kernel, TypeOK
  <2>2. flags' \in [Dirs -> Flags] /\ stopped' \subseteq Dirs /\ pressure' \in BOOLEAN
    <3>1. CASE Taken(n) > 0 /\ pressure
      <4>1. PressureCb(input', high, ok) /\ input' \in Nat /\ high \in Nat
        BY <1>1, <2>1, <3>1 DEF bufferevent_read, TypeOK
      <4> QED
        BY <4>1, PressureCbFacts
    <3>2. CASE ~(Taken(n) > 0 /\ pressure)
      <4>1. pressure' = pressure /\ flags' = flags /\ stopped' = stopped
        BY <1>1, <3>2 DEF bufferevent_read
      <4> QED
        BY <1>0, <4>1 DEF TypeOK
    <3> QED
      BY <3>1, <3>2
  <2>3. BytesArrived'
    <3>1. input' \in Int /\ input' <= input
      BY <2>1
    <3>2. /\ input \in Int /\ avail \in Int /\ arrived \in Int
          /\ input + avail <= arrived
      BY <1>0 DEF BytesArrived
    <3>3. input' + avail <= arrived
      BY <3>1, <3>2, SmallerSum
    <3>4. arrived' = arrived /\ avail' = avail /\ ops' = ops + 1
      BY <2>1
    <3> QED
      BY <1>0, <3>3, <3>4 DEF BytesArrived
  <2> QED
    BY <2>1, <2>2, <2>3 DEF TypeOK, Flags
<1>2. ASSUME NEW n \in 0 .. MaxOut, NEW ok \in Outcomes, bufferevent_write(n, ok)
      PROVE  TypeOK' /\ BytesArrived'
  <2>1. /\ output' \in 0 .. MaxOut /\ pressure' = pressure
        /\ ops' = ops + 1 /\ input' = input /\ freed' = freed /\ res' = res
        /\ enabled' = enabled /\ timeout' = timeout /\ low' = low /\ high' = high
        /\ wanted' = wanted /\ avail' = avail /\ closed' = closed /\ arrived' = arrived
    BY <1>0, <1>2 DEF bufferevent_write, UserCode, conf, kernel
  <2>2. flags' \in [Dirs -> Flags] /\ stopped' \subseteq Dirs
    <3>1. CASE n > 0 /\ "WRITE" \in enabled
      <4>1. BuffereventAdd(flags, "WRITE", ok) /\ "WRITE" \in Dirs
        BY <1>2, <3>1 DEF bufferevent_write, Dirs
      <4> QED
        BY <1>0, <4>1, BuffereventAddFacts
    <3>2. CASE ~(n > 0 /\ "WRITE" \in enabled)
      BY <1>0, <1>2, <3>2 DEF bufferevent_write
    <3> QED
      BY <3>1, <3>2
  <2>3. BytesArrived'
    BY <1>0, <2>1 DEF BytesArrived
  <2> QED
    BY <2>1, <2>2, <2>3 DEF TypeOK, Flags
<1>3. ASSUME NEW ds \in SUBSET Dirs, NEW ok \in [Dirs -> Outcomes], bufferevent_enable(ds, ok)
      PROVE  TypeOK' /\ BytesArrived'
  <2>1. \A d \in Dirs : Added(flags[d], res[d], timeout[d], ok[d]) \in Flags
    BY <1>0, AddedType
  <2>2. flags' \in [Dirs -> Flags]
    BY <1>0, <1>3, <2>1 DEF bufferevent_enable
  <2>3. /\ enabled' \subseteq Dirs /\ wanted' \subseteq Dirs /\ stopped' \subseteq Dirs
        /\ ops' = ops + 1 /\ input' = input /\ output' = output /\ freed' = freed
        /\ res' = res /\ timeout' = timeout /\ low' = low /\ high' = high
        /\ pressure' = pressure /\ avail' = avail /\ closed' = closed /\ arrived' = arrived
    BY <1>0, <1>3 DEF bufferevent_enable, UserCode, kernel, TypeOK
  <2>4. BytesArrived'
    BY <1>0, <2>3 DEF BytesArrived
  <2> QED
    BY <2>2, <2>3, <2>4 DEF TypeOK, Flags
<1>4. ASSUME NEW ds \in SUBSET Dirs, NEW ok \in [Dirs -> Outcomes], bufferevent_disable(ds, ok)
      PROVE  TypeOK' /\ BytesArrived'
  <2>1. flags' \in [Dirs -> Flags]
    BY <1>0, <1>4 DEF bufferevent_disable, Flags
  <2>2. /\ enabled' \subseteq Dirs /\ wanted' \subseteq Dirs /\ stopped' \subseteq Dirs
        /\ ops' = ops + 1 /\ input' = input /\ output' = output /\ freed' = freed
        /\ res' = res /\ timeout' = timeout /\ low' = low /\ high' = high
        /\ pressure' = pressure /\ avail' = avail /\ closed' = closed /\ arrived' = arrived
    BY <1>0, <1>4 DEF bufferevent_disable, UserCode, kernel, TypeOK, Dirs
  <2>3. BytesArrived'
    BY <1>0, <2>2 DEF BytesArrived
  <2> QED
    BY <2>1, <2>2, <2>3 DEF TypeOK, Flags
<1>5. ASSUME NEW ds \in SUBSET Dirs, bufferevent_settimeout(ds)
      PROVE  TypeOK' /\ BytesArrived'
  <2>1. \A d \in Dirs : Added(flags[d], res[d], [c \in Dirs |-> c \in ds][d], TRUE) \in Flags
    BY <1>0, AddedType
  <2>2. flags' \in [Dirs -> Flags]
    BY <1>0, <1>5, <2>1 DEF bufferevent_settimeout
  <2>3. timeout' \in [Dirs -> BOOLEAN]
    BY <1>5 DEF bufferevent_settimeout
  <2>4. /\ enabled' = enabled /\ wanted' = wanted /\ stopped' = stopped
        /\ ops' = ops + 1 /\ input' = input /\ output' = output /\ freed' = freed
        /\ res' = res /\ low' = low /\ high' = high
        /\ pressure' = pressure /\ avail' = avail /\ closed' = closed /\ arrived' = arrived
    BY <1>5 DEF bufferevent_settimeout, UserCode, kernel
  <2>5. BytesArrived'
    BY <1>0, <2>4 DEF BytesArrived
  <2> QED
    BY <2>2, <2>3, <2>4, <2>5 DEF TypeOK, Flags
<1>6. ASSUME NEW m \in Marks \cup {<<low, high>>}, NEW ok \in Outcomes,
             bufferevent_setwatermark(m, ok)
      PROVE  TypeOK' /\ BytesArrived'
  <2>1. m[1] \in Nat /\ m[2] \in Nat
    BY BufferEventAssumption DEF TypeOK
  <2>2. flags' \in [Dirs -> Flags] /\ stopped' \subseteq Dirs /\ pressure' \in BOOLEAN
    BY <1>0, <1>6, <2>1, PressureCbFacts DEF bufferevent_setwatermark
  <2>3. /\ low' = m[1] /\ high' = m[2]
        /\ enabled' = enabled /\ wanted' = wanted /\ timeout' = timeout
        /\ ops' = ops + 1 /\ input' = input /\ output' = output /\ freed' = freed
        /\ res' = res /\ avail' = avail /\ closed' = closed /\ arrived' = arrived
    BY <1>6 DEF bufferevent_setwatermark, UserCode, kernel
  <2>4. BytesArrived'
    BY <1>0, <2>3 DEF BytesArrived
  <2> QED
    BY <2>1, <2>2, <2>3, <2>4 DEF TypeOK, Flags
<1>7. CASE bufferevent_setfd
  <2>1. /\ flags' = [d \in Dirs |-> {}] /\ stopped' = Dirs /\ avail' = 0 /\ closed' = FALSE
        /\ enabled' = enabled /\ wanted' = wanted /\ timeout' = timeout
        /\ low' = low /\ high' = high /\ res' = res /\ input' = input /\ output' = output
        /\ pressure' = pressure /\ arrived' = arrived /\ freed' = freed /\ ops' = ops + 1
    BY <1>7 DEF bufferevent_setfd, UserCode, conf
  <2>2. BytesArrived'
    BY <1>0, <2>1 DEF BytesArrived
  <2>3. flags' \in [Dirs -> Flags] /\ stopped' \subseteq Dirs /\ avail' \in 0 .. MaxBytes
    BY <1>0, <2>1 DEF Flags
  <2> QED
    BY <2>1, <2>2, <2>3 DEF TypeOK, Flags
<1>8. CASE bufferevent_free
  BY <1>0, <1>8 DEF bufferevent_free, UserCode, conf, kernel, TypeOK, BytesArrived
<1> QED
  BY <1>1, <1>2, <1>3, <1>4, <1>5, <1>6, <1>7, <1>8 DEF UserOp
\* The callbacks of the events, and event_active by the loop.
LEMMA HandlerTypes ==
  ASSUME TypeOK, BytesArrived, Readcb \/ Writecb \/ \E d \in Dirs : Loop(d)
  PROVE  TypeOK' /\ BytesArrived'
<1>0. /\ flags \in [Dirs -> Flags] /\ stopped \subseteq Dirs /\ high \in Nat
      /\ input \in Nat /\ avail \in Nat /\ arrived \in Nat /\ ops \in Nat /\ output \in Nat
      /\ "READ" \in Dirs /\ "WRITE" \in Dirs /\ MaxBytes \in Nat /\ MaxOut \in Nat
  BY BufferEventAssumption DEF TypeOK, BytesArrived, Flags, Dirs
<1>1. ASSUME NEW d \in Dirs, ErrorCb(d)
      PROVE  TypeOK' /\ BytesArrived'
  <2>1. Deleted(flags, d) \in [Dirs -> Flags]
    BY <1>0, DeletedFacts
  <2> QED
    BY <1>0, <1>1, <2>1 DEF ErrorCb, conf, kernel, TypeOK, BytesArrived, Flags
<1>2. CASE ReadStops
  <2>1. Deleted(flags, "READ") \in [Dirs -> Flags]
    BY <1>0, DeletedFacts
  <2>2. /\ flags' = Deleted(flags, "READ") /\ pressure' = TRUE
        /\ UNCHANGED <<conf, res, input, output, kernel, stopped, freed, ops>>
    BY <1>2 DEF ReadStops
  <2> QED
    BY <1>0, <2>1, <2>2 DEF conf, kernel, TypeOK, BytesArrived, Flags
<1>3. ASSUME NEW d \in Dirs, NEW ok, BuffereventAdd(Deleted(flags, d), d, ok),
             UNCHANGED <<conf, res, input, output, pressure, kernel, freed, ops>>
      PROVE  TypeOK' /\ BytesArrived'
  <2>1. flags' \in [Dirs -> Flags] /\ stopped' \subseteq Dirs
    BY <1>3, ReaddFacts
  <2> QED
    BY <1>3, <2>1 DEF conf, kernel, TypeOK, BytesArrived, Flags
<1>4. ASSUME NEW ok \in Outcomes, NEW n \in 1 .. avail, ReadOk(n, ok)
      PROVE  TypeOK' /\ BytesArrived'
  <2> DEFINE full == high # 0 /\ input + n >= high /\ ~(low # 0 /\ input + n < low)
  <2>1. /\ input' = input + n /\ avail' = avail - n
        /\ UNCHANGED <<conf, res, output, closed, arrived, freed, ops>>
        /\ IF full THEN flags' = Deleted(flags, "READ") /\ pressure' = TRUE /\ stopped' = stopped
           ELSE BuffereventAdd(Deleted(flags, "READ"), "READ", ok) /\ pressure' = pressure
    BY <1>4 DEF ReadOk
  <2> HIDE DEF full
  <2>2. flags' \in [Dirs -> Flags] /\ stopped' \subseteq Dirs /\ pressure' \in BOOLEAN
    <3>1. CASE full
      <4>1. Deleted(flags, "READ") \in [Dirs -> Flags]
        BY <1>0, DeletedFacts
      <4> QED
        BY <1>0, <2>1, <3>1, <4>1
    <3>2. CASE ~full
      <4>1. BuffereventAdd(Deleted(flags, "READ"), "READ", ok) /\ pressure' = pressure
        BY <2>1, <3>2
      <4>2. flags' \in [Dirs -> Flags] /\ stopped' \subseteq Dirs
        BY <1>0, <4>1, ReaddFacts
      <4> QED
        BY <4>1, <4>2 DEF TypeOK
    <3> QED
      BY <3>1, <3>2
  <2>3. /\ n \in Nat /\ n <= avail /\ input' + avail' = input + avail
        /\ input' \in Nat /\ avail' \in Nat
    BY <1>0, <2>1
  <2>4. BytesArrived'
    BY <1>0, <2>1, <2>3 DEF BytesArrived
  <2>5. input' \in 0 .. MaxBytes /\ avail' \in 0 .. MaxBytes
    BY <1>0, <2>1, <2>3, <2>4 DEF BytesArrived
  <2> QED
    BY <2>1, <2>2, <2>4, <2>5 DEF conf, TypeOK, Flags
<1>5. ASSUME NEW ok \in Outcomes, NEW n \in 0 .. output, WriteOk(n, ok)
      PROVE  TypeOK' /\ BytesArrived'
  <2>1. /\ output' = output - n
        /\ UNCHANGED <<conf, res, input, pressure, kernel, freed, ops>>
        /\ IF output > n THEN BuffereventAdd(Deleted(flags, "WRITE"), "WRITE", ok)
           ELSE flags' = Deleted(flags, "WRITE") /\ stopped' = stopped
    BY <1>5 DEF WriteOk
  <2>2. flags' \in [Dirs -> Flags] /\ stopped' \subseteq Dirs
    <3>1. CASE output > n
      BY <1>0, <2>1, <3>1, ReaddFacts
    <3>2. CASE ~(output > n)
      <4>1. Deleted(flags, "WRITE") \in [Dirs -> Flags]
        BY <1>0, DeletedFacts
      <4> QED
        BY <1>0, <2>1, <3>2, <4>1
    <3> QED
      BY <3>1, <3>2
  <2>3. output' \in 0 .. MaxOut
    BY <1>0, <2>1 DEF TypeOK
  <2>4. UNCHANGED <<enabled, timeout, low, high, wanted, res, input, pressure, avail, closed,
                    arrived, freed, ops>>
    BY <2>1 DEF conf, kernel
  <2>5. BytesArrived'
    BY <2>4 DEF BytesArrived
  <2> QED
    BY <2>2, <2>3, <2>4, <2>5 DEF TypeOK, Flags
<1>6. ASSUME NEW d \in Dirs, Dispatch(d) \/ TimeoutProcess(d)
      PROVE  TypeOK' /\ BytesArrived'
  <2>1. flags' \in [Dirs -> Flags] /\ res' \in [Dirs -> {"io", "timeout"}]
    BY <1>0, <1>6 DEF Dispatch, TimeoutProcess, TypeOK, Flags
  <2>2. UNCHANGED <<conf, input, output, pressure, kernel, stopped, freed, ops>>
    BY <1>6 DEF Dispatch, TimeoutProcess
  <2> QED
    BY <2>1, <2>2 DEF conf, kernel, TypeOK, BytesArrived, Flags
<1>7. ASSUME Readcb
      PROVE  TypeOK' /\ BytesArrived'
  BY <1>0, <1>1, <1>2, <1>3, <1>4, <1>7 DEF Readcb, ReadFails, ReadAgain
<1>8. ASSUME Writecb
      PROVE  TypeOK' /\ BytesArrived'
  BY <1>0, <1>1, <1>3, <1>5, <1>8 DEF Writecb, WriteFails, WriteAgain
<1>9. ASSUME NEW d \in Dirs, Loop(d)
      PROVE  TypeOK' /\ BytesArrived'
  BY <1>1, <1>6, <1>9 DEF Loop, TimeoutCb
<1> QED
  BY <1>7, <1>8, <1>9
LEMMA InitTypes == Init => TypeOK /\ BytesArrived
<1> SUFFICES ASSUME Init PROVE TypeOK /\ BytesArrived
  OBVIOUS
<1>1. BytesArrived
  BY BufferEventAssumption DEF Init, BytesArrived
<1>2. /\ flags \in [Dirs -> SUBSET {"INSERTED", "TIMEOUT", "ACTIVE"}]
      /\ res \in [Dirs -> {"io", "timeout"}]
  BY DEF Init
<1>3. /\ timeout \in [Dirs -> BOOLEAN]
      /\ pressure \in BOOLEAN /\ closed \in BOOLEAN /\ freed \in BOOLEAN
  BY DEF Init
<1>4. /\ low \in Nat /\ high \in Nat /\ input \in 0 .. MaxBytes /\ output \in 0 .. MaxOut
      /\ avail \in 0 .. MaxBytes
  BY BufferEventAssumption DEF Init
<1>5. enabled \subseteq Dirs /\ wanted \subseteq Dirs /\ stopped \subseteq Dirs
  BY DEF Init, Dirs
<1> QED
  BY <1>1, <1>2, <1>3, <1>4, <1>5 DEF TypeOK

LEMMA StepTypes ==
  ASSUME TypeOK, BytesArrived, [Next]_vars
  PROVE  TypeOK' /\ BytesArrived'
<1>1. CASE UserOp
  BY <1>1, UserOpTypes
<1>2. CASE Readcb \/ Writecb \/ \E d \in Dirs : Loop(d)
  BY <1>2, HandlerTypes
<1>3. CASE Arrive
  <2>1. /\ avail' = avail + 1 /\ arrived' = arrived + 1 /\ arrived < MaxBytes
        /\ UNCHANGED <<enabled, timeout, low, high, wanted, flags, res, input, output, pressure,
                       closed, stopped, freed, ops>>
    BY <1>3 DEF Arrive, conf
  <2>2. /\ arrived \in Nat /\ avail \in Nat /\ input \in Nat /\ input + avail <= arrived
        /\ ops \in Nat
    BY BufferEventAssumption DEF TypeOK, BytesArrived
  <2>3. BytesArrived' /\ avail' \in 0 .. MaxBytes
    BY <2>1, <2>2, BufferEventAssumption DEF BytesArrived
  <2> QED
    BY <2>1, <2>3 DEF TypeOK
<1>4. CASE Close
  BY <1>4 DEF Close, conf, TypeOK, BytesArrived
<1>5. CASE UNCHANGED vars
  BY <1>5 DEF vars, TypeOK, BytesArrived
<1> QED
  BY <1>1, <1>2, <1>3, <1>4, <1>5 DEF Next

-----------------------------------------------------------------------------
(* A disabled direction.                                                   *)

\* The flags of a direction come only from directions that have some, or that
\* are enabled.
LEMMA StepQuiet ==
  ASSUME TypeOK, EnabledWanted, DisabledStaysQuiet, [Next]_vars
  PROVE  EnabledWanted' /\ DisabledStaysQuiet'
<1>0. /\ flags \in [Dirs -> Flags] /\ stopped \subseteq Dirs /\ high \in Nat /\ input \in Nat
      /\ "READ" \in Dirs /\ "WRITE" \in Dirs /\ MaxBytes \in Nat
  BY BufferEventAssumption DEF TypeOK, Flags, Dirs
<1>1. ASSUME UNCHANGED <<enabled, wanted, freed>>,
             \A c \in Dirs : (c \in enabled /\ ~freed) \/ flags[c] # {} \/ flags'[c] = flags[c]
      PROVE  EnabledWanted' /\ DisabledStaysQuiet'
  BY <1>1 DEF EnabledWanted, DisabledStaysQuiet
<1>2. ASSUME NEW n \in 1 .. MaxBytes, NEW ok \in Outcomes, bufferevent_read(n, ok)
      PROVE  EnabledWanted' /\ DisabledStaysQuiet'
  <2>1. ~freed /\ UNCHANGED <<enabled, wanted, freed>> /\ input' \in Nat
    BY <1>0, <1>2 DEF bufferevent_read, UserCode, conf, Taken
  <2>2. CASE Taken(n) > 0 /\ pressure
    <3>1. PressureCb(input', high, ok)
      BY <1>2, <2>2 DEF bufferevent_read
    <3>2. \A c \in Dirs : c \in enabled \/ flags'[c] = flags[c]
      BY <1>0, <2>1, <3>1, PressureCbFacts
    <3> QED
      BY <1>1, <2>1, <3>2
  <2>3. CASE ~(Taken(n) > 0 /\ pressure)
    <3>1. flags' = flags
      BY <1>2, <2>3 DEF bufferevent_read
    <3> QED
      BY <1>1, <2>1, <3>1
  <2> QED
    BY <2>2, <2>3
<1>3. ASSUME NEW n \in 0 .. MaxOut, NEW ok \in Outcomes, bufferevent_write(n, ok)
      PROVE  EnabledWanted' /\ DisabledStaysQuiet'
  <2>1. ~freed /\ UNCHANGED <<enabled, wanted, freed>>
    BY <1>3 DEF bufferevent_write, UserCode, conf
  <2>2. CASE n > 0 /\ "WRITE" \in enabled
    <3>1. BuffereventAdd(flags, "WRITE", ok)
      BY <1>3, <2>2 DEF bufferevent_write
    <3>2. \A c \in Dirs \ {"WRITE"} : flags'[c] = flags[c]
      BY <1>0, <3>1, BuffereventAddFacts
    <3> QED
      BY <1>1, <2>1, <2>2, <3>2
  <2>3. CASE ~(n > 0 /\ "WRITE" \in enabled)
    <3>1. flags' = flags
      BY <1>3, <2>3 DEF bufferevent_write
    <3> QED
      BY <1>1, <2>1, <3>1
  <2> QED
    BY <2>2, <2>3
<1>4. ASSUME NEW ds \in SUBSET Dirs, NEW ok \in [Dirs -> Outcomes], bufferevent_enable(ds, ok)
      PROVE  EnabledWanted' /\ DisabledStaysQuiet'
  <2>1. /\ ~freed /\ freed' = freed /\ wanted' = wanted \cup ds
        /\ enabled' = enabled \cup ds \/ enabled' = enabled
        /\ \A d \in Dirs \ ds : flags'[d] = flags[d]
    BY <1>4 DEF bufferevent_enable, UserCode
  <2> QED
    BY <2>1 DEF EnabledWanted, DisabledStaysQuiet
<1>5. ASSUME NEW ds \in SUBSET Dirs, NEW ok \in [Dirs -> Outcomes], bufferevent_disable(ds, ok)
      PROVE  EnabledWanted' /\ DisabledStaysQuiet'
  <2> DEFINE failed == {d \in ds : ~ok[d] /\ "INSERTED" \in flags[d]}
  <2>1. /\ ~freed /\ freed' = freed
        /\ \A d \in Dirs : flags'[d] = {} \/ flags'[d] = flags[d]
        /\ failed = {} => /\ \A d \in ds : flags'[d] = {}
                          /\ enabled' = enabled \ ds /\ wanted' = wanted \ ds
        /\ failed # {} => enabled' = enabled /\ wanted' = wanted
    BY <1>5 DEF bufferevent_disable, UserCode
  <2> HIDE DEF failed
  <2> QED
    BY <2>1 DEF EnabledWanted, DisabledStaysQuiet
<1>6. ASSUME NEW ds \in SUBSET Dirs, bufferevent_settimeout(ds)
      PROVE  EnabledWanted' /\ DisabledStaysQuiet'
  <2>1. /\ UNCHANGED <<enabled, wanted, freed>>
        /\ \A d \in Dirs : flags[d] # {} \/ flags'[d] = flags[d]
    BY <1>6 DEF bufferevent_settimeout, Pending
  <2> QED
    BY <1>1, <2>1
<1>7. ASSUME NEW m \in Marks \cup {<<low, high>>}, NEW ok \in Outcomes,
             bufferevent_setwatermark(m, ok)
      PROVE  EnabledWanted' /\ DisabledStaysQuiet'
  <2>1. ~freed /\ UNCHANGED <<enabled, wanted, freed>> /\ PressureCb(input, m[2], ok)
    BY <1>7 DEF bufferevent_setwatermark, UserCode
  <2>2. m[2] \in Nat
    BY <1>0, BufferEventAssumption
  <2>3. \A c \in Dirs : c \in enabled \/ flags'[c] = flags[c]
    BY <1>0, <2>1, <2>2, PressureCbFacts
  <2> QED
    BY <1>1, <2>1, <2>3
<1>8. CASE bufferevent_setfd \/ bufferevent_free
  <2>1. /\ UNCHANGED <<enabled, wanted>> /\ \A d \in Dirs : flags'[d] = {}
    BY <1>8 DEF bufferevent_setfd, bufferevent_free, conf
  <2> QED
    BY <2>1 DEF EnabledWanted, DisabledStaysQuiet
<1>9. ASSUME NEW d \in Dirs, ErrorCb(d)
      PROVE  EnabledWanted' /\ DisabledStaysQuiet'
  <2>1. UNCHANGED <<enabled, wanted, freed>> /\ flags' = Deleted(flags, d)
    BY <1>9 DEF ErrorCb, conf
  <2>2. \A c \in Dirs : flags'[c] = {} \/ flags'[c] = flags[c]
    BY <1>0, <2>1, DeletedFacts
  <2> QED
    BY <2>1, <2>2 DEF EnabledWanted, DisabledStaysQuiet
<1>10. CASE ReadStops
  <2>1. UNCHANGED <<enabled, wanted, freed>> /\ flags' = Deleted(flags, "READ")
    BY <1>10 DEF ReadStops, conf
  <2>2. \A c \in Dirs : flags'[c] = {} \/ flags'[c] = flags[c]
    BY <1>0, <2>1, DeletedFacts
  <2> QED
    BY <2>1, <2>2 DEF EnabledWanted, DisabledStaysQuiet
<1>11. ASSUME NEW d \in Dirs, NEW why, NEW ok, Running(d, why), UNCHANGED conf, freed' = freed,
              BuffereventAdd(Deleted(flags, d), d, ok) \/ flags' = Deleted(flags, d)
      PROVE  EnabledWanted' /\ DisabledStaysQuiet'
  <2>1. UNCHANGED <<enabled, wanted, freed>> /\ flags[d] # {}
    BY <1>11 DEF Running, conf
  <2>2. \A c \in Dirs \ {d} : flags'[c] = flags[c]
    BY <1>0, <1>11, ReaddFacts, DeletedFacts
  <2> QED
    BY <1>1, <2>1, <2>2
<1>12. ASSUME NEW d \in Dirs, Dispatch(d) \/ TimeoutProcess(d)
      PROVE  EnabledWanted' /\ DisabledStaysQuiet'
  <2>1. /\ UNCHANGED <<enabled, wanted, freed>> /\ flags[d] # {}
        /\ \A c \in Dirs \ {d} : flags'[c] = flags[c]
    BY <1>0, <1>12 DEF Dispatch, TimeoutProcess, conf
  <2> QED
    BY <1>1, <2>1
<1>13. CASE UserOp
  BY <1>2, <1>3, <1>4, <1>5, <1>6, <1>7, <1>8, <1>13 DEF UserOp
<1>14. CASE Readcb
  <2>1. ASSUME NEW ok \in Outcomes, NEW n \in 1 .. avail, ReadOk(n, ok)
        PROVE  EnabledWanted' /\ DisabledStaysQuiet'
    <3>1. /\ Running("READ", "io") /\ UNCHANGED conf /\ freed' = freed
          /\ \/ BuffereventAdd(Deleted(flags, "READ"), "READ", ok)
             \/ flags' = Deleted(flags, "READ")
      BY <2>1 DEF ReadOk
    <3> QED
      BY <1>0, <1>11, <3>1
  <2>2. ASSUME NEW ok \in Outcomes, ReadAgain(ok)
        PROVE  EnabledWanted' /\ DisabledStaysQuiet'
    BY <1>0, <1>11, <2>2 DEF ReadAgain
  <2> QED
    BY <1>0, <1>9, <1>10, <1>14, <2>1, <2>2 DEF Readcb, ReadFails
<1>15. CASE Writecb
  <2>1. ASSUME NEW ok \in Outcomes, NEW n \in 0 .. output, WriteOk(n, ok)
        PROVE  EnabledWanted' /\ DisabledStaysQuiet'
    <3>1. /\ Running("WRITE", "io") /\ UNCHANGED conf /\ freed' = freed
          /\ \/ BuffereventAdd(Deleted(flags, "WRITE"), "WRITE", ok)
             \/ flags' = Deleted(flags, "WRITE")
      BY <2>1 DEF WriteOk
    <3> QED
      BY <1>0, <1>11, <3>1
  <2>2. ASSUME NEW ok \in Outcomes, WriteAgain(ok)
        PROVE  EnabledWanted' /\ DisabledStaysQuiet'
    BY <1>0, <1>11, <2>2 DEF WriteAgain
  <2> QED
    BY <1>0, <1>9, <1>15, <2>1, <2>2 DEF Writecb, WriteFails
<1>16. ASSUME NEW d \in Dirs, Loop(d)
       PROVE  EnabledWanted' /\ DisabledStaysQuiet'
  BY <1>9, <1>12, <1>16 DEF Loop, TimeoutCb
<1>17. CASE Arrive \/ Close \/ UNCHANGED vars
  BY <1>1, <1>17 DEF Arrive, Close, conf, vars
<1> QED
  BY <1>13, <1>14, <1>15, <1>16, <1>17 DEF Next
-----------------------------------------------------------------------------
(* Reading is held back.                                                   *)

\* Reading stops only at the watermark: howmuch does not wrap.
LEMMA StopsAtTheMark ==
  ASSUME TypeOK, high <= IntMax, ~MayRead
  PROVE  high # 0 /\ input >= high
<1>1. IntMax \in Nat /\ MaxBytes \in Nat /\ high \in Nat /\ input \in Nat
  BY BufferEventAssumption DEF TypeOK
<1>2. Howmuch = high - input
  BY <1>1 DEF Howmuch
<1> QED
  BY <1>1, <1>2 DEF MayRead

LEMMA StepFull ==
  ASSUME MarksFit, FullInv, [Next]_vars
  PROVE  high' <= IntMax /\ PressureOnlyWhenFull'
<1>0. /\ IntMax \in Nat /\ high \in Nat /\ input \in Nat /\ avail \in Nat /\ MaxBytes \in Nat
      /\ TypeOK /\ high <= IntMax /\ PressureOnlyWhenFull
  BY BufferEventAssumption DEF TypeOK, FullInv
<1>1. ASSUME UNCHANGED <<high, pressure>>, input' \in Nat, input' >= input
      PROVE  high' <= IntMax /\ PressureOnlyWhenFull'
  BY <1>0, <1>1 DEF PressureOnlyWhenFull
<1>2. ASSUME NEW n \in 1 .. MaxBytes, NEW ok \in Outcomes, bufferevent_read(n, ok)
      PROVE  high' <= IntMax /\ PressureOnlyWhenFull'
  <2>1. /\ high' = high /\ input' = input - Taken(n)
        /\ Taken(n) \in Nat /\ input' \in Nat
    BY <1>0, <1>2 DEF bufferevent_read, conf, Taken
  <2>2. CASE Taken(n) > 0 /\ pressure
    <3>1. PressureCb(input', high, ok)
      BY <1>2, <2>2 DEF bufferevent_read
    <3>2. pressure' => high # 0 /\ input' >= high
      BY <1>0, <2>1, <3>1, PressureCbFacts
    <3> QED
      BY <1>0, <2>1, <3>2 DEF PressureOnlyWhenFull
  <2>3. CASE ~(Taken(n) > 0 /\ pressure)
    <3>1. pressure' = pressure
      BY <1>2, <2>3 DEF bufferevent_read
    <3>2. CASE pressure
      <4>1. input' >= input
        BY <1>0, <2>1, <2>3, <3>2
      <4> QED
        BY <1>1, <2>1, <3>1, <4>1
    <3>3. CASE ~pressure
      BY <1>0, <2>1, <3>1, <3>3 DEF PressureOnlyWhenFull
    <3> QED
      BY <3>2, <3>3
  <2> QED
    BY <2>2, <2>3
<1>3. ASSUME NEW m \in Marks \cup {<<low, high>>}, NEW ok \in Outcomes,
             bufferevent_setwatermark(m, ok)
      PROVE  high' <= IntMax /\ PressureOnlyWhenFull'
  <2>1. high' = m[2] /\ input' = input /\ PressureCb(input, m[2], ok)
    BY <1>3 DEF bufferevent_setwatermark
  <2>2. m[2] \in Nat /\ m[2] <= IntMax
    BY <1>0, BufferEventAssumption DEF MarksFit
  <2>3. pressure' => m[2] # 0 /\ input >= m[2]
    BY <1>0, <2>1, <2>2, PressureCbFacts
  <2> QED
    BY <2>1, <2>2, <2>3 DEF PressureOnlyWhenFull
<1>4. CASE UserOp
  <2>1. CASE UNCHANGED <<high, pressure, input>>
    BY <1>0, <1>1, <2>1
  <2>2. CASE ~UNCHANGED <<high, pressure, input>>
    BY <1>2, <1>3, <1>4, <2>2
    DEF UserOp, bufferevent_write, bufferevent_enable, bufferevent_disable,
        bufferevent_settimeout, bufferevent_setfd, bufferevent_free, conf
  <2> QED
    BY <2>1, <2>2
<1>5. CASE ReadStops
  <2>1. high # 0 /\ input >= high
    BY <1>0, <1>5, StopsAtTheMark DEF ReadStops
  <2>2. high' = high /\ input' = input
    BY <1>5 DEF ReadStops, conf
  <2> QED
    BY <1>0, <2>1, <2>2 DEF PressureOnlyWhenFull
<1>6. ASSUME NEW ok \in Outcomes, NEW n \in 1 .. avail, ReadOk(n, ok)
      PROVE  high' <= IntMax /\ PressureOnlyWhenFull'
  <2>1. /\ high' = high /\ input' = input + n
        /\ pressure' = pressure \/ (high # 0 /\ input + n >= high)
    BY <1>6 DEF ReadOk, conf
  <2>2. input' \in Nat /\ input' >= input
    BY <1>0, <2>1
  <2>3. CASE high # 0 /\ input' >= high
    BY <1>0, <2>1, <2>3 DEF PressureOnlyWhenFull
  <2>4. CASE pressure' = pressure
    BY <1>1, <2>1, <2>2, <2>4
  <2> QED
    BY <2>1, <2>3, <2>4
<1>7. CASE Readcb
  <2>1. CASE UNCHANGED <<high, pressure, input>>
    BY <1>0, <1>1, <2>1
  <2>2. CASE ~UNCHANGED <<high, pressure, input>>
    BY <1>5, <1>6, <1>7, <2>2 DEF Readcb, ReadFails, ReadAgain, ErrorCb, conf
  <2> QED
    BY <2>1, <2>2
<1>8. CASE Writecb \/ (\E d \in Dirs : Loop(d)) \/ Arrive \/ Close \/ UNCHANGED vars
  <2>1. UNCHANGED <<high, pressure, input>>
    BY <1>8 DEF Writecb, WriteFails, WriteAgain, WriteOk, ErrorCb, Loop, Dispatch, TimeoutProcess,
                TimeoutCb, Arrive, Close, conf, vars
  <2> QED
    BY <1>0, <1>1, <2>1
<1> QED
  BY <1>4, <1>7, <1>8 DEF Next

-----------------------------------------------------------------------------
\* The variables have their types, and no more is taken from a buffer than it
\* holds: howmuch of bufferevent_readcb and the length evbuffer_remove returns
\* never make a length negative.
THEOREM TypeCorrect == Spec => [](TypeOK /\ BytesArrived)
<1>1. Init => TypeOK /\ BytesArrived
  BY InitTypes
<1>2. TypeOK /\ BytesArrived /\ [Next]_vars => (TypeOK /\ BytesArrived)'
  BY StepTypes
<1> QED
  BY <1>1, <1>2, PTL DEF Spec

\* A direction that bufferevent_disable disabled, and a bufferevent that
\* bufferevent_free freed, has no event that is registered, waits for its
\* timeout or is active, whatever fails: no later change of the watermark, no
\* read or write of user code and no callback of the buffer schedules it.
THEOREM QuietTheorem == Spec => []DisabledStaysQuiet
<1>1. Init => QuietInv
  <2> SUFFICES ASSUME Init PROVE QuietInv
    OBVIOUS
  <2>1. EnabledWanted /\ DisabledStaysQuiet
    BY DEF Init, EnabledWanted, DisabledStaysQuiet
  <2> QED
    BY <2>1, InitTypes DEF QuietInv
<1>2. QuietInv /\ [Next]_vars => QuietInv'
  BY StepTypes, StepQuiet DEF QuietInv
<1>3. QuietInv => DisabledStaysQuiet
  BY DEF QuietInv
<1> QED
  BY <1>1, <1>2, <1>3, PTL DEF Spec

\* As long as the high watermarks fit an int, reading is held back only while
\* the input buffer is at the high watermark.  (Beyond INT_MAX howmuch wraps, is
\* negative, and reading stops although the buffer is not full.)
THEOREM PressureTheorem ==
  ASSUME MarksFit
  PROVE  Spec => []PressureOnlyWhenFull
<1>1. Init => FullInv
  <2> SUFFICES ASSUME Init PROVE FullInv
    OBVIOUS
  <2>1. high <= IntMax /\ PressureOnlyWhenFull
    BY BufferEventAssumption DEF Init, PressureOnlyWhenFull
  <2> QED
    BY <2>1, InitTypes DEF FullInv
<1>2. TypeOK /\ BytesArrived /\ FullInv /\ [Next]_vars => FullInv'
  BY StepTypes, StepFull DEF FullInv
<1>3. FullInv => PressureOnlyWhenFull
  BY DEF FullInv
<1> QED
  BY <1>1, <1>2, <1>3, TypeCorrect, PTL DEF Spec
=============================================================================
