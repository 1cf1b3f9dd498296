--------------------------- MODULE KeymatrixProofs ---------------------------
(***************************************************************************)
(* Keymatrix, proved for every keyboard, every list of keys, every frame   *)
(* length, every lateness of the alarm dispatcher and every clock bound.   *)
(***************************************************************************)
EXTENDS Keymatrix, TLAPS

(* Arithmetic that the provers find only in isolation.                     *)

\* Frames in a span of cycles are a natural number.
LEMMA DivNat == \A a \in Nat, b \in Nat : b > 0 => a \div b \in Nat
  OBVIOUS

\* A deadline is a point on the clock.
LEMMA TimesNat == \A a, b \in Nat : a * b \in Nat
  OBVIOUS

\* A positive number of frames is no shorter than one.
LEMMA TimesGrows == \A a, b \in Nat : a >= 1 => a * b >= b
  OBVIOUS

\* A counter that wraps stays in range.
LEMMA ModRange == \A a \in Nat : a % CounterWrap \in 0..(CounterWrap - 1)
  BY BoundsAssumption
\* A clock that has not reached its alarm is not late.
LEMMA OnTime ==
  ASSUME DispatchSlack \in Nat
  PROVE  \A now, t \in Nat : now <= t => now <= t + DispatchSlack /\ t <= t + DispatchSlack
  OBVIOUS

(* The slots of an injection.                                              *)

\* No key at all is an assignment of slots, to nobody.
LEMMA NoKeysSlots == NoKeys \in Slots /\ Elements(NoKeys) = {}
<1>1. NoKeys \in [{} -> Keys] /\ DOMAIN NoKeys = {}
  BY DEF NoKeys
<1>2. {} \in SUBSET (1..KM_MAX_KEYS)
  OBVIOUS
<1> QED
  BY <1>1, <1>2 DEF Slots, Elements

\* A list short enough for km_core_t fills its slots.
LEMMA ListSlots ==
  ASSUME NEW ks \in KeyLists, Len(ks) \in 1..KM_MAX_KEYS
  PROVE  ks \in Slots /\ Elements(ks) \subseteq Keys
<1>1. ks \in [1..Len(ks) -> Keys]
  BY KeysAssumption
<1>2. 1..Len(ks) \in SUBSET (1..KM_MAX_KEYS)
  BY BoundsAssumption
<1> QED
  BY <1>1, <1>2 DEF Slots, Elements

\* What a partial release leaves is an assignment of slots.
LEMMA SurvivingSlots ==
  ASSUME keys \in Slots, NEW ks
  PROVE  /\ [i \in Surviving(ks) |-> keys[i]] \in Slots
         /\ Elements([i \in Surviving(ks) |-> keys[i]]) = Tracked \ Elements(ks)
<1>1. PICK S \in SUBSET (1..KM_MAX_KEYS) : keys \in [S -> Keys]
  BY DEF Slots
<1>2. Surviving(ks) \in SUBSET (1..KM_MAX_KEYS)
  BY <1>1 DEF Surviving
<1>3. [i \in Surviving(ks) |-> keys[i]] \in [Surviving(ks) -> Keys]
  BY <1>1 DEF Surviving
<1>4. Elements([i \in Surviving(ks) |-> keys[i]]) = Tracked \ Elements(ks)
  BY DEF Elements, Tracked, Surviving
<1> QED
  BY <1>2, <1>3, <1>4 DEF Slots

\* Tracked keys are keys.
LEMMA TrackedKeys == keys \in Slots => Tracked \subseteq Keys
  BY DEF Slots, Tracked, Elements
----------------------------------------------------------------------------
(* Type correctness.                                                       *)

\* What km_release_now files is a report.
LEMMA ReportType ==
  ASSUME TypeOK, NEW ks \in Slots, NEW reason \in Reasons
  PROVE  Report(ks, reason) \in Reports
<1>1. FramesHeld \in 0..MaxFrames
  <2>1. CASE cpf > 0 /\ clk >= press_clk
    <3>1. clk - press_clk \in Nat /\ cpf \in Nat
      BY <2>1, BoundsAssumption DEF TypeOK
    <3>2. (clk - press_clk) \div cpf \in Nat
      BY <2>1, <3>1, DivNat
    <3>3. FramesIn(clk - press_clk) \in 0..MaxFrames
      BY <3>2, BoundsAssumption DEF FramesIn
    <3> QED
      BY <2>1, <3>3 DEF FramesHeld
  <2>2. CASE ~(cpf > 0 /\ clk >= press_clk)
    BY <2>2, BoundsAssumption DEF FramesHeld
  <2> QED
    BY <2>1, <2>2
<1>2. (IF last_reason # KM_RELEASE_NONE THEN last_reason ELSE reason) \in Reasons
  BY DEF TypeOK, Reasons
<1> QED
  BY <1>1, <1>2 DEF Report, Reports, TypeOK

\* Writing bits keeps the host's state and the history well formed.
LEMMA WriteBitsType ==
  ASSUME TypeOK, NEW S, NEW T, WriteBits(S, T)
  PROVE  lit' \subseteq HostKeys /\ raw' \in [Keys -> {"none", "set", "cleared"}]
  BY DEF TypeOK, WriteBits

\* Ending an injection keeps the core well formed.
LEMMA ReleaseNowType ==
  ASSUME TypeOK, NEW ks \in Slots, NEW reason \in Reasons, ReleaseNow(ks, reason),
         NEW S, WriteBits(S, {}), UNCHANGED <<clk, cpf, resets>>
  PROVE  TypeOK'
<1>1. last' \in Reports
  BY ReportType DEF ReleaseNow
<1>2. lit' \subseteq HostKeys /\ raw' \in [Keys -> {"none", "set", "cleared"}]
  BY WriteBitsType
<1>3. keys' \in Slots
  BY NoKeysSlots DEF ReleaseNow
<1>4. 0 \in 0..(CounterWrap - 1)
  BY BoundsAssumption
<1> QED
  BY <1>1, <1>2, <1>3, <1>4 DEF TypeOK, ReleaseNow, CancelAlarm, Modes

\* Starting one does, given a deadline and an alarm.
LEMMA InjectType ==
  ASSUME TypeOK, NEW ks \in Slots, NEW m \in Modes, Inject(ks, m),
         timeout_clk' \in Nat, alarm' \in Nat \cup {NoAlarm}
  PROVE  TypeOK'
<1>1. last' \in Reports
  BY ReportType DEF Inject, Supersede, TypeOK, Reasons
<1>2. lit' \subseteq HostKeys /\ raw' \in [Keys -> {"none", "set", "cleared"}]
  BY WriteBitsType DEF Inject
<1>3. 0 \in 0..(CounterWrap - 1)
  BY BoundsAssumption
<1> QED
  BY <1>1, <1>2, <1>3 DEF TypeOK, Inject

\* A tap's deadline is a point on the clock.
LEMMA DeadlineType ==
  ASSUME TypeOK, NEW frames \in Nat
  PROVE  clk + frames * CpfOrPal \in Nat
<1>1. CpfOrPal \in Nat
  BY BoundsAssumption DEF CpfOrPal, TypeOK
<1>2. frames * CpfOrPal \in Nat
  BY <1>1, TimesNat
<1> QED
  BY <1>2 DEF TypeOK

\* Observing a read keeps the core well formed.
LEMMA ObserveType ==
  ASSUME TypeOK, Advance, NEW sampled \in BOOLEAN, Observe(sampled), UNCHANGED <<lit, raw>>
  PROVE  TypeOK'
<1>1. cia1_reads_total' \in 0..(CounterWrap - 1) /\ cia1_reads_sampling' \in 0..(CounterWrap - 1)
  BY ModRange DEF TypeOK, Observe
<1>2. clk' \in Nat /\ clk + 1 \in Nat
  BY DEF TypeOK, Advance
<1> QED
  BY <1>1, <1>2 DEF TypeOK, Observe, Advance

\* Raw writes touch the host only.
LEMMA RawWritesType ==
  ASSUME TypeOK, NEW body \in Seq([key : Keys, value : BOOLEAN]), RawWrites(body)
  PROVE  TypeOK'
<1>1. lit' \subseteq HostKeys
  BY DEF RawWrites
<1>2. raw' \in [Keys -> {"none", "set", "cleared"}]
  BY DEF RawWrites, TypeOK
<1> QED
  BY <1>1, <1>2 DEF TypeOK, RawWrites, coreVars
----------------------------------------------------------------------------
(* The inductive invariant, one building block of the actions at a time.   *)

\* An active injection is reported truthfully, whoever ends it; only the alarm says
\* "timeout", and only a tap has an alarm.
LEMMA ReportIsHonest ==
  ASSUME IInv, active, NEW ks,
         NEW reason \in {KM_RELEASE_MANUAL, KM_RELEASE_TIMEOUT},
         reason = KM_RELEASE_TIMEOUT => mode \in TapModes
  PROVE  Honest(Report(ks, reason))
<1> USE DEF KM_MODE_IDLE, KM_MODE_TAP_OBSERVED, KM_MODE_TAP_FIXED, KM_MODE_PRESS_STICKY,
            KM_RELEASE_NONE, KM_RELEASE_OBSERVED, KM_RELEASE_TIMEOUT, KM_RELEASE_MANUAL
<1> DEFINE r == Report(ks, reason)
<1>1. /\ r.reason = IF last_reason # KM_RELEASE_NONE THEN last_reason ELSE reason
      /\ r.mode = mode
      /\ r.reads_sampling = cia1_reads_sampling
  BY DEF Report
<1>2. last_reason \in {KM_RELEASE_NONE, KM_RELEASE_OBSERVED}
  BY DEF IInv, TypeOK
<1>3. CASE last_reason = KM_RELEASE_OBSERVED
  <2>1. mode = KM_MODE_TAP_OBSERVED
    BY <1>3 DEF IInv, AlarmDiscipline
  <2>2. resets = 0 => cia1_reads_sampling \in 1..(DispatchSlack + 1)
    <3>1. alarm \in Nat
      BY <2>1 DEF IInv, TypeOK, AlarmDiscipline, TapModes
    <3> QED
      BY <1>3, <2>1, <3>1, BoundsAssumption
      DEF IInv, TypeOK, SamplesCounted, DeadlineKept, TapModes
  <2> QED
    BY <1>1, <1>3, <2>1, <2>2 DEF Honest
<1>4. CASE last_reason = KM_RELEASE_NONE
  <2>1. mode = KM_MODE_TAP_OBSERVED => cia1_reads_sampling = 0
    BY <1>4 DEF IInv, SamplesCounted
  <2>2. mode = KM_MODE_PRESS_STICKY => reason = KM_RELEASE_MANUAL
    BY DEF TapModes
  <2> QED
    BY <1>1, <1>4, <2>1, <2>2 DEF Honest
<1> QED
  BY <1>2, <1>3, <1>4

\* Ending an injection: the alarm goes with it, and the bits of its keys.
LEMMA ReleaseNowInv ==
  ASSUME IInv, active, NEW ks \in Slots,
         NEW reason \in {KM_RELEASE_MANUAL, KM_RELEASE_TIMEOUT},
         reason = KM_RELEASE_TIMEOUT => mode \in TapModes,
         ReleaseNow(ks, reason),
         NEW S, Tracked \subseteq S, WriteBits(S, {}), UNCHANGED <<clk, cpf, resets>>
  PROVE  IInv'
<1> USE DEF KM_MODE_IDLE, KM_MODE_TAP_OBSERVED, KM_MODE_TAP_FIXED, KM_MODE_PRESS_STICKY,
            KM_RELEASE_NONE, KM_RELEASE_OBSERVED, KM_RELEASE_TIMEOUT, KM_RELEASE_MANUAL
<1>1. TypeOK'
  BY ReleaseNowType DEF IInv, Reasons
<1>2. IdleShape' /\ SamplesCounted' /\ DeadlineKept'
  BY DEF ReleaseNow, IdleShape, SamplesCounted, DeadlineKept
<1>3. AlarmDiscipline'
  BY DEF ReleaseNow, CancelAlarm, AlarmDiscipline
<1>4. MatrixAgrees'
  <2>1. Tracked' = {}
    BY NoKeysSlots DEF ReleaseNow, Tracked
  <2> QED
    BY <2>1 DEF IInv, MatrixAgrees, WriteBits, HostKeys
<1>5. ReportHonest'
  <2>1. last' = Report(ks, reason)
    BY DEF ReleaseNow
  <2> QED
    BY <2>1, ReportIsHonest DEF ReportHonest, Honest
<1> QED
  BY <1>1, <1>2, <1>3, <1>4, <1>5 DEF IInv

\* Starting one, with the alarm its mode calls for.
LEMMA InjectInv ==
  ASSUME IInv, NEW ks \in Slots, NEW m \in Modes \ {KM_MODE_IDLE}, Inject(ks, m),
         timeout_clk' \in Nat, alarm' \in Nat \cup {NoAlarm},
         m \in TapModes => alarm' = timeout_clk' /\ clk <= timeout_clk',
         m \notin TapModes => alarm' = NoAlarm
  PROVE  IInv'
<1> USE DEF KM_MODE_IDLE, KM_MODE_TAP_OBSERVED, KM_MODE_TAP_FIXED, KM_MODE_PRESS_STICKY,
            KM_RELEASE_NONE, KM_RELEASE_OBSERVED, KM_RELEASE_TIMEOUT, KM_RELEASE_MANUAL
<1>1. TypeOK'
  BY InjectType DEF IInv
<1>2. IdleShape' /\ SamplesCounted'
  BY DEF Inject, IdleShape, SamplesCounted
<1>3. DeadlineKept'
  <2>1. clk \in Nat /\ clk' = clk /\ mode' = m
    BY DEF Inject, IInv, TypeOK
  <2>2. CASE m \in TapModes
    <3>1. DispatchSlack \in Nat
      BY BoundsAssumption
    <3>2. alarm' = timeout_clk' /\ clk' <= timeout_clk' /\ clk' \in Nat
      BY <2>1, <2>2
    <3> QED
      BY <3>1, <3>2, OnTime DEF DeadlineKept
  <2>3. CASE m \notin TapModes
    BY <2>1, <2>3 DEF DeadlineKept
  <2> QED
    BY <2>2, <2>3
<1>4. AlarmDiscipline'
  BY DEF Inject, AlarmDiscipline, NoAlarm
<1>5. MatrixAgrees'
  <2>1. Tracked' = Elements(ks)
    BY DEF Inject, Tracked
  <2> QED
    BY <2>1 DEF IInv, MatrixAgrees, Inject, WriteBits, HostKeys
<1>6. ReportHonest'
  <2>1. CASE active
    <3>1. last' = Report(keys, KM_RELEASE_MANUAL)
      BY <2>1 DEF Inject, Supersede
    <3>2. Honest(Report(keys, KM_RELEASE_MANUAL))
      BY <2>1, ReportIsHonest
    <3> QED
      BY <3>1, <3>2 DEF ReportHonest, Honest, Inject
  <2>2. CASE ~active
    BY <2>2 DEF Inject, Supersede, IInv, ReportHonest, Honest
  <2> QED
    BY <2>1, <2>2
<1> QED
  BY <1>1, <1>2, <1>3, <1>4, <1>5, <1>6 DEF IInv
\* A deadline lies ahead of the tap: every frame has a cycle, and there is one.
LEMMA StartTapInv ==
  ASSUME IInv, NEW ks \in Slots, NEW m \in TapModes, NEW frames \in Nat,
         StartTap(ks, m, frames)
  PROVE  IInv'
<1>1. CpfOrPal \in Nat
  BY BoundsAssumption DEF CpfOrPal, IInv, TypeOK
<1>2. frames * CpfOrPal \in Nat
  BY <1>1, TimesNat
<1>3. timeout_clk' \in Nat /\ alarm' = timeout_clk' /\ clk <= timeout_clk'
  BY <1>2 DEF StartTap, IInv, TypeOK
<1>4. Inject(ks, m) /\ m \in Modes \ {KM_MODE_IDLE}
  BY DEF StartTap, Modes, TapModes, KM_MODE_IDLE, KM_MODE_TAP_OBSERVED, KM_MODE_TAP_FIXED
<1> QED
  BY <1>3, <1>4, InjectInv

\* A read of a CIA1 port, seen by an active injection.
LEMMA ObserveInv ==
  ASSUME IInv, active, Advance, NEW sampled \in BOOLEAN, Observe(sampled),
         UNCHANGED <<lit, raw>>
  PROVE  IInv'
<1> USE DEF KM_MODE_IDLE, KM_MODE_TAP_OBSERVED, KM_MODE_TAP_FIXED, KM_MODE_PRESS_STICKY,
            KM_RELEASE_NONE, KM_RELEASE_OBSERVED, KM_RELEASE_TIMEOUT, KM_RELEASE_MANUAL
<1>1. TypeOK'
  BY ObserveType DEF IInv
<1>2. IdleShape' /\ ReportHonest'
  BY DEF Observe, Advance, IInv, IdleShape, ReportHonest, Honest
<1>3. MatrixAgrees'
  BY DEF Observe, IInv, MatrixAgrees, Tracked, HostKeys
<1>4. clk \in Nat /\ clk' = clk + 1 /\ clk + 1 # NoAlarm /\ resets' = resets
  BY DEF IInv, TypeOK, Advance, NoAlarm
<1>5. CASE FirstSight(sampled)
  <2>1. /\ mode' = mode /\ mode = KM_MODE_TAP_OBSERVED /\ mode \in TapModes
        /\ last_reason' = KM_RELEASE_OBSERVED /\ alarm' = clk + 1 /\ active'
        /\ last_reason = KM_RELEASE_NONE /\ timeout_clk' = timeout_clk
    BY <1>5 DEF Observe, FirstSight, TapModes
  <2>2. AlarmDiscipline'
    BY <1>4, <2>1 DEF AlarmDiscipline
  <2>3. cia1_reads_sampling' = 1
    <3>1. sampled /\ cia1_reads_sampling = 0
      BY <1>5 DEF FirstSight, IInv, SamplesCounted
    <3>2. 1 % CounterWrap = 1
      BY BoundsAssumption
    <3> QED
      BY <3>1, <3>2 DEF Observe
  <2>4. SamplesCounted'
    BY <1>4, <2>1, <2>3 DEF SamplesCounted
  <2>5. DeadlineKept'
    <3>1. alarm = timeout_clk /\ alarm # NoAlarm
      BY <2>1 DEF IInv, AlarmDiscipline
    <3>2. timeout_clk \in Nat /\ clk < timeout_clk + DispatchSlack
      BY <3>1 DEF IInv, TypeOK, Advance
    <3> QED
      BY <1>4, <2>1, <3>2, BoundsAssumption DEF DeadlineKept
  <2> QED
    BY <1>1, <1>2, <1>3, <2>2, <2>4, <2>5 DEF IInv
<1>6. CASE ~FirstSight(sampled)
  <2>1. UNCHANGED <<active, mode, timeout_clk, alarm, last_reason>>
    BY <1>6 DEF Observe
  <2>2. AlarmDiscipline'
    BY <2>1 DEF IInv, AlarmDiscipline
  <2>3. active /\ mode \in TapModes => alarm \in Nat /\ clk < alarm + DispatchSlack
    BY DEF IInv, AlarmDiscipline, TypeOK, Advance
  <2>4. DeadlineKept'
    BY <1>4, <2>1, <2>3, BoundsAssumption DEF IInv, TypeOK, DeadlineKept
  <2>5. SamplesCounted'
    <3>1. CASE ~sampled
      <4>1. cia1_reads_sampling' = cia1_reads_sampling
        BY <3>1 DEF Observe
      <4> QED
        BY <1>4, <2>1, <4>1 DEF IInv, TypeOK, AlarmDiscipline, SamplesCounted, NoAlarm
    <3>2. CASE sampled /\ ~(last_reason = KM_RELEASE_OBSERVED /\ resets = 0)
      BY <1>4, <1>6, <2>1, <3>2 DEF FirstSight, SamplesCounted
    <3>3. CASE sampled /\ last_reason = KM_RELEASE_OBSERVED /\ resets = 0
      <4>1. mode \in TapModes
        BY <3>3 DEF IInv, AlarmDiscipline, TapModes
      <4>2. /\ cia1_reads_sampling \in Nat /\ alarm \in Nat
            /\ cia1_reads_sampling >= 1 /\ cia1_reads_sampling <= clk - alarm + 1
            /\ clk < alarm + DispatchSlack
        BY <2>3, <3>3, <4>1 DEF IInv, TypeOK, SamplesCounted
      <4>3. cia1_reads_sampling + 1 \in 0..(CounterWrap - 1)
        BY <1>4, <4>2, BoundsAssumption
      <4>4. (cia1_reads_sampling + 1) % CounterWrap = cia1_reads_sampling + 1
        BY <4>3, BoundsAssumption
      <4>5. cia1_reads_sampling' = cia1_reads_sampling + 1
        BY <3>3, <4>4 DEF Observe
      <4> QED
        BY <1>4, <2>1, <3>3, <4>2, <4>5 DEF SamplesCounted
    <3> QED
      BY <3>1, <3>2, <3>3
  <2> QED
    BY <1>1, <1>2, <1>3, <2>2, <2>4, <2>5 DEF IInv
<1> QED
  BY <1>5, <1>6
\* A cycle in which the core sees nothing.
LEMMA QuietCycleInv ==
  ASSUME IInv, Advance, UNCHANGED <<coreVars, lit, alarm, raw>>
  PROVE  IInv'
<1>1. clk \in Nat /\ clk' = clk + 1 /\ resets' = resets /\ cpf' = cpf
  BY DEF IInv, TypeOK, Advance
<1>2. TypeOK'
  BY <1>1 DEF IInv, TypeOK, coreVars
<1>3. IdleShape' /\ ReportHonest' /\ AlarmDiscipline' /\ MatrixAgrees'
  BY <1>1 DEF IInv, IdleShape, ReportHonest, Honest, AlarmDiscipline, MatrixAgrees,
              Tracked, coreVars
<1>4. active /\ mode \in TapModes => alarm \in Nat /\ clk < alarm + DispatchSlack
  BY DEF IInv, AlarmDiscipline, TypeOK, Advance
<1>5. DeadlineKept'
  BY <1>1, <1>4, BoundsAssumption DEF IInv, TypeOK, DeadlineKept, coreVars
<1>6. SamplesCounted'
  <2>1. UNCHANGED <<mode, last_reason, cia1_reads_sampling, alarm>>
    BY DEF coreVars
  <2>2. last_reason = KM_RELEASE_OBSERVED => alarm \in Nat
    BY DEF IInv, TypeOK, AlarmDiscipline, TapModes
  <2>3. cia1_reads_sampling \in Nat
    BY BoundsAssumption DEF IInv, TypeOK
  <2> QED
    BY <1>1, <2>1, <2>2, <2>3 DEF IInv, SamplesCounted
<1> QED
  BY <1>2, <1>3, <1>5, <1>6 DEF IInv

\* Raw writes go round the core, and the history says so.
LEMMA RawWritesInv ==
  ASSUME IInv, NEW body \in Seq([key : Keys, value : BOOLEAN]), RawWrites(body)
  PROVE  IInv'
<1>1. TypeOK'
  BY RawWritesType DEF IInv
<1>2. IdleShape' /\ ReportHonest' /\ AlarmDiscipline' /\ SamplesCounted' /\ DeadlineKept'
  BY DEF RawWrites, IInv, IdleShape, ReportHonest, Honest, AlarmDiscipline,
         SamplesCounted, DeadlineKept, coreVars
<1>3. MatrixAgrees'
  <2>1. Tracked' = Tracked
    BY DEF RawWrites, Tracked, coreVars
  <2>2. HostKeys \subseteq Keys
    BY DEF HostKeys
  <2> QED
    BY <2>1, <2>2 DEF RawWrites, IInv, MatrixAgrees
<1> QED
  BY <1>1, <1>2, <1>3 DEF IInv

\* A release of some keys, of all of them, or of keys nobody tracks.
LEMMA ReleaseKeysInv ==
  ASSUME IInv, NEW ks \in KeyLists, NEW f, ReleaseKeys(ks, f)
  PROVE  IInv'
<1>1. WriteBits(Elements(ks), {}) /\ UNCHANGED <<clk, cpf, resets>>
  BY DEF ReleaseKeys
<1>2. CASE active /\ Surviving(ks) = {} /\ ReleaseNow(NoKeys, KM_RELEASE_MANUAL)
  <2>1. Tracked \subseteq Elements(ks)
    BY <1>2 DEF Surviving, Tracked, Elements
  <2>2. KM_RELEASE_MANUAL # KM_RELEASE_TIMEOUT
    BY DEF KM_RELEASE_MANUAL, KM_RELEASE_TIMEOUT
  <2> QED
    BY <1>1, <1>2, <2>1, <2>2, NoKeysSlots, ReleaseNowInv
<1>3. CASE /\ active /\ Surviving(ks) # {}
           /\ keys' = [i \in Surviving(ks) |-> keys[i]]
           /\ UNCHANGED <<active, mode, cia1_reads_total, cia1_reads_sampling,
                          timeout_clk, last_reason, press_clk, last, alarm>>
  <2>1. keys' \in Slots /\ Tracked' = Tracked \ Elements(ks)
    BY <1>3, SurvivingSlots DEF IInv, TypeOK, Tracked
  <2>2. lit' \subseteq HostKeys /\ raw' \in [Keys -> {"none", "set", "cleared"}]
    BY <1>1, WriteBitsType DEF IInv
  <2>3. TypeOK'
    BY <1>1, <1>3, <2>1, <2>2 DEF IInv, TypeOK
  <2>4. IdleShape' /\ ReportHonest' /\ AlarmDiscipline' /\ SamplesCounted' /\ DeadlineKept'
    BY <1>1, <1>3 DEF IInv, IdleShape, ReportHonest, Honest, AlarmDiscipline,
                      SamplesCounted, DeadlineKept
  <2>5. MatrixAgrees'
    BY <1>1, <2>1 DEF IInv, MatrixAgrees, WriteBits, HostKeys
  <2> QED
    BY <2>3, <2>4, <2>5 DEF IInv
<1>4. CASE ~active /\ UNCHANGED <<coreVars, alarm>>
  <2>1. Tracked = {} /\ Tracked' = {}
    BY <1>4, NoKeysSlots DEF IInv, IdleShape, Tracked, coreVars
  <2>2. lit' \subseteq HostKeys /\ raw' \in [Keys -> {"none", "set", "cleared"}]
    BY <1>1, WriteBitsType DEF IInv
  <2>3. TypeOK'
    BY <1>1, <1>4, <2>2 DEF IInv, TypeOK, coreVars
  <2>4. IdleShape' /\ ReportHonest' /\ AlarmDiscipline' /\ SamplesCounted' /\ DeadlineKept'
    BY <1>1, <1>4 DEF IInv, IdleShape, ReportHonest, Honest, AlarmDiscipline,
                      SamplesCounted, DeadlineKept, coreVars
  <2>5. MatrixAgrees'
    BY <1>1, <2>1 DEF IInv, MatrixAgrees, WriteBits, HostKeys
  <2> QED
    BY <2>3, <2>4, <2>5 DEF IInv
<1> QED
  BY <1>2, <1>3, <1>4 DEF ReleaseKeys

\* A release of everything.
LEMMA ReleaseAllInv ==
  ASSUME IInv, ReleaseAll
  PROVE  IInv'
<1> DEFINE S == Tracked \cup {k \in Keys : MatrixKey(k)}
<1>1. WriteBits(S, {}) /\ UNCHANGED <<clk, cpf, resets>>
  BY DEF ReleaseAll
<1>2. CASE active
  <2>1. ReleaseNow(keys, KM_RELEASE_MANUAL) /\ keys \in Slots
    BY <1>2 DEF ReleaseAll, IInv, TypeOK
  <2>2. KM_RELEASE_MANUAL # KM_RELEASE_TIMEOUT
    BY DEF KM_RELEASE_MANUAL, KM_RELEASE_TIMEOUT
  <2> QED
    BY <1>1, <1>2, <2>1, <2>2, ReleaseNowInv
<1>3. CASE ~active
  <2>0. UNCHANGED <<coreVars, alarm>>
    BY <1>3 DEF ReleaseAll
  <2>1. Tracked = {} /\ Tracked' = {}
    BY <1>3, <2>0, NoKeysSlots DEF IInv, IdleShape, Tracked, coreVars
  <2>2. lit' \subseteq HostKeys /\ raw' \in [Keys -> {"none", "set", "cleared"}]
    BY <1>1, WriteBitsType DEF IInv
  <2>3. TypeOK'
    BY <1>1, <2>0, <2>2 DEF IInv, TypeOK, coreVars
  <2>4. IdleShape' /\ ReportHonest' /\ AlarmDiscipline' /\ SamplesCounted' /\ DeadlineKept'
    BY <1>1, <2>0 DEF IInv, IdleShape, ReportHonest, Honest, AlarmDiscipline,
                      SamplesCounted, DeadlineKept, coreVars
  <2>5. MatrixAgrees'
    BY <1>1, <2>1 DEF IInv, MatrixAgrees, WriteBits, HostKeys
  <2> QED
    BY <2>3, <2>4, <2>5 DEF IInv
<1> QED
  BY <1>2, <1>3
----------------------------------------------------------------------------
(* The steps together.                                                     *)

\* Monitor verbs and binary-monitor requests.
LEMMA CommandInv ==
  ASSUME IInv, Command
  PROVE  IInv'
<1> USE DEF KM_MODE_IDLE, KM_MODE_TAP_OBSERVED, KM_MODE_TAP_FIXED, KM_MODE_PRESS_STICKY
<1>1. ASSUME NEW ks \in KeyLists, NEW f \in ForFrames, Tap(ks, f)  PROVE IInv'
  <2>1. ks \in Slots
    BY <1>1, ListSlots DEF Tap, ValidKeys
  <2>2. CASE f = NoFor
    BY <1>1, <2>1, <2>2, StartTapInv, BoundsAssumption DEF Tap, TapModes
  <2>3. CASE f # NoFor
    <3>1. f \in Nat
      BY <1>1, <2>3, BoundsAssumption DEF Tap, ValidFor
    <3> QED
      BY <1>1, <2>1, <2>3, <3>1, StartTapInv DEF Tap, TapModes
  <2> QED
    BY <2>2, <2>3
<1>2. ASSUME NEW ks \in KeyLists, NEW f \in ForFrames, Press(ks, f)  PROVE IInv'
  <2>1. ks \in Slots
    BY <1>2, ListSlots DEF Press, ValidKeys
  <2>2. KM_MODE_PRESS_STICKY \in Modes \ {KM_MODE_IDLE} /\ KM_MODE_PRESS_STICKY \notin TapModes
    BY DEF Modes, TapModes
  <2>3. alarm' = NoAlarm
    <3>1. CASE active
      BY <1>2, <3>1 DEF Press, CancelAlarm
    <3>2. CASE ~active
      BY <1>2, <3>2 DEF Press, IInv, AlarmDiscipline
    <3> QED
      BY <3>1, <3>2
  <2>4. timeout_clk' \in Nat
    BY <1>2 DEF Press, IInv, TypeOK
  <2> QED
    BY <1>2, <2>1, <2>2, <2>3, <2>4, InjectInv DEF Press
<1>3. ASSUME NEW ks \in KeyLists, NEW fixed \in BOOLEAN, NEW f \in TapFrames,
             BinmonTap(ks, fixed, f)
      PROVE  IInv'
  <2> DEFINE m == IF fixed THEN KM_MODE_TAP_FIXED ELSE KM_MODE_TAP_OBSERVED
             frames == IF f > 0 THEN f ELSE KM_DEFAULT_TIMEOUT_FRAMES
  <2>1. ks \in Slots /\ StartTap(ks, m, frames)
    BY <1>3, ListSlots DEF BinmonTap
  <2>2. m \in TapModes /\ frames \in Nat
    BY BoundsAssumption DEF TapModes
  <2> HIDE DEF m, frames
  <2> QED
    BY <2>1, <2>2, StartTapInv
<1>4. ASSUME NEW ks \in KeyLists, NEW f \in ForFrames, ReleaseKeys(ks, f) \/ Rejected(ks, f)
      PROVE  IInv'
  <2>1. CASE ReleaseKeys(ks, f)
    BY <2>1, ReleaseKeysInv
  <2>2. CASE Rejected(ks, f)
    BY <2>2 DEF Rejected, vars, coreVars, IInv, TypeOK, IdleShape, AlarmDiscipline,
                MatrixAgrees, Tracked, SamplesCounted, DeadlineKept, ReportHonest, Honest
  <2> QED
    BY <1>4, <2>1, <2>2
<1>5. ASSUME NEW k \in Keys, NEW v \in BOOLEAN, Poke(k, v)  PROVE IInv'
  <2>1. <<[key |-> k, value |-> v]>> \in Seq([key : Keys, value : BOOLEAN])
    OBVIOUS
  <2> QED
    BY <1>5, <2>1, RawWritesInv DEF Poke
<1>6. ASSUME NEW body \in SetBodies, BinmonSet(body)  PROVE IInv'
  BY <1>6, KeysAssumption, RawWritesInv DEF BinmonSet
<1> QED
  BY <1>1, <1>2, <1>3, <1>4, <1>5, <1>6, ReleaseAllInv DEF Command, NewInjection

\* The CPU's cycles.
LEMMA CpuCycleInv ==
  ASSUME IInv, CpuCycle
  PROVE  IInv'
<1>1. CASE IdleCycle
  BY <1>1, QuietCycleInv DEF IdleCycle
<1>2. ASSUME NEW s \in Scans, Cia1PaRead(s)  PROVE IInv'
  <2>1. SampledByPa(s) \in BOOLEAN
    BY DEF SampledByPa
  <2>2. CASE active
    BY <1>2, <2>1, <2>2, ObserveInv DEF Cia1PaRead
  <2>3. CASE ~active
    BY <1>2, <2>3, QuietCycleInv DEF Cia1PaRead
  <2> QED
    BY <2>2, <2>3
<1>3. ASSUME NEW s \in Scans, Cia1PbRead(s)  PROVE IInv'
  <2>1. SampledByPb(s) \in BOOLEAN
    BY DEF SampledByPb
  <2>2. CASE active
    BY <1>3, <2>1, <2>2, ObserveInv DEF Cia1PbRead
  <2>3. CASE ~active
    BY <1>3, <2>3, QuietCycleInv DEF Cia1PbRead
  <2> QED
    BY <2>2, <2>3
<1> QED
  BY <1>1, <1>2, <1>3 DEF CpuCycle

\* The alarm: pending, so there is a tap to end.
LEMMA OnAlarmInv ==
  ASSUME IInv, OnAlarm
  PROVE  IInv'
<1>1. active /\ mode \in TapModes /\ keys \in Slots
  BY DEF OnAlarm, IInv, AlarmDiscipline, TypeOK
<1> QED
  BY <1>1, ReleaseNowInv DEF OnAlarm

\* The host's own changes: the frame length, and a reset of the clock.
LEMMA HostInv ==
  ASSUME IInv, SetFrameLength \/ MachineReset
  PROVE  IInv'
<1>1. CASE SetFrameLength
  BY <1>1 DEF SetFrameLength, coreVars, IInv, TypeOK, IdleShape, AlarmDiscipline,
              MatrixAgrees, Tracked, SamplesCounted, DeadlineKept, ReportHonest, Honest
<1>2. CASE MachineReset
  <2>1. resets \in Nat /\ resets' = resets + 1 /\ resets' # 0 /\ resets' \in 0..MaxResets
    BY <1>2, BoundsAssumption DEF MachineReset, IInv, TypeOK
  <2>2. TypeOK'
    BY <1>2, <2>1 DEF MachineReset, coreVars, IInv, TypeOK
  <2> QED
    BY <1>2, <2>1, <2>2
    DEF MachineReset, coreVars, IInv, IdleShape, AlarmDiscipline,
        MatrixAgrees, Tracked, SamplesCounted, DeadlineKept, ReportHonest, Honest
<1> QED
  BY <1>1, <1>2

\* Every step preserves the inductive invariant.
LEMMA StepInv == IInv /\ [Next]_vars => IInv'
<1> SUFFICES ASSUME IInv, [Next]_vars  PROVE IInv'
  OBVIOUS
<1>1. CASE Next
  BY <1>1, CommandInv, CpuCycleInv, OnAlarmInv, HostInv DEF Next
<1>2. CASE UNCHANGED vars
  BY <1>2 DEF vars, coreVars, IInv, TypeOK, IdleShape, AlarmDiscipline,
              MatrixAgrees, Tracked, SamplesCounted, DeadlineKept, ReportHonest, Honest
<1> QED
  BY <1>1, <1>2

\* The state km_core_init leaves satisfies it.
LEMMA InitInv == Init => IInv
<1> SUFFICES ASSUME Init  PROVE IInv
  OBVIOUS
<1> USE DEF KM_MODE_IDLE, KM_MODE_TAP_OBSERVED, KM_MODE_TAP_FIXED, KM_MODE_PRESS_STICKY,
            KM_RELEASE_NONE, KM_RELEASE_OBSERVED, KM_RELEASE_TIMEOUT, KM_RELEASE_MANUAL
<1>1. TypeOK
  <2>1. 0 \in 0..(CounterWrap - 1) /\ 0 \in 0..MaxFrames /\ 0 \in 0..MaxResets
    BY BoundsAssumption
  <2>2. NoReport \in Reports
    BY <2>1, NoKeysSlots DEF NoReport, Reports, Reasons, Modes
  <2> QED
    BY <2>1, <2>2, NoKeysSlots DEF Init, TypeOK, Modes
<1>2. IdleShape /\ AlarmDiscipline /\ SamplesCounted /\ DeadlineKept
  BY DEF Init, IdleShape, AlarmDiscipline, SamplesCounted, DeadlineKept
<1>3. MatrixAgrees
  BY NoKeysSlots DEF Init, MatrixAgrees, Tracked, HostKeys
<1>4. ReportHonest
  BY DEF Init, ReportHonest, NoReport
<1> QED
  BY <1>1, <1>2, <1>3, <1>4 DEF IInv
----------------------------------------------------------------------------
(* The theorems.                                                           *)

\* The inductive invariant holds in every state of every behaviour.
THEOREM Inductive == Spec => []IInv
  BY InitInv, StepInv, PTL DEF Spec

\* Type correctness of the injector.
THEOREM TypeCorrect == Spec => []TypeOK
<1>1. IInv => TypeOK
  BY DEF IInv
<1> QED
  BY <1>1, Inductive, PTL

\* The release alarm is pending exactly while a tap runs, and set for its deadline
\* until the program scans the keys (h_set_alarm, h_cancel_alarm).
THEOREM AlarmAlwaysDisciplined == Spec => []AlarmDiscipline
<1>1. IInv => AlarmDiscipline
  BY DEF IInv
<1> QED
  BY <1>1, Inductive, PTL

\* No key is left down, and none let go, behind the client's back (km_apply_bits).
THEOREM MatrixAlwaysAgrees == Spec => []MatrixAgrees
<1>1. IInv => MatrixAgrees
  BY DEF IInv
<1> QED
  BY <1>1, Inductive, PTL

\* The report of the injection that ended last is true (km_release_now).
THEOREM ReportsAlwaysHonest == Spec => []ReportHonest
<1>1. IInv => ReportHonest
  BY DEF IInv
<1> QED
  BY <1>1, Inductive, PTL

\* A tap never outlives its deadline by more than twice the dispatcher's lateness.
THEOREM TapsAlwaysBounded == Spec => []TapBounded
<1>1. IInv => TapBounded
  <2> SUFFICES ASSUME IInv, active, mode \in TapModes, resets = 0
               PROVE  clk <= timeout_clk + 2 * DispatchSlack
    BY DEF TapBounded
  <2>1. DispatchSlack \in Nat /\ clk \in Nat /\ timeout_clk \in Nat /\ alarm \in Nat
    BY BoundsAssumption DEF IInv, TypeOK, AlarmDiscipline
  <2>2. clk <= alarm + DispatchSlack /\ alarm <= timeout_clk + DispatchSlack
    BY DEF IInv, DeadlineKept
  <2> QED
    BY <2>1, <2>2
<1> QED
  BY <1>1, Inductive, PTL
----------------------------------------------------------------------------
(* What a step may do to the report and to the reason a client polls.      *)

\* No injection ends and none starts; the keys may be seen for the first time.
Quiet ==
    /\ last' = last /\ active' = active
    /\ last_reason' = last_reason \/ (active /\ last_reason = KM_RELEASE_NONE)

\* The running injection ends by hand or by a new one.
EndedByHand ==
    /\ active /\ \E ks : last' = Report(ks, KM_RELEASE_MANUAL)
    /\ active' = FALSE \/ last_reason' = KM_RELEASE_NONE

\* The alarm ends it.
EndedByAlarm ==
    /\ active /\ active' = FALSE /\ last' = Report(keys, KM_RELEASE_TIMEOUT)
    /\ alarm # NoAlarm /\ clk >= alarm

\* A new injection starts on an idle injector.
StartedIdle ==
    ~active /\ active' = TRUE /\ last' = last /\ last_reason' = KM_RELEASE_NONE

\* There is no other kind of step.
LEMMA StepKinds ==
  ASSUME IInv, [Next]_vars
  PROVE  Quiet \/ EndedByHand \/ EndedByAlarm \/ StartedIdle
<1>1. ASSUME NEW ks, NEW m, Inject(ks, m)  PROVE EndedByHand \/ StartedIdle
  BY <1>1 DEF Inject, Supersede, EndedByHand, StartedIdle
<1>2. CASE NewInjection
  BY <1>1, <1>2 DEF NewInjection, Tap, Press, BinmonTap, StartTap
<1>3. CASE ReleaseAll
  BY <1>3 DEF ReleaseAll, ReleaseNow, coreVars, Quiet, EndedByHand
<1>4. ASSUME NEW ks, NEW f, ReleaseKeys(ks, f)  PROVE Quiet \/ EndedByHand
  BY <1>4 DEF ReleaseKeys, ReleaseNow, coreVars, Quiet, EndedByHand
<1>5. ASSUME NEW body, RawWrites(body)  PROVE Quiet
  BY <1>5 DEF RawWrites, coreVars, Quiet
<1>6. CASE Command
  BY <1>2, <1>3, <1>4, <1>5, <1>6
  DEF Command, Rejected, vars, coreVars, Poke, BinmonSet, Quiet
<1>7. ASSUME NEW sampled, active, Observe(sampled)  PROVE Quiet
  BY <1>7 DEF Observe, FirstSight, Quiet
<1>8. CASE CpuCycle
  BY <1>7, <1>8 DEF CpuCycle, IdleCycle, Cia1PaRead, Cia1PbRead, coreVars, Quiet
<1>9. CASE OnAlarm
  BY <1>9 DEF OnAlarm, ReleaseNow, coreVars, Quiet, EndedByAlarm
<1>10. CASE SetFrameLength \/ MachineReset \/ UNCHANGED vars
  BY <1>10 DEF SetFrameLength, MachineReset, vars, coreVars, Quiet
<1> QED
  BY <1>6, <1>8, <1>9, <1>10 DEF Next

\* The reason in a report: the observation, if there was one.
LEMMA ReportReason ==
  ASSUME NEW ks, NEW reason
  PROVE  Report(ks, reason).reason =
            IF last_reason # KM_RELEASE_NONE THEN last_reason ELSE reason
  BY DEF Report

\* A tap's deadline is at least one known frame after the tap began.
DeadlineAhead ==
    active /\ mode \in TapModes => \E n \in KnownLengths : timeout_clk >= press_clk + n

\* However a tap is asked for, it is asked for one frame or more of a length that is
\* known, or of PAL's.
LEMMA StartTapAhead ==
  ASSUME TypeOK, NEW ks, NEW m, NEW frames \in Nat, frames >= 1, StartTap(ks, m, frames)
  PROVE  DeadlineAhead'
<1>1. CpfOrPal \in KnownLengths /\ CpfOrPal \in Nat
  BY BoundsAssumption DEF CpfOrPal, KnownLengths, TypeOK
<1>2. frames * CpfOrPal \in Nat /\ frames * CpfOrPal >= CpfOrPal
  BY <1>1, TimesNat, TimesGrows
<1>3. timeout_clk' = clk + frames * CpfOrPal /\ press_clk' = clk /\ clk \in Nat
  BY DEF StartTap, Inject, TypeOK
<1>4. timeout_clk' >= press_clk' + CpfOrPal
  BY <1>1, <1>2, <1>3
<1> QED
  BY <1>1, <1>4 DEF DeadlineAhead, KnownLengths

\* Nothing moves the deadline of a running tap.
LEMMA StepDeadlineAhead == TypeOK /\ DeadlineAhead /\ [Next]_vars => DeadlineAhead'
<1> SUFFICES ASSUME TypeOK, DeadlineAhead, [Next]_vars  PROVE DeadlineAhead'
  OBVIOUS
<1> USE DEF KM_MODE_IDLE, KM_MODE_TAP_OBSERVED, KM_MODE_TAP_FIXED, KM_MODE_PRESS_STICKY
<1>1. ASSUME UNCHANGED <<timeout_clk, press_clk>>, active' = FALSE \/ UNCHANGED <<active, mode>>
      PROVE  DeadlineAhead'
  BY <1>1 DEF DeadlineAhead, KnownLengths
<1>2. ASSUME NEW ks \in KeyLists, NEW f \in ForFrames, Tap(ks, f)  PROVE DeadlineAhead'
  <2>1. NoFor \in Int /\ KM_DEFAULT_TIMEOUT_FRAMES \in Nat /\ KM_DEFAULT_TIMEOUT_FRAMES >= 1
    BY BoundsAssumption DEF NoFor
  <2>2. CASE f = NoFor
    BY <1>2, <2>1, <2>2, StartTapAhead DEF Tap
  <2>3. CASE f # NoFor
    <3>1. f \in Nat /\ f >= 1 /\ StartTap(ks, KM_MODE_TAP_FIXED, f)
      BY <1>2, <2>3, BoundsAssumption DEF Tap, ValidFor
    <3> QED
      BY <3>1, StartTapAhead
  <2> QED
    BY <2>2, <2>3
<1>3. ASSUME NEW ks \in KeyLists, NEW fixed \in BOOLEAN, NEW f \in TapFrames,
             BinmonTap(ks, fixed, f)
      PROVE  DeadlineAhead'
  <2>1. f \in Nat /\ KM_DEFAULT_TIMEOUT_FRAMES \in Nat /\ KM_DEFAULT_TIMEOUT_FRAMES >= 1
    BY BoundsAssumption
  <2>2. \E m : StartTap(ks, m, IF f > 0 THEN f ELSE KM_DEFAULT_TIMEOUT_FRAMES)
    BY <1>3 DEF BinmonTap
  <2> QED
    BY <2>1, <2>2, StartTapAhead
<1>4. ASSUME NEW ks, NEW f, Press(ks, f)  PROVE DeadlineAhead'
  BY <1>4 DEF Press, Inject, DeadlineAhead, TapModes
<1>5. CASE ReleaseAll
  BY <1>1, <1>5 DEF ReleaseAll, ReleaseNow, coreVars
<1>6. ASSUME NEW ks, NEW f, ReleaseKeys(ks, f)  PROVE DeadlineAhead'
  BY <1>1, <1>6 DEF ReleaseKeys, ReleaseNow, coreVars
<1>7. ASSUME NEW body, RawWrites(body)  PROVE DeadlineAhead'
  BY <1>1, <1>7 DEF RawWrites, coreVars
<1>8. CASE UNCHANGED vars
  BY <1>1, <1>8 DEF vars, coreVars
<1>9. CASE Command
  <2>1. CASE NewInjection
    BY <1>2, <1>3, <1>4, <2>1 DEF NewInjection
  <2>2. CASE \E ks \in KeyLists, f \in ForFrames : ReleaseKeys(ks, f) \/ Rejected(ks, f)
    BY <1>6, <1>8, <2>2 DEF Rejected
  <2>3. CASE \/ \E k \in Keys, v \in BOOLEAN : Poke(k, v)
             \/ \E body \in SetBodies : BinmonSet(body)
    BY <1>7, <2>3 DEF Poke, BinmonSet
  <2> QED
    BY <1>5, <1>9, <2>1, <2>2, <2>3 DEF Command
<1>10. CASE CpuCycle
  BY <1>1, <1>10 DEF CpuCycle, IdleCycle, Cia1PaRead, Cia1PbRead, Observe, coreVars
<1>11. CASE OnAlarm
  BY <1>1, <1>11 DEF OnAlarm, ReleaseNow, coreVars
<1>12. CASE SetFrameLength \/ MachineReset
  BY <1>1, <1>12 DEF SetFrameLength, MachineReset, coreVars
<1> QED
  BY <1>8, <1>9, <1>10, <1>11, <1>12 DEF Next

\* An injection is reported as timed out only at or after its deadline and a frame or
\* more after it began, as observed only after an observation (km_core_on_alarm,
\* km_release_now, km_cpf_or_pal).
THEOREM ReleasesAlwaysJustified == Spec => ReleaseJustified
<1>1. ASSUME IInv, DeadlineAhead, [Next]_vars, last' # last
      PROVE  /\ last'.reason = KM_RELEASE_TIMEOUT =>
                   /\ mode \in TapModes /\ clk >= timeout_clk
                   /\ \E n \in KnownLengths : clk >= press_clk + n
             /\ last'.reason = KM_RELEASE_OBSERVED <=> last_reason = KM_RELEASE_OBSERVED
  <2> USE DEF KM_RELEASE_NONE, KM_RELEASE_OBSERVED, KM_RELEASE_TIMEOUT, KM_RELEASE_MANUAL
  <2>1. last_reason \in {KM_RELEASE_NONE, KM_RELEASE_OBSERVED}
    BY <1>1 DEF IInv, TypeOK
  <2>2. CASE EndedByHand
    BY <2>1, <2>2, ReportReason DEF EndedByHand
  <2>3. CASE EndedByAlarm
    <3>1. last_reason = KM_RELEASE_NONE => mode \in TapModes /\ clk >= timeout_clk
      BY <1>1, <2>3 DEF EndedByAlarm, IInv, AlarmDiscipline
    <3>2. last_reason = KM_RELEASE_NONE => \E n \in KnownLengths : clk >= press_clk + n
      <4> SUFFICES ASSUME last_reason = KM_RELEASE_NONE
                   PROVE  \E n \in KnownLengths : clk >= press_clk + n
        OBVIOUS
      <4>1. PICK n \in KnownLengths : timeout_clk >= press_clk + n
        BY <1>1, <2>3, <3>1 DEF EndedByAlarm, DeadlineAhead
      <4>2. n \in Nat /\ clk \in Nat /\ timeout_clk \in Nat /\ press_clk \in Nat
        BY <1>1, BoundsAssumption DEF IInv, TypeOK, KnownLengths
      <4>3. clk >= press_clk + n
        BY <3>1, <4>1, <4>2
      <4> QED
        BY <4>3
    <3> QED
      BY <2>1, <2>3, <3>1, <3>2, ReportReason DEF EndedByAlarm
  <2> QED
    BY <1>1, <2>2, <2>3, StepKinds DEF Quiet, StartedIdle
<1>2. Init => DeadlineAhead
  BY DEF Init, DeadlineAhead
<1>3. IInv => TypeOK
  BY DEF IInv
<1>4. Spec => []DeadlineAhead
  BY <1>2, <1>3, StepDeadlineAhead, Inductive, PTL DEF Spec
<1> QED
  BY <1>1, <1>4, Inductive, PTL DEF Spec, ReleaseJustified

\* The reason a client polls with KEYMATRIX_GET, once there, stays until a new
\* injection starts (km_core_binmon_get).
THEOREM ReasonsAlwaysStable == Spec => ReasonStable
<1>1. ASSUME IInv, [Next]_vars, GetReason # KM_RELEASE_NONE,
             ~(active' /\ last_reason' = KM_RELEASE_NONE)
      PROVE  GetReason' = GetReason
  <2>1. CASE Quiet
    BY <1>1, <2>1 DEF Quiet, GetReason
  <2>2. CASE EndedByHand
    BY <1>1, <2>2, ReportReason DEF EndedByHand, GetReason, IInv, TypeOK
  <2>3. CASE EndedByAlarm
    BY <1>1, <2>3, ReportReason DEF EndedByAlarm, GetReason
  <2> QED
    BY <1>1, <2>1, <2>2, <2>3, StepKinds DEF StartedIdle
<1> QED
  BY <1>1, Inductive, PTL DEF Spec, ReasonStable

----------------------------------------------------------------------------
(* The refinement of KeyInjection.                                         *)

\* A step that leaves the keys, the mode, the reason and the report is invisible.
LEMMA InvisibleStep ==
  ASSUME UNCHANGED <<active, mode, keys, last_reason, last>>
  PROVE  UNCHANGED Promise!vars
  BY DEF Promise!vars, Tracked, Elements, GetReason

\* A new injection starts one, whatever ran before.
LEMMA InjectStarts ==
  ASSUME NEW ks \in Seq(Keys), Len(ks) >= 1, NEW m \in TapModes \cup {KM_MODE_PRESS_STICKY},
         Inject(ks, m)
  PROVE  Promise!Next
<1>1. Elements(ks) \in (SUBSET Keys) \ {{}}
  <2>1. 1 \in DOMAIN ks /\ \A i \in DOMAIN ks : ks[i] \in Keys
    OBVIOUS
  <2> QED
    BY <2>1 DEF Elements
<1>2. Tracked' = Elements(ks) /\ GetReason' = "none" /\ mode' = m
  BY DEF Inject, Tracked, Elements, GetReason, KM_RELEASE_NONE
<1>3. m \in Promise!Taps \cup {"press"}
  BY DEF Promise!Taps, TapModes, KM_MODE_TAP_OBSERVED, KM_MODE_TAP_FIXED, KM_MODE_PRESS_STICKY
<1>4. Promise!Start(Elements(ks), m)
  BY <1>2 DEF Promise!Start
<1> QED
  BY <1>1, <1>3, <1>4 DEF Promise!Next

\* A release ends the injection, and an observation outlives the caller's reason.
LEMMA ReleaseNowEnds ==
  ASSUME IInv, active, NEW ks, NEW r \in {KM_RELEASE_MANUAL, KM_RELEASE_TIMEOUT},
         r = KM_RELEASE_TIMEOUT => mode \in TapModes, ReleaseNow(ks, r)
  PROVE  Promise!Next
<1> USE DEF KM_RELEASE_NONE, KM_RELEASE_MANUAL, KM_RELEASE_TIMEOUT, KM_MODE_IDLE
<1>1. mode # "idle"
  BY DEF IInv, IdleShape
<1>2. Tracked' = {} /\ mode' = "idle"
  BY NoKeysSlots DEF ReleaseNow, Tracked, Elements
<1>3. active' = FALSE /\ last' = Report(ks, r)
  BY DEF ReleaseNow
<1>4. GetReason = last_reason /\ GetReason' = last'.reason
  BY <1>3 DEF GetReason
<1>5. GetReason' = IF GetReason = "none" THEN r ELSE GetReason
  BY <1>3, <1>4, ReportReason
<1>6. r = "timeout" => mode \in Promise!Taps
  BY DEF Promise!Taps, TapModes, KM_MODE_TAP_OBSERVED, KM_MODE_TAP_FIXED
<1>7. Promise!End(r)
  BY <1>1, <1>2, <1>5, <1>6 DEF Promise!End
<1> QED
  BY <1>7 DEF Promise!Next

\* keymatrix release <keys> lets keys go, or ends the injection with the last of them.
LEMMA ReleaseKeysRefines ==
  ASSUME IInv, NEW ks \in Seq(Keys), NEW f, ReleaseKeys(ks, f)
  PROVE  Promise!Next \/ UNCHANGED Promise!vars
<1>1. CASE ~active /\ UNCHANGED <<coreVars, alarm>>
  BY <1>1, InvisibleStep DEF coreVars
<1>2. CASE active /\ ReleaseNow(NoKeys, KM_RELEASE_MANUAL)
  BY <1>2, ReleaseNowEnds DEF KM_RELEASE_MANUAL, KM_RELEASE_TIMEOUT
<1>3. CASE /\ active /\ Surviving(ks) # {}
           /\ keys' = [i \in Surviving(ks) |-> keys[i]]
           /\ UNCHANGED <<active, mode, last_reason, last>>
  <2> DEFINE K == Elements(ks)
  <2>1. Tracked' = Tracked \ K /\ Tracked \ K # {}
    BY <1>3 DEF Tracked, Elements, Surviving
  <2>2. mode # "idle"
    BY <1>3 DEF IInv, IdleShape, KM_MODE_IDLE
  <2>3. UNCHANGED <<mode, GetReason>>
    BY <1>3 DEF GetReason
  <2>4. K \in SUBSET Keys
    BY DEF Elements
  <2>5. Promise!LetGo(K)
    BY <2>1, <2>2, <2>3 DEF Promise!LetGo
  <2> QED
    BY <2>4, <2>5 DEF Promise!Next
<1> QED
  BY <1>1, <1>2, <1>3 DEF ReleaseKeys

\* A read of CIA1 shows the tap to the program at most once.
LEMMA ObserveRefines ==
  ASSUME IInv, active, NEW sampled, Observe(sampled)
  PROVE  Promise!Next \/ UNCHANGED Promise!vars
<1>1. CASE FirstSight(sampled)
  <2>1. mode = "tap-observed" /\ GetReason = "none"
    BY <1>1 DEF FirstSight, GetReason, KM_MODE_TAP_OBSERVED, KM_RELEASE_NONE
  <2>2. GetReason' = "observed"
    BY <1>1 DEF Observe, GetReason, KM_RELEASE_OBSERVED
  <2>3. UNCHANGED <<Tracked, mode>>
    BY DEF Observe, Tracked, Elements
  <2>4. Promise!Seen
    BY <2>1, <2>2, <2>3 DEF Promise!Seen
  <2> QED
    BY <2>4 DEF Promise!Next
<1>2. CASE ~ FirstSight(sampled)
  BY <1>2, InvisibleStep DEF Observe
<1> QED
  BY <1>1, <1>2

\* Every step of the injector is a step of KeyInjection or invisible in it.
LEMMA StepRefines == IInv /\ [Next]_vars => [Promise!Next]_(Promise!vars)
<1> SUFFICES ASSUME IInv, [Next]_vars PROVE Promise!Next \/ UNCHANGED Promise!vars
  OBVIOUS
<1>1. ASSUME NEW ks \in KeyLists, NEW f, Tap(ks, f) \/ Press(ks, f)
      PROVE  Promise!Next
  <2>1. ks \in Seq(Keys) /\ Len(ks) >= 1
    BY <1>1, KeysAssumption, BoundsAssumption DEF Tap, Press, ValidKeys
  <2> QED
    BY <1>1, <2>1, InjectStarts DEF Tap, Press, StartTap, TapModes
<1>2. ASSUME NEW ks \in KeyLists, NEW fixed \in BOOLEAN, NEW f, BinmonTap(ks, fixed, f)
      PROVE  Promise!Next
  <2>1. ks \in Seq(Keys) /\ Len(ks) >= 1
    BY <1>2, KeysAssumption, BoundsAssumption DEF BinmonTap
  <2> QED
    BY <1>2, <2>1, InjectStarts DEF BinmonTap, StartTap, TapModes
<1>3. CASE ReleaseAll
  <2>1. CASE active
    BY <1>3, <2>1, ReleaseNowEnds DEF ReleaseAll, KM_RELEASE_MANUAL, KM_RELEASE_TIMEOUT
  <2>2. CASE ~active
    BY <1>3, <2>2, InvisibleStep DEF ReleaseAll, coreVars
  <2> QED
    BY <2>1, <2>2
<1>4. ASSUME NEW ks \in KeyLists, NEW f, ReleaseKeys(ks, f)
      PROVE  Promise!Next \/ UNCHANGED Promise!vars
  BY <1>4, KeysAssumption, ReleaseKeysRefines
<1>5. ASSUME NEW body, RawWrites(body)
      PROVE  UNCHANGED Promise!vars
  BY <1>5, InvisibleStep DEF RawWrites, coreVars
<1>6. CASE Command
  <2>1. CASE NewInjection
    BY <1>1, <1>2, <2>1 DEF NewInjection
  <2>2. CASE \E ks \in KeyLists, f \in ForFrames : ReleaseKeys(ks, f) \/ Rejected(ks, f)
    BY <1>4, <2>2, InvisibleStep DEF Rejected, vars, coreVars
  <2>3. CASE \/ \E k \in Keys, v \in BOOLEAN : Poke(k, v)
             \/ \E body \in SetBodies : BinmonSet(body)
    BY <1>5, <2>3 DEF Poke, BinmonSet
  <2> QED
    BY <1>3, <1>6, <2>1, <2>2, <2>3 DEF Command
<1>7. CASE CpuCycle
  <2>1. CASE IdleCycle
    BY <2>1, InvisibleStep DEF IdleCycle, coreVars
  <2>2. ASSUME NEW scan, Cia1PaRead(scan) \/ Cia1PbRead(scan)
        PROVE  Promise!Next \/ UNCHANGED Promise!vars
    BY <2>2, ObserveRefines, InvisibleStep DEF Cia1PaRead, Cia1PbRead, coreVars
  <2> QED
    BY <1>7, <2>1, <2>2 DEF CpuCycle
<1>8. CASE OnAlarm
  <2>1. CASE active
    <3>1. mode \in TapModes
      BY <1>8 DEF OnAlarm, IInv, AlarmDiscipline
    <3> QED
      BY <1>8, <2>1, <3>1, ReleaseNowEnds DEF OnAlarm
  <2>2. CASE ~active
    BY <1>8, <2>2, InvisibleStep DEF OnAlarm, coreVars
  <2> QED
    BY <2>1, <2>2
<1>9. CASE SetFrameLength \/ MachineReset \/ UNCHANGED vars
  BY <1>9, InvisibleStep DEF SetFrameLength, MachineReset, vars, coreVars
<1> QED
  BY <1>6, <1>7, <1>8, <1>9 DEF Next

\* The injector implements KeyInjection: through supersession, partial release, late
\* alarms and machine resets, a client sees one injection at a time and a reason that,
\* once given, stays.
THEOREM KeymatrixImplementsKeyInjection == Spec => KeyInjectionSpec
<1>1. Init => Promise!Init
  BY NoKeysSlots
  DEF Init, Promise!Init, Tracked, GetReason, NoReport, KM_RELEASE_NONE, KM_MODE_IDLE
<1> QED
  BY <1>1, StepRefines, Inductive, PTL DEF Spec, KeyInjectionSpec, Promise!Spec
=============================================================================
