-------------------------- MODULE KeymatrixScanProofs --------------------------
(***************************************************************************)
(* KeymatrixScan, proved for every set of keys and every interleaving.     *)
(* What relates the hooks to what the program sees needs a program that    *)
(* pulls all lines low or none, as the hooks take a read's rows for        *)
(* columns and its columns for rows.                                       *)
(***************************************************************************)
EXTENDS KeymatrixScan, KeymatrixProofs

WholeScans == Scans \subseteq {{}, 0..7}

----------------------------------------------------------------------------
(* The injector underneath.                                                *)

\* The CIA1 and the program add nothing to the injector's steps but the history.
LEMMA ScanStep == [ScanNext]_scanVars => [Next]_vars
<1> SUFFICES ASSUME [ScanNext]_scanVars  PROVE [Next]_vars
  OBVIOUS
<1>1. CASE CpuRuns
  BY <1>1 DEF CpuRuns, ReadPortA, ReadPortB, CpuCycle, Next
<1>2. CASE AlarmRuns
  BY <1>2 DEF AlarmRuns, Next
<1>3. CASE Other
  BY <1>3 DEF Other, Command, Next
<1>4. CASE UNCHANGED scanVars
  BY <1>4 DEF scanVars
<1> QED
  BY <1>1, <1>2, <1>3, <1>4 DEF ScanNext

\* Everything proved of the injector holds with a program in front of it.
THEOREM ScanInductive == ScanSpec => []IInv
<1>1. ScanInit => IInv
  BY InitInv DEF ScanInit
<1>2. IInv /\ [ScanNext]_scanVars => IInv'
  BY ScanStep, StepInv
<1> QED
  BY <1>1, <1>2, PTL DEF ScanSpec

\* read_ciapa and read_ciapb leave the matrix as the core wrote it.
THEOREM ScannedMatrixAgrees == ScanSpec => []MatrixAgrees
<1>1. IInv => MatrixAgrees
  BY DEF IInv
<1> QED
  BY <1>1, ScanInductive, PTL

\* However the reads fall, the release alarm is pending exactly while a tap is.
THEOREM ScannedAlarmDisciplined == ScanSpec => []AlarmDiscipline
<1>1. IInv => AlarmDiscipline
  BY DEF IInv
<1> QED
  BY <1>1, ScanInductive, PTL

\* With a program in front of it the injector is still KeyInjection to its clients.
THEOREM ScanImplementsKeyInjection == ScanSpec => KeyInjectionSpec
<1>1. ScanInit => Promise!Init
  BY NoKeysSlots
  DEF ScanInit, Init, Promise!Init, Tracked, GetReason, NoReport, KM_RELEASE_NONE, KM_MODE_IDLE
<1>2. IInv /\ [ScanNext]_scanVars => [Promise!Next]_(Promise!vars)
  BY ScanStep, StepRefines
<1> QED
  BY <1>1, <1>2, ScanInductive, PTL DEF ScanSpec, KeyInjectionSpec, Promise!Spec

----------------------------------------------------------------------------
(* What the program sees and what the hooks note.                          *)

\* The keys of the host's that are on rows the CIA1 can reach are on its columns too.
LEMMA ReachableKeys ==
  ASSUME NEW k \in HostKeys, k[1] >= 0
  PROVE  k[1] \in 0..15 /\ k[2] \in 0..7
<1>1. k \in Int \X Int
  BY KeysAssumption DEF HostKeys
<1>2. ~CustomKey(k)
  BY <1>1 DEF CustomKey
<1> QED
  BY <1>2 DEF HostKeys, MatrixKey

\* A key that a read shows is noted as sampled.
LEMMA ShownIsSampled ==
  ASSUME WholeScans, IInv, NEW low \in Scans
  PROVE  /\ ShownOnPa(low) => SampledByPa(low)
         /\ ShownOnPb(low) => SampledByPb(low)
<1>1. ASSUME NEW k \in Tracked \cap lit, k[1] \in 0..7, low # {}
      PROVE  SampledByPa(low) /\ SampledByPb(low)
  <2>1. k[2] \in 0..7
    BY <1>1, ReachableKeys DEF IInv, TypeOK
  <2>2. low = 0..7
    BY <1>1 DEF WholeScans
  <2>3. PICK i \in DOMAIN keys : keys[i] = k
    BY <1>1 DEF Tracked, Elements
  <2> QED
    BY <1>1, <2>1, <2>2, <2>3 DEF SampledByPa, SampledByPb
<1> QED
  BY <1>1 DEF ShownOnPa, ShownOnPb

\* A key that is noted as sampled was shown, if the core wrote it last and a scan
\* reaches it.
LEMMA SampledIsShown ==
  ASSUME WholeScans, IInv, NEW low \in Scans,
         \A k \in Tracked : raw[k] = "none" /\ k \in HostKeys /\ k[1] <= 7
  PROVE  /\ SampledByPa(low) => ShownOnPa(low)
         /\ SampledByPb(low) => ShownOnPb(low)
<1>1. ASSUME NEW i \in DOMAIN keys, keys[i][1] >= 0, low # {}
      PROVE  ShownOnPa(low) /\ ShownOnPb(low)
  <2> DEFINE k == keys[i]
  <2>1. k \in Tracked
    BY DEF Tracked, Elements
  <2>2. k \in lit
    BY <2>1 DEF IInv, MatrixAgrees
  <2>3. k[1] \in 0..7 /\ k[2] \in 0..7
    BY <1>1, <2>1, ReachableKeys
  <2>4. low = 0..7
    BY <1>1 DEF WholeScans
  <2> QED
    BY <2>1, <2>2, <2>3, <2>4 DEF ShownOnPa, ShownOnPb
<1> QED
  BY <1>1 DEF SampledByPa, SampledByPb

\* A read of a port, whichever it is.
LEMMA ReadKinds ==
  ASSUME WholeScans, IInv, NEW low \in Scans, ReadPortA(low) \/ ReadPortB(low)
  PROVE  \E sampled, shown \in BOOLEAN :
            /\ sensed' = (sensed \/ shown)
            /\ shown => sampled
            /\ sampled /\ (\A k \in Tracked : raw[k] = "none" /\ k \in HostKeys /\ k[1] <= 7)
                  => shown
            /\ active => Observe(sampled)
            /\ ~active => UNCHANGED coreVars
<1>1. /\ SampledByPa(low) \in BOOLEAN /\ SampledByPb(low) \in BOOLEAN
      /\ ShownOnPa(low) \in BOOLEAN /\ ShownOnPb(low) \in BOOLEAN
  BY Zenon DEF SampledByPa, SampledByPb, ShownOnPa, ShownOnPb
<1>2. CASE ReadPortA(low)
  BY <1>1, <1>2, ShownIsSampled, SampledIsShown, Zenon DEF ReadPortA, Cia1PaRead
<1>3. CASE ReadPortB(low)
  BY <1>1, <1>3, ShownIsSampled, SampledIsShown, Zenon DEF ReadPortB, Cia1PbRead
<1> QED
  BY <1>2, <1>3

\* Steps that are no reads: the history stays, or a new injection clears it.
LEMMA UnreadKinds ==
  ASSUME IInv, [ScanNext]_scanVars,
         ~ \E low \in Scans : ReadPortA(low) \/ ReadPortB(low)
  PROVE  /\ \/ sensed' = FALSE
            \/ /\ sensed' = sensed
               /\ ~active' \/ UNCHANGED <<active, mode, last_reason>>
         /\ last_reason' \in {last_reason, KM_RELEASE_NONE}
<1>1. CASE (IdleCycle \/ SetFrameLength \/ MachineReset) /\ UNCHANGED sensed
  BY <1>1 DEF IdleCycle, SetFrameLength, MachineReset, coreVars
<1>2. CASE AlarmRuns
  BY <1>2 DEF AlarmRuns, OnAlarm, ReleaseNow, coreVars
<1>3. CASE NewInjection /\ sensed' = FALSE
  BY <1>3 DEF NewInjection, Tap, Press, BinmonTap, StartTap, Inject
<1>4. CASE ReleaseAll /\ UNCHANGED sensed
  BY <1>4 DEF ReleaseAll, ReleaseNow, coreVars
<1>5. ASSUME NEW ks \in KeyLists, NEW f \in ForFrames, ReleaseKeys(ks, f), UNCHANGED sensed
      PROVE  /\ \/ sensed' = FALSE
                \/ /\ sensed' = sensed
                   /\ ~active' \/ UNCHANGED <<active, mode, last_reason>>
             /\ last_reason' \in {last_reason, KM_RELEASE_NONE}
  BY <1>5 DEF ReleaseKeys, ReleaseNow, coreVars
<1>6. ASSUME NEW body, RawWrites(body), UNCHANGED sensed
      PROVE  /\ sensed' = sensed /\ UNCHANGED <<active, mode, last_reason>>
             /\ last_reason' \in {last_reason, KM_RELEASE_NONE}
  BY <1>6 DEF RawWrites, coreVars
<1>7. CASE UNCHANGED scanVars
  BY <1>7 DEF scanVars, vars, coreVars
<1> QED
  BY <1>1, <1>2, <1>3, <1>4, <1>5, <1>6, <1>7
  DEF ScanNext, CpuRuns, Other, Poke, BinmonSet

\* A read that shows an observed tap's key to the program is always noted by the hooks
\* of read_ciapa and read_ciapb: the tap is let go once seen.
THEOREM SensedAlwaysObserved ==
  ASSUME WholeScans
  PROVE  ScanSpec => []SensedIsObserved
<1>1. ScanInit => SensedIsObserved
  BY DEF ScanInit, SensedIsObserved
<1>2. ASSUME IInv, SensedIsObserved, [ScanNext]_scanVars
      PROVE  SensedIsObserved'
  <2>1. ASSUME NEW low \in Scans, ReadPortA(low) \/ ReadPortB(low)
        PROVE  SensedIsObserved'
    <3>1. last_reason \in {KM_RELEASE_NONE, KM_RELEASE_OBSERVED}
      BY <1>2 DEF IInv, TypeOK
    <3> QED
      BY <1>2, <2>1, <3>1, ReadKinds DEF SensedIsObserved, Observe, FirstSight, coreVars
  <2>2. CASE ~ \E low \in Scans : ReadPortA(low) \/ ReadPortB(low)
    BY <1>2, <2>2, UnreadKinds DEF SensedIsObserved
  <2> QED
    BY <2>1, <2>2
<1> QED
  BY <1>1, <1>2, ScanInductive, PTL DEF ScanSpec

\* km_observe lets no tap go unseen: when it becomes "observed", a read has shown the
\* program one of its keys.
THEOREM ObservedAlwaysSensed ==
  ASSUME WholeScans
  PROVE  ScanSpec => ObservedIsSensed
<1> DEFINE P == last_reason # KM_RELEASE_OBSERVED /\ last_reason' = KM_RELEASE_OBSERVED
                /\ (\A k \in Tracked : raw[k] = "none" /\ k \in HostKeys /\ k[1] <= 7)
                   => sensed'
<1>1. ASSUME IInv, ScanNext  PROVE P
  <2>1. ASSUME NEW low \in Scans, ReadPortA(low) \/ ReadPortB(low)  PROVE P
    BY <1>1, <2>1, ReadKinds DEF Observe, FirstSight, coreVars
  <2>2. CASE ~ \E low \in Scans : ReadPortA(low) \/ ReadPortB(low)
    BY <1>1, <2>2, UnreadKinds DEF KM_RELEASE_OBSERVED, KM_RELEASE_NONE
  <2> QED
    BY <2>1, <2>2
<1> QED
  BY <1>1, ScanInductive, PTL DEF ScanSpec, ObservedIsSensed
=============================================================================
