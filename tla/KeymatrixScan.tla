---------------------------- MODULE KeymatrixScan ----------------------------
(***************************************************************************)
(* Keymatrix with the CIA1 of a C64 in front of it: what the program that  *)
(* scans the keyboard gets to see of the injected keys, next to what the   *)
(* hooks in read_ciapa and read_ciapb make the injector believe it saw.    *)
(*                                                                         *)
(* A key <<row, col>> closes line row of port A with line col of port B.   *)
(* The program pulls some lines of one port low and reads the other one.   *)
(***************************************************************************)
EXTENDS Keymatrix

VARIABLE sensed     \* history: this injection, a read showed the bit of one of its keys

scanVars == <<vars, sensed>>

\* keyarr and rev_keyarr in VICE's reads: port B shows the keys whose row is low on
\* port A, port A those whose column is low on port B.
ShownOnPb(low) == \E k \in Tracked \cap lit : k[1] \in 0..7 /\ k[1] \in low
ShownOnPa(low) == \E k \in Tracked \cap lit : k[1] \in 0..7 /\ k[2] \in low

\* read_ciapa: the hook is given the lines low on port B.
ReadPortA(low) == Cia1PaRead(low) /\ sensed' = (sensed \/ ShownOnPa(low))

\* read_ciapb: the hook is given the lines low on port A.
ReadPortB(low) == Cia1PbRead(low) /\ sensed' = (sensed \/ ShownOnPb(low))

CpuRuns ==
    \/ IdleCycle /\ UNCHANGED sensed
    \/ \E low \in Scans : ReadPortA(low) \/ ReadPortB(low)

AlarmRuns == OnAlarm /\ UNCHANGED sensed

Other ==
    \/ NewInjection /\ sensed' = FALSE
    \/ /\ \/ ReleaseAll \/ SetFrameLength \/ MachineReset
          \/ \E ks \in KeyLists, f \in ForFrames : ReleaseKeys(ks, f)
          \/ \E k \in Keys, v \in BOOLEAN : Poke(k, v)
          \/ \E body \in SetBodies : BinmonSet(body)
       /\ UNCHANGED sensed

ScanInit == Init /\ sensed = FALSE
ScanNext == CpuRuns \/ AlarmRuns \/ Other

\* As in Keymatrix, the CPU keeps running and VICE keeps dispatching its alarms.
ScanSpec == ScanInit /\ [][ScanNext]_scanVars /\ WF_scanVars(CpuRuns) /\ WF_scanVars(AlarmRuns)

----------------------------------------------------------------------------
(* Properties.                                                             *)

\* A tap is not let go unseen: when it becomes "observed", a read has shown the program
\* one of its keys (raw writes, and coordinates a scan cannot reach, apart).
ObservedIsSensed ==
    [][/\ last_reason # KM_RELEASE_OBSERVED /\ last_reason' = KM_RELEASE_OBSERVED
       /\ \A k \in Tracked : raw[k] = "none" /\ k \in HostKeys /\ k[1] <= 7
       => sensed']_scanVars

\* A tap is let go once seen: no read shows an observed tap's key unnoticed.
SensedIsObserved ==
    active /\ mode = KM_MODE_TAP_OBSERVED /\ sensed => last_reason = KM_RELEASE_OBSERVED
=============================================================================
