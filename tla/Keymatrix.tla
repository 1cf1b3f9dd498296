------------------------------ MODULE Keymatrix ------------------------------
(***************************************************************************)
(* The keyboard-matrix injector: libs/keymatrix/src/keymatrix_core.c with  *)
(* its VICE adapter libs/keymatrix/vice/mon_keymatrix.c.                   *)
(*                                                                         *)
(* Three actors share this state and interleave freely: the monitor (text  *)
(* verbs and binary-monitor requests), the 6510 reading CIA1's ports, and  *)
(* VICE's alarm dispatcher, which runs the single release alarm.           *)
(*                                                                         *)
(* A key is a pair <<row, col>>.  The monitor's text (names, aliases,      *)
(* numbers) has been turned into pairs; a pair outside the range that      *)
(* parse_rc_pair accepts stands for any token that does not parse.         *)
(***************************************************************************)
EXTENDS Integers, Sequences, FiniteSets

CONSTANTS
    Keys,           \* the <row, col> pairs a client may name
    KeyLists,       \* the key lists clients send
    ForFrames,      \* the numbers written after "for"; NoFor is "no 'for' clause"
    TapFrames,      \* the frames:u16 field of a KEYMATRIX_TAP request
    SetBodies,      \* KEYMATRIX_SET bodies: sequences of [key, value]
    Scans,          \* sets of port lines a scan pulls low (the zero bits of a mask)
    KM_MAX_KEYS,                \* 16
    KM_DEFAULT_TIMEOUT_FRAMES,  \* 60
    MaxFrames,                  \* 65535
    PalCyclesPerFrame,          \* 19656
    FrameLengths,   \* what machine_get_cycles_per_frame() may answer; 0 is "unknown"
    CounterWrap,    \* 2^32: the read counters are uint32_t
    DispatchSlack,  \* cycles by which VICE may be late in running a due alarm
    MaxClk,         \* bound: no cycle, and no tap's deadline, is beyond MaxClk
    MaxResets       \* bound on machine resets, which rewind the clock

NoFor == -1
NoAlarm == -1

KM_MODE_IDLE == "idle"
KM_MODE_TAP_OBSERVED == "tap-observed"
KM_MODE_TAP_FIXED == "tap-fixed"
KM_MODE_PRESS_STICKY == "press"
TapModes == {KM_MODE_TAP_OBSERVED, KM_MODE_TAP_FIXED}
Modes == TapModes \cup {KM_MODE_IDLE, KM_MODE_PRESS_STICKY}

KM_RELEASE_NONE == "none"
KM_RELEASE_OBSERVED == "observed"
KM_RELEASE_TIMEOUT == "timeout"
KM_RELEASE_MANUAL == "manual"
Reasons == {KM_RELEASE_NONE, KM_RELEASE_OBSERVED, KM_RELEASE_TIMEOUT, KM_RELEASE_MANUAL}

ASSUME KeysAssumption ==
    /\ Keys \subseteq Int \X Int
    /\ KeyLists \subseteq Seq(Keys)
    /\ SetBodies \subseteq Seq([key : Keys, value : BOOLEAN])
    /\ Scans \subseteq SUBSET (0..7)

ASSUME BoundsAssumption ==
    /\ KM_MAX_KEYS \in Nat \ {0}
    /\ KM_DEFAULT_TIMEOUT_FRAMES \in Nat \ {0}
    /\ MaxFrames \in Nat
    /\ ForFrames \subseteq Int
    /\ TapFrames \subseteq 0..MaxFrames
    /\ PalCyclesPerFrame \in Nat \ {0}
    /\ FrameLengths \subseteq Nat
    /\ DispatchSlack \in Nat
    /\ CounterWrap \in Nat /\ CounterWrap > DispatchSlack + 1
    /\ MaxClk \in Nat
    /\ MaxResets \in Nat

VARIABLES
    \* km_core_t
    active, mode,
    keys,           \* keys[0..n_keys-1], as a function from occupied slots to keys
    cia1_reads_total, cia1_reads_sampling,
    timeout_clk, last_reason, press_clk,
    last,           \* the report on the injection that ended last
    \* the host behind km_host_t
    lit,            \* keys whose matrix bit or custom-key flag is set
    alarm,          \* the clock the release alarm is set for, or NoAlarm
    clk,            \* maincpu_clk
    cpf,            \* machine_get_cycles_per_frame()
    \* history
    raw,            \* per key: the last raw write since the core last wrote it
    resets          \* machine resets so far

coreVars == <<active, mode, keys, cia1_reads_total, cia1_reads_sampling,
              timeout_clk, last_reason, press_clk, last>>
vars == <<coreVars, lit, alarm, clk, cpf, raw, resets>>

----------------------------------------------------------------------------
(* Keys as the host and the parsers see them.                              *)

\* A text token is accepted iff it names a key in parse_rc_pair's range; every
\* entry of the c64_keys table is in it.
Parses(k) == k[1] \in -8..15 /\ k[2] \in 0..7

\* keyboard_set_keyarr_any (VICE): matrix bits, and four custom keys on negative
\* rows; it ignores any other coordinate.
MatrixKey(k) == k[1] \in 0..15 /\ k[2] \in 0..7
CustomKey(k) == k \in {<<-3, 0>>, <<-3, 1>>, <<-4, 0>>, <<-4, 1>>}
HostKeys == {k \in Keys : MatrixKey(k) \/ CustomKey(k)}

Elements(ks) == {ks[i] : i \in DOMAIN ks}
Tracked == Elements(keys)
NoKeys == << >>

\* parse_key_list, and the checks of its callers, on <key> ... [for <frames>].
ValidKeys(ks) ==
    /\ Len(ks) \in 1..KM_MAX_KEYS
    /\ \A i \in DOMAIN ks : Parses(ks[i])
ValidFor(f) == f = NoFor \/ f \in 1..MaxFrames

----------------------------------------------------------------------------
(* Time.                                                                   *)

\* CpfOrPal without the fallback for an unknown frame length.
CpfOrPalNoFallback == cpf

\* km_cpf_or_pal
CpfOrPal == IF cpf > 0 THEN cpf ELSE PalCyclesPerFrame

\* FramesIn without the saturation.
FramesInUnsaturated(cycles) == cycles \div cpf

\* Whole frames in a span of cycles, saturated to a uint16_t.
FramesIn(cycles) == IF cycles \div cpf > MaxFrames THEN MaxFrames ELSE cycles \div cpf

FramesHeld == IF cpf > 0 /\ clk >= press_clk THEN FramesIn(clk - press_clk) ELSE 0

----------------------------------------------------------------------------
(* Ending an injection.                                                    *)

NoReport == [valid |-> FALSE, keys |-> NoKeys, reads_total |-> 0, reads_sampling |-> 0,
             reason |-> KM_RELEASE_NONE, mode |-> KM_MODE_IDLE, frames_held |-> 0]

\* Report, with the caller's reason even when the keys were observed.
ReportCallersReason(ks, reason) ==
    [valid |-> TRUE, keys |-> ks,
     reads_total |-> cia1_reads_total, reads_sampling |-> cia1_reads_sampling,
     reason |-> reason, mode |-> mode, frames_held |-> FramesHeld]

\* What km_release_now files in km->last; an observation already made wins.
Report(ks, reason) ==
    [valid |-> TRUE, keys |-> ks,
     reads_total |-> cia1_reads_total, reads_sampling |-> cia1_reads_sampling,
     reason |-> IF last_reason # KM_RELEASE_NONE THEN last_reason ELSE reason,
     mode |-> mode, frames_held |-> FramesHeld]

\* CancelAlarm left out.
CancelAlarmForgotten == UNCHANGED alarm

CancelAlarm == alarm' = NoAlarm

\* km_release_now on an active injection still tracking ks, but for the bits.
\* timeout_clk and press_clk keep their values.
ReleaseNow(ks, reason) ==
    /\ last' = Report(ks, reason)
    /\ active' = FALSE
    /\ keys' = NoKeys
    /\ mode' = KM_MODE_IDLE
    /\ cia1_reads_total' = 0
    /\ cia1_reads_sampling' = 0
    /\ last_reason' = KM_RELEASE_NONE
    /\ CancelAlarm
    /\ UNCHANGED <<timeout_clk, press_clk>>

\* The core clears the bits of S, then sets those of T.
WriteBits(S, T) ==
    /\ lit' = (lit \ S) \cup (T \cap HostKeys)
    /\ raw' = [k \in Keys |-> IF k \in S \cup T THEN "none" ELSE raw[k]]

----------------------------------------------------------------------------
(* Starting one: km_supersede_active, then the new keys.                   *)

Supersede == last' = IF active THEN Report(keys, KM_RELEASE_MANUAL) ELSE last

Inject(ks, m) ==
    /\ Supersede
    /\ WriteBits(Tracked, Elements(ks))
    /\ keys' = ks
    /\ mode' = m
    /\ cia1_reads_total' = 0
    /\ cia1_reads_sampling' = 0
    /\ last_reason' = KM_RELEASE_NONE
    /\ active' = TRUE
    /\ press_clk' = clk
    /\ UNCHANGED <<clk, cpf, resets>>

\* StartTap arming the alarm before it supersedes the old injection, whose release
\* cancels it.
StartTapArmsFirst(ks, m, frames) ==
    /\ clk + frames * CpfOrPal <= MaxClk
    /\ Inject(ks, m)
    /\ timeout_clk' = clk + frames * CpfOrPal
    /\ alarm' = IF active THEN NoAlarm ELSE timeout_clk'

\* The common end of km_core_tap and km_core_binmon_tap.
StartTap(ks, m, frames) ==
    /\ clk + frames * CpfOrPal <= MaxClk
    /\ Inject(ks, m)
    /\ timeout_clk' = clk + frames * CpfOrPal
    /\ alarm' = timeout_clk'

\* keymatrix tap <keys> [for <f>]
Tap(ks, f) ==
    /\ ValidKeys(ks) /\ ValidFor(f)
    /\ IF f = NoFor THEN StartTap(ks, KM_MODE_TAP_OBSERVED, KM_DEFAULT_TIMEOUT_FRAMES)
                    ELSE StartTap(ks, KM_MODE_TAP_FIXED, f)

\* KEYMATRIX_TAP; mode 1 is fixed, every other value is observed; coordinates are
\* any int8_t, and frames = 0 asks for the default.
BinmonTap(ks, fixed, frames) ==
    /\ Len(ks) \in 1..KM_MAX_KEYS
    /\ StartTap(ks, IF fixed THEN KM_MODE_TAP_FIXED ELSE KM_MODE_TAP_OBSERVED,
                IF frames > 0 THEN frames ELSE KM_DEFAULT_TIMEOUT_FRAMES)

\* Press, superseding without cancelling the old injection's alarm.
PressKeepsAlarm(ks, f) ==
    /\ ValidKeys(ks) /\ ValidFor(f)
    /\ Inject(ks, KM_MODE_PRESS_STICKY)
    /\ UNCHANGED <<alarm, timeout_clk>>

\* keymatrix press <keys> [for <f>]: no alarm of its own; superseding cancelled the
\* one the old injection had.
Press(ks, f) ==
    /\ ValidKeys(ks) /\ ValidFor(f)
    /\ Inject(ks, KM_MODE_PRESS_STICKY)
    /\ IF active THEN CancelAlarm ELSE UNCHANGED alarm
    /\ UNCHANGED timeout_clk

----------------------------------------------------------------------------
(* The other monitor commands.                                             *)

\* keymatrix release, without keys: end the injection, then keyboard_clear_keymatrix,
\* which drops the matrix bits and leaves custom keys alone.
ReleaseAll ==
    /\ IF active THEN ReleaseNow(keys, KM_RELEASE_MANUAL)
                 ELSE UNCHANGED <<coreVars, alarm>>
    /\ WriteBits(Tracked \cup {k \in Keys : MatrixKey(k)}, {})
    /\ UNCHANGED <<clk, cpf, resets>>

\* Surviving, comparing columns only.
SurvivingByColumn(ks) == {i \in DOMAIN keys : \A j \in DOMAIN ks : keys[i][2] # ks[j][2]}

\* The tracked keys that a release of ks leaves.
Surviving(ks) == {i \in DOMAIN keys : keys[i] \notin Elements(ks)}

\* keymatrix release <keys>: clear them, stop tracking them, and end the injection
\* when it has no key left.
ReleaseKeys(ks, f) ==
    /\ ValidKeys(ks) /\ ValidFor(f)
    /\ \/ ~active /\ UNCHANGED <<coreVars, alarm>>
       \/ active /\ Surviving(ks) = {} /\ ReleaseNow(NoKeys, KM_RELEASE_MANUAL)
       \/ /\ active /\ Surviving(ks) # {}
          /\ keys' = [i \in Surviving(ks) |-> keys[i]]
          /\ UNCHANGED <<active, mode, cia1_reads_total, cia1_reads_sampling,
                         timeout_clk, last_reason, press_clk, last, alarm>>
    /\ WriteBits(Elements(ks), {})
    /\ UNCHANGED <<clk, cpf, resets>>

\* Writes to the host that go round the core's tracking, in order: a later entry for
\* a key overrides an earlier one.
RawWrites(body) ==
    LET written(k) == {i \in DOMAIN body : body[i].key = k}
        final(k)   == body[CHOOSE i \in written(k) : \A j \in written(k) : j <= i].value
    IN /\ lit' = {k \in HostKeys : IF written(k) = {} THEN k \in lit ELSE final(k)}
       /\ raw' = [k \in Keys |-> IF written(k) = {} THEN raw[k]
                                 ELSE IF final(k) THEN "set" ELSE "cleared"]
       /\ UNCHANGED <<coreVars, alarm, clk, cpf, resets>>

\* keymatrix poke <row> <col> <0|1>
Poke(k, v) == Parses(k) /\ RawWrites(<<[key |-> k, value |-> v]>>)

\* KEYMATRIX_SET, one request of count entries.
BinmonSet(body) == RawWrites(body)

\* A command that does not parse, and a malformed request, change nothing.
Rejected(ks, f) == ~(ValidKeys(ks) /\ ValidFor(f)) /\ UNCHANGED vars

\* The monitor's reports change nothing either: KEYMATRIX_GET's fields.
GetReason ==
    IF active THEN last_reason ELSE last.reason
GetFramesLeft ==
    IF active /\ timeout_clk > clk /\ cpf > 0 THEN FramesIn(timeout_clk - clk) ELSE 0

----------------------------------------------------------------------------
(* The CPU.  A cycle makes at most one CIA1 access; time passes unless the  *)
(* release alarm is overdue by DispatchSlack.                              *)

Advance ==
    /\ clk < MaxClk \/ alarm # NoAlarm
    /\ alarm # NoAlarm => clk < alarm + DispatchSlack
    /\ clk' = clk + 1
    /\ UNCHANGED <<cpf, resets>>

IdleCycle == Advance /\ UNCHANGED <<coreVars, lit, alarm, raw>>

\* FirstSight in every mode.
FirstSightAnyMode(sampled) == sampled /\ last_reason = KM_RELEASE_NONE

\* FirstSight on every sampling read.
EverySight(sampled) == sampled /\ mode = KM_MODE_TAP_OBSERVED

\* The read that ends an observed tap.
FirstSight(sampled) ==
    sampled /\ mode = KM_MODE_TAP_OBSERVED /\ last_reason = KM_RELEASE_NONE

\* km_observe
Observe(sampled) ==
    /\ cia1_reads_total' = (cia1_reads_total + 1) % CounterWrap
    /\ cia1_reads_sampling' = IF sampled THEN (cia1_reads_sampling + 1) % CounterWrap
                              ELSE cia1_reads_sampling
    /\ last_reason' = IF FirstSight(sampled) THEN KM_RELEASE_OBSERVED ELSE last_reason
    /\ alarm' = IF FirstSight(sampled) THEN clk + 1 ELSE alarm
    /\ UNCHANGED <<active, mode, keys, timeout_clk, press_clk, last>>

\* SampledByPb, of the first key only; of custom keys too.
SampledByPbFirstKey(cols) ==
    \E i \in DOMAIN keys : /\ \A j \in DOMAIN keys : i <= j
                           /\ keys[i][1] >= 0 /\ keys[i][2] \in 0..7 /\ keys[i][2] \in cols
SampledByPbCustomToo(cols) == \E i \in DOMAIN keys : keys[i][2] \in 0..7 /\ keys[i][2] \in cols

\* A read of port A samples the rows the mask selects, of port B the columns; custom
\* keys (row < 0) are not in the matrix.
SampledByPa(rows) == \E i \in DOMAIN keys : keys[i][1] \in 0..7 /\ keys[i][1] \in rows
SampledByPb(cols) ==
    \E i \in DOMAIN keys : keys[i][1] >= 0 /\ keys[i][2] \in 0..7 /\ keys[i][2] \in cols

Cia1PaRead(rows) ==
    /\ Advance
    /\ IF active THEN Observe(SampledByPa(rows)) ELSE UNCHANGED <<coreVars, alarm>>
    /\ UNCHANGED <<lit, raw>>

Cia1PbRead(cols) ==
    /\ Advance
    /\ IF active THEN Observe(SampledByPb(cols)) ELSE UNCHANGED <<coreVars, alarm>>
    /\ UNCHANGED <<lit, raw>>

CpuCycle ==
    \/ IdleCycle
    \/ \E s \in Scans : Cia1PaRead(s) \/ Cia1PbRead(s)

----------------------------------------------------------------------------
(* The host.                                                               *)

\* VICE runs a due alarm; kmx_alarm_callback does not unset it, only
\* km_release_now's cancel_alarm does.
OnAlarm ==
    /\ alarm # NoAlarm
    /\ clk >= alarm
    /\ IF active
       THEN /\ ReleaseNow(keys, KM_RELEASE_TIMEOUT)
            /\ WriteBits(Tracked, {})
       ELSE UNCHANGED <<coreVars, alarm, lit, raw>>
    /\ UNCHANGED <<clk, cpf, resets>>

\* The user switches the video standard.
SetFrameLength ==
    /\ cpf' \in FrameLengths
    /\ UNCHANGED <<coreVars, lit, alarm, clk, raw, resets>>

\* A machine reset starts the clock again; the injector is not told.
MachineReset ==
    /\ resets < MaxResets
    /\ resets' = resets + 1
    /\ clk' = 0
    /\ UNCHANGED <<coreVars, lit, alarm, cpf, raw>>

----------------------------------------------------------------------------
Init ==
    /\ active = FALSE
    /\ mode = KM_MODE_IDLE
    /\ keys = NoKeys
    /\ cia1_reads_total = 0
    /\ cia1_reads_sampling = 0
    /\ timeout_clk = 0
    /\ last_reason = KM_RELEASE_NONE
    /\ press_clk = 0
    /\ last = NoReport
    /\ lit = {}
    /\ alarm = NoAlarm
    /\ clk = 0
    /\ cpf \in FrameLengths
    /\ raw = [k \in Keys |-> "none"]
    /\ resets = 0

NewInjection ==
    \/ \E ks \in KeyLists, f \in ForFrames : Tap(ks, f) \/ Press(ks, f)
    \/ \E ks \in KeyLists, fixed \in BOOLEAN, f \in TapFrames : BinmonTap(ks, fixed, f)

Command ==
    \/ NewInjection
    \/ ReleaseAll
    \/ \E ks \in KeyLists, f \in ForFrames : ReleaseKeys(ks, f) \/ Rejected(ks, f)
    \/ \E k \in Keys, v \in BOOLEAN : Poke(k, v)
    \/ \E body \in SetBodies : BinmonSet(body)

Next == Command \/ CpuCycle \/ OnAlarm \/ SetFrameLength \/ MachineReset

\* The CPU keeps running and VICE keeps dispatching its alarms; clients owe nothing.
Spec == Init /\ [][Next]_vars /\ WF_vars(CpuCycle) /\ WF_vars(OnAlarm)
----------------------------------------------------------------------------
(* Properties.                                                             *)

Slots == UNION {[S -> Keys] : S \in SUBSET (1..KM_MAX_KEYS)}

Reports == [valid : BOOLEAN, keys : Slots,
            reads_total : 0..(CounterWrap - 1), reads_sampling : 0..(CounterWrap - 1),
            reason : Reasons, mode : Modes, frames_held : 0..MaxFrames]

\* The shape of km_core_t, of the host's state and of the history.
TypeOK ==
    /\ active \in BOOLEAN /\ mode \in Modes /\ keys \in Slots
    /\ cia1_reads_total \in 0..(CounterWrap - 1)
    /\ cia1_reads_sampling \in 0..(CounterWrap - 1)
    /\ timeout_clk \in Nat /\ press_clk \in Nat
    /\ last_reason \in {KM_RELEASE_NONE, KM_RELEASE_OBSERVED}
    /\ last \in Reports
    /\ lit \subseteq HostKeys
    /\ alarm \in Nat \cup {NoAlarm}
    /\ clk \in Nat /\ cpf \in FrameLengths
    /\ raw \in [Keys -> {"none", "set", "cleared"}]
    /\ resets \in 0..MaxResets

\* The release alarm is pending exactly while a tap is: an alarm left over from a
\* superseded or hand-released tap would cut the next injection short, one without
\* an injection would fire for ever (the callback does not unset it), a tap without
\* one would never end.  Until the program is seen scanning the key, it is set for
\* the tap's deadline.
AlarmDiscipline ==
    /\ alarm # NoAlarm <=> active /\ mode \in TapModes
    /\ active /\ mode \in TapModes /\ last_reason = KM_RELEASE_NONE => alarm = timeout_clk
    /\ last_reason = KM_RELEASE_OBSERVED => active /\ mode = KM_MODE_TAP_OBSERVED

\* No key is left down and none is let go behind the client's back: a key the core
\* was the last to write is lit iff the running injection tracks it, through
\* supersession, partial release and timeout; a key last written raw (poke,
\* KEYMATRIX_SET) has the value written.
MatrixAgrees ==
    \A k \in HostKeys :
        k \in lit <=> raw[k] = "set" \/ (raw[k] = "none" /\ k \in Tracked)

\* A sticky press ends by hand only, "observed" is an observed tap whose keys were
\* sampled, and an observed tap that ends otherwise was never sampled.  (A reset
\* rewinds the clock, so that a tap can outlast its alarm; its counters may wrap.)
Honest(r) ==
    /\ r.reason # KM_RELEASE_NONE
    /\ r.mode = KM_MODE_PRESS_STICKY => r.reason = KM_RELEASE_MANUAL
    /\ r.reason = KM_RELEASE_OBSERVED =>
          /\ r.mode = KM_MODE_TAP_OBSERVED
          /\ resets = 0 => r.reads_sampling \in 1..(DispatchSlack + 1)
    /\ r.mode = KM_MODE_TAP_OBSERVED /\ r.reason # KM_RELEASE_OBSERVED =>
          r.reads_sampling = 0

\* What KEYMATRIX_GET says of the injection that ended last is true of it, whichever
\* of observation, timeout, supersession and release came first.
ReportHonest == last.valid => Honest(last)

\* A tap never outlives its deadline by more than the host is late, twice: once for
\* an observation made while the deadline was overdue, once for the alarm it sets.
TapBounded ==
    active /\ mode \in TapModes /\ resets = 0 => clk <= timeout_clk + 2 * DispatchSlack

\* The frame lengths a deadline may be reckoned with.
KnownLengths == (FrameLengths \ {0}) \cup {PalCyclesPerFrame}

\* An injection is reported as timed out only at or after its deadline and no sooner
\* than one frame after it began, a PAL frame if the machine's length was unknown; as
\* observed only after an observation.
ReleaseJustified ==
    [][last' # last =>
        /\ last'.reason = KM_RELEASE_TIMEOUT =>
              /\ mode \in TapModes /\ clk >= timeout_clk
              /\ \E n \in KnownLengths : clk >= press_clk + n
        /\ last'.reason = KM_RELEASE_OBSERVED <=> last_reason = KM_RELEASE_OBSERVED]_vars

\* A client that polls KEYMATRIX_GET after its tap sees a release reason appear and
\* then stay, through the release itself, until somebody starts a new injection.
ReasonStable ==
    [][GetReason # KM_RELEASE_NONE /\ ~(active' /\ last_reason' = KM_RELEASE_NONE)
        => GetReason' = GetReason]_vars

\* Every tap ends.
TapReleased ==
    \A c \in 0..MaxClk :
        active /\ mode \in TapModes /\ press_clk = c
            ~> ~(active /\ mode \in TapModes /\ press_clk = c)

\* No injection: no key is tracked and the mode says so.
IdleShape ==
    /\ ~active => keys = NoKeys /\ mode = KM_MODE_IDLE
    /\ active => mode # KM_MODE_IDLE

\* An observed tap counts no sampling read before the first, and at most one per cycle
\* since then: the alarm is one cycle after the first.
SamplesCounted ==
    /\ mode = KM_MODE_TAP_OBSERVED /\ last_reason = KM_RELEASE_NONE => cia1_reads_sampling = 0
    /\ last_reason = KM_RELEASE_OBSERVED /\ resets = 0 =>
          /\ cia1_reads_sampling >= 1
          /\ cia1_reads_sampling <= clk - alarm + 1

\* The clock is not beyond the alarm, nor the alarm beyond the deadline, by more than
\* the dispatcher is late.
DeadlineKept ==
    active /\ mode \in TapModes /\ resets = 0 =>
        clk <= alarm + DispatchSlack /\ alarm <= timeout_clk + DispatchSlack

\* The inductive invariant behind the safety properties above.
IInv == TypeOK /\ IdleShape /\ AlarmDiscipline /\ MatrixAgrees /\ SamplesCounted
        /\ DeadlineKept /\ ReportHonest

\* README.md, KEYMATRIX_GET: frames_until_timeout is "active tap only, else 0".
FramesLeftOnlyForTaps ==
    active /\ mode = KM_MODE_PRESS_STICKY => GetFramesLeft = 0

\* Help text of keymatrix press: "bits stay set until you `keymatrix release`" (raw
\* writes apart).
StickyUntilRelease ==
    [][active /\ mode = KM_MODE_PRESS_STICKY /\ raw' = raw =>
        \/ Tracked \cap lit \subseteq lit'
        \/ ReleaseAll
        \/ \E ks \in KeyLists, f \in ForFrames : ReleaseKeys(ks, f)]_vars

----------------------------------------------------------------------------
(* What a client sees: the keys, the mode and the reason of KEYMATRIX_GET. *)

Promise == INSTANCE KeyInjection WITH held <- Tracked, reason <- GetReason

\* To the clients, who see the tracked keys, the mode and the release reason, the
\* injector with its alarm, counters, reports and deadlines is KeyInjection.
KeyInjectionSpec == Promise!Spec
=============================================================================
