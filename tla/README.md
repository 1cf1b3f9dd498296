# TLA+ verification of revice

revice adds features to the VICE emulator for programs that drive it from outside: key
injection, SID register streaming over MIDI (ASID), a CPU bus trace, screen reading, video
recording, and a few binary-monitor requests. Each feature is a library `src/libs/<name>`
with a core in plain C that reaches the emulator through a table of host operations, and a
thin adapter under `vice/`. This directory models all seven libraries and the hooks by which
VICE reaches them. Most of it is about keymatrix, ASID and bustrace, whose state is shared
between actors or outlives a failure.

    tlc -config KeymatrixTime.cfg MCKeymatrix      # one run; see "Runs"
    tlapm KeymatrixProofs.tla                      # the proofs

## Inventory

| component | state | operations | hard behaviour |
|---|---|---|---|
| keymatrix (`libs/keymatrix`) | one injection (mode, keys, read counters, press and timeout clock, reason), the report on the last one, one VICE alarm, the keyboard matrix | text verbs `tap press release poke`, requests `KEYMATRIX_SET TAP GET`, CIA1 port A/B read hooks, the alarm callback | monitor, 6510 and alarm dispatcher interleave; observation races timeout; supersession; one alarm for successive owners |
| ASID (`libs/asid`) | per chip: register shadow, dirty marks, last IRQ, wall-clock origin; the ALSA queue | `asid_dump2` (SID write), `asid_init`, `asid_close` | delayed and immediate messages on one queue; slipping clocks; a pool that refuses; edges that must not be merged |
| bustrace (`libs/bustrace`) | started flag, record count, CRC, last cycle; the file | access, end, change of the file name, shutdown | write errors unnoticed by the trailer; a switch of file mid-run; saturation |
| video (`libs/video`) | saved warp mode and whether it is owed | `VIDEO_RECORD` start/stop | the recorder may stop by itself; the user may change warp |
| screen (`libs/screen`) | none | `SCREEN_GET`, text `screen` | address arithmetic, bank and mode selection |
| driveattach, checkpoint | none | decoding of one request | lengths at the boundary |
| VICE patches (`integration/vice`) | none of its own | lexer and opcode dispatch, CIA1 and CPU hooks | request framing |

Correctness, per component. *keymatrix*: no key stays down or is let go behind the client's
back; every tap ends, near its deadline; what GET reports happened. *ASID*: every gate edge
is emitted, once and in order; the player ends up with the emulated registers. *bustrace*: a
finished trace validates, and one that validates is complete. *video*: the user's warp mode
survives a recording. *screen, driveattach, checkpoint*: the decoders agree with a reference
on every input and reject what is too short.

`PROJECT.json` lists the hazards behind these, line by line.

| module | models | composed with |
|---|---|---|
| `Keymatrix` | the injector and its VICE adapter | implements `KeyInjection`, the promise to its clients |
| `KeymatrixScan` | the CIA1 hooks and the program that scans the keyboard | extends `Keymatrix` |
| `Asid` | scheduling and transport of ASID updates | |
| `AsidWire` | the bytes of an update, and a player that decodes them | justifies what `Asid` takes a message to be |
| `Bustrace` | the bus trace and its files | implements `TraceFiles`, the promise to a reader |
| `Video` | the warp policy of `VIDEO_RECORD` | |
| `Screen` | `SCREEN_GET` and `screenscrape` | |
| `Binmon` | dispatch of revice's requests, drive attach, silent checkpoints | |

`MC*` modules give the constants their values for TLC, `*Proofs` hold the theorems.

## Keymatrix.tla

`libs/keymatrix/src/keymatrix_core.c` with its adapter `vice/mon_keymatrix.c`.

*To its clients* it is `KeyInjection`: one injection at a time, replaced whole, let go key by
key or at once; a reason that appears once and stays; only taps time out. `KeyInjectionSpec`
is that specification under the mapping of `keys` to the set of pairs held and of the report
to what GET answers; clocks, alarms, counters and matrix bits disappear.

*State.* The fields of `km_core_t` under their names; `keys` is a function from occupied
slots to `<<row, col>>` pairs (a partial release leaves a gap where the code compacts the
array: no operation depends on the index). Host: `lit` (bits and custom keys that are down),
`alarm` (the clock it is set for), `clk`, `cpf`. History: `raw` remembers, per key, a write
that bypassed the core; `resets` counts machine resets.

*Actions.* One per operation.

| action | code |
|---|---|
| `Tap`, `Press`, `ReleaseAll`, `ReleaseKeys`, `Poke`, `Rejected` | the text verbs, with `parse_key_list`'s conditions |
| `BinmonTap`, `BinmonSet` | `km_core_binmon_tap`, `km_core_binmon_set`: coordinates unvalidated, as in the code |
| `Cia1PaRead`, `Cia1PbRead` | the read hooks and `km_observe` |
| `OnAlarm` | `kmx_alarm_callback`, `km_core_on_alarm`; the callback does not unset the alarm |
| `IdleCycle`, `SetFrameLength`, `MachineReset` | the machine (external) |

`km_release_now` and `km_supersede_active` are parts of these actions. Superseding releases
the old injection and starts the new one in a single monitor command, so the intermediate
state is not visible; the alarm the release cancels is the one `StartTap` sets again and
`Press` leaves cancelled. `GetReason` and `GetFramesLeft` are the fields of `KEYMATRIX_GET`
that a client polls.

*Abstractions.* Names and numbers have become pairs; a pair out of `parse_rc_pair`'s range
stands for any token that does not parse. Initialisation on first use (`kmx_ensure`) is
elided: the static core is all zero before it, which is the state `km_core_init` leaves, and
the hooks' test of `kmx_inited` is subsumed by their test of `active`. Printing is left out.
The CPU makes at most one CIA1 access per cycle. `DispatchSlack` is how many cycles VICE may
be late in dispatching a due alarm (it looks between instructions).

*Bounds.* `MaxClk` bounds the clock and the deadlines of taps; time goes on beyond it while
an alarm is pending. `MaxResets` bounds resets. `CounterWrap` stands for 2^32 and must exceed
`DispatchSlack + 1`: an observed tap is sampled at most that often before it ends.

## KeymatrixScan.tla

`Keymatrix` behind `read_ciapa` and `read_ciapb` as patch 02 hooks them, with the keyboard in
front of them. A key `<<row, col>>` closes line `row` of port A with line `col` of port B.
The program pulls some lines of one port low and reads the other; `ShownOnPa`, `ShownOnPb`
say whether the read shows the bit of a tracked key, and `sensed` remembers it. The hooks
tell the injector the lines that are low, `read_ciapa` those of port B as *rows* and
`read_ciapb` those of port A as *columns*: both are swapped against the key table. For a
program that pulls every line low the swap does not matter, and `ObservedIsSensed` and
`SensedIsObserved` hold (run `keymatrix_scan`); for one that scans line by line a tap is let
go by a read that showed nothing (run `keymatrix_rows`, finding 2).

## Asid.tla

`libs/asid/src/asid_core.c`, `vice/soundasid.c`, the ALSA sequencer and the player.

*State.* `sid_register` and `sid_modified` (the set of marked registers) per chip;
`last_irq`, `start_clock` as in `asid_timing`; `queue`, the messages sent and not delivered,
each with its chip, the wall-clock time it is due at, the registers it carries and, as
history, the place of each value among those emitted (`nth`); `irq_clk`
and `wall`; `recv`, the player's registers. History, per chip: what the control registers
were `written`, what was `emitted` and `received`, whether a message was `lost` to a full
pool, whether one was `overtaken`.

*Actions.* `Dump2` is `asid_dump2`: `WriteAfterIrq` when the IRQ clock moved on by more than
the threshold, else `WriteInFrame`, which covers `asid_core_set_reg`'s ignored, plain and
forced-flush writes. `Open` is `asid_init` (with `_open_port`), `Close` is `_close_port`.
`Deliver`, `Irq` and `WallTick` are external: the sequencer delivers what is due first, in
order of sending among equals, and the two clocks advance independently, so that emulation
slips behind or runs ahead of real time.

*Abstractions.* A message is the function it conveys, not its bytes; both encodings carry
the same registers. Every `regmask` is 2^n - 1, so masking is a remainder. The conversion to
nanoseconds is an integer division where the code divides doubles; both are monotone, which
is all that is used. Start and stop messages, which carry no register, and port enumeration
are left out.

*Resets.* `MachineReset` sets `irq_clk` back while `last_irq` and `start_clock` keep the old
origin (the code's "TODO: handle sound restarts"): the unsigned difference wraps
(`ClockWrap`), so the next write flushes at once and takes the rewound clock as its IRQ,
whose due time has long passed. `rewound` remembers a reset until the device is opened again.

*Bounds.* `MaxWrites`, `MaxTime`, `MaxSessions`; a reset needs no bound, it only sets
`irq_clk` to 0. The system may stop when they are reached,
so deadlock is not checked in these runs.

## AsidWire.tla

The same codec, in bytes: `asid_core_set_reg`, `asid_core_flush` with both forms of a SysEx
message (`UpdateForm` with its two 25-bit masks in septets, `UpdateRegForm` with pairs of
bytes), the register order `regmap` and the choice of the shorter form. A flush may happen at
any time; when it does is `Asid`'s business. `Decode` is an external player for both
forms, which undoes the packing with the register order both ends share; `out` keeps, next to the bytes, the
changes they are to carry and the addition to `bytes_saved`.

This is what allows `Asid` to take a message for the function it conveys: `DecodesToChanges`
says a player decodes exactly the changed registers with their values, `GatesLast` that it
meets control registers after the others.

## Bustrace.tla

`libs/bustrace/src/bustrace_core.c`, `vice/soundbustrace.c` and the trace files.

*State.* The adapter's statics and the fields of `revice_bustrace_t` under their names;
`ctx` is the file the emit callback appends to. `files` holds each file as its reader sees
it: header, records, trailer, and `torn` when a part of a record breaks the stride.
`maincpu_clk`. History: `made`, the accesses since a file was last opened, with their cycles;
`spoiled`, the files with a failed write or left open by a kill.

*Actions.* `ObserveAccess` is `bustrace_observe_access` in its four courses: not traced, the
file cannot be opened (not tried again until the name is set), the first access (lazy open,
`revice_bustrace_begin` and the first record) and a later one. `SetFilename` and `Shutdown`
share `Finish`: `revice_bustrace_end`, `fclose`, back to "not opened yet". External: `Tick`,
`MachineReset` (the clock restarts), `Kill` (the emulator dies with a trace open; stdio had
flushed some records and perhaps a part of the next; it is started again).

*To a reader of the files* it is `TraceFiles`: one trace at a time; a file shows nothing until
its trace ends, then nothing or, at once, every access made; and that until the next trace
begins in it. `TraceFilesSpec` is that specification under the mapping that takes a file that
validates for its records and any other for nothing. A kill or a failed write is an end that
shows nothing.

*Failures.* `bustrace_file_emit` ignores what `fwrite` returns, so each write of a header,
record or trailer is whole, lost or torn, in any combination. A failed `fopen` leaves the old
file as it was.

*Abstractions.* An access but for its cycle is a model value, and the CRC of a run of records
is that run: no two runs collide, as they may with probability 2^-32. The record count is
not wrapped at 2^64.

*Bounds.* `MaxDelta` stands for 2^32 - 1. `MaxClk`, `MaxAccesses`, `MaxFaults`, `MaxResets`
bound the clock, the accesses traced, the failures and the resets.

## Video.tla

`libs/video/src/video_core.c` with `vice/mon_video.c`. *State*: `saved_warp` and
`warp_was_saved`; VICE's warp mode and recorder; the last reply. *Actions*: a request whose
body is `Malformed`, a `Stop`, a start that is refused, works or fails in the recorder; and,
on their own, the user (`UserTogglesWarp`), a recording nobody here asked for, a recording
that ends by itself, and `Frame`, which a recorder skips in warp mode. *History*: what a
start forced and found, whether a second start came on top, whether a frame was missed. A
body is its length and first two bytes; paths, options and the frames themselves are VICE's.
The state is finite, so the run is over all of it but for the bytes. `OwedOnce` is about what
the core keeps, `RequestsRespectWarp` about what a request does with it: an error changes
nothing, a stop puts back the mode its start found.

## Screen.tla

`libs/screen/src/screen_core.c`, `vice/c64screen.c`, `vice/mon_screen.c`. The program
changes mode bits, D018 and the bank; a client asks for the screen (`mon_screen_binmon_get`)
or the user has it drawn (`mon_screen_show`). A byte of a response is the place it was read
from, so that `GlyphsShown` and `CellsShown` compare it with `Fetch`, what the VIC-II fetches,
and `HeaderTruthful` with what the header says. Glyphs and the header's word on them are a
matter of the text modes; what a client gets in a bitmap mode is finding 7. Colour registers
and the layout of the drawing are left out.

## Binmon.tla

Patches 03, 05 and 06, `libs/driveattach` and `libs/checkpoint`: requests pipelined by a
client, served in order by `monitor_binary_process_command`, one action per handler with the
exits the patches show (a handler's exits in VICE's own code, as for the memory space of a
`CHECKPOINT_SET`, are not in this repository and not modelled); `da_decode` and `checkpoint_decode_silent`; attaches that fail, after VICE may
have detached the old image; checkpoints reached while the CPU runs (`HitAll`:
`mon_breakpoint_check_checkpoint` with its silent path). What keymatrix and screen requests do
is in their modules: here a request carries the core's verdict. VICE's other opcodes are not
modelled but for EXIT, which lets a stopped CPU run.

`SlotsAsReplied` compares the drives with what a client works out from its requests and their
answers: after a success a drive holds the image asked for, and is empty instead only if an
attach after the last success failed; a request is carried out, or fails in VICE, exactly if
its body holds the path it announces (`Whole`) and the drive there is. `CoverageTrue` compares
counts, events, removal and stopping of each checkpoint with the times the CPU reached it
(`reached`); since only an EXIT sets the CPU going, a stopping checkpoint is reached at most
once between two of them, silent or not.

## Runs

| run | shows |
|---|---|
| `keymatrix_scan` | Four keys (two in a column, RESTORE, one out of range), chords, repeated keys, lists too short and too long, raw writes, a program that pulls all lines or none: `MatrixAgrees`, `AlarmDiscipline`, `SensedIsObserved`, `ObservedIsSensed`, `TapReleased`, and `KeyInjectionSpec`. Time is two cycles, since bits depend on it only by an alarm. 194 thousand states. |
| `keymatrix_time` | One key, taps of one, two and four cycles, frame length unknown, known and changing, a dispatcher one cycle late, counters that wrap at 3, a reset: `TypeOK`, `IInv`, `ReportHonest`, `TapBounded`, `ReleaseJustified`, `ReasonStable`. 1.6 million states. |
| `keymatrix_rows` | Violated: with a program that scans line by line, a tap is let go unseen. |
| `asid` | One chip, a frequency and a gate register, an address that is no register, a pool of two, two sessions, a pad of three IRQ periods, resets: `TypeOK`, `EdgesKept`, `CleanIsSent`, `PlayerInSync`, `OnlyEdgesOvertake`. 5.8 million states. |
| `asid_edges` | Violated: the flush forced by a gate edge is delivered before the scheduled flush of the frame before it. |
| `asid_wire` | Nine registers of one chip (first and last of a mask byte, a masked one, two controls), one of the other, an address no message carries, both settings of `use_update_reg`: `OneSysEx`, `DecodesToChanges`, `GatesLast`, `CheaperForm`, `TypeOK`. 443 thousand states. |
| `bustrace` | Two interchangeable files and accesses, three accesses, two failures, a reset, a clock beyond the largest delta: `TypeOK`, `HandleCoherent`, `EndedIsValid`, `ValidIsComplete`, `CyclesExact`, and `TraceFilesSpec`. 715 thousand states. |
| `bustrace_cycles` | Violated: the cycles of a valid trace begun late, or across a reset, cannot be rebuilt. |
| `video` | Bodies short of, at and past every length compared, stops, starts and an undocumented action: `OwedOnce`, `ClipComplete`, `RequestsRespectWarp`. All 476 states. |
| `video_owed` | Violated: a second start after a recording ended by itself loses the user's warp mode. |
| `screen` | All modes and banks, every character-set field of D018 with five screen fields, regions sampled at their ends, buffers of and below the size: `TypeOK`, `GlyphsShown`, `CellsShown`, `HeaderTruthful`, `AsciiFaithful`. 74 thousand states. |
| `binmon` | Three requests out of twenty, in any order, two images, three hits: `TypeOK`, `AnsweredInOrder`, `SlotsAsReplied`, `CoverageTrue`. 257 thousand states. |

The bounds are enough for every pair of races listed as a hazard: a tap can be observed in
time, observed while overdue, time out, be superseded by each kind of injection and be
released in part; two IRQ flushes can be queued behind the pad while a third is forced, or
while a reset makes it late; nine changed registers are where the standard form becomes the
shorter one; a trace can be begun, spoiled, ended and begun again in either file; two attaches
of one drive can be followed by one that fails, and a failed attach by one that succeeds; a
stopping checkpoint can be reached, the CPU set going and the checkpoint reached again.

Five more configurations are kept apart from the regular runs. `KeymatrixLive.cfg` checks
`TapReleased` again with one key, a reset and a late dispatcher; `KeymatrixFramesLeft.cfg`,
`KeymatrixSticky.cfg`, `ScreenBitmap.cfg` and `BinmonVideo.cfg` reproduce findings 5 to 8.

    tlc -config BinmonVideo.cfg MCBinmon

Every property of a passing run has a mutant in `PROJECT.json`: a plausible slip in the code
(the alarm not cancelled, the fallback frame length forgotten, keys compared by column only,
the pad applied once) under which TLC refutes it. The mutated operators stand before the
ones they vary, with a comment that says what they leave out.

*Fairness.* `Keymatrix` assumes weak fairness of `CpuCycle` (the emulated CPU runs; the
monitor gives control back) and of `OnAlarm` (VICE dispatches due alarms, and `Advance`
cannot leave one behind by more than `DispatchSlack`); `KeymatrixScan` of the same two,
`CpuRuns` and `AlarmRuns`. Clients owe nothing. The other modules have no liveness property:
nothing in the code promises a flush without a further write, a trailer without a further
command, or an end to a recording.

## Findings

With a run each:

1. An ASID flush forced by a second gate change is sent with no delay while the previous
   frame's flush waits out the pad (20000 cycles). It overtakes it: the player applies the
   older edge last. `OnlyEdgesOvertake` shows that nothing else goes out of order, until a
   machine reset makes every flush late (`asid_edges`).
2. The CIA1 hooks hand the injector port B's lines as rows and port A's as columns. A program
   that pulls one line low at a time is taken to have seen taps it could not see
   (`keymatrix_rows`).
3. The first delta of a bus trace is taken from cycle 0 and saturates when the trace is begun
   by a change of `BusTraceFile` more than 2^32 cycles (72 minutes) into a session; the trace
   validates and every cycle computed from it is wrong. A machine reset within a trace has
   the same effect. `CyclesExact` shows that these are the only ways (`bustrace_cycles`).
4. A start that follows a recording which ended by itself saves the warp mode the first start
   had forced off; the stop restores that. `OwedOnce` shows that this is the only way to lose
   the user's mode (`video_owed`).

Smaller ones, reproduced by the configurations kept apart:

5. `frames_until_timeout` of a sticky press is the deadline of an earlier tap:
   `km_core_press` does not reset `timeout_clk` and `km_core_binmon_get` does not look at the
   mode; src/README.md:144 says 0.
6. The help text of `keymatrix press` promises a press until release; any later tap or press
   supersedes it.
7. src/README.md:181 promises bitmap memory in the last 2048 bytes of SCREEN_GET in a bitmap
   mode; `screen_pack` takes them from the character set's address in every mode.
8. Opcode 0x79, VIDEO_RECORD, is documented and its library done, and no patch dispatches it:
   the request is answered as an unknown one.

## Proofs

The eight `*Proofs` modules prove, for every value of the constants that satisfies the named
assumptions, every safety invariant and action property of the passing runs and both
refinements. The assumptions are the types of the constants, of a register write
(`AsidWireAssumption`) and of the fields of a request (`RequestsAssumption`), plus
`CounterWrap > DispatchSlack + 1` (2^32 against a few cycles) and, for ASID, that a
register's width is positive and the fallback clock rate is not zero.

*Keymatrix.* `IInv` conjoins `TypeOK`, `AlarmDiscipline`, `MatrixAgrees` and `ReportHonest`
with three facts they need: `IdleShape` (no keys, mode idle without an injection, or a stale
key would be cleared twice), `SamplesCounted` (an observed tap counts no sampling read before
the first and at most one a cycle after, which is what the report then says) and
`DeadlineKept` (the clock is within the slack of the alarm and the alarm within the slack of
the deadline, from which `TapBounded` follows with twice the slack). Theorems: `TypeCorrect`,
`AlarmAlwaysDisciplined`, `MatrixAlwaysAgrees`, `ReportsAlwaysHonest`, `TapsAlwaysBounded`
and, as action properties, `ReleasesAlwaysJustified` and `ReasonsAlwaysStable`. The former
needs `DeadlineAhead` beside `IInv`: the deadline of a running tap is a known frame length
or more after its start, since each way to ask for a tap asks for one frame at least and
`km_cpf_or_pal` never answers 0. `KeymatrixImplementsKeyInjection`
is the refinement: under `IInv` every step is a `Start`, `Seen`, `LetGo`, `End` or stutter of
`KeyInjection`; the alarm's step is an `End` because `AlarmDiscipline` says there is a tap to
end.

*KeymatrixScan.* A step of `ScanNext` is a step of `Next` to the injector (`ScanStep`), so
`IInv` survives and with it `ScannedMatrixAgrees`, `ScannedAlarmDisciplined` and the refinement
of `KeyInjection`. `SensedAlwaysObserved` and `ObservedAlwaysSensed`, the two directions
between what the program saw and what GET answers, are proved under the hypothesis
`WholeScans`: the program pulls all lines of a port low or none. The hooks swap rows and
columns (finding 2), and for a program that pulls one line low at a time the second theorem
does not hold, which is what `keymatrix_rows` shows.

*Asid.* `IInv` conjoins `TypeOK`, `EdgesKept`, `CleanIsSent` and `Timeline`: a queued message
due in the future is an IRQ flush due no later than the chip's origin plus the last IRQ plus
the pad. Since the conversion to nanoseconds is monotone and the IRQ clock does not go back,
a new IRQ flush is due no earlier than any of them, slipped or not: `OnlyEdgesEverOvertake`.
A reset voids `Timeline`
until the device is opened again, which is when `start_clock` is set anew; both are stated
for a clock not rewound, the other theorems hold across resets.
`EdgesAlwaysKept` and `CleanAlwaysSent` rest on `FlushSettles`: after a flush the chip owes
nothing. `PlayerAlwaysInSync` needs `Ordered` beside `IInv`: while no message of a chip was
refused and none overtaken, its messages are due in the order sent, and of each register the
queue holds, in order and once, exactly the emitted values not yet received (`nth`, a history
field of a message, is a value's place among those emitted). So the message due first carries
the next value of every register in it, and what is left keeps its order.

*AsidWire.* `IInv` is `TypeOK` and the four properties, which are inductive together as `out`
is built whole by a flush; the work is in the operators. `RegmapAt` gives the table of 25
slots in closed form, from which `RegmapOrders`: every register has one slot and the controls
have the last three. `RankGrows`, `RankReaches` and `NthWithRank` show that the order of the
slots enumerates the changed registers, each once. `SeptetsCarry` shows that the bit a mask
shows for a slot is the bit sent, in all four septets. `UpdateBytes` and `UpdateRegBytes` say
which byte of either form is what, `UpdateIsData` and `UpdateRegIsData` that all between the
frame are below 128. So `UpdateDecodes` and `UpdateRegDecodes`: a player gets the same
registers and values from either form.

*Bustrace.* `IInv` conjoins `TypeOK`, `HandleCoherent` and `EndedIsValid` with `OpenTrace`
(while a trace is open the serializer's count and CRC are those of the accesses made,
whatever became of the writes, and the file has no trailer yet) and `TrailersTrue` (a trailer
tells of the accesses made). A file that validates has a trailer whose CRC is that of its
records, so they are the accesses made: `BustraceValidIsComplete`.
`BustraceImplementsTraceFiles` rests on the same facts: a file without a trailer shows
nothing, and torn writes and kills map to an `End` that shows nothing. `BustraceCyclesExact` adds
`OpenTimed` and `TrailersTimed` (each delta is that between two accesses, saturated) and an
induction over the records: the running sum at a record is that record's cycle. As the library's
induction theorem takes an operator, the induction is stated over a set (`Induction`, from the
well-foundedness of `<`), the set of the lengths up to which the sum is right.

*Video.* `OwedOnce` is inductive by itself; `ClipComplete` rests on `WarpOff` (a client's
recording runs with warp off until the user says otherwise). `RequestsAlwaysRespectWarp`
needs `OwedOnce`: what a stop restores is what the core kept.

*Screen.* The register fields are arbitrary bytes: the theorems are about the arithmetic of
`screen_addr`, `charset_addr` and the ROM's window, with `Fetch` and the header as the
reference, for every D018, bank and offset.

*Binmon.* `Inv` conjoins `TypeOK`, `AnsweredInOrder` and `SlotsAsReplied` with `LastOk`, `Kept` (each
checkpoint is as its request asked, its count is the times it was reached, a temporary one is
gone once it was), `Spoken` (every event is of a checkpoint there is, and there are as many
as it was reached unless it is silent) and `Stopped` (a stopping one was reached at most once
per EXIT served since, and once more only if the CPU stands), of which `CoverageTrue` follows.
`SlotsAsReplied` speaks of the last request about a drive that succeeded, which `LastOk` says
there is if any succeeded: a request served with OK becomes it and ends the excuse of every
failure before it, one that failed comes after it, any other leaves both.

*Model-checked only.* `TapReleased`, which is liveness under fairness and out of the prover's
reach, and the properties of the runs that expect a violation, which are false.

## Not modelled

- Bytes of trace records and of GET responses, and the CRC polynomial: the properties tell
  records apart, not encodings of them.
- The key-name table and tokenizer (which tokens parse is all a state depends on), the text
  monitor's lexer and grammar, printing.
- ALSA: enumeration and choice of ports, the fixed start and stop messages.
- Video frames, paths and recorder options, which are VICE's.
- Colour registers and the layout of a drawn screen.
- Build scripts and the two local repairs of VICE's log output (`07-log-file-close-use-after-free.patch` and patch 09): no
  run-time state of revice's.

## Where it may grow

A bus trace and an ASID device fed by one program, if the two sound hooks ever share state.
