------------------------------ MODULE Bustrace -------------------------------
(***************************************************************************)
(* The CPU bus trace: the serializer libs/bustrace/src/bustrace_core.c,    *)
(* its file adapter libs/bustrace/vice/soundbustrace.c and the files.      *)
(*                                                                         *)
(* The CPU reports every memory access; the first one after a file name is *)
(* set opens the file.  The BusTraceFile resource may change at any time;  *)
(* files fail to open, writes are lost or torn (their errors are ignored), *)
(* the machine resets its clock and the emulator is killed.                *)
(*                                                                         *)
(* A file is what its reader makes of it: a header, the records, a trailer *)
(* and whether a part is torn, which breaks the stride.  The CRC of a run  *)
(* of records is that run: no two runs are taken to collide.               *)
(***************************************************************************)
EXTENDS Integers, Sequences

CONSTANTS
    Names,          \* file names
    Accesses,       \* an access but for its cycle: address, byte, flags, pc
    MaxDelta,       \* 2^32 - 1
    MaxClk,         \* bound on the clock
    MaxAccesses,    \* bound on the accesses traced
    MaxFaults,      \* bound on failed opens, failed writes and kills
    MaxResets       \* bound on machine resets

NoName == ""        \* no file name, and no open file

ASSUME BustraceAssumption ==
    /\ NoName \notin Names
    /\ MaxDelta \in Nat /\ MaxClk \in Nat /\ MaxAccesses \in Nat
    /\ MaxFaults \in Nat /\ MaxResets \in Nat

VARIABLES
    \* soundbustrace.c
    bustrace_filename, bustrace_fd, bustrace_open,
    \* revice_bustrace_t; ctx is the file the emit callback appends to
    started, ctx, last_cycle, rec_count, crc,
    \* the world
    files, maincpu_clk,
    \* history
    made,           \* per file: the accesses made since it was opened
    spoiled,        \* files with a failed write, or left open by a kill
    accesses, faults, resets

adapter == <<bustrace_filename, bustrace_fd, bustrace_open>>
core == <<started, ctx, last_cycle, rec_count, crc>>
bounds == <<accesses, faults, resets>>
vars == <<adapter, core, files, maincpu_clk, made, spoiled, bounds>>

----------------------------------------------------------------------------
(* Files.                                                                  *)

NoTrailer == [count |-> -1, crc |-> << >>]
EmptyFile == [header |-> FALSE, recs |-> << >>, trailer |-> NoTrailer, torn |-> FALSE]

\* bustrace_file_emit ignores what fwrite returns: a write is whole, lost or torn.
Outcomes == {"ok", "lost", "torn"}
Faults(o) == IF o = "ok" THEN 0 ELSE 1

Header(o) ==
    [header |-> o = "ok", recs |-> << >>, trailer |-> NoTrailer, torn |-> o = "torn"]

AddRecord(f, r, o) ==
    [header |-> f.header, recs |-> IF o = "ok" THEN Append(f.recs, r) ELSE f.recs,
     trailer |-> f.trailer, torn |-> f.torn \/ o = "torn"]

AddTrailer(f, t, o) ==
    [header |-> f.header, recs |-> f.recs,
     trailer |-> IF o = "ok" THEN t ELSE f.trailer, torn |-> f.torn \/ o = "torn"]

\* What a killed emulator leaves of f: stdio flushed the first k records, and a part of
\* the next if t.
Cut(f, k, t) ==
    [header |-> f.header /\ k > 0, recs |-> SubSeq(f.recs, 1, k),
     trailer |-> f.trailer, torn |-> f.torn \/ t]

----------------------------------------------------------------------------
(* The serializer.                                                         *)

\* Delta, without the saturation.
DeltaUnsaturated(last) == IF maincpu_clk >= last THEN maincpu_clk - last ELSE 0

\* Cycles since the previous record, 0 if the clock went back, saturated to 32 bits.
Delta(last) ==
    IF maincpu_clk < last THEN 0
    ELSE IF maincpu_clk - last > MaxDelta THEN MaxDelta
    ELSE maincpu_clk - last

\* Baseline, left from the trace before.
BaselineKept == last_cycle

\* The cycle the first record's delta is taken from (revice_bustrace_begin).
Baseline == 0

Record(last, a) == [delta |-> Delta(last), access |-> a]

\* The trailer revice_bustrace_end writes.
Trailer == [count |-> rec_count, crc |-> crc]

----------------------------------------------------------------------------
(* bustrace_observe_access: the CPU makes access a.                        *)

\* No file name is set, or its file could not be opened.
UntracedAccess ==
    /\ bustrace_filename = NoName \/ bustrace_open = -1
    /\ UNCHANGED <<adapter, core, files, made, spoiled, bounds>>

OpenFails ==
    /\ bustrace_filename # NoName /\ bustrace_open = 0
    /\ faults < MaxFaults /\ faults' = faults + 1
    /\ bustrace_open' = -1
    /\ UNCHANGED <<bustrace_filename, bustrace_fd, core, files, made, spoiled, accesses, resets>>

\* FirstAccess, opening the file without tracing the access that made it.
FirstAccessOnlyOpens(a, oh, or) ==
    /\ bustrace_filename # NoName /\ bustrace_open = 0
    /\ accesses < MaxAccesses /\ accesses' = accesses + 1
    /\ faults + Faults(oh) <= MaxFaults /\ faults' = faults + Faults(oh)
    /\ bustrace_open' = 1
    /\ bustrace_fd' = bustrace_filename
    /\ ctx' = bustrace_filename
    /\ started' = TRUE
    /\ last_cycle' = 0 /\ rec_count' = 0 /\ crc' = << >>
    /\ files' = [files EXCEPT ![bustrace_filename] = Header(oh)]
    /\ made' = [made EXCEPT ![bustrace_filename] = <<[cycle |-> maincpu_clk, access |-> a]>>]
    /\ spoiled' = IF oh = "ok" THEN spoiled \ {bustrace_filename}
                  ELSE spoiled \cup {bustrace_filename}
    /\ UNCHANGED <<bustrace_filename, resets>>

\* The file is created or emptied, and the header and the first record written.
FirstAccess(a, oh, or) ==
    /\ bustrace_filename # NoName /\ bustrace_open = 0
    /\ accesses < MaxAccesses /\ accesses' = accesses + 1
    /\ faults + Faults(oh) + Faults(or) <= MaxFaults
    /\ faults' = faults + Faults(oh) + Faults(or)
    /\ bustrace_open' = 1
    /\ bustrace_fd' = bustrace_filename
    /\ ctx' = bustrace_filename
    /\ started' = TRUE
    /\ last_cycle' = maincpu_clk
    /\ rec_count' = 1
    /\ crc' = <<Record(Baseline, a)>>
    /\ files' = [files EXCEPT ![bustrace_filename] =
                    AddRecord(Header(oh), Record(Baseline, a), or)]
    /\ made' = [made EXCEPT ![bustrace_filename] = <<[cycle |-> maincpu_clk, access |-> a]>>]
    /\ spoiled' = IF oh = "ok" /\ or = "ok" THEN spoiled \ {bustrace_filename}
                  ELSE spoiled \cup {bustrace_filename}
    /\ UNCHANGED <<bustrace_filename, resets>>

\* revice_bustrace_access does nothing unless started.
LaterAccess(a, o) ==
    /\ bustrace_filename # NoName /\ bustrace_open = 1 /\ started
    /\ accesses < MaxAccesses /\ accesses' = accesses + 1
    /\ faults + Faults(o) <= MaxFaults /\ faults' = faults + Faults(o)
    /\ last_cycle' = maincpu_clk
    /\ rec_count' = rec_count + 1
    /\ crc' = Append(crc, Record(last_cycle, a))
    /\ files' = [files EXCEPT ![ctx] = AddRecord(@, Record(last_cycle, a), o)]
    /\ made' = [made EXCEPT ![bustrace_filename] =
                    Append(@, [cycle |-> maincpu_clk, access |-> a])]
    /\ spoiled' = IF o = "ok" THEN spoiled ELSE spoiled \cup {bustrace_filename}
    /\ UNCHANGED <<adapter, started, ctx, resets>>

ObserveAccess ==
    /\ \/ UntracedAccess
       \/ OpenFails
       \/ \E a \in Accesses, oh, or \in Outcomes : FirstAccess(a, oh, or)
       \/ \E a \in Accesses, o \in Outcomes : LaterAccess(a, o)
    /\ UNCHANGED maincpu_clk

----------------------------------------------------------------------------
(* The end of a trace.                                                     *)

\* Finish, closing the file without the trailer.
FinishBare(o) ==
    /\ o = "ok" /\ UNCHANGED <<core, files, spoiled, faults>>
    /\ bustrace_fd' = NoName
    /\ bustrace_open' = 0

\* Finish, leaving bustrace_open as it is.
FinishStaysOpen(o) ==
    /\ IF bustrace_open = 1 /\ started
       THEN /\ faults + Faults(o) <= MaxFaults /\ faults' = faults + Faults(o)
            /\ started' = FALSE
            /\ files' = [files EXCEPT ![ctx] = AddTrailer(@, Trailer, o)]
            /\ spoiled' = IF o = "ok" THEN spoiled ELSE spoiled \cup {ctx}
            /\ UNCHANGED <<ctx, last_cycle, rec_count, crc>>
       ELSE o = "ok" /\ UNCHANGED <<core, files, spoiled, faults>>
    /\ bustrace_fd' = NoName
    /\ UNCHANGED bustrace_open

\* What set_bustrace_filename and bustrace_shutdown share: revice_bustrace_end on an
\* open trace, fclose, and back to "not opened yet".
Finish(o) ==
    /\ IF bustrace_open = 1 /\ started
       THEN /\ faults + Faults(o) <= MaxFaults /\ faults' = faults + Faults(o)
            /\ started' = FALSE
            /\ files' = [files EXCEPT ![ctx] = AddTrailer(@, Trailer, o)]
            /\ spoiled' = IF o = "ok" THEN spoiled ELSE spoiled \cup {ctx}
            /\ UNCHANGED <<ctx, last_cycle, rec_count, crc>>
       ELSE o = "ok" /\ UNCHANGED <<core, files, spoiled, faults>>
    /\ bustrace_fd' = NoName
    /\ bustrace_open' = 0

\* The BusTraceFile resource is set, to the same name too.
SetFilename(n, o) ==
    /\ Finish(o)
    /\ bustrace_filename' = n
    /\ UNCHANGED <<maincpu_clk, made, accesses, resets>>

Shutdown(o) ==
    /\ Finish(o)
    /\ bustrace_filename' = NoName
    /\ UNCHANGED <<maincpu_clk, made, accesses, resets>>

----------------------------------------------------------------------------
(* The world.                                                              *)

Tick ==
    /\ maincpu_clk < MaxClk
    /\ maincpu_clk' = maincpu_clk + 1
    /\ UNCHANGED <<adapter, core, files, made, spoiled, bounds>>

MachineReset ==
    /\ resets < MaxResets /\ resets' = resets + 1
    /\ maincpu_clk' = 0
    /\ UNCHANGED <<adapter, core, files, made, spoiled, accesses, faults>>

\* The emulator is killed while a trace is open, and started again.
Kill(k, t) ==
    /\ bustrace_fd # NoName
    /\ faults < MaxFaults /\ faults' = faults + 1
    /\ k <= Len(files[bustrace_fd].recs)
    /\ files' = [files EXCEPT ![bustrace_fd] = Cut(@, k, t)]
    /\ spoiled' = spoiled \cup {bustrace_fd}
    /\ bustrace_filename' = NoName /\ bustrace_fd' = NoName /\ bustrace_open' = 0
    /\ started' = FALSE /\ ctx' = NoName
    /\ last_cycle' = 0 /\ rec_count' = 0 /\ crc' = << >>
    /\ maincpu_clk' = 0
    /\ UNCHANGED <<made, accesses, resets>>

----------------------------------------------------------------------------
Init ==
    /\ bustrace_filename = NoName /\ bustrace_fd = NoName /\ bustrace_open = 0
    /\ started = FALSE /\ ctx = NoName
    /\ last_cycle = 0 /\ rec_count = 0 /\ crc = << >>
    /\ files = [n \in Names |-> EmptyFile]
    /\ maincpu_clk = 0
    /\ made = [n \in Names |-> << >>]
    /\ spoiled = {}
    /\ accesses = 0 /\ faults = 0 /\ resets = 0

Next ==
    \/ ObserveAccess
    \/ \E n \in Names \cup {NoName}, o \in Outcomes : SetFilename(n, o)
    \/ \E o \in Outcomes : Shutdown(o)
    \/ Tick \/ MachineReset
    \/ \E k \in 0..MaxAccesses, t \in BOOLEAN : Kill(k, t)

Spec == Init /\ [][Next]_vars

----------------------------------------------------------------------------
(* Properties.                                                             *)

Records == [delta : 0..MaxDelta, access : Accesses]

IsTrailer(t) == t = NoTrailer \/ (t.count \in Nat /\ t.crc \in Seq(Records))
IsFile(f) ==
    /\ f.header \in BOOLEAN /\ f.torn \in BOOLEAN
    /\ f.recs \in Seq(Records) /\ IsTrailer(f.trailer)

\* The shape of the adapter's, the serializer's and the files' state; a delta fits its
\* 32 bits.
TypeOK ==
    /\ bustrace_filename \in Names \cup {NoName}
    /\ bustrace_fd \in Names \cup {NoName}
    /\ bustrace_open \in {-1, 0, 1}
    /\ started \in BOOLEAN /\ ctx \in Names \cup {NoName}
    /\ last_cycle \in Nat /\ rec_count \in Nat /\ crc \in Seq(Records)
    /\ DOMAIN files = Names /\ \A n \in Names : IsFile(files[n])
    /\ maincpu_clk \in Nat
    /\ made \in [Names -> Seq([cycle : Nat, access : Accesses])]
    /\ spoiled \subseteq Names

\* The serializer runs exactly while the adapter holds a file, writes to that file, and
\* it is the one configured: no write goes to a closed handle, no file stays open
\* behind a change of name, and none is lost by a second open.
HandleCoherent ==
    /\ started <=> bustrace_open = 1
    /\ bustrace_open = 1 <=> bustrace_fd # NoName
    /\ started => ctx = bustrace_fd /\ bustrace_fd = bustrace_filename

\* revice_bustrace.h: "a reader ... validates with rec_count + crc32".
Validates(f) ==
    /\ f.header /\ ~f.torn
    /\ f.trailer.count = Len(f.recs) /\ f.trailer.crc = f.recs

\* A trace that was ended, by a change of name or by the shutdown, validates unless a
\* write failed.
EndedIsValid ==
    \A n \in Names : made[n] # << >> /\ n # bustrace_fd /\ n \notin spoiled =>
        Validates(files[n])

\* What validates is complete: whatever writes failed and whenever the emulator was
\* killed, a file that validates holds every access made since it was opened, in order.
Complete(recs, m) == Len(recs) = Len(m) /\ \A i \in DOMAIN m : recs[i].access = m[i].access
ValidIsComplete ==
    \A n \in Names : Validates(files[n]) => Complete(files[n].recs, made[n])

\* The cycle a reader computes for each record: the running sum of the deltas.
Cycle(recs) ==
    LET sum[i \in 0..Len(recs)] == IF i = 0 THEN 0 ELSE sum[i - 1] + recs[i].delta
    IN sum

\* The clock never went back, and no gap exceeds a delta.
Steady(m) ==
    \A i \in DOMAIN m :
        LET before == IF i = 1 THEN 0 ELSE m[i - 1].cycle
        IN m[i].cycle >= before /\ m[i].cycle - before <= MaxDelta

\* A valid trace of a steady clock gives back the cycle of every access.
CyclesExact ==
    \A n \in Names : Validates(files[n]) /\ Steady(made[n]) =>
        \A i \in DOMAIN made[n] : Cycle(files[n].recs)[i] = made[n][i].cycle

\* revice_bustrace.h: "the absolute cycle is reconstructable by a running sum".
CyclesReconstructable ==
    \A n \in Names : Validates(files[n]) =>
        \A i \in DOMAIN made[n] : Cycle(files[n].recs)[i] = made[n][i].cycle

\* While a trace is open, the serializer's count and CRC are those of the accesses made,
\* and the file, unless spoiled, holds them.
OpenTrace ==
    bustrace_open = 1 =>
        LET f == files[bustrace_fd] IN
        /\ f.trailer = NoTrailer
        /\ rec_count = Len(crc) /\ Complete(crc, made[bustrace_fd])
        /\ bustrace_fd \notin spoiled => f.header /\ ~f.torn /\ f.recs = crc

\* A trailer tells of the accesses made.
TrailersTrue ==
    \A n \in Names : LET t == files[n].trailer IN
        t # NoTrailer => t.count = Len(t.crc) /\ Complete(t.crc, made[n])

\* The inductive invariant behind HandleCoherent, EndedIsValid and ValidIsComplete.
IInv == TypeOK /\ HandleCoherent /\ OpenTrace /\ TrailersTrue /\ EndedIsValid

----------------------------------------------------------------------------
(* What a reader sees.                                                     *)

AccessesOf(s) == [i \in 1..Len(s) |-> s[i].access]

View(f) == IF Validates(f) THEN {AccessesOf(f.recs)} ELSE {}

Promise == INSTANCE TraceFiles WITH
    current <- bustrace_fd,
    log <- [n \in Names |-> AccessesOf(made[n])],
    view <- [n \in Names |-> View(files[n])]

\* To a reader who validates a file as revice_bustrace.h says, the serializer, its
\* ignored write errors, changes of name and kills are TraceFiles: a trace appears
\* whole, when it ends, or never, and stays until a new one begins in that file.
TraceFilesSpec == Promise!Spec
=============================================================================
