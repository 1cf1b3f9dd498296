-------------------------------- MODULE Binmon --------------------------------
(***************************************************************************)
(* The binary-monitor requests that revice adds to VICE: their dispatch    *)
(* and their errors (integration/vice/patches/03, 05 and 06), the decoders *)
(* of DRIVE_ATTACH (libs/driveattach) and of the silent byte of            *)
(* CHECKPOINT_SET (libs/checkpoint), the drive slots and the checkpoints.  *)
(*                                                                         *)
(* A client sends requests without waiting for the answers; the monitor    *)
(* serves them in order.  Meanwhile the CPU runs into checkpoints, which   *)
(* put events between the replies and may stop it.                         *)
(***************************************************************************)
EXTENDS Integers, Sequences, FiniteSetsExt, Functions

CONSTANTS
    Requests,       \* the requests a client sends
    MaxRequests,    \* bound on the requests sent
    MaxHits         \* bound on the times the CPU reaches a checkpoint

ASSUME BinmonAssumption == MaxRequests \in Nat /\ MaxHits \in Nat

\* A body's length is a count of bytes, and its flags are tested, not kept.
ASSUME RequestsAssumption ==
    \A r \in Requests :
       /\ r.cmd = "DRIVE_ATTACH" => r.length \in Nat /\ r.path_len \in Nat
       /\ r.cmd = "CHECKPOINT_SET" =>
             r.length \in Nat /\ r.stop \in BOOLEAN /\ r.temporary \in BOOLEAN

VARIABLES
    sent,           \* the requests sent; a request's id is its place
    served,         \* how many of them the monitor has served
    frames,         \* what the monitor sent back: replies, and events with id 0
    slots,          \* the image in each drive
    checkpoints,    \* the checkpoints made, by number
    running,        \* the CPU runs
    provider,       \* a C64 build: the screen's provider is registered
    reached         \* history: per checkpoint, how often the CPU reached it

vars == <<sent, served, frames, slots, checkpoints, running, provider, reached>>

Slots == (8..11) \X (0..1)
NoImage == "none"

Init ==
    /\ sent = << >> /\ served = 0 /\ frames = << >>
    /\ slots = [s \in Slots |-> NoImage]
    /\ checkpoints = << >> /\ reached = << >>
    /\ running \in BOOLEAN      \* connecting stops the CPU; an EXIT may have followed
    /\ provider \in BOOLEAN

Send(r) ==
    /\ Len(sent) < MaxRequests
    /\ sent' = Append(sent, r)
    /\ UNCHANGED <<served, frames, slots, checkpoints, running, provider, reached>>

\* Mutant: an error reply that does not end the handler, which then reports success.
ReplyAndGoOn(error) ==
    frames' = frames \o (IF error = "OK" THEN << >> ELSE <<[id |-> served + 1, error |-> error]>>)
                     \o <<[id |-> served + 1, error |-> "OK"]>>

Reply(error) == frames' = Append(frames, [id |-> served + 1, error |-> error])

----------------------------------------------------------------------------
(* KEYMATRIX_SET, _TAP, _GET and SCREEN_GET, whose effects are Keymatrix's *)
(* and Screen's: r.rejected is the core's verdict on the body.             *)

KeymatrixWrite(r) ==
    /\ r.cmd \in {"KEYMATRIX_SET", "KEYMATRIX_TAP"}
    /\ Reply(IF r.rejected THEN "CMD_INVALID_LENGTH" ELSE "OK")
    /\ UNCHANGED <<slots, checkpoints, running, reached>>

KeymatrixGet(r) ==
    /\ r.cmd = "KEYMATRIX_GET"
    /\ Reply("OK")
    /\ UNCHANGED <<slots, checkpoints, running, reached>>

ScreenGet(r) ==
    /\ r.cmd = "SCREEN_GET"
    /\ Reply(IF provider THEN "OK" ELSE "CMD_FAILURE")
    /\ UNCHANGED <<slots, checkpoints, running, reached>>

\* No arm of the dispatch is for it: VICE's answer to an opcode it does not know.
VideoRecord(r) ==
    /\ r.cmd = "VIDEO_RECORD"
    /\ Reply("CMD_INVALID_TYPE")
    /\ UNCHANGED <<slots, checkpoints, running, reached>>

----------------------------------------------------------------------------
(* DRIVE_ATTACH.                                                           *)

Slot(r) == <<r.unit, r.drive>>

\* Mutant: only the fixed bytes are looked for, not the path they announce.
da_decode_FixedBytes(r) ==
    IF r.length < 3 THEN "DA_ERR_LENGTH"
    ELSE IF Slot(r) \notin Slots THEN "DA_ERR_PARAM" ELSE "DA_OK"

\* A body shorter than its three fixed bytes and its path comes before a bad drive.
da_decode(r) ==
    IF r.length < 3 + r.path_len THEN "DA_ERR_LENGTH"
    ELSE IF Slot(r) \notin Slots THEN "DA_ERR_PARAM" ELSE "DA_OK"

AttachRejected(r) ==
    /\ da_decode(r) # "DA_OK"
    /\ Reply(IF da_decode(r) = "DA_ERR_LENGTH" THEN "CMD_INVALID_LENGTH" ELSE "INVALID_PARAMETER")
    /\ UNCHANGED slots

Detach(r) ==
    /\ da_decode(r) = "DA_OK" /\ r.path_len = 0
    /\ slots' = [slots EXCEPT ![Slot(r)] = NoImage]
    /\ Reply("OK")

Attach(r) ==
    /\ da_decode(r) = "DA_OK" /\ r.path_len > 0
    /\ slots' = [slots EXCEPT ![Slot(r)] = r.path]
    /\ Reply("OK")

\* VICE may have detached the old image by then.
AttachFails(r) ==
    /\ da_decode(r) = "DA_OK" /\ r.path_len > 0
    /\ slots' \in {slots, [slots EXCEPT ![Slot(r)] = NoImage]}
    /\ Reply("CMD_FAILURE")

DriveAttach(r) ==
    /\ r.cmd = "DRIVE_ATTACH"
    /\ AttachRejected(r) \/ Detach(r) \/ Attach(r) \/ AttachFails(r)
    /\ UNCHANGED <<checkpoints, running, reached>>

----------------------------------------------------------------------------
(* CHECKPOINT_SET, and the CPU that reaches checkpoints.                   *)

\* Mutants: off by one; the raw byte.
checkpoint_decode_silent_Short(r) == IF r.length >= 9 /\ r.silent # 0 THEN 1 ELSE 0
checkpoint_decode_silent_Raw(r) == IF r.length >= 10 THEN r.silent ELSE 0

checkpoint_decode_silent(r) == IF r.length >= 10 /\ r.silent # 0 THEN 1 ELSE 0

CheckpointSet(r) ==
    /\ r.cmd = "CHECKPOINT_SET"
    /\ IF r.length < 8
       THEN /\ Reply("CMD_INVALID_LENGTH")
            /\ UNCHANGED <<checkpoints, reached>>
       ELSE /\ Reply("OK")
            /\ checkpoints' = Append(checkpoints,
                   [request |-> served + 1, silent |-> checkpoint_decode_silent(r),
                    stop |-> r.stop, temporary |-> r.temporary, hit_count |-> 0, live |-> TRUE])
            /\ reached' = Append(reached, 0)
    /\ UNCHANGED <<slots, running>>

Count(c) == [checkpoints[c] EXCEPT !.hit_count = @ + 1, !.live = ~ checkpoints[c].temporary]
Event(c) == [id |-> 0, checknum |-> c]

\* The events of the checkpoints S, in the order of their numbers.
Report(S) ==
    \E order \in [1..Cardinality(S) -> S] :
       /\ \A i, j \in DOMAIN order : i < j => order[i] < order[j]
       /\ frames' = frames \o [i \in DOMAIN order |-> Event(order[i])]

\* Mutant: a silent checkpoint counts, but does not stop.
HitOnlyCounts(S) ==
    LET loud == {c \in S : checkpoints[c].silent = 0} IN
    /\ checkpoints' = [c \in DOMAIN checkpoints |-> IF c \in S THEN Count(c) ELSE checkpoints[c]]
    /\ Report(loud)
    /\ running' = ~ \E c \in loud : checkpoints[c].stop

\* mon_breakpoint_check_checkpoint for the checkpoints of an address: a silent one
\* counts, stops and goes, but says nothing.
HitAll(S) ==
    /\ checkpoints' = [c \in DOMAIN checkpoints |-> IF c \in S THEN Count(c) ELSE checkpoints[c]]
    /\ Report({c \in S : checkpoints[c].silent = 0})
    /\ running' = ~ \E c \in S : checkpoints[c].stop

\* The CPU reaches an address that the checkpoints S cover.
Reach(S) ==
    /\ running /\ SumFunction(reached) + Cardinality(S) <= MaxHits
    /\ HitAll(S)
    /\ reached' = [c \in DOMAIN reached |-> IF c \in S THEN reached[c] + 1 ELSE reached[c]]
    /\ UNCHANGED <<sent, served, slots, provider>>

\* EXIT, VICE's own: the stopped CPU goes on.
Exit(r) ==
    /\ r.cmd = "EXIT"
    /\ running' = TRUE
    /\ Reply("OK")
    /\ UNCHANGED <<slots, checkpoints, reached>>

----------------------------------------------------------------------------
monitor_binary_process_command ==
    /\ served < Len(sent) /\ served' = served + 1
    /\ LET r == sent[served + 1] IN
       \/ KeymatrixWrite(r) \/ KeymatrixGet(r) \/ ScreenGet(r) \/ VideoRecord(r)
       \/ DriveAttach(r) \/ CheckpointSet(r) \/ Exit(r)
    /\ UNCHANGED <<sent, provider>>

Live == {c \in DOMAIN checkpoints : checkpoints[c].live}

Next ==
    \/ \E r \in Requests : Send(r)
    \/ monitor_binary_process_command
    \/ \E S \in (SUBSET Live) \ {{}} : Reach(S)

Spec == Init /\ [][Next]_vars

----------------------------------------------------------------------------
(* Properties.                                                             *)

\* Every request served is answered once, in the order sent, whatever its error and
\* however many events come in between: a client can pair replies by counting.
AnsweredInOrder ==
    /\ \A k \in DOMAIN frames : frames[k].id \in 0..served
    /\ \A i \in 1..served : \E k \in DOMAIN frames : frames[k].id = i
    /\ \A k, l \in DOMAIN frames :
          k < l /\ frames[k].id # 0 /\ frames[l].id # 0 => frames[k].id < frames[l].id

\* The error of each request served.
Answer(i) == frames[CHOOSE k \in DOMAIN frames : frames[k].id = i].error

\* The requests about drive s that were not turned down.
About(s) ==
    {i \in 1..served : sent[i].cmd = "DRIVE_ATTACH" /\ Slot(sent[i]) = s
                       /\ Answer(i) \in {"OK", "CMD_FAILURE"}}

\* Those of them that succeeded, of which the last one counts.
Oks(s) == {i \in About(s) : Answer(i) = "OK"}

\* What a client believes of a drive from the last reply that was not an error.
Believed(s) ==
    LET r == sent[Max(Oks(s))]
    IN IF Oks(s) = {} \/ r.path_len = 0 THEN NoImage ELSE r.path

\* A drive emptied by a request that failed after the last success.
EmptiedSince(s) ==
    /\ slots[s] = NoImage
    /\ \E i \in About(s) : Answer(i) = "CMD_FAILURE" /\ \A j \in Oks(s) : j < i

\* The body holds its fixed bytes and the path they announce.
Whole(r) == r.length >= 3 + r.path_len

\* DRIVE_ATTACH is carried out, or fails in VICE, exactly when its body is whole and
\* names a drive there is.  The drives are as the replies say: a success leaves exactly
\* the image asked for, and a drive is empty instead only when a later attach to that
\* same drive failed.  Requests for another drive or turned down do not matter.
SlotsAsReplied ==
    /\ \A i \in 1..served : sent[i].cmd = "DRIVE_ATTACH" =>
          (Answer(i) \in {"OK", "CMD_FAILURE"} <=> Whole(sent[i]) /\ Slot(sent[i]) \in Slots)
    /\ \A s \in Slots : slots[s] = Believed(s) \/ EmptiedSince(s)

EventsOf(c) == Cardinality({k \in DOMAIN frames : frames[k] = Event(c)})

\* The EXITs served since request i.
ExitsSince(i) == {j \in 1..served : j > i /\ sent[j].cmd = "EXIT"}

\* README.md, silent-checkpoint: a polled hit count is the truth for silent and loud
\* checkpoints alike; a loud one sends an event per hit, one made by a body with a
\* non-zero byte 9 none; a temporary one is reached once, silent or not; and a stopping
\* one, silent or not, stops the CPU each time, which only an EXIT sets going again.
CoverageTrue ==
    \A c \in DOMAIN checkpoints :
        LET cp == checkpoints[c]
            r == sent[cp.request]
            silenced == r.length > 9 /\ r.silent # 0
        IN /\ cp.hit_count = reached[c]
           /\ EventsOf(c) = IF silenced THEN 0 ELSE reached[c]
           /\ r.temporary => reached[c] <= 1
           /\ r.stop => reached[c] <= Cardinality(ExitsSince(cp.request)) + (IF running THEN 0 ELSE 1)

\* README.md: opcode 0x79 is VIDEO_RECORD; a start or stop is carried out or fails as
\* documented.
VideoAnswered ==
    \A i \in 1..served : sent[i].cmd = "VIDEO_RECORD" =>
        Answer(i) \in {"OK", "CMD_INVALID_LENGTH", "CMD_FAILURE"}

\* The shape of the state.
Errors == {"OK", "CMD_INVALID_LENGTH", "CMD_INVALID_TYPE", "INVALID_PARAMETER", "CMD_FAILURE"}

Frame == [id : Nat \ {0}, error : Errors] \cup [id : {0}, checknum : Nat]

Checkpoint == [request : Nat, silent : {0, 1}, stop : BOOLEAN, temporary : BOOLEAN,
               hit_count : Nat, live : BOOLEAN]

TypeOK ==
    /\ sent \in Seq(Requests) /\ served \in 0..Len(sent)
    /\ frames \in Seq(Frame)
    /\ DOMAIN slots = Slots
    /\ checkpoints \in Seq(Checkpoint)
    /\ \A c \in DOMAIN checkpoints : checkpoints[c].request \in 1..served
    /\ reached \in Seq(Nat) /\ Len(reached) = Len(checkpoints)
    /\ running \in BOOLEAN /\ provider \in BOOLEAN
=============================================================================
