-------------------------------- MODULE Video --------------------------------
(***************************************************************************)
(* Video recording over the binary monitor: the core                       *)
(* libs/video/src/video_core.c with its VICE adapter                       *)
(* libs/video/vice/mon_video.c.                                            *)
(*                                                                         *)
(* A VIDEO_RECORD request stops the recording or starts one.  The recorder *)
(* skips every frame drawn in warp mode, so a start saves the warp mode    *)
(* and forces it off, and a stop puts it back.  Warp mode and the recorder *)
(* are VICE's: the user toggles warp, and the recorder also starts and     *)
(* ends without the opcode being used.                                     *)
(***************************************************************************)
EXTENDS Integers

CONSTANTS
    MaxLength,      \* bound on the length of a request body
    Actions,        \* values of its first byte
    PathLens        \* values of its second byte

VIDEO_ACTION_STOP == 0

ASSUME VideoAssumption ==
    /\ MaxLength \in Nat
    /\ Actions \subseteq 0..255 /\ PathLens \subseteq 0..255

VARIABLES
    saved_warp, warp_was_saved,     \* video_core_t
    warp,                           \* vsync's warp mode
    recorder,                       \* whose recording runs: a client's, another's
    reply,                          \* the result of the last request
    \* history
    forced,     \* a client's start turned warp off, no stop was received since
    prior,      \* the warp mode it found
    nested,     \* a start got past the guard while warp was forced off
    toggled,    \* the user switched warp during the client's recording
    missed      \* a frame of the client's recording was skipped

core == <<saved_warp, warp_was_saved>>
history == <<forced, prior, nested, toggled, missed>>
vars == <<core, warp, recorder, reply, history>>

Results == {"none", "VIDEO_OK", "VIDEO_ERR_LENGTH", "VIDEO_ERR_FAILURE"}
Recorders == {"none", "client", "other"}

Init ==
    /\ saved_warp = FALSE /\ warp_was_saved = FALSE
    /\ warp \in BOOLEAN
    /\ recorder = "none"
    /\ reply = "none"
    /\ forced = FALSE /\ prior = FALSE /\ nested = FALSE
    /\ toggled = FALSE /\ missed = FALSE

----------------------------------------------------------------------------
(* The requests.  A body is its length and its first two bytes; a byte     *)
(* past the length is not looked at.                                       *)

Bodies == [length : -1..MaxLength, action : Actions, path_len : PathLens]

IsStop(b) == b.length >= 1 /\ b.action = VIDEO_ACTION_STOP

\* Every other action is a start, and a start carries a path.
IsStart(b) ==
    /\ b.length >= 2 /\ b.action # VIDEO_ACTION_STOP
    /\ b.path_len # 0 /\ 2 + b.path_len <= b.length

Malformed(b) ==
    /\ ~ IsStop(b) /\ ~ IsStart(b)
    /\ reply' = "VIDEO_ERR_LENGTH"
    /\ UNCHANGED <<core, warp, recorder, history>>

\* Mutants: a stop that keeps the debt for the next one; a start that
\* leaves warp on; a failed start that leaves warp off, or that forwards the
\* recorder's result.
Stop_DebtKept(b) ==
    /\ IsStop(b)
    /\ recorder' = "none"
    /\ warp' = IF warp_was_saved THEN saved_warp ELSE warp
    /\ reply' = "VIDEO_OK"
    /\ forced' = FALSE /\ nested' = FALSE
    /\ UNCHANGED <<core, prior, toggled, missed>>

Stop(b) ==
    /\ IsStop(b)
    /\ recorder' = "none"
    /\ warp' = IF warp_was_saved THEN saved_warp ELSE warp
    /\ warp_was_saved' = FALSE
    /\ reply' = "VIDEO_OK"
    /\ forced' = FALSE /\ nested' = FALSE
    /\ UNCHANGED <<saved_warp, prior, toggled, missed>>

\* Already recording: refused, whoever started it.
StartRefused(b) ==
    /\ IsStart(b) /\ recorder # "none"
    /\ reply' = "VIDEO_ERR_FAILURE"
    /\ UNCHANGED <<core, warp, recorder, history>>

StartWorks_WarpLeftOn(b) ==
    /\ IsStart(b) /\ recorder = "none"
    /\ saved_warp' = warp /\ warp_was_saved' = TRUE
    /\ recorder' = "client"
    /\ reply' = "VIDEO_OK"
    /\ forced' = TRUE
    /\ prior' = IF forced THEN prior ELSE warp
    /\ nested' = (nested \/ forced)
    /\ toggled' = FALSE /\ missed' = FALSE
    /\ UNCHANGED warp

StartWorks(b) ==
    /\ IsStart(b) /\ recorder = "none"
    /\ saved_warp' = warp /\ warp_was_saved' = TRUE
    /\ warp' = FALSE
    /\ recorder' = "client"
    /\ reply' = "VIDEO_OK"
    /\ forced' = TRUE
    /\ prior' = IF forced THEN prior ELSE warp
    /\ nested' = (nested \/ forced)
    /\ toggled' = FALSE /\ missed' = FALSE

StartFails_WarpLeftOff(b) ==
    /\ IsStart(b) /\ recorder = "none"
    /\ saved_warp' = warp /\ warp_was_saved' = FALSE
    /\ warp' = FALSE
    /\ reply' = "VIDEO_ERR_FAILURE"
    /\ nested' = (nested \/ forced)
    /\ UNCHANGED <<recorder, forced, prior, toggled, missed>>

StartFails_RawResult(b) ==
    /\ IsStart(b) /\ recorder = "none"
    /\ saved_warp' = warp /\ warp_was_saved' = FALSE
    /\ warp' = saved_warp'
    /\ reply' = "-1"
    /\ nested' = (nested \/ forced)
    /\ UNCHANGED <<recorder, forced, prior, toggled, missed>>

\* The recorder refuses the path: warp goes off and back on, the debt is dropped.
StartFails(b) ==
    /\ IsStart(b) /\ recorder = "none"
    /\ saved_warp' = warp /\ warp_was_saved' = FALSE
    /\ warp' = saved_warp'
    /\ reply' = "VIDEO_ERR_FAILURE"
    /\ nested' = (nested \/ forced)
    /\ UNCHANGED <<recorder, forced, prior, toggled, missed>>

----------------------------------------------------------------------------
(* VICE.                                                                   *)

UserTogglesWarp ==
    /\ warp' = ~ warp
    /\ toggled' = TRUE
    /\ UNCHANGED <<core, recorder, reply, forced, prior, nested, missed>>

\* A recording that no request started.
OtherRecording ==
    /\ recorder = "none"
    /\ recorder' = "other"
    /\ UNCHANGED <<core, warp, reply, history>>

\* A recording ends though no request stopped it.
RecordingEnds ==
    /\ recorder # "none"
    /\ recorder' = "none"
    /\ UNCHANGED <<core, warp, reply, history>>

\* The vsync hook: a frame drawn in warp mode is not encoded.
Frame ==
    /\ recorder = "client" /\ warp
    /\ missed' = TRUE
    /\ UNCHANGED <<core, warp, recorder, reply, forced, prior, nested, toggled>>

mon_video_binmon_record ==
    \E b \in Bodies :
        Malformed(b) \/ Stop(b) \/ StartRefused(b) \/ StartWorks(b) \/ StartFails(b)

Next ==
    \/ mon_video_binmon_record
    \/ UserTogglesWarp \/ OtherRecording \/ RecordingEnds \/ Frame

Spec == Init /\ [][Next]_vars

----------------------------------------------------------------------------
(* Properties.                                                             *)

\* Every variable keeps its type.
TypeOK ==
    /\ saved_warp \in BOOLEAN /\ warp_was_saved \in BOOLEAN /\ warp \in BOOLEAN
    /\ recorder \in Recorders /\ reply \in Results
    /\ forced \in BOOLEAN /\ prior \in BOOLEAN /\ nested \in BOOLEAN
    /\ toggled \in BOOLEAN /\ missed \in BOOLEAN

\* "Stopping restores the prior warp state", as the state the core keeps for
\* it (revice_video.h:69-70): while a start holds warp off, the core knows so
\* and knows the mode to go back to, whatever the user did to warp meanwhile,
\* unless a recording ended by itself and a second start came before a stop.
OwedOnce == ~ nested => forced = warp_was_saved /\ (forced => saved_warp = prior)

\* "warp_was_saved: 1 while a forced-warp-off is owed": a machine that warped
\* when a start forced warp off will warp again after the stop.
Owed == forced /\ prior => warp_was_saved /\ saved_warp

\* "recording forces warp OFF so frames are actually encoded": no frame of a
\* client's recording is skipped unless the user turned warp on during it,
\* in whatever mode the machine was and whoever recorded before.
ClipComplete == missed => toggled

\* A request answered with an error changes neither warp mode nor the
\* recorder, nor whether warp is owed; a client's recording never takes over
\* a running one; and a stop puts warp back to the mode its start found,
\* whatever the user did in between.  (The second start of OwedOnce excepted.)
RequestsRespectWarp ==
    [][mon_video_binmon_record =>
           /\ reply' # "VIDEO_OK" =>
                 UNCHANGED <<warp, recorder>> /\ (nested' \/ UNCHANGED warp_was_saved)
           /\ recorder' = "client" => recorder = "none" \/ UNCHANGED recorder
           /\ forced /\ ~ forced' /\ ~ nested => warp' = prior]_vars

----------------------------------------------------------------------------
(* An inductive invariant for ClipComplete: the core's recordings run with *)
(* warp off until the user says otherwise.                                 *)
WarpOff == recorder = "client" /\ warp => toggled
=============================================================================
