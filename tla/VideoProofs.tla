----------------------------- MODULE VideoProofs -----------------------------
(* Proofs about Video, for every set of request bodies.                        *)
EXTENDS Video, TLAPS

\* Init starts a well-typed core with nothing owed and nothing missed.
LEMMA InitInv == Init => TypeOK /\ OwedOnce /\ ClipComplete /\ WarpOff
BY DEF Init, TypeOK, Results, Recorders, OwedOnce, ClipComplete, WarpOff

\* Requests, the user and the recorder keep every variable's type.
LEMMA StepTypeOK == TypeOK /\ [Next]_vars => TypeOK'
<1> SUFFICES ASSUME TypeOK, [Next]_vars PROVE TypeOK'
    OBVIOUS
<1> USE DEF TypeOK, Results, Recorders, core, history
<1>1. ASSUME NEW b \in Bodies, Malformed(b) \/ StartRefused(b) PROVE TypeOK'
    BY <1>1 DEF Malformed, StartRefused
<1>2. ASSUME NEW b \in Bodies, Stop(b) PROVE TypeOK'
    BY <1>2 DEF Stop
<1>3. ASSUME NEW b \in Bodies, StartWorks(b) PROVE TypeOK'
    BY <1>3, Zenon DEF StartWorks
<1>4. ASSUME NEW b \in Bodies, StartFails(b) PROVE TypeOK'
    BY <1>4, Zenon DEF StartFails
<1>5. CASE UserTogglesWarp
    BY <1>5, Zenon DEF UserTogglesWarp
<1>6. CASE OtherRecording \/ RecordingEnds \/ Frame
    BY <1>6 DEF OtherRecording, RecordingEnds, Frame
<1>7. CASE UNCHANGED vars
    BY <1>7 DEF vars
<1> QED
    BY <1>1, <1>2, <1>3, <1>4, <1>5, <1>6, <1>7, Zenon
    DEF Next, mon_video_binmon_record

\* While at most one start holds warp off, the core remembers it exactly.
LEMMA StepOwedOnce == TypeOK /\ OwedOnce /\ [Next]_vars => OwedOnce'
<1> SUFFICES ASSUME TypeOK, OwedOnce, [Next]_vars PROVE OwedOnce'
    OBVIOUS
<1> USE DEF OwedOnce, core, history
<1>1. ASSUME NEW b \in Bodies, Malformed(b) \/ StartRefused(b) PROVE OwedOnce'
    BY <1>1, Zenon DEF Malformed, StartRefused
<1>2. ASSUME NEW b \in Bodies, Stop(b) PROVE OwedOnce'
    BY <1>2 DEF Stop
<1>3. ASSUME NEW b \in Bodies, StartWorks(b) PROVE OwedOnce'
    BY <1>3 DEF StartWorks, TypeOK
<1>4. ASSUME NEW b \in Bodies, StartFails(b) PROVE OwedOnce'
    BY <1>4 DEF StartFails, TypeOK
<1>5. CASE UserTogglesWarp \/ OtherRecording \/ RecordingEnds \/ Frame
    BY <1>5, Zenon DEF UserTogglesWarp, OtherRecording, RecordingEnds, Frame
<1>6. CASE UNCHANGED vars
    BY <1>6 DEF vars
<1> QED
    BY <1>1, <1>2, <1>3, <1>4, <1>5, <1>6, Zenon DEF Next, mon_video_binmon_record

\* A client's recording in warp mode was disturbed by the user, so a skipped
\* frame is the user's doing.
LEMMA StepClip ==
    TypeOK /\ WarpOff /\ ClipComplete /\ [Next]_vars => WarpOff' /\ ClipComplete'
<1> SUFFICES ASSUME TypeOK, WarpOff, ClipComplete, [Next]_vars
             PROVE  WarpOff' /\ ClipComplete'
    OBVIOUS
<1> USE DEF WarpOff, ClipComplete, core, history
<1>1. ASSUME NEW b \in Bodies, Malformed(b) \/ StartRefused(b)
      PROVE  WarpOff' /\ ClipComplete'
    BY <1>1 DEF Malformed, StartRefused
<1>2. ASSUME NEW b \in Bodies, Stop(b) PROVE WarpOff' /\ ClipComplete'
    BY <1>2 DEF Stop
<1>3. ASSUME NEW b \in Bodies, StartWorks(b) PROVE WarpOff' /\ ClipComplete'
    BY <1>3 DEF StartWorks
<1>4. ASSUME NEW b \in Bodies, StartFails(b) PROVE WarpOff' /\ ClipComplete'
    BY <1>4 DEF StartFails
<1>5. CASE UserTogglesWarp
    BY <1>5 DEF UserTogglesWarp
<1>6. CASE OtherRecording \/ RecordingEnds
    BY <1>6 DEF OtherRecording, RecordingEnds
<1>7. CASE Frame
    BY <1>7 DEF Frame
<1>8. CASE UNCHANGED vars
    BY <1>8 DEF vars
<1> QED
    BY <1>1, <1>2, <1>3, <1>4, <1>5, <1>6, <1>7, <1>8, Zenon
    DEF Next, mon_video_binmon_record

\* What an execution of Video can never leave.
LEMMA VideoInvariant == Spec => [](TypeOK /\ OwedOnce /\ ClipComplete /\ WarpOff)
<1>1. TypeOK /\ OwedOnce /\ ClipComplete /\ WarpOff /\ [Next]_vars
      => (TypeOK /\ OwedOnce /\ ClipComplete /\ WarpOff)'
    BY StepTypeOK, StepOwedOnce, StepClip
<1> QED
    BY <1>1, InitInv, PTL DEF Spec

\* Type correctness of the video core, for every set of bodies.
THEOREM VideoTypeOK == Spec => []TypeOK
BY VideoInvariant, PTL

\* Until a second start overtakes a stop, the core knows the warp mode it took.
THEOREM WarpOwedOnce == Spec => []OwedOnce
BY VideoInvariant, PTL

\* Only the user makes a client's recording miss a frame.
THEOREM ClipsComplete == Spec => []ClipComplete
BY VideoInvariant, PTL

\* An error reply leaves warp mode, its debt and the recorder as they were, no
\* request takes over a running recording, and a stop gives back the warp mode
\* that the start found.
THEOREM RequestsAlwaysRespectWarp == Spec => RequestsRespectWarp
<1>1. ASSUME TypeOK, OwedOnce, mon_video_binmon_record
      PROVE  /\ reply' # "VIDEO_OK" =>
                   UNCHANGED <<warp, recorder>> /\ (nested' \/ UNCHANGED warp_was_saved)
             /\ recorder' = "client" => recorder = "none" \/ UNCHANGED recorder
             /\ forced /\ ~ forced' /\ ~ nested => warp' = prior
  <2> PICK b \in Bodies : \/ Malformed(b) \/ Stop(b) \/ StartRefused(b)
                          \/ StartWorks(b) \/ StartFails(b)
    BY <1>1 DEF mon_video_binmon_record
  <2> USE DEF core, history
  <2>1. CASE Malformed(b) \/ StartRefused(b)
    BY <2>1 DEF Malformed, StartRefused
  <2>2. CASE Stop(b)
    BY <1>1, <2>2 DEF Stop, OwedOnce
  <2>3. CASE StartWorks(b)
    BY <2>3 DEF StartWorks
  <2>4. CASE StartFails(b)
    BY <1>1, <2>4 DEF StartFails, OwedOnce, TypeOK
  <2> QED
    BY <2>1, <2>2, <2>3, <2>4
<1> QED
  BY <1>1, VideoInvariant, PTL DEF RequestsRespectWarp
=============================================================================
