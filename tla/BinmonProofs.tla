----------------------------- MODULE BinmonProofs -----------------------------
(***************************************************************************)
(* Binmon, proved for every set of requests and every interleaving of the  *)
(* client, the monitor and the CPU, however many of each.                  *)
(***************************************************************************)
EXTENDS Binmon, FiniteSetTheorems, SequenceTheorems, TLAPS

----------------------------------------------------------------------------
(* What the monitor sends.                                                 *)

\* Whatever a handler does, it ends with one reply.
LEMMA Replied ==
  ASSUME TypeOK, monitor_binary_process_command
  PROVE  \E e \in Errors : Reply(e)
<1> DEFINE r == sent[served + 1]
<1>1. CASE KeymatrixWrite(r)
  BY <1>1 DEF KeymatrixWrite, Reply, Errors
<1>2. CASE KeymatrixGet(r)
  BY <1>2 DEF KeymatrixGet, Reply, Errors
<1>3. CASE ScreenGet(r)
  BY <1>3 DEF ScreenGet, Reply, Errors
<1>4. CASE VideoRecord(r)
  BY <1>4 DEF VideoRecord, Reply, Errors
<1>5. CASE DriveAttach(r)
  BY <1>5 DEF DriveAttach, AttachRejected, Detach, Attach, AttachFails, Reply, Errors
<1>6. CASE CheckpointSet(r)
  BY <1>6 DEF CheckpointSet, Reply, Errors
<1>7. CASE Exit(r)
  BY <1>7 DEF Exit, Reply, Errors
<1> QED
  BY <1>1, <1>2, <1>3, <1>4, <1>5, <1>6, <1>7 DEF monitor_binary_process_command

\* A reply is one frame more, with the id of the request.
LEMMA ReplyFrame ==
  ASSUME TypeOK, NEW e \in Errors, Reply(e)
  PROVE  /\ frames' \in Seq(Frame)
         /\ Len(frames') = Len(frames) + 1
         /\ \A k \in DOMAIN frames : frames'[k] = frames[k]
         /\ frames'[Len(frames) + 1] = [id |-> served + 1, error |-> e]
<1>1. [id |-> served + 1, error |-> e] \in Frame
  BY DEF TypeOK, Frame
<1> QED
  BY <1>1 DEF TypeOK, Reply, Errors

\* Events are frames more, one for each checkpoint reported and none for another,
\* in the order of their numbers.
LEMMA ReportFrames ==
  ASSUME TypeOK, NEW S \in SUBSET DOMAIN checkpoints, Report(S)
  PROVE  \E order \in [1..Cardinality(S) -> S] :
            /\ Cardinality(S) \in Nat
            /\ frames' \in Seq(Frame)
            /\ Len(frames') = Len(frames) + Cardinality(S)
            /\ \A k \in DOMAIN frames : frames'[k] = frames[k]
            /\ \A i \in 1..Cardinality(S) : frames'[Len(frames) + i] = Event(order[i])
            /\ \A c \in S : \E i \in 1..Cardinality(S) : order[i] = c
            /\ \A i, j \in 1..Cardinality(S) : order[i] = order[j] => i = j
<1> DEFINE n == Cardinality(S)
<1>1. IsFiniteSet(S) /\ n \in Nat
  <2>1. DOMAIN checkpoints = 1..Len(checkpoints) /\ Len(checkpoints) \in Nat
    BY DEF TypeOK
  <2>2. IsFiniteSet(1..Len(checkpoints))
    BY <2>1, FS_Interval
  <2> QED
    BY <2>1, <2>2, FS_Subset, FS_CardinalityType
<1>2. PICK order \in [1..n -> S] :
         /\ \A i, j \in DOMAIN order : i < j => order[i] < order[j]
         /\ frames' = frames \o [i \in DOMAIN order |-> Event(order[i])]
  BY DEF Report
<1>3. S \subseteq Nat
  BY DEF TypeOK
<1>4. \A i, j \in 1..n : order[i] = order[j] => i = j
  <2> SUFFICES ASSUME NEW i \in 1..n, NEW j \in 1..n, order[i] = order[j]
               PROVE  i = j
    OBVIOUS
  <2>1. order[i] \in Nat /\ order[j] \in Nat /\ ~ order[i] < order[j] /\ ~ order[j] < order[i]
    BY <1>2, <1>3
  <2>2. ~ i < j /\ ~ j < i
    BY <1>2, <2>1
  <2> QED
    BY <1>1, <2>2
<1>5. \A c \in S : \E i \in 1..n : order[i] = c
  <2>1. order \in Injection(1..n, S)
    BY <1>2, <1>4 DEF Injection, IsInjective
  <2>2. IsFiniteSet(1..n) /\ Cardinality(1..n) = n
    BY <1>1, FS_Interval
  <2>3. order \in Surjection(1..n, S)
    BY <1>1, <2>1, <2>2, FS_Injection
  <2> QED
    BY <2>3 DEF Surjection
<1>6. \A i \in 1..n : Event(order[i]) \in Frame
  BY <1>2, <1>3 DEF Event, Frame
<1> DEFINE new == [i \in 1..n |-> Event(order[i])]
<1>7. new \in Seq(Frame) /\ Len(new) = n /\ \A i \in 1..n : new[i] = Event(order[i])
  BY <1>1, <1>6
<1>8. frames' = frames \o new
  BY <1>2
<1> HIDE DEF new
<1>9. /\ frames' \in Seq(Frame)
      /\ Len(frames') = Len(frames) + n
      /\ \A k \in DOMAIN frames : frames'[k] = frames[k]
      /\ \A i \in 1..n : frames'[Len(frames) + i] = new[i]
  <2>1. frames \in Seq(Frame) /\ DOMAIN frames = 1..Len(frames) /\ Len(frames) \in Nat
    BY DEF TypeOK
  <2>2. /\ frames \o new \in Seq(Frame)
        /\ Len(frames \o new) = Len(frames) + n
        /\ \A i \in 1..Len(frames) + n :
              (frames \o new)[i] = IF i <= Len(frames) THEN frames[i] ELSE new[i - Len(frames)]
    BY <1>7, <2>1, ConcatProperties
  <2> QED
    BY <1>1, <1>8, <2>1, <2>2
<1>10. \A i \in 1..n : frames'[Len(frames) + i] = Event(order[i])
  BY <1>7, <1>9
<1> WITNESS order \in [1..n -> S]
<1> QED
  BY <1>1, <1>4, <1>5, <1>9, <1>10

----------------------------------------------------------------------------
(* Types.                                                                  *)

\* The request that is served next is one of Requests.
LEMMA NextRequest ==
  ASSUME TypeOK, served < Len(sent)
  PROVE  sent[served + 1] \in Requests /\ served + 1 \in 1..Len(sent)
BY DEF TypeOK

\* The decoder has two results, 1 exactly for a non-zero byte 9.
LEMMA DecodedSilent ==
  ASSUME NEW r \in Requests, r.cmd = "CHECKPOINT_SET"
  PROVE  /\ checkpoint_decode_silent(r) \in {0, 1}
         /\ checkpoint_decode_silent(r) = 1 <=> r.length > 9 /\ r.silent # 0
BY RequestsAssumption DEF checkpoint_decode_silent

\* A new checkpoint is well-typed and goes behind the others.
LEMMA NewCheckpoint ==
  ASSUME TypeOK, served < Len(sent), NEW r \in Requests, CheckpointSet(r), r.length >= 8
  PROVE  LET n == Len(checkpoints) + 1 IN
         /\ checkpoints' \in Seq(Checkpoint) /\ reached' \in Seq(Nat)
         /\ Len(checkpoints') = n /\ Len(reached') = n /\ reached'[n] = 0
         /\ \A c \in DOMAIN checkpoints :
               checkpoints'[c] = checkpoints[c] /\ reached'[c] = reached[c]
         /\ checkpoints'[n].request = served + 1 /\ checkpoints'[n].hit_count = 0
         /\ checkpoints'[n].silent = checkpoint_decode_silent(r)
         /\ checkpoints'[n].live = TRUE
         /\ checkpoints'[n].stop = r.stop /\ checkpoints'[n].temporary = r.temporary
<1> DEFINE new == [request |-> served + 1, silent |-> checkpoint_decode_silent(r),
                   stop |-> r.stop, temporary |-> r.temporary, hit_count |-> 0, live |-> TRUE]
<1>1. ~ r.length < 8
  BY RequestsAssumption DEF CheckpointSet
<1>2. checkpoints' = Append(checkpoints, new) /\ reached' = Append(reached, 0)
  BY <1>1 DEF CheckpointSet
<1>3. new \in Checkpoint
  BY DecodedSilent, RequestsAssumption DEF CheckpointSet, Checkpoint, TypeOK
<1> HIDE DEF new
<1>4. /\ checkpoints' \in Seq(Checkpoint) /\ reached' \in Seq(Nat)
      /\ Len(checkpoints') = Len(checkpoints) + 1 /\ Len(reached') = Len(reached) + 1
      /\ checkpoints'[Len(checkpoints) + 1] = new /\ reached'[Len(reached) + 1] = 0
  BY <1>2, <1>3 DEF TypeOK
<1>5. ASSUME NEW c \in DOMAIN checkpoints
      PROVE  checkpoints'[c] = checkpoints[c] /\ reached'[c] = reached[c]
  BY <1>2, <1>3 DEF TypeOK
<1> QED
  BY <1>4, <1>5 DEF new, TypeOK

\* A function on 1..n is a sequence of n elements.
LEMMA FunctionIsSeq ==
  ASSUME NEW T, NEW n \in Nat, NEW f \in [1..n -> T]
  PROVE  f \in Seq(T) /\ Len(f) = n
OBVIOUS

\* A hit counts, and takes a temporary checkpoint away; the rest stays as it was set.
LEMMA Counted ==
  ASSUME TypeOK, NEW c \in DOMAIN checkpoints
  PROVE  /\ Count(c) \in Checkpoint
         /\ Count(c).hit_count = checkpoints[c].hit_count + 1
         /\ Count(c).live = (~ checkpoints[c].temporary)
         /\ Count(c).request = checkpoints[c].request
         /\ Count(c).silent = checkpoints[c].silent
         /\ Count(c).temporary = checkpoints[c].temporary
         /\ Count(c).stop = checkpoints[c].stop
<1> DEFINE cp == checkpoints[c]
<1>1. cp \in Checkpoint
  BY DEF TypeOK
<1> HIDE DEF cp
<1>2. ASSUME NEW m \in Nat, NEW live \in BOOLEAN
      PROVE  [cp EXCEPT !.hit_count = m, !.live = live] \in Checkpoint
  BY <1>1 DEF Checkpoint
<1>3. cp.hit_count + 1 \in Nat /\ (~ cp.temporary) \in BOOLEAN
  BY <1>1 DEF Checkpoint
<1>4. Count(c) \in Checkpoint
  BY <1>2, <1>3 DEF Count, cp
<1>5. Count(c) = [cp EXCEPT !.hit_count = cp.hit_count + 1, !.live = ~ cp.temporary]
  BY DEF Count, cp
<1> QED
  BY <1>1, <1>4, <1>5 DEF Checkpoint, cp

\* The checkpoints the CPU reaches count once, whether they speak or not.
LEMMA ReachedCheckpoints ==
  ASSUME TypeOK, NEW S \in SUBSET Live, Reach(S)
  PROVE  /\ S \in SUBSET DOMAIN checkpoints
         /\ checkpoints' \in Seq(Checkpoint) /\ reached' \in Seq(Nat)
         /\ Len(checkpoints') = Len(checkpoints) /\ Len(reached') = Len(reached)
         /\ \A c \in DOMAIN checkpoints :
               /\ checkpoints'[c] = IF c \in S THEN Count(c) ELSE checkpoints[c]
               /\ reached'[c] = IF c \in S THEN reached[c] + 1 ELSE reached[c]
<1>1. S \in SUBSET DOMAIN checkpoints
  BY DEF Live
<1>2. /\ DOMAIN checkpoints = 1..Len(checkpoints) /\ DOMAIN reached = 1..Len(checkpoints)
      /\ Len(checkpoints) \in Nat
      /\ \A c \in DOMAIN checkpoints : checkpoints[c] \in Checkpoint /\ reached[c] \in Nat
  BY DEF TypeOK
<1>3. \A c \in DOMAIN checkpoints : Count(c) \in Checkpoint
  BY Counted
<1>4. /\ checkpoints' = [c \in 1..Len(checkpoints) |-> IF c \in S THEN Count(c) ELSE checkpoints[c]]
      /\ reached' = [c \in 1..Len(checkpoints) |-> IF c \in S THEN reached[c] + 1 ELSE reached[c]]
  BY <1>2 DEF Reach, HitAll
<1>5. /\ \A c \in 1..Len(checkpoints) : (IF c \in S THEN Count(c) ELSE checkpoints[c]) \in Checkpoint
      /\ \A c \in 1..Len(checkpoints) : (IF c \in S THEN reached[c] + 1 ELSE reached[c]) \in Nat
  BY <1>2, <1>3
<1>6. checkpoints' \in [1..Len(checkpoints) -> Checkpoint] /\ reached' \in [1..Len(checkpoints) -> Nat]
  BY <1>4, <1>5
<1>7. /\ checkpoints' \in Seq(Checkpoint) /\ reached' \in Seq(Nat)
      /\ Len(checkpoints') = Len(checkpoints) /\ Len(reached') = Len(reached)
  BY <1>2, <1>6, FunctionIsSeq DEF TypeOK
<1> QED
  BY <1>1, <1>2, <1>4, <1>7

\* A step of the monitor changes the drives, the checkpoints and the CPU as one of
\* the handlers does.
LEMMA Handled ==
  ASSUME TypeOK, monitor_binary_process_command
  PROVE  LET r == sent[served + 1] IN
         /\ r \in Requests
         /\ \/ r.cmd \notin {"DRIVE_ATTACH", "CHECKPOINT_SET"} /\ UNCHANGED <<slots, checkpoints, reached>>
            \/ DriveAttach(r)
            \/ CheckpointSet(r) /\ r.length < 8 /\ UNCHANGED <<slots, checkpoints, reached>>
            \/ CheckpointSet(r) /\ r.length >= 8 /\ UNCHANGED slots
         /\ r.cmd # "EXIT" => UNCHANGED running
         /\ r.cmd = "EXIT" => running' = TRUE
         /\ running' \in BOOLEAN
<1> DEFINE r == sent[served + 1]
<1>1. r \in Requests
  BY NextRequest DEF monitor_binary_process_command
<1>2. /\ KeymatrixWrite(r) \/ KeymatrixGet(r) \/ ScreenGet(r) \/ VideoRecord(r)
         \/ DriveAttach(r) \/ CheckpointSet(r) \/ Exit(r)
      /\ running \in BOOLEAN
  BY DEF monitor_binary_process_command, TypeOK
<1> HIDE DEF r
<1>3. CASE KeymatrixWrite(r) \/ KeymatrixGet(r) \/ ScreenGet(r) \/ VideoRecord(r) \/ Exit(r)
  BY <1>1, <1>2, <1>3 DEF KeymatrixWrite, KeymatrixGet, ScreenGet, VideoRecord, Exit, r
<1>4. CASE DriveAttach(r)
  BY <1>1, <1>2, <1>4 DEF DriveAttach, r
<1>5. CASE CheckpointSet(r)
  <2>1. r.length \in Nat
    BY <1>1, <1>5, RequestsAssumption DEF CheckpointSet
  <2>2. r.length < 8 => UNCHANGED <<checkpoints, reached>>
    BY <1>5 DEF CheckpointSet
  <2>3. r.cmd = "CHECKPOINT_SET" /\ UNCHANGED <<slots, running>>
    BY <1>5 DEF CheckpointSet
  <2> QED
    BY <1>1, <1>2, <1>5, <2>1, <2>2, <2>3 DEF r
<1> QED
  BY <1>2, <1>3, <1>4, <1>5

\* The drives stay the drives there are.
LEMMA AttachKeepsDrives ==
  ASSUME NEW r, DriveAttach(r)
  PROVE  DOMAIN slots' = DOMAIN slots /\ UNCHANGED <<checkpoints, reached>>
BY DEF DriveAttach, AttachRejected, Detach, Attach, AttachFails

\* Every operation keeps every variable's type.
LEMMA StepTypeOK == TypeOK /\ [Next]_vars => TypeOK'
<1> SUFFICES ASSUME TypeOK, [Next]_vars  PROVE TypeOK'
  OBVIOUS
<1>1. ASSUME NEW r \in Requests, Send(r)  PROVE TypeOK'
  <2>1. sent' \in Seq(Requests) /\ Len(sent') = Len(sent) + 1
    BY <1>1 DEF TypeOK, Send
  <2> QED
    BY <1>1, <2>1 DEF TypeOK, Send
<1>2. CASE monitor_binary_process_command
  <2> DEFINE r == sent[served + 1]
  <2>1. frames' \in Seq(Frame)
    BY <1>2, Replied, ReplyFrame
  <2>2. /\ sent' = sent /\ served' = served + 1 /\ provider' = provider
        /\ served \in Nat /\ served < Len(sent)
    BY <1>2 DEF monitor_binary_process_command, TypeOK
  <2>3. sent' \in Seq(Requests) /\ served' \in 0..Len(sent') /\ provider' \in BOOLEAN
    BY <2>2 DEF TypeOK
  <2>4. running' \in BOOLEAN
    BY <1>2, Handled
  <2>5. CASE UNCHANGED <<slots, checkpoints, reached>>
    BY <2>1, <2>2, <2>3, <2>4, <2>5 DEF TypeOK
  <2>6. CASE DriveAttach(r)
    <3>1. DOMAIN slots' = DOMAIN slots /\ UNCHANGED <<checkpoints, reached>>
      BY <2>6, AttachKeepsDrives
    <3> QED
      BY <2>1, <2>2, <2>3, <2>4, <3>1 DEF TypeOK
  <2>7. CASE CheckpointSet(r) /\ r.length >= 8 /\ UNCHANGED slots
    <3>1. r \in Requests
      BY <1>2, Handled
    <3> HIDE DEF r
    <3>2. /\ checkpoints' \in Seq(Checkpoint) /\ reached' \in Seq(Nat)
          /\ Len(checkpoints') = Len(checkpoints) + 1 /\ Len(reached') = Len(checkpoints) + 1
          /\ \A c \in DOMAIN checkpoints :
                checkpoints'[c] = checkpoints[c] /\ reached'[c] = reached[c]
          /\ checkpoints'[Len(checkpoints) + 1].request = served + 1
      BY <2>2, <2>7, <3>1, NewCheckpoint, Zenon
    <3>3. \A c \in DOMAIN checkpoints' : checkpoints'[c].request \in 1..served'
      <4> SUFFICES ASSUME NEW c \in DOMAIN checkpoints'
                   PROVE  checkpoints'[c].request \in 1..served'
        OBVIOUS
      <4>1. c \in DOMAIN checkpoints \/ c = Len(checkpoints) + 1
        BY <3>2 DEF TypeOK
      <4>2. c \in DOMAIN checkpoints => checkpoints[c].request \in 1..served
        BY DEF TypeOK
      <4> QED
        BY <2>2, <3>2, <4>1, <4>2
    <3> QED
      BY <2>1, <2>3, <2>4, <2>7, <3>2, <3>3 DEF TypeOK
  <2> QED
    BY <1>2, <2>5, <2>6, <2>7, Handled
<1>3. ASSUME NEW S \in SUBSET Live, Reach(S)  PROVE TypeOK'
  <2>1. /\ checkpoints' \in Seq(Checkpoint) /\ reached' \in Seq(Nat)
        /\ Len(checkpoints') = Len(checkpoints) /\ Len(reached') = Len(reached)
        /\ \A c \in DOMAIN checkpoints :
              checkpoints'[c] = IF c \in S THEN Count(c) ELSE checkpoints[c]
        /\ S \in SUBSET DOMAIN checkpoints
    BY <1>3, ReachedCheckpoints
  <2>2. \A c \in DOMAIN checkpoints' : checkpoints'[c].request \in 1..served
    <3>1. DOMAIN checkpoints' = DOMAIN checkpoints
      BY <2>1 DEF TypeOK
    <3>2. \A c \in DOMAIN checkpoints : checkpoints'[c].request = checkpoints[c].request
      BY <2>1, Counted
    <3> QED
      BY <3>1, <3>2 DEF TypeOK
  <2>3. frames' \in Seq(Frame)
    <3> DEFINE loud == {c \in S : checkpoints[c].silent = 0}
    <3>1. Report(loud) /\ loud \in SUBSET DOMAIN checkpoints
      BY <1>3, <2>1 DEF Reach, HitAll
    <3> HIDE DEF loud
    <3> QED
      BY <3>1, ReportFrames
  <2>4. running' \in BOOLEAN
    BY <1>3 DEF Reach, HitAll
  <2>5. sent' = sent /\ served' = served /\ slots' = slots /\ provider' = provider
    BY <1>3 DEF Reach
  <2> QED
    BY <2>1, <2>2, <2>3, <2>4, <2>5 DEF TypeOK
<1>4. CASE UNCHANGED vars
  BY <1>4 DEF TypeOK, vars
<1> QED
  BY <1>1, <1>2, <1>3, <1>4 DEF Next

----------------------------------------------------------------------------
(* Answers.                                                                *)

\* What the CPU adds to the frames are events, of checkpoints there are.
LEMMA ReachFrames ==
  ASSUME TypeOK, NEW S \in SUBSET Live, Reach(S)
  PROVE  /\ frames' \in Seq(Frame) /\ Len(frames') >= Len(frames)
         /\ \A k \in DOMAIN frames : frames'[k] = frames[k]
         /\ \A k \in DOMAIN frames' :
               k > Len(frames) => \E c \in DOMAIN checkpoints : frames'[k] = Event(c)
<1> DEFINE loud == {c \in S : checkpoints[c].silent = 0}
<1>1. Report(loud) /\ loud \in SUBSET DOMAIN checkpoints
  BY ReachedCheckpoints DEF Reach, HitAll
<1> HIDE DEF loud
<1>2. PICK order \in [1..Cardinality(loud) -> loud] :
         /\ Cardinality(loud) \in Nat
         /\ frames' \in Seq(Frame)
         /\ Len(frames') = Len(frames) + Cardinality(loud)
         /\ \A k \in DOMAIN frames : frames'[k] = frames[k]
         /\ \A i \in 1..Cardinality(loud) : frames'[Len(frames) + i] = Event(order[i])
  BY <1>1, ReportFrames
<1>3. ASSUME NEW k \in DOMAIN frames', k > Len(frames)
      PROVE  \E c \in DOMAIN checkpoints : frames'[k] = Event(c)
  <2>1. k - Len(frames) \in 1..Cardinality(loud) /\ k = Len(frames) + (k - Len(frames))
    BY <1>2, <1>3 DEF TypeOK
  <2>2. order[k - Len(frames)] \in DOMAIN checkpoints
    BY <1>1, <1>2, <2>1
  <2>3. frames'[k] = Event(order[k - Len(frames)])
    BY <1>2, <2>1
  <2> QED
    BY <2>2, <2>3
<1>4. Len(frames') >= Len(frames)
  BY <1>2 DEF TypeOK
<1> QED
  BY <1>2, <1>3, <1>4

\* A reply goes behind the answers to the earlier requests; an event is no answer.
LEMMA StepAnsweredInOrder == TypeOK /\ AnsweredInOrder /\ [Next]_vars => AnsweredInOrder'
<1> SUFFICES ASSUME TypeOK, AnsweredInOrder, [Next]_vars  PROVE AnsweredInOrder'
  OBVIOUS
<1>1. ASSUME NEW r \in Requests, Send(r)  PROVE AnsweredInOrder'
  BY <1>1 DEF AnsweredInOrder, Send
<1>2. CASE monitor_binary_process_command
  <2> DEFINE n == Len(frames) + 1
  <2>1. PICK e \in Errors : Reply(e)
    BY <1>2, Replied
  <2>2. /\ DOMAIN frames' = 1..n /\ DOMAIN frames = 1..Len(frames) /\ Len(frames) \in Nat
        /\ \A k \in DOMAIN frames : frames'[k] = frames[k]
        /\ frames'[n].id = served + 1
    <3>1. /\ frames' \in Seq(Frame) /\ Len(frames') = n
          /\ \A k \in DOMAIN frames : frames'[k] = frames[k]
          /\ frames'[n] = [id |-> served + 1, error |-> e]
      BY <2>1, ReplyFrame
    <3> QED
      BY <3>1 DEF TypeOK
  <2>3. served' = served + 1 /\ served \in Nat
    BY <1>2 DEF monitor_binary_process_command, TypeOK
  <2>4. \A k \in DOMAIN frames' : k = n \/ k \in DOMAIN frames
    BY <2>2
  <2>5. \A k \in DOMAIN frames' : frames'[k].id \in 0..served'
    BY <2>2, <2>3, <2>4 DEF AnsweredInOrder
  <2>6. \A i \in 1..served' : \E k \in DOMAIN frames' : frames'[k].id = i
    <3> SUFFICES ASSUME NEW i \in 1..served'
                 PROVE  \E k \in DOMAIN frames' : frames'[k].id = i
      OBVIOUS
    <3>1. CASE i = served'
      BY <2>2, <2>3, <3>1
    <3>2. CASE i \in 1..served
      <4>1. PICK k \in DOMAIN frames : frames[k].id = i
        BY <3>2 DEF AnsweredInOrder
      <4> QED
        BY <2>2, <4>1
    <3> QED
      BY <2>3, <3>1, <3>2
  <2>7. ASSUME NEW k \in DOMAIN frames', NEW l \in DOMAIN frames', k < l,
               frames'[k].id # 0, frames'[l].id # 0
        PROVE  frames'[k].id < frames'[l].id
    <3>1. k \in DOMAIN frames /\ frames'[k].id \in 0..served
      BY <2>2, <2>7 DEF AnsweredInOrder
    <3>2. CASE l = n
      BY <2>2, <2>3, <3>1, <3>2
    <3>3. CASE l \in DOMAIN frames
      BY <2>2, <2>7, <3>1, <3>3 DEF AnsweredInOrder
    <3> QED
      BY <2>4, <3>2, <3>3
  <2> QED
    BY <2>5, <2>6, <2>7 DEF AnsweredInOrder
<1>3. ASSUME NEW S \in SUBSET Live, Reach(S)  PROVE AnsweredInOrder'
  <2>1. /\ DOMAIN frames' = 1..Len(frames') /\ DOMAIN frames = 1..Len(frames)
        /\ Len(frames) \in Nat /\ Len(frames') \in Nat /\ Len(frames') >= Len(frames)
        /\ \A k \in DOMAIN frames : frames'[k] = frames[k]
        /\ \A k \in DOMAIN frames' : k \notin DOMAIN frames => frames'[k].id = 0
    BY <1>3, ReachFrames DEF TypeOK, Event
  <2>2. served' = served
    BY <1>3 DEF Reach
  <2>3. \A k \in DOMAIN frames' : frames'[k].id \in 0..served'
    BY <2>1, <2>2 DEF AnsweredInOrder, TypeOK
  <2>4. \A i \in 1..served' : \E k \in DOMAIN frames' : frames'[k].id = i
    <3> SUFFICES ASSUME NEW i \in 1..served
                 PROVE  \E k \in DOMAIN frames' : frames'[k].id = i
      BY <2>2
    <3>1. PICK k \in DOMAIN frames : frames[k].id = i
      BY DEF AnsweredInOrder
    <3> QED
      BY <2>1, <3>1
  <2>5. \A k, l \in DOMAIN frames' :
           k < l /\ frames'[k].id # 0 /\ frames'[l].id # 0 => frames'[k].id < frames'[l].id
    BY <2>1 DEF AnsweredInOrder
  <2> QED
    BY <2>3, <2>4, <2>5 DEF AnsweredInOrder
<1>4. CASE UNCHANGED vars
  BY <1>4 DEF AnsweredInOrder, vars
<1> QED
  BY <1>1, <1>2, <1>3, <1>4 DEF Next

----------------------------------------------------------------------------
(* Coverage.                                                               *)

\* Every checkpoint is as its request asked, its count is the times it was reached,
\* and a temporary one goes when it is.
Kept ==
    \A c \in DOMAIN checkpoints :
       /\ sent[checkpoints[c].request].cmd = "CHECKPOINT_SET"
       /\ checkpoints[c].silent = checkpoint_decode_silent(sent[checkpoints[c].request])
       /\ checkpoints[c].stop = sent[checkpoints[c].request].stop
       /\ checkpoints[c].temporary = sent[checkpoints[c].request].temporary
       /\ checkpoints[c].hit_count = reached[c]
       /\ checkpoints[c].temporary => reached[c] = IF checkpoints[c].live THEN 0 ELSE 1

\* An event is of a checkpoint there is, and a checkpoint that is not silent has one
\* for each time it was reached.
EventsAt(c) == {k \in DOMAIN frames : frames[k] = Event(c)}

Spoken ==
    /\ \A k \in DOMAIN frames : frames[k].id = 0 => frames[k].checknum \in DOMAIN checkpoints
    /\ \A c \in DOMAIN checkpoints :
          EventsOf(c) = IF checkpoints[c].silent = 1 THEN 0 ELSE reached[c]

\* The requests served stay where they were.
LEMMA StepKept == TypeOK /\ Kept /\ [Next]_vars => Kept'
<1> SUFFICES ASSUME TypeOK, Kept, [Next]_vars  PROVE Kept'
  OBVIOUS
<1>1. ASSUME NEW r \in Requests, Send(r)  PROVE Kept'
  <2>1. \A i \in 1..Len(sent) : sent'[i] = sent[i]
    BY <1>1 DEF TypeOK, Send
  <2>2. \A c \in DOMAIN checkpoints : sent'[checkpoints[c].request] = sent[checkpoints[c].request]
    BY <2>1 DEF TypeOK
  <2>3. UNCHANGED <<checkpoints, reached>>
    BY <1>1 DEF Send
  <2> QED
    BY <2>2, <2>3 DEF Kept, checkpoint_decode_silent
<1>2. CASE monitor_binary_process_command
  <2> DEFINE r == sent[served + 1]
  <2>1. sent' = sent /\ served < Len(sent) /\ r \in Requests
    BY <1>2, Handled DEF monitor_binary_process_command
  <2>2. CASE UNCHANGED <<checkpoints, reached>>
    BY <2>1, <2>2 DEF Kept, checkpoint_decode_silent
  <2>3. CASE CheckpointSet(r) /\ r.length >= 8
    <3> HIDE DEF r
    <3>1. /\ checkpoints' \in Seq(Checkpoint) /\ reached' \in Seq(Nat)
          /\ Len(checkpoints') = Len(checkpoints) + 1 /\ Len(reached') = Len(checkpoints) + 1
          /\ reached'[Len(checkpoints) + 1] = 0
          /\ \A c \in DOMAIN checkpoints :
                checkpoints'[c] = checkpoints[c] /\ reached'[c] = reached[c]
          /\ checkpoints'[Len(checkpoints) + 1].request = served + 1
          /\ checkpoints'[Len(checkpoints) + 1].hit_count = 0
          /\ checkpoints'[Len(checkpoints) + 1].silent = checkpoint_decode_silent(r)
          /\ checkpoints'[Len(checkpoints) + 1].live = TRUE
          /\ checkpoints'[Len(checkpoints) + 1].stop = r.stop
          /\ checkpoints'[Len(checkpoints) + 1].temporary = r.temporary
      BY <2>1, <2>3, NewCheckpoint, Zenon
    <3>2. \A c \in DOMAIN checkpoints' : c \in DOMAIN checkpoints \/ c = Len(checkpoints) + 1
      BY <3>1 DEF TypeOK
    <3>3. r.cmd = "CHECKPOINT_SET"
      BY <2>3 DEF CheckpointSet
    <3> QED
      BY <2>1, <3>1, <3>2, <3>3 DEF Kept, checkpoint_decode_silent, r
  <2> QED
    BY <1>2, <2>2, <2>3, Handled, AttachKeepsDrives
<1>3. ASSUME NEW S \in SUBSET Live, Reach(S)  PROVE Kept'
  <2>1. /\ DOMAIN checkpoints' = DOMAIN checkpoints
        /\ \A c \in DOMAIN checkpoints :
              /\ checkpoints'[c] = IF c \in S THEN Count(c) ELSE checkpoints[c]
              /\ reached'[c] = IF c \in S THEN reached[c] + 1 ELSE reached[c]
    BY <1>3, ReachedCheckpoints DEF TypeOK
  <2>2. sent' = sent
    BY <1>3 DEF Reach
  <2> SUFFICES ASSUME NEW c \in DOMAIN checkpoints
               PROVE  /\ sent[checkpoints'[c].request].cmd = "CHECKPOINT_SET"
                      /\ checkpoints'[c].silent = checkpoint_decode_silent(sent[checkpoints'[c].request])
                      /\ checkpoints'[c].stop = sent[checkpoints'[c].request].stop
                      /\ checkpoints'[c].temporary = sent[checkpoints'[c].request].temporary
                      /\ checkpoints'[c].hit_count = reached'[c]
                      /\ checkpoints'[c].temporary => reached'[c] = IF checkpoints'[c].live THEN 0 ELSE 1
    BY <2>1, <2>2 DEF Kept, checkpoint_decode_silent
  <2>3. CASE c \in S
    <3>1. checkpoints[c].live
      BY <2>3 DEF Live
    <3>2. /\ checkpoints'[c].hit_count = checkpoints[c].hit_count + 1
          /\ checkpoints'[c].live = (~ checkpoints[c].temporary)
          /\ checkpoints'[c].request = checkpoints[c].request
          /\ checkpoints'[c].silent = checkpoints[c].silent
          /\ checkpoints'[c].temporary = checkpoints[c].temporary
          /\ checkpoints'[c].stop = checkpoints[c].stop
      BY <2>1, <2>3, Counted
    <3>3. checkpoints[c].temporary => ~ checkpoints'[c].live
      BY <3>2, Zenon
    <3>4. reached'[c] = reached[c] + 1 /\ (checkpoints[c].temporary => reached[c] = 0)
      BY <2>1, <2>3, <3>1 DEF Kept
    <3>5. checkpoints'[c].temporary => reached'[c] = IF checkpoints'[c].live THEN 0 ELSE 1
      <4> SUFFICES ASSUME checkpoints'[c].temporary  PROVE reached'[c] = 1 /\ ~ checkpoints'[c].live
        OBVIOUS
      <4>1. checkpoints[c].temporary
        BY <3>2, Zenon
      <4> QED
        BY <3>3, <3>4, <4>1
    <3> QED
      BY <3>2, <3>4, <3>5 DEF Kept
  <2>4. CASE c \notin S
    BY <2>1, <2>4 DEF Kept
  <2> QED
    BY <2>3, <2>4
<1>4. CASE UNCHANGED vars
  BY <1>4 DEF Kept, checkpoint_decode_silent, vars
<1> QED
  BY <1>1, <1>2, <1>3, <1>4 DEF Next

\* A reply is no event; each loud checkpoint reached adds one of its own.
LEMMA StepSpoken == TypeOK /\ Spoken /\ [Next]_vars => Spoken'
<1> SUFFICES ASSUME TypeOK, Spoken, [Next]_vars  PROVE Spoken'
  OBVIOUS
<1>0. /\ DOMAIN frames = 1..Len(frames) /\ Len(frames) \in Nat
      /\ \A c \in DOMAIN checkpoints : checkpoints[c] \in Checkpoint /\ reached[c] \in Nat
      /\ DOMAIN checkpoints = 1..Len(checkpoints) /\ Len(checkpoints) \in Nat
  BY DEF TypeOK
<1>1. ASSUME NEW r \in Requests, Send(r)  PROVE Spoken'
  BY <1>1 DEF Spoken, EventsOf, Event, Send
<1>2. CASE monitor_binary_process_command
  <2> DEFINE r == sent[served + 1]
             n == Len(frames) + 1
  <2>1. /\ DOMAIN frames' = 1..n
        /\ \A k \in DOMAIN frames : frames'[k] = frames[k]
        /\ frames'[n].id # 0
    <3>1. PICK e \in Errors : Reply(e)
      BY <1>2, Replied
    <3>2. /\ frames' \in Seq(Frame) /\ Len(frames') = n
          /\ \A k \in DOMAIN frames : frames'[k] = frames[k]
          /\ frames'[n] = [id |-> served + 1, error |-> e]
      BY <3>1, ReplyFrame
    <3> QED
      BY <3>2 DEF TypeOK
  <2>2. \A c : EventsAt(c)' = EventsAt(c)
    BY <1>0, <2>1 DEF EventsAt, Event
  <2>3. \A c : EventsOf(c)' = EventsOf(c)
    BY <2>2 DEF EventsOf, EventsAt
  <2>4. \A k \in DOMAIN frames' : frames'[k].id = 0 => frames'[k].checknum \in DOMAIN checkpoints
    BY <1>0, <2>1 DEF Spoken
  <2>5. sent' = sent /\ served < Len(sent) /\ r \in Requests
    BY <1>2, Handled DEF monitor_binary_process_command
  <2>6. CASE UNCHANGED <<checkpoints, reached>>
    BY <2>3, <2>4, <2>6 DEF Spoken
  <2>7. CASE CheckpointSet(r) /\ r.length >= 8
    <3> HIDE DEF r
    <3> DEFINE m == Len(checkpoints) + 1
    <3>1. /\ checkpoints' \in Seq(Checkpoint) /\ Len(checkpoints') = m /\ reached'[m] = 0
          /\ \A c \in DOMAIN checkpoints :
                checkpoints'[c] = checkpoints[c] /\ reached'[c] = reached[c]
      BY <2>5, <2>7, NewCheckpoint, Zenon
    <3>2. DOMAIN checkpoints' = 1..m
      BY <3>1
    <3>3. EventsAt(m) = {}
      BY <1>0 DEF Spoken, EventsAt, Event
    <3>4. EventsOf(m) = 0
      BY <3>3, FS_EmptySet DEF EventsOf, EventsAt
    <3>5. ASSUME NEW c \in DOMAIN checkpoints'
          PROVE  EventsOf(c)' = IF checkpoints'[c].silent = 1 THEN 0 ELSE reached'[c]
      <4>1. CASE c = m
        BY <2>3, <3>1, <3>4, <4>1
      <4>2. CASE c \in DOMAIN checkpoints
        BY <2>3, <3>1, <4>2 DEF Spoken
      <4> QED
        BY <1>0, <3>2, <4>1, <4>2
    <3>6. DOMAIN checkpoints \subseteq DOMAIN checkpoints'
      BY <1>0, <3>2
    <3> QED
      BY <2>4, <3>5, <3>6 DEF Spoken
  <2> QED
    BY <1>2, <2>6, <2>7, Handled, AttachKeepsDrives
<1>3. ASSUME NEW S \in SUBSET Live, Reach(S)  PROVE Spoken'
  <2> DEFINE loud == {c \in S : checkpoints[c].silent = 0}
  <2>1. /\ DOMAIN checkpoints' = DOMAIN checkpoints
        /\ \A c \in DOMAIN checkpoints :
              /\ checkpoints'[c].silent = checkpoints[c].silent
              /\ reached'[c] = IF c \in S THEN reached[c] + 1 ELSE reached[c]
    <3>1. /\ checkpoints' \in Seq(Checkpoint) /\ Len(checkpoints') = Len(checkpoints)
          /\ \A c \in DOMAIN checkpoints :
                /\ checkpoints'[c] = IF c \in S THEN Count(c) ELSE checkpoints[c]
                /\ reached'[c] = IF c \in S THEN reached[c] + 1 ELSE reached[c]
      BY <1>3, ReachedCheckpoints
    <3>2. \A c \in DOMAIN checkpoints : checkpoints'[c].silent = checkpoints[c].silent
      BY <3>1, Counted
    <3> QED
      BY <1>0, <3>1, <3>2
  <2>2. Report(loud) /\ loud \in SUBSET DOMAIN checkpoints
    BY <1>3, ReachedCheckpoints DEF Reach, HitAll
  <2>3. \A k \in DOMAIN frames' : frames'[k].id = 0 => frames'[k].checknum \in DOMAIN checkpoints
    <3>1. /\ \A k \in DOMAIN frames : frames'[k] = frames[k]
          /\ \A k \in DOMAIN frames' :
                k > Len(frames) => \E c \in DOMAIN checkpoints : frames'[k] = Event(c)
          /\ DOMAIN frames' \subseteq Nat \ {0}
      BY <1>3, ReachFrames
    <3> QED
      BY <1>0, <3>1 DEF Spoken, Event
  <2> HIDE DEF loud
  <2> DEFINE n == Cardinality(loud)
  <2>4. PICK order \in [1..n -> loud] :
            /\ n \in Nat
            /\ frames' \in Seq(Frame)
            /\ Len(frames') = Len(frames) + n
            /\ \A k \in DOMAIN frames : frames'[k] = frames[k]
            /\ \A i \in 1..n : frames'[Len(frames) + i] = Event(order[i])
            /\ \A c \in loud : \E i \in 1..n : order[i] = c
            /\ \A i, j \in 1..n : order[i] = order[j] => i = j
    BY <2>2, ReportFrames
  <2> HIDE DEF n
  <2>5. /\ DOMAIN frames' = 1..(Len(frames) + n)
        /\ \A k \in DOMAIN frames' :
              \/ k \in DOMAIN frames /\ frames'[k] = frames[k]
              \/ k \notin DOMAIN frames /\ \E i \in 1..n : k = Len(frames) + i
    <3>1. DOMAIN frames' = 1..(Len(frames) + n)
      BY <2>4
    <3>2. ASSUME NEW k \in DOMAIN frames', k \notin DOMAIN frames
          PROVE  \E i \in 1..n : k = Len(frames) + i
      <4>1. k - Len(frames) \in 1..n /\ k = Len(frames) + (k - Len(frames))
        BY <1>0, <2>4, <3>1, <3>2
      <4> QED
        BY <4>1
    <3> QED
      BY <2>4, <3>1, <3>2
  <2>6. ASSUME NEW c \in DOMAIN checkpoints
        PROVE  EventsOf(c)' = IF checkpoints'[c].silent = 1 THEN 0 ELSE reached'[c]
    <3>1. EventsOf(c) = IF checkpoints[c].silent = 1 THEN 0 ELSE reached[c]
      BY DEF Spoken
    <3>2. EventsOf(c) = Cardinality(EventsAt(c)) /\ EventsOf(c)' = Cardinality(EventsAt(c)')
      BY DEF EventsOf, EventsAt
    <3>3. \A i \in 1..n : Event(order[i]) = Event(c) <=> order[i] = c
      BY DEF Event
    <3>4. CASE c \in loud
      <4>1. PICK i \in 1..n : order[i] = c
        BY <2>4, <3>4
      <4>2. \A j \in 1..n : order[j] = c <=> j = i
        BY <2>4, <4>1
      <4>3. Len(frames) + i \in DOMAIN frames' /\ Len(frames) + i \notin DOMAIN frames
        BY <1>0, <2>4, <2>5
      <4>4. frames'[Len(frames) + i] = Event(c)
        BY <2>4, <4>1
      <4>5. ASSUME NEW k \in DOMAIN frames', frames'[k] = Event(c), k \notin DOMAIN frames
            PROVE  k = Len(frames) + i
        <5>1. PICK j \in 1..n : k = Len(frames) + j
          BY <2>5, <4>5
        <5>2. frames'[k] = Event(order[j])
          BY <2>4, <5>1
        <5> QED
          BY <3>3, <4>2, <4>5, <5>1, <5>2
      <4>6. DOMAIN frames \subseteq DOMAIN frames'
        BY <1>0, <2>4, <2>5
      <4>7. EventsAt(c)' = EventsAt(c) \cup {Len(frames) + i}
        BY <2>4, <4>3, <4>4, <4>5, <4>6 DEF EventsAt, Event
      <4>8. IsFiniteSet(EventsAt(c)) /\ Len(frames) + i \notin EventsAt(c)
        <5>1. IsFiniteSet(DOMAIN frames)
          <6>1. DOMAIN frames = 1..Len(frames) /\ 1 \in Int /\ Len(frames) \in Int
            BY <1>0
          <6> QED
            BY <6>1, FS_Interval, Zenon
        <5>2. EventsAt(c) \in SUBSET DOMAIN frames
          BY DEF EventsAt
        <5>3. IsFiniteSet(EventsAt(c))
          BY <5>1, <5>2, FS_Subset
        <5> QED
          BY <4>3, <5>2, <5>3
      <4>9. EventsOf(c)' = EventsOf(c) + 1
        <5>1. Cardinality(EventsAt(c) \cup {Len(frames) + i}) = Cardinality(EventsAt(c)) + 1
          BY <4>8, FS_AddElement
        <5> QED
          BY <3>2, <4>7, <5>1
      <4> QED
        BY <2>1, <3>1, <3>4, <4>9 DEF loud
    <3>5. CASE c \notin loud
      <4>1. \A i \in 1..n : order[i] # c
        BY <2>4, <3>5
      <4>2. ASSUME NEW k \in DOMAIN frames', frames'[k] = Event(c), k \notin DOMAIN frames
            PROVE  FALSE
        <5>1. PICK j \in 1..n : k = Len(frames) + j
          BY <2>5, <4>2
        <5>2. frames'[k] = Event(order[j])
          BY <2>4, <5>1
        <5> QED
          BY <3>3, <4>1, <4>2, <5>1, <5>2
      <4>3. DOMAIN frames \subseteq DOMAIN frames'
        BY <1>0, <2>4, <2>5
      <4>4. EventsAt(c)' = EventsAt(c)
        BY <2>4, <4>2, <4>3 DEF EventsAt, Event
      <4>5. checkpoints[c].silent = 1 \/ c \notin S
        BY <1>0, <3>5 DEF loud, Checkpoint
      <4> QED
        BY <2>1, <3>1, <3>2, <4>4, <4>5
    <3> QED
      BY <3>4, <3>5
  <2> QED
    BY <2>1, <2>3, <2>6 DEF Spoken
<1>4. CASE UNCHANGED vars
  BY <1>4 DEF Spoken, EventsOf, Event, vars
<1> QED
  BY <1>1, <1>2, <1>3, <1>4 DEF Next

----------------------------------------------------------------------------
(* Stopping.                                                               *)

\* A stopping checkpoint was reached no oftener than the CPU was set going since.
Stopped ==
    \A c \in DOMAIN checkpoints : checkpoints[c].stop =>
       reached[c] <= Cardinality(ExitsSince(checkpoints[c].request)) + (IF running THEN 0 ELSE 1)

\* The EXITs served are finitely many.
LEMMA ExitsFinite ==
  ASSUME TypeOK, NEW i
  PROVE  IsFiniteSet(ExitsSince(i)) /\ Cardinality(ExitsSince(i)) \in Nat
<1>1. ExitsSince(i) \in SUBSET (1..served)
  BY DEF ExitsSince
<1>2. IsFiniteSet(1..served)
  BY FS_Interval DEF TypeOK
<1> QED
  BY <1>1, <1>2, FS_Subset, FS_CardinalityType

\* Serving a request adds it to the EXITs if it is one.
LEMMA ExitServed ==
  ASSUME TypeOK, monitor_binary_process_command, NEW i \in 1..served
  PROVE  Cardinality(ExitsSince(i)') = IF sent[served + 1].cmd = "EXIT"
                                       THEN Cardinality(ExitsSince(i)) + 1
                                       ELSE Cardinality(ExitsSince(i))
<1>1. sent' = sent /\ served' = served + 1 /\ served \in Nat
  BY DEF monitor_binary_process_command, TypeOK
<1>2. ExitsSince(i)' = {j \in 1..(served + 1) : j > i /\ sent[j].cmd = "EXIT"}
  BY <1>1 DEF ExitsSince
<1>3. 1..(served + 1) = 1..served \cup {served + 1} /\ served + 1 \notin 1..served /\ served + 1 > i
  BY <1>1
<1>4. served + 1 \notin ExitsSince(i)
  BY <1>3 DEF ExitsSince
<1>5. CASE sent[served + 1].cmd = "EXIT"
  <2>1. ExitsSince(i)' = ExitsSince(i) \cup {served + 1}
    BY <1>2, <1>3, <1>5 DEF ExitsSince
  <2>2. Cardinality(ExitsSince(i) \cup {served + 1}) = Cardinality(ExitsSince(i)) + 1
    BY <1>4, ExitsFinite, FS_AddElement
  <2> QED
    BY <1>5, <2>1, <2>2
<1>6. CASE sent[served + 1].cmd # "EXIT"
  <2>1. ExitsSince(i)' = ExitsSince(i)
    BY <1>2, <1>3, <1>6 DEF ExitsSince
  <2> QED
    BY <1>6, <2>1
<1> QED
  BY <1>5, <1>6

\* Only EXIT sets the CPU going, and a stopping checkpoint is reached by a CPU that
\* runs and leaves one that does not.
LEMMA StepStopped == TypeOK /\ Stopped /\ [Next]_vars => Stopped'
<1> SUFFICES ASSUME TypeOK, Stopped, [Next]_vars  PROVE Stopped'
  OBVIOUS
<1>0. /\ DOMAIN checkpoints = 1..Len(checkpoints) /\ Len(checkpoints) \in Nat
      /\ \A c \in DOMAIN checkpoints : /\ checkpoints[c].request \in 1..served
                                       /\ reached[c] \in Nat /\ checkpoints[c] \in Checkpoint
      /\ \A i : Cardinality(ExitsSince(i)) \in Nat
  BY ExitsFinite DEF TypeOK
<1>1. ASSUME NEW r \in Requests, Send(r)  PROVE Stopped'
  <2>1. \A i \in 1..served : sent'[i] = sent[i]
    BY <1>1 DEF TypeOK, Send
  <2>2. \A i : ExitsSince(i)' = ExitsSince(i)
    BY <1>1, <2>1 DEF ExitsSince, Send
  <2> QED
    BY <1>1, <2>2 DEF Stopped, Send
<1>2. CASE monitor_binary_process_command
  <2> DEFINE r == sent[served + 1]
  <2>1. r \in Requests /\ served < Len(sent)
    BY <1>2, Handled DEF monitor_binary_process_command
  <2>2. ASSUME NEW c \in DOMAIN checkpoints, checkpoints[c].stop,
               NEW i \in 1..served, i = checkpoints[c].request
        PROVE  reached[c] <= Cardinality(ExitsSince(i)') + (IF running' THEN 0 ELSE 1)
    <3>1. reached[c] <= Cardinality(ExitsSince(i)) + (IF running THEN 0 ELSE 1)
      BY <2>2 DEF Stopped
    <3>2. Cardinality(ExitsSince(i)') = IF r.cmd = "EXIT" THEN Cardinality(ExitsSince(i)) + 1
                                        ELSE Cardinality(ExitsSince(i))
      BY <1>2, ExitServed
    <3>3. IF r.cmd = "EXIT" THEN running' = TRUE ELSE running' = running
      BY <1>2, Handled
    <3> QED
      BY <1>0, <3>1, <3>2, <3>3
  <2>3. CASE UNCHANGED <<checkpoints, reached>>
    BY <1>0, <2>2, <2>3 DEF Stopped
  <2>4. CASE CheckpointSet(r) /\ r.length >= 8
    <3> HIDE DEF r
    <3> DEFINE m == Len(checkpoints) + 1
    <3>1. /\ checkpoints' \in Seq(Checkpoint) /\ Len(checkpoints') = m /\ reached'[m] = 0
          /\ \A c \in DOMAIN checkpoints :
                checkpoints'[c] = checkpoints[c] /\ reached'[c] = reached[c]
      BY <2>1, <2>4, NewCheckpoint, Zenon
    <3>2. \A c \in DOMAIN checkpoints' : c = m \/ c \in DOMAIN checkpoints
      BY <1>0, <3>1
    <3>3. ASSUME NEW i  PROVE Cardinality(ExitsSince(i)') \in Nat
      <4>1. ExitsSince(i)' \in SUBSET (1..served') /\ served' \in Nat
        BY StepTypeOK DEF ExitsSince, TypeOK
      <4>2. IsFiniteSet(1..served')
        BY <4>1, FS_Interval
      <4> QED
        BY <4>1, <4>2, FS_Subset, FS_CardinalityType
    <3>4. ASSUME NEW c \in DOMAIN checkpoints', checkpoints'[c].stop,
                 NEW i, i = checkpoints'[c].request
          PROVE  reached'[c] <= Cardinality(ExitsSince(i)') + (IF running' THEN 0 ELSE 1)
      <4>1. CASE c = m
        BY <3>1, <3>3, <4>1
      <4>2. CASE c \in DOMAIN checkpoints
        BY <1>0, <2>2, <3>1, <3>4, <4>2
      <4> QED
        BY <3>2, <4>1, <4>2
    <3> QED
      BY <3>4 DEF Stopped
  <2> QED
    BY <1>2, <2>3, <2>4, Handled, AttachKeepsDrives
<1>3. ASSUME NEW S \in SUBSET Live, Reach(S)  PROVE Stopped'
  <2>1. /\ S \in SUBSET DOMAIN checkpoints
        /\ DOMAIN checkpoints' = DOMAIN checkpoints
        /\ \A c \in DOMAIN checkpoints :
              /\ checkpoints'[c] = IF c \in S THEN Count(c) ELSE checkpoints[c]
              /\ reached'[c] = IF c \in S THEN reached[c] + 1 ELSE reached[c]
    BY <1>3, ReachedCheckpoints DEF TypeOK
  <2>2. running /\ running' = (~ \E c \in S : checkpoints[c].stop)
    BY <1>3 DEF Reach, HitAll
  <2>3. \A i : ExitsSince(i)' = ExitsSince(i)
    BY <1>3 DEF Reach, ExitsSince
  <2>4. ASSUME NEW c \in DOMAIN checkpoints
        PROVE  checkpoints'[c].stop = checkpoints[c].stop
               /\ checkpoints'[c].request = checkpoints[c].request
    BY <2>1, <2>4, Counted
  <2>5. ASSUME NEW c \in DOMAIN checkpoints, checkpoints[c].stop
        PROVE  reached'[c] <= Cardinality(ExitsSince(checkpoints[c].request))
                              + (IF running' THEN 0 ELSE 1)
    <3>1. reached[c] <= Cardinality(ExitsSince(checkpoints[c].request))
      BY <1>0, <2>2, <2>5 DEF Stopped
    <3>2. CASE c \in S
      <4>1. ~ running'
        BY <2>2, <2>5, <3>2
      <4> QED
        BY <1>0, <2>1, <3>1, <3>2, <4>1
    <3>3. CASE c \notin S
      BY <1>0, <2>1, <3>1, <3>3
    <3> QED
      BY <3>2, <3>3
  <2> QED
    BY <2>1, <2>3, <2>4, <2>5 DEF Stopped
<1>4. CASE UNCHANGED vars
  BY <1>4 DEF Stopped, ExitsSince, vars
<1> QED
  BY <1>1, <1>2, <1>3, <1>4 DEF Next

----------------------------------------------------------------------------
(* Drives.                                                                 *)

\* The frame with a request's id is the only one.
LEMMA OneFrame ==
  ASSUME NEW fs \in Seq(Frame), NEW k \in DOMAIN fs, fs[k].id # 0,
         \A j, l \in DOMAIN fs : j < l /\ fs[j].id # 0 /\ fs[l].id # 0 => fs[j].id < fs[l].id
  PROVE  (CHOOSE l \in DOMAIN fs : fs[l].id = fs[k].id) = k
<1>1. \A l \in DOMAIN fs : l \in Nat /\ fs[l].id \in Nat
  BY DEF Frame
<1>2. ASSUME NEW l \in DOMAIN fs, fs[l].id = fs[k].id  PROVE l = k
  <2>1. ~ l < k /\ ~ k < l
    BY <1>1, <1>2
  <2> QED
    BY <1>1, <2>1
<1> QED
  BY <1>2

\* While frames are only added, the answers stay.
LEMMA AnswersStay ==
  ASSUME TypeOK, AnsweredInOrder, TypeOK', AnsweredInOrder',
         DOMAIN frames \subseteq DOMAIN frames', \A k \in DOMAIN frames : frames'[k] = frames[k],
         NEW i \in 1..served
  PROVE  Answer(i)' = Answer(i)
<1>1. PICK k \in DOMAIN frames : frames[k].id = i
  BY DEF AnsweredInOrder
<1>2. i # 0
  BY DEF TypeOK
<1>3. Answer(i) = frames[k].error
  <2>1. frames \in Seq(Frame) /\ frames[k].id # 0
    BY <1>1, <1>2 DEF TypeOK
  <2>2. (CHOOSE l \in DOMAIN frames : frames[l].id = frames[k].id) = k
    BY <2>1, OneFrame DEF AnsweredInOrder
  <2> QED
    BY <1>1, <2>2 DEF Answer
<1>4. frames' \in Seq(Frame) /\ k \in DOMAIN frames' /\ frames'[k].id = i
  BY <1>1 DEF TypeOK
<1>5. (CHOOSE l \in DOMAIN frames' : frames'[l].id = frames'[k].id) = k
  BY <1>2, <1>4, OneFrame DEF AnsweredInOrder
<1>6. Answer(i)' = frames'[k].error
  BY <1>4, <1>5 DEF Answer
<1> QED
  BY <1>1, <1>3, <1>6

\* The request served last is answered as the handler replied.
LEMMA LastAnswer ==
  ASSUME TypeOK, TypeOK', AnsweredInOrder', NEW e \in Errors, Reply(e),
         NEW i, i = served + 1
  PROVE  Answer(i)' = e
<1> DEFINE n == Len(frames) + 1
<1>1. /\ frames' \in Seq(Frame) /\ Len(frames') = n
      /\ frames'[n] = [id |-> served + 1, error |-> e]
  BY ReplyFrame
<1>2. n \in DOMAIN frames' /\ frames'[n].id = i /\ frames'[n].error = e /\ i # 0
  BY <1>1 DEF TypeOK
<1> HIDE DEF n
<1>3. (CHOOSE l \in DOMAIN frames' : frames'[l].id = frames'[n].id) = n
  BY <1>1, <1>2, OneFrame DEF AnsweredInOrder
<1> QED
  BY <1>2, <1>3 DEF Answer

\* Of the requests that succeeded there is a last one.
LastOk == \A s \in Slots : Oks(s) # {} => Max(Oks(s)) \in Oks(s)

\* What is believed of a drive depends on those and on nothing else.
LEMMA BelievedOf ==
  \A s : /\ Believed(s) = IF Oks(s) = {} \/ sent[Max(Oks(s))].path_len = 0
                          THEN NoImage ELSE sent[Max(Oks(s))].path
         /\ Believed(s)' = IF Oks(s)' = {} \/ sent'[Max(Oks(s)')].path_len = 0
                           THEN NoImage ELSE sent'[Max(Oks(s)')].path
BY DEF Believed, Oks

\* The last request served is the greatest.
LEMMA NewMax ==
  ASSUME NEW n \in Nat, NEW S \in SUBSET (1..(n - 1))
  PROVE  Max(S \cup {n}) = n
<1>1. \A x \in S \cup {n} : x \in Nat /\ n >= x
  OBVIOUS
<1>2. \A x \in S \cup {n} : (\A y \in S \cup {n} : x >= y) => x = n
  BY <1>1
<1> QED
  BY <1>1, <1>2 DEF Max

\* What a served request adds to what a client knows of a drive.
LEMMA Bookkeeping ==
  ASSUME TypeOK, AnsweredInOrder, TypeOK', AnsweredInOrder', monitor_binary_process_command,
         NEW e \in Errors, Reply(e), NEW s, NEW n, n = served + 1
  PROVE  LET mine == sent[n].cmd = "DRIVE_ATTACH" /\ Slot(sent[n]) = s IN
         /\ \A i \in 1..served : Answer(i)' = Answer(i)
         /\ Answer(n)' = e
         /\ About(s)' = IF mine /\ e \in {"OK", "CMD_FAILURE"} THEN About(s) \cup {n} ELSE About(s)
         /\ Oks(s)' = IF mine /\ e = "OK" THEN Oks(s) \cup {n} ELSE Oks(s)
<1> DEFINE mine == sent[n].cmd = "DRIVE_ATTACH" /\ Slot(sent[n]) = s
<1>1. \A i \in 1..served : Answer(i)' = Answer(i)
  <2>1. DOMAIN frames \subseteq DOMAIN frames' /\ \A k \in DOMAIN frames : frames'[k] = frames[k]
    <3>1. /\ frames' \in Seq(Frame) /\ Len(frames') = Len(frames) + 1
          /\ \A k \in DOMAIN frames : frames'[k] = frames[k]
      BY ReplyFrame
    <3> QED
      BY <3>1 DEF TypeOK
  <2> QED
    BY <2>1, AnswersStay
<1>2. Answer(n)' = e
  BY LastAnswer
<1>3. sent' = sent /\ served' = n /\ served \in Nat /\ 1..n = 1..served \cup {n} /\ n \notin 1..served
  BY DEF monitor_binary_process_command, TypeOK
<1>4. About(s)' = {i \in 1..n : sent[i].cmd = "DRIVE_ATTACH" /\ Slot(sent[i]) = s
                                /\ Answer(i)' \in {"OK", "CMD_FAILURE"}}
  BY <1>3 DEF About, Slot
<1>5. Oks(s)' = {i \in About(s)' : Answer(i)' = "OK"}
  BY DEF Oks
<1>6. About(s)' = IF mine /\ e \in {"OK", "CMD_FAILURE"} THEN About(s) \cup {n} ELSE About(s)
  BY <1>1, <1>2, <1>3, <1>4 DEF About
<1>7. About(s) \subseteq 1..served
  BY DEF About
<1>8. Oks(s)' = IF mine /\ e = "OK" THEN Oks(s) \cup {n} ELSE Oks(s)
  BY <1>1, <1>2, <1>3, <1>5, <1>6, <1>7 DEF Oks
<1> QED
  BY <1>1, <1>2, <1>6, <1>8

\* A request that was not for a drive, or was turned down, leaves what is believed of it.
LEMMA BelievedStays ==
  ASSUME NEW s, Oks(s)' = Oks(s), sent' = sent
  PROVE  Believed(s)' = Believed(s)
BY BelievedOf, Zenon

\* A success is what is believed from then on.
LEMMA BelievedNew ==
  ASSUME TypeOK, NEW s, NEW n, n = served + 1, Oks(s)' = Oks(s) \cup {n}, sent' = sent
  PROVE  /\ Believed(s)' = IF sent[n].path_len = 0 THEN NoImage ELSE sent[n].path
         /\ Max(Oks(s)') = n
<1>1. n \in Nat /\ n - 1 = served
  BY DEF TypeOK
<1>2. Oks(s) \in SUBSET (1..(n - 1))
  BY <1>1 DEF Oks, About
<1>3. Max(Oks(s)') = n
  BY <1>1, <1>2, NewMax
<1>4. Believed(s)' = IF Oks(s)' = {} \/ sent'[Max(Oks(s)')].path_len = 0
                     THEN NoImage ELSE sent'[Max(Oks(s)')].path
  BY BelievedOf, Zenon
<1> QED
  BY <1>3, <1>4

\* A drive is touched by the requests for it, and each leaves what its answer says.
LEMMA StepSlots ==
    TypeOK /\ AnsweredInOrder /\ SlotsAsReplied /\ LastOk
    /\ TypeOK' /\ AnsweredInOrder' /\ [Next]_vars => SlotsAsReplied' /\ LastOk'
<1> SUFFICES ASSUME TypeOK, AnsweredInOrder, SlotsAsReplied, LastOk,
                    TypeOK', AnsweredInOrder', [Next]_vars
             PROVE  SlotsAsReplied' /\ LastOk'
  OBVIOUS
<1>1. ASSUME DOMAIN frames \subseteq DOMAIN frames',
             \A k \in DOMAIN frames : frames'[k] = frames[k],
             served' = served, slots' = slots,
             \A i \in 1..served : sent'[i] = sent[i]
      PROVE  SlotsAsReplied' /\ LastOk'
  <2>1. \A i \in 1..served : Answer(i)' = Answer(i)
    BY <1>1, AnswersStay
  <2>2. ASSUME NEW s \in Slots  PROVE About(s)' = About(s) /\ Oks(s)' = Oks(s)
    <3>1. About(s)' = {i \in 1..served : sent'[i].cmd = "DRIVE_ATTACH" /\ Slot(sent'[i]) = s
                                         /\ Answer(i)' \in {"OK", "CMD_FAILURE"}}
      BY <1>1 DEF About, Slot
    <3>2. About(s)' = About(s)
      BY <1>1, <2>1, <3>1 DEF About, Slot
    <3>3. Oks(s)' = {i \in About(s)' : Answer(i)' = "OK"}
      BY DEF Oks
    <3> QED
      BY <2>1, <3>2, <3>3 DEF Oks, About
  <2>3. LastOk'
    BY <2>2 DEF LastOk
  <2>4. ASSUME NEW s \in Slots  PROVE Believed(s)' = Believed(s)
    <3>1. Oks(s)' = Oks(s)
      BY <2>2, <2>4
    <3>2. Oks(s) # {} => sent'[Max(Oks(s))] = sent[Max(Oks(s))]
      BY <1>1, <2>4 DEF LastOk, Oks, About
    <3>3. /\ Believed(s) = IF Oks(s) = {} \/ sent[Max(Oks(s))].path_len = 0
                           THEN NoImage ELSE sent[Max(Oks(s))].path
          /\ Believed(s)' = IF Oks(s) = {} \/ sent'[Max(Oks(s))].path_len = 0
                            THEN NoImage ELSE sent'[Max(Oks(s))].path
      BY <3>1, BelievedOf, Zenon
    <3> QED
      BY <3>2, <3>3
  <2>5. \A i \in 1..served' : sent'[i].cmd = "DRIVE_ATTACH" =>
           (Answer(i)' \in {"OK", "CMD_FAILURE"} <=> Whole(sent'[i]) /\ Slot(sent'[i]) \in Slots)
    BY <1>1, <2>1 DEF SlotsAsReplied, Slot, Whole
  <2>6. \A s \in Slots :
           \/ slots'[s] = Believed(s)'
           \/ EmptiedSince(s)'
    BY <1>1, <2>1, <2>2, <2>4 DEF SlotsAsReplied, EmptiedSince, About
  <2> QED
    BY <2>3, <2>5, <2>6 DEF SlotsAsReplied, EmptiedSince, Slot, Whole
<1>2. ASSUME NEW r \in Requests, Send(r)  PROVE SlotsAsReplied' /\ LastOk'
  <2>1. \A i \in 1..served : sent'[i] = sent[i]
    BY <1>2 DEF TypeOK, Send
  <2>2. frames' = frames /\ served' = served /\ slots' = slots
    BY <1>2 DEF Send
  <2> QED
    BY <1>1, <2>1, <2>2
<1>3. ASSUME NEW S \in SUBSET Live, Reach(S)  PROVE SlotsAsReplied' /\ LastOk'
  <2>1. /\ frames' \in Seq(Frame) /\ Len(frames') >= Len(frames)
        /\ \A k \in DOMAIN frames : frames'[k] = frames[k]
    BY <1>3, ReachFrames
  <2>2. DOMAIN frames \subseteq DOMAIN frames'
    BY <2>1 DEF TypeOK
  <2>3. sent' = sent /\ served' = served /\ slots' = slots
    BY <1>3 DEF Reach
  <2> QED
    BY <1>1, <2>1, <2>2, <2>3
<1>4. CASE UNCHANGED vars
  <2>1. frames' = frames /\ served' = served /\ slots' = slots /\ sent' = sent
    BY <1>4 DEF vars
  <2>2. /\ DOMAIN frames \subseteq DOMAIN frames'
        /\ \A k \in DOMAIN frames : frames'[k] = frames[k]
        /\ \A i \in 1..served : sent'[i] = sent[i]
    BY <2>1
  <2> QED
    BY <1>1, <2>1, <2>2
<1>5. ASSUME monitor_binary_process_command  PROVE SlotsAsReplied' /\ LastOk'
  <2> PICK n : n = served + 1
    OBVIOUS
  <2> DEFINE r == sent[n]
  <2>1. sent' = sent /\ served' = n /\ served \in Nat /\ 1..n = 1..served \cup {n} /\ n \notin 1..served
    <3>1. sent' = sent /\ served' = n /\ served \in Nat
      BY <1>5 DEF monitor_binary_process_command, TypeOK
    <3> QED
      BY <3>1
  <2> DEFINE Outcome(e) ==
               /\ Reply(e)
               /\ r.cmd = "DRIVE_ATTACH" /\ e = "OK" =>
                     /\ Slot(r) \in Slots
                     /\ slots' = [slots EXCEPT ![Slot(r)] =
                                    IF r.path_len = 0 THEN NoImage ELSE r.path]
               /\ r.cmd = "DRIVE_ATTACH" /\ e = "CMD_FAILURE" =>
                     slots' \in {slots, [slots EXCEPT ![Slot(r)] = NoImage]}
               /\ r.cmd = "DRIVE_ATTACH" =>
                     (e \in {"OK", "CMD_FAILURE"} <=> Whole(r) /\ Slot(r) \in Slots)
               /\ r.cmd # "DRIVE_ATTACH" \/ e \notin {"OK", "CMD_FAILURE"} => slots' = slots
  <2>2. PICK e \in Errors : Outcome(e)
    <3>1. r \in Requests /\ served < Len(sent)
      BY <1>5, Handled DEF monitor_binary_process_command
    <3>2. CASE r.cmd # "DRIVE_ATTACH"
      <4>1. PICK e \in Errors : Reply(e)
        BY <1>5, Replied
      <4>2. slots' = slots
        BY <1>5, <3>2, Handled DEF DriveAttach
      <4> QED
        BY <3>2, <4>1, <4>2
    <3>3. CASE r.cmd = "DRIVE_ATTACH"
      <4>1. DriveAttach(r)
        BY <1>5, <3>3, Handled DEF CheckpointSet
      <4>2. r.path_len \in Nat
        BY <3>1, <3>3, RequestsAssumption
      <4>3. da_decode(r) = "DA_OK" <=> Whole(r) /\ Slot(r) \in Slots
        <5>1. r.length \in Nat
          BY <3>1, <3>3, RequestsAssumption
        <5> QED
          BY <4>2, <5>1 DEF da_decode, Whole
      <4>4. CASE AttachRejected(r)
        <5>1. PICK e \in {"CMD_INVALID_LENGTH", "INVALID_PARAMETER"} : Reply(e)
          BY <4>4 DEF AttachRejected
        <5>2. Outcome(e)
          BY <3>3, <4>3, <4>4, <5>1 DEF AttachRejected
        <5> QED
          BY <5>2 DEF Errors
      <4>5. CASE Detach(r) \/ Attach(r)
        <5>1. Whole(r) /\ Slot(r) \in Slots
          BY <4>3, <4>5 DEF Detach, Attach
        <5>2. Outcome("OK")
          BY <3>3, <4>2, <4>5, <5>1 DEF Detach, Attach
        <5> QED
          BY <5>2 DEF Errors
      <4>6. CASE AttachFails(r)
        <5>1. Outcome("CMD_FAILURE")
          BY <3>3, <4>3, <4>6 DEF AttachFails
        <5> QED
          BY <5>1 DEF Errors
      <4> QED
        BY <4>1, <4>4, <4>5, <4>6 DEF DriveAttach
    <3> QED
      BY <3>2, <3>3
  <2> HIDE DEF Outcome
  <2>3. Reply(e)
    BY <2>2 DEF Outcome
  <2> DEFINE mine(s) == r.cmd = "DRIVE_ATTACH" /\ Slot(r) = s
  <2>4. \A s : /\ \A i \in 1..served : Answer(i)' = Answer(i)
               /\ Answer(n)' = e
               /\ About(s)' = IF mine(s) /\ e \in {"OK", "CMD_FAILURE"}
                              THEN About(s) \cup {n} ELSE About(s)
               /\ Oks(s)' = IF mine(s) /\ e = "OK" THEN Oks(s) \cup {n} ELSE Oks(s)
    BY <1>5, <2>3, Bookkeeping
  <2> HIDE DEF r
  <2>5. LastOk'
    <3> SUFFICES ASSUME NEW s \in Slots, Oks(s)' # {}  PROVE Max(Oks(s)') \in Oks(s)'
      BY DEF LastOk
    <3>1. CASE mine(s) /\ e = "OK"
      BY <2>1, <2>4, <3>1, BelievedNew
    <3>2. CASE ~ (mine(s) /\ e = "OK")
      BY <2>4, <3>2 DEF LastOk
    <3> QED
      BY <3>1, <3>2
  <2>6. \A i \in 1..served' : sent'[i].cmd = "DRIVE_ATTACH" =>
           (Answer(i)' \in {"OK", "CMD_FAILURE"} <=> Whole(sent'[i]) /\ Slot(sent'[i]) \in Slots)
    BY <2>1, <2>2, <2>4 DEF SlotsAsReplied, Outcome, r
  <2>7. ASSUME NEW s \in Slots
        PROVE  \/ slots'[s] = Believed(s)'
               \/ EmptiedSince(s)'
    <3>0. s \in DOMAIN slots
      BY DEF TypeOK
    <3>1. CASE mine(s) /\ e = "OK"
      <4>1. Believed(s)' = IF r.path_len = 0 THEN NoImage ELSE r.path
        BY <2>1, <2>4, <3>1, BelievedNew DEF r
      <4> QED
        BY <2>2, <3>0, <3>1, <4>1 DEF Outcome
    <3>2. CASE mine(s) /\ e = "CMD_FAILURE"
      <4>1. Believed(s)' = Believed(s)
        BY <2>1, <2>4, <3>2, BelievedStays
      <4>2. n \in About(s)' /\ Answer(n)' = "CMD_FAILURE" /\ \A j \in Oks(s)' : j < n
        BY <2>1, <2>4, <3>2 DEF Oks, About
      <4>3. slots'[s] = slots[s] \/ slots'[s] = NoImage
        BY <2>2, <3>0, <3>2 DEF Outcome
      <4> QED
        BY <4>1, <4>2, <4>3 DEF SlotsAsReplied, EmptiedSince
    <3>3. CASE ~ (mine(s) /\ e \in {"OK", "CMD_FAILURE"})
      <4>1. Believed(s)' = Believed(s)
        BY <2>1, <2>4, <3>3, BelievedStays
      <4>2. About(s)' = About(s) /\ Oks(s)' = Oks(s) /\ About(s) \subseteq 1..served
        BY <2>4, <3>3 DEF About
      <4>3. slots'[s] = slots[s]
        BY <2>2, <3>0, <3>3 DEF Outcome
      <4> QED
        BY <2>4, <4>1, <4>2, <4>3 DEF SlotsAsReplied, EmptiedSince
    <3> QED
      BY <3>1, <3>2, <3>3
  <2> QED
    BY <2>5, <2>6, <2>7 DEF SlotsAsReplied, EmptiedSince, Slot, Whole
<1> QED
  BY <1>2, <1>3, <1>4, <1>5 DEF Next

----------------------------------------------------------------------------
(* The theorems.                                                           *)

Inv == TypeOK /\ AnsweredInOrder /\ Kept /\ Spoken /\ Stopped /\ SlotsAsReplied /\ LastOk

\* At start nothing was asked.
LEMMA InitInv == Init => Inv
<1> SUFFICES ASSUME Init  PROVE Inv
  OBVIOUS
<1> USE DEF Init
<1>1. TypeOK
  BY DEF TypeOK
<1>2. AnsweredInOrder /\ Kept /\ Spoken /\ Stopped
  BY DEF AnsweredInOrder, Kept, Spoken, Stopped
<1>3. \A s : About(s) = {} /\ Oks(s) = {}
  BY DEF About, Oks
<1>4. SlotsAsReplied
  BY <1>3, BelievedOf DEF SlotsAsReplied
<1>5. LastOk
  BY <1>3 DEF LastOk
<1> QED
  BY <1>1, <1>2, <1>4, <1>5 DEF Inv

\* Answers, drives and checkpoints together are an inductive invariant.
THEOREM Inductive == Spec => []Inv
<1>1. Inv /\ [Next]_vars => Inv'
  BY StepTypeOK, StepAnsweredInOrder, StepKept, StepSpoken, StepStopped, StepSlots DEF Inv
<1> QED
  BY <1>1, InitInv, PTL DEF Spec

\* The requests, the frames, the drives and the checkpoints keep their shape.
THEOREM TypeCorrect == Spec => []TypeOK
<1>1. Inv => TypeOK
  BY DEF Inv
<1> QED
  BY <1>1, Inductive, PTL

\* monitor_binary_response: every request served is answered once and in its turn,
\* whatever handler it met, and events do not break the count.
THEOREM AnswersPairUp == Spec => []AnsweredInOrder
<1>1. Inv => AnsweredInOrder
  BY DEF Inv
<1> QED
  BY <1>1, Inductive, PTL

\* DRIVE_ATTACH: after a success a drive holds the image asked for until the next
\* request for it, and is empty instead only if a later attach to it failed; a request
\* gets as far as VICE exactly when its body is whole and its drive there is.
THEOREM RepliesTellDrives == Spec => []SlotsAsReplied
<1>1. Inv => SlotsAsReplied
  BY DEF Inv
<1> QED
  BY <1>1, Inductive, PTL

\* mon_breakpoint_check_checkpoint: counts and events are true for every checkpoint,
\* silenced by a non-zero byte 9 or not, a temporary one is reached once, and a
\* stopping one at most once between two EXITs.
THEOREM CoverageIsTrue == Spec => []CoverageTrue
<1>1. Inv => CoverageTrue
  <2> SUFFICES ASSUME Inv, NEW c \in DOMAIN checkpoints
               PROVE  LET cp == checkpoints[c]
                          r == sent[cp.request]
                          silenced == r.length > 9 /\ r.silent # 0
                      IN /\ cp.hit_count = reached[c]
                         /\ EventsOf(c) = IF silenced THEN 0 ELSE reached[c]
                         /\ r.temporary => reached[c] <= 1
                         /\ r.stop => reached[c] <= Cardinality(ExitsSince(cp.request))
                                                     + (IF running THEN 0 ELSE 1)
    BY DEF CoverageTrue
  <2>1. sent[checkpoints[c].request] \in Requests
    BY DEF Inv, TypeOK
  <2> QED
    BY <2>1, DecodedSilent DEF Inv, Kept, Spoken, Stopped
<1> QED
  BY <1>1, Inductive, PTL
=============================================================================
