---------------------------- MODULE BustraceProofs ---------------------------
(***************************************************************************)
(* Bustrace, proved for every set of files and accesses and every sequence *)
(* of failures, kills and changes of the file name.                        *)
(***************************************************************************)
EXTENDS Bustrace, NaturalsInduction, WellFoundedInduction, TLAPS

(* Files and sequences.                                                    *)

\* A delta fits its field.
LEMMA RecordType ==
  ASSUME NEW last \in Nat, maincpu_clk \in Nat, NEW a \in Accesses
  PROVE  Record(last, a) \in Records /\ Record(last, a).access = a
<1>1. MaxDelta \in Nat
  BY BustraceAssumption
<1>2. Delta(last) \in 0..MaxDelta
  BY <1>1 DEF Delta
<1> QED
  BY <1>2 DEF Record, Records

\* One more access keeps a complete run of records complete.
LEMMA CompleteAppend ==
  ASSUME NEW S, NEW recs \in Seq(S), NEW T, NEW m \in Seq(T), Complete(recs, m),
         NEW r \in S, NEW x \in T, r.access = x.access
  PROVE  Complete(Append(recs, r), Append(m, x))
<1>1. Len(recs) = Len(m) /\ Len(recs) \in Nat /\ \A i \in DOMAIN m : recs[i].access = m[i].access
  BY DEF Complete
<1>2. Len(Append(recs, r)) = Len(recs) + 1 /\ Len(Append(m, x)) = Len(m) + 1
  OBVIOUS
<1>3. ASSUME NEW i \in DOMAIN Append(m, x)
      PROVE  Append(recs, r)[i].access = Append(m, x)[i].access
  <2>1. i \in 1..(Len(m) + 1)
    OBVIOUS
  <2>2. CASE i = Len(m) + 1
    BY <1>1, <2>2
  <2>3. CASE i # Len(m) + 1
    <3>1. i \in 1..Len(m) /\ i \in DOMAIN m
      BY <1>1, <2>1, <2>3
    <3>2. Append(recs, r)[i] = recs[i] /\ Append(m, x)[i] = m[i]
      BY <1>1, <3>1
    <3> QED
      BY <1>1, <3>1, <3>2
  <2> QED
    BY <2>2, <2>3
<1> QED
  BY <1>1, <1>2, <1>3 DEF Complete

\* The file a trace begins with.
LEMMA HeaderFacts ==
  ASSUME NEW o \in Outcomes
  PROVE  /\ IsFile(Header(o)) /\ Header(o).recs = << >> /\ Header(o).trailer = NoTrailer
         /\ o = "ok" => Header(o).header /\ ~Header(o).torn
<1>1. << >> \in Seq(Records)
  OBVIOUS
<1>2. IsTrailer(NoTrailer)
  BY DEF IsTrailer
<1> QED
  BY <1>1, <1>2 DEF Header, IsFile, Outcomes

\* What the write of a record does to a file.
LEMMA AddRecordFacts ==
  ASSUME NEW f, IsFile(f), NEW r \in Records, NEW o \in Outcomes
  PROVE  /\ IsFile(AddRecord(f, r, o)) /\ AddRecord(f, r, o).trailer = f.trailer
         /\ o = "ok" => /\ AddRecord(f, r, o).recs = Append(f.recs, r)
                        /\ f.header => AddRecord(f, r, o).header
                        /\ ~f.torn => ~AddRecord(f, r, o).torn
  BY DEF AddRecord, IsFile, Outcomes

\* What the write of a trailer does to a file.
LEMMA AddTrailerFacts ==
  ASSUME NEW f, IsFile(f), NEW t, IsTrailer(t), NEW o \in Outcomes
  PROVE  /\ IsFile(AddTrailer(f, t, o)) /\ AddTrailer(f, t, o).recs = f.recs
         /\ o # "ok" => AddTrailer(f, t, o).trailer = f.trailer
         /\ o = "ok" => /\ AddTrailer(f, t, o).trailer = t
                        /\ f.header => AddTrailer(f, t, o).header
                        /\ ~f.torn => ~AddTrailer(f, t, o).torn
  BY DEF AddTrailer, IsFile, Outcomes

\* What is left of a file is a file.
LEMMA CutFacts ==
  ASSUME NEW f, IsFile(f), NEW k \in Nat, k <= Len(f.recs), NEW t \in BOOLEAN
  PROVE  IsFile(Cut(f, k, t)) /\ Cut(f, k, t).trailer = f.trailer
<1>1. f.recs \in Seq(Records)
  BY DEF IsFile
<1>2. SubSeq(f.recs, 1, k) \in Seq(Records)
  BY <1>1
<1> QED
  BY <1>2 DEF Cut, IsFile
----------------------------------------------------------------------------
(* Each action keeps IInv.                                                 *)

\* The file a started trace writes to.
LEMMA OpenFile ==
  ASSUME IInv, bustrace_open = 1
  PROVE  /\ started /\ bustrace_fd \in Names
         /\ ctx = bustrace_fd /\ bustrace_filename = bustrace_fd
  BY DEF IInv, TypeOK, HandleCoherent

\* Steps that touch no trace.
LEMMA IdleKeeps ==
  ASSUME IInv, maincpu_clk' \in Nat, bustrace_open' \in {-1, 0},
         bustrace_filename' \in Names \cup {NoName}, bustrace_fd' = NoName,
         bustrace_open # 1, UNCHANGED <<core, files, made, spoiled>>
  PROVE  IInv'
<1>1. bustrace_fd = NoName /\ ~started
  BY DEF IInv, HandleCoherent
<1>2. TypeOK'
  BY DEF IInv, TypeOK, core, IsFile, IsTrailer
<1>3. HandleCoherent'
  BY <1>1 DEF IInv, HandleCoherent, core
<1>4. OpenTrace'
  BY DEF OpenTrace
<1>5. TrailersTrue'
  BY DEF IInv, TrailersTrue
<1>6. EndedIsValid'
  BY <1>1 DEF IInv, EndedIsValid, Validates
<1> QED
  BY <1>2, <1>3, <1>4, <1>5, <1>6 DEF IInv

\* A step that leaves everything but the clock.
LEMMA ClockKeeps ==
  ASSUME IInv, maincpu_clk' \in Nat, UNCHANGED <<adapter, core, files, made, spoiled>>
  PROVE  IInv'
<1>1. TypeOK'
  BY DEF IInv, TypeOK, adapter, core
<1>2. HandleCoherent' /\ OpenTrace' /\ TrailersTrue' /\ EndedIsValid'
  BY DEF IInv, HandleCoherent, OpenTrace, TrailersTrue, EndedIsValid, adapter, core
<1> QED
  BY <1>1, <1>2 DEF IInv

\* bustrace_observe_access on the first access: a new trace replaces the file.
LEMMA FirstKeeps ==
  ASSUME IInv, NEW a \in Accesses, NEW oh \in Outcomes, NEW or \in Outcomes,
         FirstAccess(a, oh, or), UNCHANGED maincpu_clk
  PROVE  IInv'
<1> DEFINE n == bustrace_filename
           r == Record(Baseline, a)
           x == [cycle |-> maincpu_clk, access |-> a]
           g == AddRecord(Header(oh), r, or)
<1>1. /\ n \in Names /\ maincpu_clk \in Nat /\ DOMAIN files = Names
      /\ made \in [Names -> Seq([cycle : Nat, access : Accesses])]
      /\ spoiled \subseteq Names /\ \A m \in Names : IsFile(files[m])
  BY DEF IInv, TypeOK, FirstAccess
<1>2. ~started /\ bustrace_fd = NoName
  BY DEF IInv, HandleCoherent, FirstAccess
<1>3. /\ bustrace_open' = 1 /\ bustrace_fd' = n /\ ctx' = n /\ started'
      /\ bustrace_filename' = n /\ last_cycle' = maincpu_clk /\ rec_count' = 1
      /\ crc' = <<r>> /\ files' = [files EXCEPT ![n] = g]
      /\ made' = [made EXCEPT ![n] = <<x>>]
      /\ spoiled' = IF oh = "ok" /\ or = "ok" THEN spoiled \ {n} ELSE spoiled \cup {n}
  BY DEF FirstAccess
<1>4. r \in Records /\ r.access = a
  BY <1>1, RecordType DEF Baseline
<1>5. x \in [cycle : Nat, access : Accesses] /\ x.access = a
  BY <1>1
<1>6. /\ IsFile(g) /\ g.trailer = NoTrailer
      /\ oh = "ok" /\ or = "ok" => g.header /\ ~g.torn /\ g.recs = <<r>>
  <2>1. /\ IsFile(Header(oh)) /\ Header(oh).recs = << >> /\ Header(oh).trailer = NoTrailer
        /\ oh = "ok" => Header(oh).header /\ ~Header(oh).torn
    BY HeaderFacts
  <2>2. /\ IsFile(g) /\ g.trailer = Header(oh).trailer
        /\ or = "ok" => /\ g.recs = Append(Header(oh).recs, r)
                        /\ Header(oh).header => g.header
                        /\ ~Header(oh).torn => ~g.torn
    BY <2>1, <1>4, AddRecordFacts
  <2>3. Append(<< >>, r) = <<r>>
    OBVIOUS
  <2> QED
    BY <2>1, <2>2, <2>3
<1>7. /\ DOMAIN files' = Names /\ files'[n] = g
      /\ \A m \in Names \ {n} : files'[m] = files[m]
  BY <1>1, <1>3
<1>8. /\ made' \in [Names -> Seq([cycle : Nat, access : Accesses])] /\ made'[n] = <<x>>
      /\ \A m \in Names \ {n} : made'[m] = made[m]
  <2>1. <<x>> \in Seq([cycle : Nat, access : Accesses])
    BY <1>5
  <2> HIDE DEF x
  <2> QED
    BY <2>1, <1>1, <1>3
<1>9. Complete(<<r>>, <<x>>)
  <2> HIDE DEF r, x
  <2> QED
    BY <1>4, <1>5 DEF Complete
<1>10. <<r>> \in Seq(Records) /\ Len(<<r>>) = 1
  BY <1>4
<1> HIDE DEF n, r, x, g
<1>11. TypeOK'
  <2>1. spoiled' \subseteq Names
    BY <1>1, <1>3
  <2>2. \A m \in Names : IsFile(files'[m])
    BY <1>1, <1>6, <1>7
  <2> QED
    BY <1>1, <1>3, <1>7, <1>8, <1>10, <2>1, <2>2 DEF TypeOK, IsFile, IsTrailer
<1>12. HandleCoherent'
  <2>1. n # NoName
    BY DEF FirstAccess, n
  <2> QED
    BY <1>3, <2>1 DEF HandleCoherent
<1>13. OpenTrace'
  BY <1>3, <1>6, <1>7, <1>8, <1>9, <1>10 DEF OpenTrace
<1>14. TrailersTrue'
  <2>1. ASSUME NEW m \in Names, m # n, files'[m].trailer # NoTrailer
        PROVE  /\ files'[m].trailer.count = Len(files'[m].trailer.crc)
               /\ Complete(files'[m].trailer.crc, made'[m])
    BY <2>1, <1>7, <1>8 DEF IInv, TrailersTrue
  <2> QED
    BY <2>1, <1>6, <1>7 DEF TrailersTrue
<1>15. EndedIsValid'
  <2>1. ASSUME NEW m \in Names, made'[m] # << >>, m # bustrace_fd', m \notin spoiled'
        PROVE  Validates(files'[m])
    <3>1. m # n /\ m # bustrace_fd /\ m \notin spoiled
      BY <2>1, <1>1, <1>2, <1>3, BustraceAssumption
    <3> QED
      BY <2>1, <3>1, <1>7, <1>8 DEF IInv, EndedIsValid
  <2> QED
    BY <2>1 DEF EndedIsValid, Validates
<1> QED
  BY <1>11, <1>12, <1>13, <1>14, <1>15 DEF IInv

\* bustrace_observe_access on an open trace: one more record.
LEMMA LaterKeeps ==
  ASSUME IInv, NEW a \in Accesses, NEW o \in Outcomes, LaterAccess(a, o),
         UNCHANGED maincpu_clk
  PROVE  IInv'
<1> DEFINE n == bustrace_fd
           r == Record(last_cycle, a)
           x == [cycle |-> maincpu_clk, access |-> a]
           g == AddRecord(files[n], r, o)
<1>1. /\ n \in Names /\ started /\ ctx = n /\ bustrace_filename = n /\ bustrace_open = 1
  BY OpenFile DEF LaterAccess
<1>2. /\ maincpu_clk \in Nat /\ last_cycle \in Nat /\ DOMAIN files = Names
      /\ made \in [Names -> Seq([cycle : Nat, access : Accesses])]
      /\ spoiled \subseteq Names /\ rec_count \in Nat /\ crc \in Seq(Records)
  BY DEF IInv, TypeOK
<1>3. \A m \in Names : IsFile(files[m])
  BY DEF IInv, TypeOK
<1>4. /\ UNCHANGED <<bustrace_open, bustrace_fd, bustrace_filename, ctx, started>>
      /\ last_cycle' = maincpu_clk /\ rec_count' = rec_count + 1
      /\ crc' = Append(crc, r) /\ files' = [files EXCEPT ![n] = g]
      /\ made' = [made EXCEPT ![n] = Append(made[n], x)]
      /\ spoiled' = IF o = "ok" THEN spoiled ELSE spoiled \cup {n}
  BY <1>1 DEF LaterAccess, adapter
<1>5. r \in Records /\ r.access = a
  BY <1>2, RecordType
<1>6. x \in [cycle : Nat, access : Accesses] /\ x.access = a
  BY <1>2
<1>7. /\ files[n].trailer = NoTrailer /\ rec_count = Len(crc) /\ Complete(crc, made[n])
      /\ n \notin spoiled => /\ files[n].header /\ ~files[n].torn
                             /\ files[n].recs = crc
  BY <1>1 DEF IInv, OpenTrace
<1>8. /\ IsFile(g) /\ g.trailer = NoTrailer
      /\ o = "ok" => /\ g.recs = Append(files[n].recs, r)
                     /\ files[n].header => g.header
                     /\ ~files[n].torn => ~g.torn
  BY <1>1, <1>3, <1>5, <1>7, AddRecordFacts
<1>9. /\ DOMAIN files' = Names /\ files'[n] = g
      /\ \A m \in Names \ {n} : files'[m] = files[m]
  BY <1>1, <1>2, <1>4
<1> HIDE DEF n, r, x, g
<1>10. /\ made' \in [Names -> Seq([cycle : Nat, access : Accesses])]
       /\ made'[n] = Append(made[n], x)
       /\ \A m \in Names \ {n} : made'[m] = made[m]
  <2>1. made[n] \in Seq([cycle : Nat, access : Accesses])
    BY <1>1, <1>2
  <2>2. Append(made[n], x) \in Seq([cycle : Nat, access : Accesses])
    BY <2>1, <1>6
  <2> QED
    BY <2>2, <1>1, <1>2, <1>4
<1>11. Complete(Append(crc, r), Append(made[n], x))
  <2>1. made[n] \in Seq([cycle : Nat, access : Accesses])
    BY <1>1, <1>2
  <2> QED
    BY <2>1, <1>2, <1>5, <1>6, <1>7, CompleteAppend
<1>12. Append(crc, r) \in Seq(Records) /\ Len(Append(crc, r)) = Len(crc) + 1
  BY <1>2, <1>5
<1>13. TypeOK'
  <2>1. spoiled' \subseteq Names
    BY <1>1, <1>2, <1>4
  <2>2. \A m \in Names : IsFile(files'[m])
    BY <1>3, <1>8, <1>9
  <2>3. /\ bustrace_filename' \in Names /\ bustrace_fd' \in Names /\ bustrace_open' = 1
        /\ started' = TRUE /\ ctx' \in Names
    BY <1>1, <1>4 DEF n
  <2>4. rec_count' \in Nat /\ last_cycle' \in Nat /\ maincpu_clk' \in Nat /\ crc' \in Seq(Records)
    BY <1>2, <1>4, <1>12
  <2> QED
    BY <1>9, <1>10, <2>1, <2>2, <2>3, <2>4 DEF TypeOK, IsFile, IsTrailer
<1>14. HandleCoherent'
  BY <1>4 DEF IInv, HandleCoherent
<1>15. OpenTrace'
  <2>1. n \notin spoiled' => g.header /\ ~g.torn /\ g.recs = crc'
    BY <1>1, <1>4, <1>7, <1>8
  <2>2. bustrace_fd' = n
    BY <1>4 DEF n
  <2> QED
    BY <2>1, <2>2, <1>4, <1>7, <1>8, <1>9, <1>10, <1>11, <1>12 DEF OpenTrace
<1>16. TrailersTrue'
  <2>1. ASSUME NEW m \in Names, m # n, files'[m].trailer # NoTrailer
        PROVE  /\ files'[m].trailer.count = Len(files'[m].trailer.crc)
               /\ Complete(files'[m].trailer.crc, made'[m])
    BY <2>1, <1>9, <1>10 DEF IInv, TrailersTrue
  <2> QED
    BY <2>1, <1>8, <1>9 DEF TrailersTrue
<1>17. EndedIsValid'
  <2>1. ASSUME NEW m \in Names, made'[m] # << >>, m # bustrace_fd', m \notin spoiled'
        PROVE  Validates(files'[m])
    <3>1. m # n /\ m # bustrace_fd /\ m \notin spoiled
      BY <2>1, <1>4 DEF n
    <3> QED
      BY <2>1, <3>1, <1>9, <1>10 DEF IInv, EndedIsValid
  <2> QED
    BY <2>1 DEF EndedIsValid, Validates
<1> QED
  BY <1>13, <1>14, <1>15, <1>16, <1>17 DEF IInv

\* set_bustrace_filename and bustrace_shutdown: an open trace gets its trailer.
LEMMA FinishKeeps ==
  ASSUME IInv, NEW o \in Outcomes, Finish(o), bustrace_filename' \in Names \cup {NoName},
         UNCHANGED <<maincpu_clk, made>>
  PROVE  IInv'
<1>1. CASE bustrace_open # 1
  <2>1. maincpu_clk' \in Nat
    BY DEF IInv, TypeOK
  <2> QED
    BY <1>1, <2>1, IdleKeeps DEF Finish
<1>2. CASE bustrace_open = 1
  <2> DEFINE n == bustrace_fd
             t == Trailer
             g == AddTrailer(files[n], t, o)
  <2>1. n \in Names /\ started /\ ctx = n
    BY <1>2, OpenFile
  <2>2. /\ DOMAIN files = Names /\ spoiled \subseteq Names
        /\ rec_count \in Nat /\ crc \in Seq(Records) /\ last_cycle \in Nat
        /\ made \in [Names -> Seq([cycle : Nat, access : Accesses])] /\ maincpu_clk \in Nat
    BY DEF IInv, TypeOK
  <2>3. \A m \in Names : IsFile(files[m])
    BY DEF IInv, TypeOK
  <2>4. /\ started' = FALSE /\ files' = [files EXCEPT ![n] = g]
        /\ spoiled' = IF o = "ok" THEN spoiled ELSE spoiled \cup {n}
        /\ UNCHANGED <<ctx, last_cycle, rec_count, crc>>
        /\ bustrace_fd' = NoName /\ bustrace_open' = 0
    BY <1>2, <2>1 DEF Finish
  <2>5. /\ files[n].trailer = NoTrailer /\ rec_count = Len(crc) /\ Complete(crc, made[n])
        /\ n \notin spoiled => /\ files[n].header /\ ~files[n].torn
                               /\ files[n].recs = crc
    BY <1>2 DEF IInv, OpenTrace
  <2>6. IsTrailer(t) /\ t.count = rec_count /\ t.crc = crc
    BY <2>2 DEF IsTrailer, Trailer
  <2>7. /\ IsFile(g) /\ g.recs = files[n].recs
        /\ o # "ok" => g.trailer = NoTrailer
        /\ o = "ok" => /\ g.trailer = t
                       /\ files[n].header => g.header
                       /\ ~files[n].torn => ~g.torn
    <3> HIDE DEF t
    <3> QED
      BY <2>1, <2>3, <2>5, <2>6, AddTrailerFacts
  <2>8. /\ DOMAIN files' = Names /\ files'[n] = g
        /\ \A m \in Names \ {n} : files'[m] = files[m]
    BY <2>1, <2>2, <2>4
  <2> HIDE DEF n, t, g
  <2>9. TypeOK'
    <3>1. spoiled' \subseteq Names
      BY <2>1, <2>2, <2>4
    <3>2. \A m \in Names : IsFile(files'[m])
      BY <2>3, <2>7, <2>8
    <3>3. ctx' \in Names \cup {NoName}
      BY <2>1, <2>4
    <3> QED
      BY <2>2, <2>4, <2>8, <3>1, <3>2, <3>3 DEF TypeOK, IsFile, IsTrailer
  <2>10. HandleCoherent' /\ OpenTrace'
    BY <2>4 DEF HandleCoherent, OpenTrace
  <2>11. TrailersTrue'
    <3>1. ASSUME NEW m \in Names, files'[m].trailer # NoTrailer
          PROVE  /\ files'[m].trailer.count = Len(files'[m].trailer.crc)
                 /\ Complete(files'[m].trailer.crc, made'[m])
      <4>1. CASE m = n
        BY <3>1, <4>1, <2>5, <2>6, <2>7, <2>8
      <4>2. CASE m # n
        BY <3>1, <4>2, <2>8 DEF IInv, TrailersTrue
      <4> QED
        BY <4>1, <4>2
    <3> QED
      BY <3>1 DEF TrailersTrue
  <2>12. EndedIsValid'
    <3>1. ASSUME NEW m \in Names, made'[m] # << >>, m \notin spoiled'
          PROVE  Validates(files'[m])
      <4>1. CASE m = n
        BY <3>1, <4>1, <2>4, <2>5, <2>6, <2>7, <2>8 DEF Validates
      <4>2. CASE m # n
        <5>1. m # bustrace_fd /\ m \notin spoiled /\ files'[m] = files[m]
          BY <3>1, <4>2, <2>4, <2>8 DEF n
        <5> QED
          BY <3>1, <5>1 DEF IInv, EndedIsValid
      <4> QED
        BY <4>1, <4>2
    <3> QED
      BY <3>1 DEF EndedIsValid, Validates
  <2> QED
    BY <2>9, <2>10, <2>11, <2>12 DEF IInv
<1> QED
  BY <1>1, <1>2

\* A killed emulator leaves its file without a trailer.
LEMMA KillKeeps ==
  ASSUME IInv, NEW k \in 0..MaxAccesses, NEW t \in BOOLEAN, Kill(k, t)
  PROVE  IInv'
<1> DEFINE n == bustrace_fd
           g == Cut(files[n], k, t)
<1>1. bustrace_open = 1 /\ n \in Names
  BY DEF Kill, IInv, HandleCoherent, TypeOK
<1>2. /\ DOMAIN files = Names /\ spoiled \subseteq Names
      /\ made \in [Names -> Seq([cycle : Nat, access : Accesses])]
  BY DEF IInv, TypeOK
<1>3. \A m \in Names : IsFile(files[m])
  BY DEF IInv, TypeOK
<1>4. /\ files' = [files EXCEPT ![n] = g] /\ spoiled' = spoiled \cup {n}
      /\ bustrace_filename' = NoName /\ bustrace_fd' = NoName /\ bustrace_open' = 0
      /\ started' = FALSE /\ ctx' = NoName
      /\ last_cycle' = 0 /\ rec_count' = 0 /\ crc' = << >>
      /\ maincpu_clk' = 0 /\ made' = made /\ k <= Len(files[n].recs)
  BY DEF Kill
<1>5. files[n].trailer = NoTrailer
  BY <1>1 DEF IInv, OpenTrace
<1>6. IsFile(g) /\ g.trailer = NoTrailer
  <2>1. k \in Nat
    BY BustraceAssumption
  <2> QED
    BY <2>1, <1>1, <1>3, <1>4, <1>5, CutFacts
<1>7. /\ DOMAIN files' = Names /\ files'[n] = g
      /\ \A m \in Names \ {n} : files'[m] = files[m]
  BY <1>1, <1>2, <1>4
<1> HIDE DEF n, g
<1>8. TypeOK'
  <2>1. spoiled' \subseteq Names
    BY <1>1, <1>2, <1>4
  <2>2. \A m \in Names : IsFile(files'[m])
    BY <1>3, <1>6, <1>7
  <2>3. << >> \in Seq(Records)
    OBVIOUS
  <2> QED
    BY <1>2, <1>4, <1>7, <2>1, <2>2, <2>3 DEF TypeOK, IsFile, IsTrailer
<1>9. HandleCoherent' /\ OpenTrace'
  BY <1>4 DEF HandleCoherent, OpenTrace
<1>10. TrailersTrue'
  <2>1. ASSUME NEW m \in Names, m # n, files'[m].trailer # NoTrailer
        PROVE  /\ files'[m].trailer.count = Len(files'[m].trailer.crc)
               /\ Complete(files'[m].trailer.crc, made'[m])
    BY <2>1, <1>4, <1>7 DEF IInv, TrailersTrue
  <2> QED
    BY <2>1, <1>6, <1>7 DEF TrailersTrue
<1>11. EndedIsValid'
  <2>1. ASSUME NEW m \in Names, made'[m] # << >>, m \notin spoiled'
        PROVE  Validates(files'[m])
    <3>1. m # n /\ m # bustrace_fd /\ m \notin spoiled
      BY <2>1, <1>4 DEF n
    <3> QED
      BY <2>1, <3>1, <1>4, <1>7 DEF IInv, EndedIsValid
  <2> QED
    BY <2>1 DEF EndedIsValid, Validates
<1> QED
  BY <1>8, <1>9, <1>10, <1>11 DEF IInv

----------------------------------------------------------------------------
(* The theorems.                                                           *)

\* At start no file is open and no access was made.
LEMMA InitIInv == Init => IInv
<1> SUFFICES ASSUME Init PROVE IInv
  OBVIOUS
<1>1. << >> \in Seq(Records) /\ << >> \in Seq([cycle : Nat, access : Accesses])
  OBVIOUS
<1>2. IsTrailer(NoTrailer)
  BY DEF IsTrailer
<1>3. IsFile(EmptyFile) /\ EmptyFile.trailer = NoTrailer
  BY <1>1, <1>2 DEF EmptyFile, IsFile
<1>4. TypeOK
  BY <1>1, <1>3 DEF Init, TypeOK
<1>5. HandleCoherent /\ OpenTrace /\ EndedIsValid
  BY DEF Init, HandleCoherent, OpenTrace, EndedIsValid
<1>6. TrailersTrue
  BY <1>3 DEF Init, TrailersTrue
<1> QED
  BY <1>4, <1>5, <1>6 DEF IInv

\* Every step keeps the inductive invariant.
LEMMA NextIInv == IInv /\ [Next]_vars => IInv'
<1> SUFFICES ASSUME IInv, [Next]_vars PROVE IInv'
  OBVIOUS
<1>0. maincpu_clk \in Nat
  BY DEF IInv, TypeOK
<1>1. CASE UntracedAccess /\ UNCHANGED maincpu_clk
  BY <1>0, <1>1, ClockKeeps DEF UntracedAccess
<1>2. CASE OpenFails /\ UNCHANGED maincpu_clk
  <2>1. bustrace_fd = NoName /\ bustrace_filename \in Names \cup {NoName}
    BY <1>2 DEF IInv, HandleCoherent, TypeOK, OpenFails
  <2> QED
    BY <1>0, <1>2, <2>1, IdleKeeps DEF OpenFails
<1>3. ASSUME NEW a \in Accesses, NEW oh \in Outcomes, NEW or \in Outcomes,
             FirstAccess(a, oh, or), UNCHANGED maincpu_clk
      PROVE  IInv'
  BY <1>3, FirstKeeps
<1>4. ASSUME NEW a \in Accesses, NEW o \in Outcomes, LaterAccess(a, o), UNCHANGED maincpu_clk
      PROVE  IInv'
  BY <1>4, LaterKeeps
<1>5. ASSUME NEW n \in Names \cup {NoName}, NEW o \in Outcomes, SetFilename(n, o)
      PROVE  IInv'
  BY <1>5, FinishKeeps DEF SetFilename
<1>6. ASSUME NEW o \in Outcomes, Shutdown(o)
      PROVE  IInv'
  BY <1>6, FinishKeeps DEF Shutdown
<1>7. CASE Tick
  BY <1>0, <1>7, ClockKeeps DEF Tick
<1>8. CASE MachineReset
  BY <1>8, ClockKeeps DEF MachineReset
<1>9. ASSUME NEW k \in 0..MaxAccesses, NEW t \in BOOLEAN, Kill(k, t)
      PROVE  IInv'
  BY <1>9, KillKeeps
<1>10. CASE UNCHANGED vars
  BY <1>0, <1>10, ClockKeeps DEF vars
<1> QED
  BY <1>1, <1>2, <1>3, <1>4, <1>5, <1>6, <1>7, <1>8, <1>9, <1>10 DEF Next, ObserveAccess

\* A file that validates has a trailer, and its trailer tells of the accesses made.
LEMMA IInvValidIsComplete == IInv => ValidIsComplete
<1> SUFFICES ASSUME IInv, NEW n \in Names, Validates(files[n])
             PROVE  Complete(files[n].recs, made[n])
  BY DEF ValidIsComplete
<1>1. files[n].recs \in Seq(Records)
  BY DEF IInv, TypeOK, IsFile
<1>2. files[n].trailer.count \in Nat /\ files[n].trailer.crc = files[n].recs
  BY <1>1 DEF Validates
<1>3. files[n].trailer # NoTrailer
  BY <1>2 DEF NoTrailer
<1> QED
  BY <1>2, <1>3 DEF IInv, TrailersTrue

\* IInv holds throughout (bustrace_observe_access, set_bustrace_filename,
\* bustrace_shutdown, and the failures around them).
LEMMA BustraceInvariant == Spec => []IInv
<1>1. Init => IInv
  BY InitIInv
<1>2. IInv /\ [Next]_vars => IInv'
  BY NextIInv
<1> QED
  BY <1>1, <1>2, PTL DEF Spec

\* The state keeps its shape, and no delta exceeds its field
\* (revice_bustrace_access, "saturate").
THEOREM BustraceTypeOK == Spec => []TypeOK
<1>1. IInv => TypeOK
  BY DEF IInv
<1> QED
  BY <1>1, BustraceInvariant, PTL

\* The serializer writes to the one open, configured file or not at all, however
\* accesses, changes of name, failed opens and kills interleave.
THEOREM BustraceHandleCoherent == Spec => []HandleCoherent
<1>1. IInv => HandleCoherent
  BY DEF IInv
<1> QED
  BY <1>1, BustraceInvariant, PTL

\* Every trace ended without a failed write validates.
THEOREM BustraceEndedIsValid == Spec => []EndedIsValid
<1>1. IInv => EndedIsValid
  BY DEF IInv
<1> QED
  BY <1>1, BustraceInvariant, PTL

\* A file that validates holds every access made since it was opened, in order, though
\* bustrace_file_emit ignores every write error.
THEOREM BustraceValidIsComplete == Spec => []ValidIsComplete
<1> QED
  BY IInvValidIsComplete, BustraceInvariant, PTL

----------------------------------------------------------------------------
(* The refinement of TraceFiles.                                           *)

\* The accesses of a run with one more record.
LEMMA AccessesAppend ==
  ASSUME NEW T, NEW m \in Seq(T), NEW x \in T
  PROVE  AccessesOf(Append(m, x)) = Append(AccessesOf(m), x.access)
  BY DEF AccessesOf

\* A complete run of records shows the accesses made.
LEMMA CompleteShows ==
  ASSUME NEW S, NEW recs \in Seq(S), NEW T, NEW m \in Seq(T), Complete(recs, m)
  PROVE  AccessesOf(recs) = AccessesOf(m)
  BY DEF AccessesOf, Complete

\* A file without a trailer shows nothing.
LEMMA NoTrailerHides ==
  ASSUME NEW f, IsFile(f), f.trailer = NoTrailer
  PROVE  View(f) = {}
<1>1. Len(f.recs) \in Nat
  BY DEF IsFile
<1> QED
  BY <1>1 DEF View, Validates, NoTrailer

\* A step that leaves the open file, the accesses and the files is invisible.
LEMMA InvisibleStep ==
  ASSUME UNCHANGED <<bustrace_fd, made, files>>
  PROVE  UNCHANGED Promise!vars
  BY DEF Promise!vars, View, Validates, AccessesOf

\* A first access begins a trace.
LEMMA FirstBegins ==
  ASSUME IInv, IInv', NEW a \in Accesses, NEW oh \in Outcomes, NEW or \in Outcomes,
         FirstAccess(a, oh, or)
  PROVE  Promise!Begin(bustrace_filename, a)
<1> DEFINE n == bustrace_filename
           x == [cycle |-> maincpu_clk, access |-> a]
<1>1. /\ n \in Names /\ bustrace_fd = NoName /\ bustrace_fd' = n /\ bustrace_open' = 1
      /\ made' = [made EXCEPT ![n] = <<x>>] /\ DOMAIN made = Names /\ DOMAIN files = Names
  BY DEF IInv, TypeOK, HandleCoherent, FirstAccess
<1>2. View(files'[n]) = {}
  <2>1. files'[n].trailer = NoTrailer /\ IsFile(files'[n])
    BY <1>1 DEF IInv, OpenTrace, TypeOK, IsFile, IsTrailer
  <2> QED
    BY <2>1, NoTrailerHides
<1>3. \A m \in Names \ {n} : files'[m] = files[m]
  BY <1>1 DEF FirstAccess
<1>4. AccessesOf(<<x>>) = <<a>>
  BY DEF AccessesOf
<1> HIDE DEF x
<1>5. [m \in Names |-> AccessesOf(made[m])]' =
          [[m \in Names |-> AccessesOf(made[m])] EXCEPT ![n] = <<a>>]
  BY <1>1, <1>4 DEF AccessesOf
<1>6. [m \in Names |-> View(files[m])]' =
          [[m \in Names |-> View(files[m])] EXCEPT ![n] = {}]
  BY <1>1, <1>2, <1>3 DEF View, Validates, AccessesOf
<1> QED
  BY <1>1, <1>5, <1>6 DEF Promise!Begin

\* A later access extends it, unseen.
LEMMA LaterExtends ==
  ASSUME IInv, IInv', NEW a \in Accesses, NEW o \in Outcomes, LaterAccess(a, o)
  PROVE  Promise!Extend(a)
<1> DEFINE n == bustrace_fd
           x == [cycle |-> maincpu_clk, access |-> a]
<1>1. /\ n \in Names /\ bustrace_open = 1 /\ ctx = n /\ bustrace_filename = n
      /\ bustrace_fd' = n /\ bustrace_open' = 1 /\ n # NoName
  BY OpenFile, BustraceAssumption DEF LaterAccess, adapter
<1>2. /\ made \in [Names -> Seq([cycle : Nat, access : Accesses])] /\ DOMAIN files = Names
      /\ x \in [cycle : Nat, access : Accesses]
      /\ made' = [made EXCEPT ![n] = Append(made[n], x)]
  BY <1>1 DEF IInv, TypeOK, LaterAccess
<1>3. View(files[n]) = {} /\ View(files'[n]) = {}
  <2>1. files[n].trailer = NoTrailer /\ IsFile(files[n])
    BY <1>1 DEF IInv, OpenTrace, TypeOK
  <2>2. files'[n].trailer = NoTrailer /\ IsFile(files'[n])
    BY <1>1 DEF IInv, OpenTrace, TypeOK, IsFile, IsTrailer
  <2> QED
    BY <2>1, <2>2, NoTrailerHides
<1>4. \A m \in Names \ {n} : files'[m] = files[m]
  BY <1>1, <1>2 DEF LaterAccess
<1>5. AccessesOf(Append(made[n], x)) = Append(AccessesOf(made[n]), a)
  <2>1. x.access = a /\ made[n] \in Seq([cycle : Nat, access : Accesses])
    BY <1>1, <1>2
  <2> HIDE DEF x
  <2>2. AccessesOf(Append(made[n], x)) = Append(AccessesOf(made[n]), x.access)
    BY <1>2, <2>1, AccessesAppend
  <2> QED
    BY <2>1, <2>2
<1> HIDE DEF x
<1>6. [m \in Names |-> AccessesOf(made[m])]' =
          [[m \in Names |-> AccessesOf(made[m])] EXCEPT ![n] = Append(AccessesOf(made[n]), a)]
  <2>1. \A m \in Names : AccessesOf(made'[m]) =
            IF m = n THEN Append(AccessesOf(made[n]), a) ELSE AccessesOf(made[m])
    BY <1>1, <1>2, <1>5
  <2> QED
    BY <2>1, <1>1 DEF AccessesOf
<1>7. [m \in Names |-> View(files[m])]' = [m \in Names |-> View(files[m])]
  <2>1. \A m \in Names : View(files'[m]) = View(files[m])
    BY <1>3, <1>4
  <2> QED
    BY <2>1 DEF View, Validates, AccessesOf
<1> QED
  BY <1>1, <1>6, <1>7 DEF Promise!Extend

\* The end of a trace, clean or not, shows all of it or nothing.
LEMMA EndShows ==
  ASSUME IInv, IInv', bustrace_open = 1, bustrace_fd' = NoName, UNCHANGED made,
         \A m \in Names \ {bustrace_fd} : files'[m] = files[m]
  PROVE  Promise!End
<1> DEFINE n == bustrace_fd
<1>1. /\ n \in Names /\ n # NoName
      /\ made \in [Names -> Seq([cycle : Nat, access : Accesses])]
  BY OpenFile, BustraceAssumption DEF IInv, TypeOK
<1>2. View(files[n]) = {}
  <2>1. files[n].trailer = NoTrailer /\ IsFile(files[n])
    BY <1>1 DEF IInv, OpenTrace, TypeOK
  <2> QED
    BY <2>1, NoTrailerHides
<1>3. View(files'[n]) = {} \/ View(files'[n]) = {AccessesOf(made[n])}
  <2>1. CASE Validates(files'[n])
    <3>1. ValidIsComplete'
      BY IInvValidIsComplete, PTL
    <3>2. Complete(files'[n].recs, made[n])
      BY <1>1, <2>1, <3>1 DEF ValidIsComplete, Validates
    <3>3. files'[n].recs \in Seq(Records)
      BY <1>1 DEF IInv, TypeOK, IsFile
    <3>4. AccessesOf(files'[n].recs) = AccessesOf(made[n])
      BY <1>1, <3>2, <3>3, CompleteShows
    <3> QED
      BY <2>1, <3>4 DEF View
  <2>2. CASE ~ Validates(files'[n])
    BY <2>2 DEF View
  <2> QED
    BY <2>1, <2>2
<1>4. \A m \in Names \ {n} : View(files'[m]) = View(files[m])
  OBVIOUS
<1>5. CASE View(files'[n]) = {}
  <2>1. [m \in Names |-> View(files[m])]' = [m \in Names |-> View(files[m])]
    BY <1>2, <1>4, <1>5 DEF View, Validates, AccessesOf
  <2> QED
    BY <1>1, <2>1 DEF Promise!End, AccessesOf
<1>6. CASE View(files'[n]) = {AccessesOf(made[n])}
  <2>1. [m \in Names |-> View(files[m])]' =
            [[m \in Names |-> View(files[m])] EXCEPT ![n] = {AccessesOf(made[n])}]
    BY <1>1, <1>4, <1>6 DEF View, Validates, AccessesOf
  <2> QED
    BY <1>1, <2>1 DEF Promise!End, AccessesOf
<1> QED
  BY <1>3, <1>5, <1>6

\* A change of name or a shutdown ends the open trace, if there is one.
LEMMA FinishEnds ==
  ASSUME IInv, IInv', NEW o \in Outcomes, Finish(o), UNCHANGED made
  PROVE  Promise!End \/ UNCHANGED Promise!vars
<1>1. CASE bustrace_open # 1
  <2>1. UNCHANGED <<bustrace_fd, made, files>>
    BY <1>1 DEF Finish, IInv, HandleCoherent
  <2> QED
    BY <2>1, InvisibleStep
<1>2. CASE bustrace_open = 1
  <2>1. bustrace_fd \in Names /\ ctx = bustrace_fd /\ started /\ DOMAIN files = Names
    BY <1>2, OpenFile DEF IInv, TypeOK
  <2>2. bustrace_fd' = NoName /\ \A m \in Names \ {bustrace_fd} : files'[m] = files[m]
    BY <1>2, <2>1 DEF Finish
  <2> QED
    BY <1>2, <2>2, EndShows
<1> QED
  BY <1>1, <1>2

\* So does a kill.
LEMMA KillEnds ==
  ASSUME IInv, IInv', NEW k \in 0..MaxAccesses, NEW t \in BOOLEAN, Kill(k, t)
  PROVE  Promise!End
<1>1. bustrace_open = 1 /\ bustrace_fd \in Names /\ DOMAIN files = Names
  BY DEF Kill, IInv, HandleCoherent, TypeOK
<1>2. /\ bustrace_fd' = NoName /\ UNCHANGED made
      /\ \A m \in Names \ {bustrace_fd} : files'[m] = files[m]
  BY <1>1 DEF Kill
<1> QED
  BY <1>1, <1>2, EndShows

\* Every step of the bus trace is a step of TraceFiles or invisible in it.
LEMMA StepRefines == IInv /\ IInv' /\ [Next]_vars => [Promise!Next]_(Promise!vars)
<1> SUFFICES ASSUME IInv, IInv', [Next]_vars PROVE Promise!Next \/ UNCHANGED Promise!vars
  OBVIOUS
<1>1. CASE UntracedAccess \/ OpenFails \/ Tick \/ MachineReset \/ UNCHANGED vars
  BY <1>1, InvisibleStep DEF UntracedAccess, OpenFails, Tick, MachineReset, vars, adapter
<1>2. ASSUME NEW a \in Accesses, NEW oh \in Outcomes, NEW or \in Outcomes, FirstAccess(a, oh, or)
      PROVE  Promise!Next
  <2>1. bustrace_filename \in Names
    BY <1>2 DEF IInv, TypeOK, FirstAccess
  <2> QED
    BY <1>2, <2>1, FirstBegins DEF Promise!Next
<1>3. ASSUME NEW a \in Accesses, NEW o \in Outcomes, LaterAccess(a, o)
      PROVE  Promise!Next
  BY <1>3, LaterExtends DEF Promise!Next
<1>4. ASSUME NEW n \in Names \cup {NoName}, NEW o \in Outcomes, SetFilename(n, o)
      PROVE  Promise!Next \/ UNCHANGED Promise!vars
  BY <1>4, FinishEnds DEF SetFilename, Promise!Next
<1>5. ASSUME NEW o \in Outcomes, Shutdown(o)
      PROVE  Promise!Next \/ UNCHANGED Promise!vars
  BY <1>5, FinishEnds DEF Shutdown, Promise!Next
<1>6. ASSUME NEW k \in 0..MaxAccesses, NEW t \in BOOLEAN, Kill(k, t)
      PROVE  Promise!Next
  BY <1>6, KillEnds DEF Promise!Next
<1> QED
  BY <1>1, <1>2, <1>3, <1>4, <1>5, <1>6 DEF Next, ObserveAccess

\* The bus trace implements TraceFiles: to a reader who validates, a trace appears
\* whole when it ends, or never, through every failed write, change of name and kill.
THEOREM BustraceImplementsTraceFiles == Spec => TraceFilesSpec
<1>1. Init => Promise!Init
  <2> SUFFICES ASSUME Init PROVE Promise!Init
    OBVIOUS
  <2>1. AccessesOf(<< >>) = << >>
    BY DEF AccessesOf
  <2>2. View(EmptyFile) = {}
    BY DEF View, Validates, EmptyFile
  <2> QED
    BY <2>1, <2>2 DEF Init, Promise!Init
<1>2. IInv /\ IInv' /\ [Next]_vars => [Promise!Next]_(Promise!vars)
  BY StepRefines
<1> QED
  BY <1>1, <1>2, BustraceInvariant, PTL DEF Spec, TraceFilesSpec, Promise!Spec
----------------------------------------------------------------------------
(* The cycles.                                                             *)

\* The delta of an access at cycle now behind one at cycle last.
DeltaBetween(last, now) ==
    IF now < last THEN 0 ELSE IF now - last > MaxDelta THEN MaxDelta ELSE now - last

Before(m, i) == IF i = 1 THEN 0 ELSE m[i - 1].cycle

\* The records have the deltas of the accesses m.
Timed(recs, m) == \A i \in DOMAIN m : recs[i].delta = DeltaBetween(Before(m, i), m[i].cycle)

\* While a trace is open, the serializer remembers the cycle of the last access, and the
\* deltas of all; a trailer tells of the deltas.
OpenTimed ==
    bustrace_open = 1 =>
        LET m == made[bustrace_fd] IN
        Timed(crc, m) /\ m # << >> /\ last_cycle = m[Len(m)].cycle

TrailersTimed ==
    \A n \in Names : files[n].trailer # NoTrailer => Timed(files[n].trailer.crc, made[n])

\* One more access keeps the deltas.
LEMMA TimedAppend ==
  ASSUME NEW recs \in Seq(Records), NEW m \in Seq([cycle : Nat, access : Accesses]),
         Len(recs) = Len(m), Timed(recs, m), m # << >>,
         NEW r \in Records, NEW x \in [cycle : Nat, access : Accesses],
         r.delta = DeltaBetween(m[Len(m)].cycle, x.cycle)
  PROVE  Timed(Append(recs, r), Append(m, x))
<1>1. /\ Len(m) \in Nat /\ Len(m) # 0
      /\ Len(Append(m, x)) = Len(m) + 1 /\ DOMAIN Append(m, x) = 1..(Len(m) + 1)
  OBVIOUS
<1>2. Append(recs, r)[Len(m) + 1] = r /\ Append(m, x)[Len(m) + 1] = x
  OBVIOUS
<1>3. \A i \in 1..Len(m) : Append(recs, r)[i] = recs[i] /\ Append(m, x)[i] = m[i]
  OBVIOUS
<1>4. ASSUME NEW i \in 1..(Len(m) + 1)
      PROVE  Append(recs, r)[i].delta = DeltaBetween(Before(Append(m, x), i), Append(m, x)[i].cycle)
  <2>1. CASE i = Len(m) + 1
    <3>1. Before(Append(m, x), i) = m[Len(m)].cycle
      BY <1>1, <1>3, <2>1 DEF Before
    <3> QED
      BY <1>2, <2>1, <3>1
  <2>2. CASE i # Len(m) + 1
    <3>1. i \in DOMAIN m /\ (i # 1 => i - 1 \in 1..Len(m))
      BY <1>1, <2>2
    <3>2. Before(Append(m, x), i) = Before(m, i)
      BY <1>3, <3>1 DEF Before
    <3> QED
      BY <1>3, <3>1, <3>2 DEF Timed
  <2> QED
    BY <2>1, <2>2
<1> QED
  BY <1>1, <1>4 DEF Timed

\* At start there is nothing to time.
LEMMA InitTimed == Init => OpenTimed /\ TrailersTimed
  BY DEF Init, OpenTimed, TrailersTimed, EmptyFile, NoTrailer

\* Deltas are taken from the access before, and stay as they were written.
LEMMA StepTimed ==
    IInv /\ IInv' /\ OpenTimed /\ TrailersTimed /\ [Next]_vars => OpenTimed' /\ TrailersTimed'
<1> SUFFICES ASSUME IInv, IInv', OpenTimed, TrailersTimed, [Next]_vars
             PROVE  OpenTimed' /\ TrailersTimed'
  OBVIOUS
<1>0. /\ DOMAIN files = Names /\ maincpu_clk \in Nat /\ last_cycle \in Nat
      /\ made \in [Names -> Seq([cycle : Nat, access : Accesses])] /\ crc \in Seq(Records)
  BY DEF IInv, TypeOK
<1>1. CASE UntracedAccess \/ OpenFails \/ Tick \/ MachineReset \/ UNCHANGED vars
  <2>1. files' = files /\ made' = made /\ crc' = crc /\ last_cycle' = last_cycle
        /\ bustrace_fd' = bustrace_fd /\ (bustrace_open' = bustrace_open \/ bustrace_open' = -1)
    BY <1>1 DEF UntracedAccess, OpenFails, Tick, MachineReset, vars, adapter, core
  <2> QED
    BY <2>1 DEF OpenTimed, TrailersTimed
<1>2. ASSUME NEW a \in Accesses, NEW oh \in Outcomes, NEW or \in Outcomes, FirstAccess(a, oh, or)
      PROVE  OpenTimed' /\ TrailersTimed'
  <2> DEFINE n == bustrace_filename
             x == [cycle |-> maincpu_clk, access |-> a]
             r == Record(Baseline, a)
  <2>1. /\ n \in Names /\ bustrace_fd' = n /\ bustrace_open' = 1 /\ crc' = <<r>>
        /\ last_cycle' = maincpu_clk /\ made' = [made EXCEPT ![n] = <<x>>]
        /\ \A m \in Names \ {n} : files'[m] = files[m]
    BY <1>0, <1>2 DEF FirstAccess, IInv, TypeOK
  <2>2. x.cycle = maincpu_clk /\ r.delta = DeltaBetween(0, maincpu_clk)
    BY DEF Record, Delta, Baseline, DeltaBetween
  <2> HIDE DEF x, r
  <2>3. made'[n] = <<x>> /\ \A m \in Names \ {n} : made'[m] = made[m]
    BY <1>0, <2>1
  <2>4. Timed(<<r>>, <<x>>)
    BY <2>2 DEF Timed, Before
  <2>5. files'[n].trailer = NoTrailer
    BY <2>1 DEF IInv, OpenTrace
  <2>6. OpenTimed'
    BY <2>1, <2>2, <2>3, <2>4 DEF OpenTimed, Timed
  <2>7. TrailersTimed'
    BY <2>1, <2>3, <2>5 DEF TrailersTimed, Timed
  <2> QED
    BY <2>6, <2>7
<1>3. ASSUME NEW a \in Accesses, NEW o \in Outcomes, LaterAccess(a, o)
      PROVE  OpenTimed' /\ TrailersTimed'
  <2> DEFINE n == bustrace_fd
             x == [cycle |-> maincpu_clk, access |-> a]
             r == Record(last_cycle, a)
  <2>1. /\ n \in Names /\ bustrace_open = 1 /\ bustrace_fd' = n /\ bustrace_open' = 1
        /\ crc' = Append(crc, r) /\ last_cycle' = maincpu_clk
        /\ made' = [made EXCEPT ![n] = Append(made[n], x)]
        /\ \A m \in Names \ {n} : files'[m] = files[m]
    BY <1>0, <1>3, OpenFile DEF LaterAccess, adapter
  <2>2. /\ x \in [cycle : Nat, access : Accesses] /\ x.cycle = maincpu_clk
        /\ r \in Records /\ r.delta = DeltaBetween(last_cycle, maincpu_clk)
    BY <1>0, RecordType DEF Record, Delta, DeltaBetween
  <2> HIDE DEF x, r
  <2>3. made'[n] = Append(made[n], x) /\ \A m \in Names \ {n} : made'[m] = made[m]
    BY <1>0, <2>1
  <2>4. /\ made[n] \in Seq([cycle : Nat, access : Accesses]) /\ Len(crc) = Len(made[n])
        /\ Timed(crc, made[n]) /\ made[n] # << >> /\ last_cycle = made[n][Len(made[n])].cycle
    BY <1>0, <2>1 DEF IInv, OpenTrace, Complete, OpenTimed
  <2>5. Timed(Append(crc, r), Append(made[n], x))
    BY <1>0, <2>2, <2>4, TimedAppend
  <2>6. /\ Append(made[n], x) # << >>
        /\ Append(made[n], x)[Len(Append(made[n], x))] = x
    BY <2>2, <2>4
  <2>7. files'[n].trailer = NoTrailer
    BY <2>1 DEF IInv, OpenTrace
  <2>8. OpenTimed'
    <3> DEFINE m == made'[bustrace_fd']
    <3>1. m = Append(made[n], x) /\ crc' = Append(crc, r) /\ last_cycle' = x.cycle
      BY <2>1, <2>2, <2>3
    <3>2. Timed(crc', m)
      BY <2>5, <3>1
    <3>3. m # << >> /\ last_cycle' = m[Len(m)].cycle
      BY <2>6, <3>1
    <3> QED
      BY <3>2, <3>3 DEF OpenTimed, Timed
  <2>9. TrailersTimed'
    BY <2>1, <2>3, <2>7 DEF TrailersTimed, Timed
  <2> QED
    BY <2>8, <2>9
<1>4. ASSUME NEW o \in Outcomes, Finish(o), made' = made
      PROVE  OpenTimed' /\ TrailersTimed'
  <2>1. OpenTimed'
    BY <1>4 DEF Finish, OpenTimed
  <2>2. CASE files' = files
    BY <1>4, <2>1, <2>2 DEF TrailersTimed
  <2>3. CASE files' # files
    <3> DEFINE n == bustrace_fd
    <3>1. /\ bustrace_open = 1 /\ n \in Names
          /\ files' = [files EXCEPT ![n] = AddTrailer(files[n], Trailer, o)]
      BY <1>4, <2>3, OpenFile DEF Finish
    <3>2. /\ files'[n].trailer \in {Trailer, files[n].trailer}
          /\ \A m \in Names \ {n} : files'[m] = files[m]
      BY <1>0, <3>1 DEF AddTrailer
    <3>3. Timed(Trailer.crc, made[n])
      BY <3>1 DEF OpenTimed, Trailer
    <3> QED
      BY <1>4, <2>1, <3>2, <3>3 DEF TrailersTimed, Timed
  <2> QED
    BY <2>2, <2>3
<1>5. ASSUME NEW k \in 0..MaxAccesses, NEW t \in BOOLEAN, Kill(k, t)
      PROVE  OpenTimed' /\ TrailersTimed'
  <2>1. bustrace_open' = 0 /\ made' = made /\ \A m \in Names : files'[m].trailer = files[m].trailer
    BY <1>0, <1>5 DEF Kill, Cut
  <2> QED
    BY <2>1 DEF OpenTimed, TrailersTimed, Timed
<1> QED
  BY <1>1, <1>2, <1>3, <1>4, <1>5 DEF Next, ObserveAccess, SetFilename, Shutdown
\* Every set of naturals but the empty one has a least element.
LEMMA Least ==
  ASSUME NEW T \in SUBSET Nat, T # {}
  PROVE  \E x \in T : \A y \in T : x <= y
<1> DEFINE R == OpToRel(<, Nat)
<1>1. IsWellFoundedOn(R, Nat)
  BY NatLessThanWellFounded
<1>2. \A x, y \in Nat : <<y, x>> \in R <=> y < x
  BY DEF OpToRel
<1> HIDE DEF R
<1>3. PICK x \in T : \A y \in T : ~(<<y, x>> \in R)
  BY <1>1, WFMin
<1>4. ASSUME NEW y \in T  PROVE x <= y
  <2>1. ~(<<y, x>> \in R) /\ (<<y, x>> \in R <=> y < x)
    BY <1>2, <1>3
  <2> QED
    BY <2>1
<1> QED
  BY <1>4

\* So a set with 0 and with every successor of its members holds them all.
LEMMA Induction ==
  ASSUME NEW S, 0 \in S, \A n \in Nat : n \in S => n + 1 \in S
  PROVE  Nat \subseteq S
<1> DEFINE T == Nat \ S
<1> SUFFICES ASSUME T # {}  PROVE FALSE
  OBVIOUS
<1>1. PICK x \in T : \A y \in T : x <= y
  BY Least
<1>2. x # 0 /\ x - 1 \in Nat
  OBVIOUS
<1>3. x - 1 \in S
  BY <1>1, <1>2
<1> QED
  BY <1>2, <1>3

\* What a sequence holds.
LEMMA Element ==
  ASSUME NEW T, NEW s \in Seq(T)
  PROVE  \A i \in DOMAIN s : s[i] \in T
  OBVIOUS

\* The running sum of the deltas of a steady clock's accesses is their cycles.
LEMMA RunningSum ==
  ASSUME NEW recs \in Seq(Records), NEW m \in Seq([cycle : Nat, access : Accesses]),
         Len(recs) = Len(m), Timed(recs, m), Steady(m), NEW j \in DOMAIN m
  PROVE  Cycle(recs)[j] = m[j].cycle
<1> DEFINE n == Len(recs)
           at == [i \in 0..n |-> IF i = 0 THEN 0 ELSE m[i].cycle]
           Sum(f) == f = [i \in 0..n |-> IF i = 0 THEN 0 ELSE f[i - 1] + recs[i].delta]
<1>0. \A i \in DOMAIN m : m[i] \in [cycle : Nat, access : Accesses]
  BY Element
<1>1. n \in Nat /\ DOMAIN m = 1..n /\ MaxDelta \in Nat
  BY BustraceAssumption
<1>2. ASSUME NEW i \in 1..n
      PROVE  m[i].cycle = (IF i = 1 THEN 0 ELSE m[i - 1].cycle) + recs[i].delta
  <2>1. /\ m[i].cycle \in Nat /\ (i # 1 => m[i - 1].cycle \in Nat)
        /\ recs[i].delta = DeltaBetween(Before(m, i), m[i].cycle)
    <3>1. m[i] \in [cycle : Nat, access : Accesses]
      BY <1>0, <1>1
    <3>2. i # 1 => m[i - 1] \in [cycle : Nat, access : Accesses]
      <4>1. i # 1 => i - 1 \in 1..n
        BY <1>1
      <4> QED
        BY <1>0, <1>1, <4>1
    <3> QED
      BY <1>1, <3>1, <3>2 DEF Timed
  <2>2. m[i].cycle >= Before(m, i) /\ m[i].cycle - Before(m, i) <= MaxDelta
    BY <1>1 DEF Steady, Before
  <2> QED
    BY <1>1, <2>1, <2>2 DEF DeltaBetween, Before
<1>3. Sum(at)
  <2>1. \A i \in 0..n : at[i] = IF i = 0 THEN 0 ELSE at[i - 1] + recs[i].delta
    <3>0. at[0] = 0
      BY <1>1
    <3> SUFFICES ASSUME NEW i \in 1..n  PROVE at[i] = at[i - 1] + recs[i].delta
      <4> HIDE DEF at
      <4> QED
        BY <1>1, <3>0
    <3>1. at[i] = m[i].cycle /\ at[i - 1] = IF i = 1 THEN 0 ELSE m[i - 1].cycle
      BY <1>1
    <3> QED
      BY <1>2, <3>1
  <2> QED
    BY <2>1
<1> HIDE DEF at
<1>4. Cycle(recs) = CHOOSE f : Sum(f)
  BY DEF Cycle
<1>5. PICK sum : sum = Cycle(recs) /\ Sum(sum)
  BY <1>3, <1>4
<1>6. /\ sum[0] = 0
      /\ \A i \in 1..n : sum[i] = sum[i - 1] + recs[i].delta
  BY <1>1, <1>5
<1> HIDE DEF Sum
<1> DEFINE S == {i \in Nat : i \in 1..n => sum[i] = m[i].cycle}
<1>7. 0 \in S
  OBVIOUS
<1>8. ASSUME NEW i \in Nat, i \in S  PROVE i + 1 \in S
  <2> SUFFICES ASSUME i + 1 \in 1..n  PROVE sum[i + 1] = m[i + 1].cycle
    OBVIOUS
  <2>1. sum[i + 1] = sum[i] + recs[i + 1].delta
    BY <1>6
  <2>2. m[i + 1].cycle = (IF i = 0 THEN 0 ELSE m[i].cycle) + recs[i + 1].delta
    BY <1>2
  <2>3. sum[i] = IF i = 0 THEN 0 ELSE m[i].cycle
    BY <1>1, <1>6, <1>8
  <2> QED
    BY <2>1, <2>2, <2>3
<1>9. Nat \subseteq S
  <2> HIDE DEF S
  <2> QED
    BY <1>7, <1>8, Induction
<1> QED
  BY <1>1, <1>5, <1>9

\* A reader of a file that validates has the cycle of every access of a steady clock.
LEMMA InvCyclesExact == IInv /\ TrailersTimed => CyclesExact
<1> SUFFICES ASSUME IInv, TrailersTimed,
                    NEW n \in Names, Validates(files[n]), Steady(made[n]), NEW i \in DOMAIN made[n]
             PROVE  Cycle(files[n].recs)[i] = made[n][i].cycle
  BY DEF CyclesExact
<1>1. /\ files[n].recs \in Seq(Records)
      /\ made[n] \in Seq([cycle : Nat, access : Accesses])
  BY DEF IInv, TypeOK, IsFile
<1>2. files[n].trailer.count \in Nat /\ files[n].trailer.crc = files[n].recs
  BY <1>1 DEF Validates
<1>3. files[n].trailer # NoTrailer
  BY <1>2 DEF NoTrailer
<1>4. Timed(files[n].recs, made[n])
  BY <1>2, <1>3 DEF TrailersTimed
<1>5. Len(files[n].recs) = Len(made[n])
  BY IInvValidIsComplete DEF ValidIsComplete, Complete
<1> QED
  BY <1>1, <1>4, <1>5, RunningSum

\* revice_bustrace.h, "the absolute cycle is reconstructable by a running sum": of every
\* file that validates and was made by a clock that never went back nor paused for more
\* than a delta holds, whatever failed, was renamed or killed around it.
THEOREM BustraceCyclesExact == Spec => []CyclesExact
<1>1. Init => OpenTimed /\ TrailersTimed
  BY InitTimed
<1>2. IInv /\ IInv' /\ OpenTimed /\ TrailersTimed /\ [Next]_vars => OpenTimed' /\ TrailersTimed'
  BY StepTimed
<1> QED
  BY <1>1, <1>2, BustraceInvariant, InvCyclesExact, PTL DEF Spec
=============================================================================
