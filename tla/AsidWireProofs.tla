---------------------------- MODULE AsidWireProofs ----------------------------
(***************************************************************************)
(* AsidWire, proved for every program: whatever registers it writes, in    *)
(* whatever order and whenever the changes are flushed.                    *)
(***************************************************************************)
EXTENDS AsidWire, FiniteSetTheorems, TLAPS

Regs == 0..(ASID_NUM_REGS - 1)

----------------------------------------------------------------------------
(* The packing order.                                                      *)

\* The table in closed form: four runs of registers and then the controls.
LEMMA RegmapAt ==
  ASSUME NEW i \in 0..24
  PROVE  regmap[i + 1] = IF i \leq 3 THEN i ELSE IF i \leq 9 THEN i + 1
                         ELSE IF i \leq 15 THEN i + 2 ELSE IF i \leq 21 THEN i + 3
                         ELSE 7 * (i - 22) + 4
<1>1. CASE i \in 0..9
  BY <1>1 DEF regmap
<1>2. CASE i \in 10..18
  BY <1>2 DEF regmap
<1>3. CASE i \in 19..24
  BY <1>3 DEF regmap
<1> QED
  BY <1>1, <1>2, <1>3

\* Every register has one slot, the controls the last three.
LEMMA RegmapOrders ==
  /\ \A i \in 0..24 : /\ regmap[i + 1] \in Regs
                      /\ regmap[i + 1] \in ControlRegs <=> i \geq 22
  /\ \A i, j \in 0..24 : regmap[i + 1] = regmap[j + 1] => i = j
  /\ \A r \in Regs : \E i \in 0..24 : regmap[i + 1] = r
<1>1. \A i \in 0..24 : regmap[i + 1] \in Regs
  BY RegmapAt DEF Regs, ASID_NUM_REGS
<1>2. \A i \in 0..24 : regmap[i + 1] \in ControlRegs <=> i \geq 22
  BY RegmapAt DEF ControlRegs
<1>3. \A i, j \in 0..24 : regmap[i + 1] = regmap[j + 1] => i = j
  BY RegmapAt
<1>4. \A r \in Regs : \E i \in 0..24 : regmap[i + 1] = r
  <2> TAKE r \in Regs
  <2> DEFINE i == IF r \in {4, 11, 18} THEN 22 + ((r - 4) \div 7)
                  ELSE IF r \leq 3 THEN r ELSE IF r \leq 10 THEN r - 1
                  ELSE IF r \leq 17 THEN r - 2 ELSE r - 3
  <2>1. r \in 0..24
    BY DEF Regs, ASID_NUM_REGS
  <2>2. i \in 0..24
    BY <2>1
  <2>3. regmap[i + 1] = r
    <3> HIDE DEF i
    <3>1. regmap[i + 1] = IF i \leq 3 THEN i ELSE IF i \leq 9 THEN i + 1
                         ELSE IF i \leq 15 THEN i + 2 ELSE IF i \leq 21 THEN i + 3
                         ELSE 7 * (i - 22) + 4
      BY <2>2, RegmapAt
    <3> QED
      BY <2>1, <2>2, <3>1 DEF i
  <2> QED
    BY <2>2, <2>3
<1> QED
  BY <1>1, <1>2, <1>3, <1>4

----------------------------------------------------------------------------
(* Counting the members of a set of slots.                                 *)

\* A later member has a larger rank, and no rank exceeds the size of the set.
LEMMA RankGrows ==
  ASSUME NEW S \in SUBSET (0..27)
  PROVE  /\ IsFiniteSet(S) /\ Cardinality(S) \in Nat
         /\ \A i \in S : Rank(S, i) \in 1..Cardinality(S)
         /\ \A i, j \in S : i < j => Rank(S, i) < Rank(S, j)
<1>1. IsFiniteSet(S) /\ Cardinality(S) \in Nat
  <2>1. IsFiniteSet(0..27)
    <3>1. 0 \in Int /\ 27 \in Int
      OBVIOUS
    <3> QED
      BY <3>1, FS_Interval
  <2> QED
    BY <2>1, FS_Subset, FS_CardinalityType
<1>2. ASSUME NEW i \in S
      PROVE  IsFiniteSet({j \in S : j <= i}) /\ Rank(S, i) \in Nat /\ Rank(S, i) <= Cardinality(S)
  <2>1. {j \in S : j <= i} \subseteq S
    OBVIOUS
  <2> QED
    BY <1>1, <2>1, FS_Subset, FS_CardinalityType DEF Rank
<1>3. ASSUME NEW i \in S
      PROVE  Rank(S, i) \geq 1
  <2>1. {j \in S : j <= i} # {}
    OBVIOUS
  <2> QED
    BY <1>2, <2>1, FS_EmptySet DEF Rank
<1>4. ASSUME NEW i \in S, NEW j \in S, i < j
      PROVE  Rank(S, i) < Rank(S, j)
  <2>1. {k \in S : k <= i} \subseteq {k \in S : k <= j}
    <3> SUFFICES ASSUME NEW k \in S, k <= i PROVE k <= j
      OBVIOUS
    <3>1. k \in Int /\ i \in Int /\ j \in Int
      OBVIOUS
    <3> QED
      BY <1>4, <3>1
  <2>2. j \in {k \in S : k <= j} /\ j \notin {k \in S : k <= i}
    BY <1>4
  <2>3. {k \in S : k <= i} # {k \in S : k <= j}
    BY <2>2
  <2> QED
    BY <1>2, <2>1, <2>3, FS_Subset DEF Rank
<1>5. ASSUME NEW i \in S
      PROVE  Rank(S, i) \in 1..Cardinality(S)
  <2>1. Rank(S, i) \in Nat /\ Rank(S, i) <= Cardinality(S) /\ Rank(S, i) \geq 1
    BY <1>2, <1>3
  <2> QED
    BY <1>1, <2>1
<1>6. \A i, j \in S : i < j => Rank(S, i) < Rank(S, j)
  BY <1>4
<1> QED
  BY <1>1, <1>5, <1>6

\* So every count up to the size of the set is the rank of exactly one member.
LEMMA RankReaches ==
  ASSUME NEW S \in SUBSET (0..27), NEW k \in 1..Cardinality(S)
  PROVE  \E i \in S : Rank(S, i) = k
<1> DEFINE f == [i \in S |-> Rank(S, i)]
           T == 1..Cardinality(S)
<1>1. f \in [S -> T] /\ IsFiniteSet(S) /\ Cardinality(S) \in Nat
  BY RankGrows
<1>2. f \in Injection(S, T)
  <2>1. \A i, j \in S : f[i] = f[j] => i = j
    BY RankGrows
  <2> QED
    BY <1>1, <2>1 DEF Injection, IsInjective
<1>3. IsFiniteSet(T) /\ Cardinality(T) = Cardinality(S)
  BY <1>1, FS_Interval
<1>4. f \in Surjection(S, T)
  BY <1>1, <1>2, <1>3, FS_Injection
<1> QED
  BY <1>4 DEF Surjection

\* Nth lists the members of S in order, each once.
LEMMA NthWithRank ==
  ASSUME NEW S \in SUBSET (0..27)
  PROVE  /\ \A k \in 1..Cardinality(S) : Nth(S, k) \in S /\ Rank(S, Nth(S, k)) = k
         /\ \A k, l \in 1..Cardinality(S) : k < l => Nth(S, k) < Nth(S, l)
         /\ \A i \in S : \E k \in 1..Cardinality(S) : Nth(S, k) = i
<1>0. /\ \A i \in S : Rank(S, i) \in 1..Cardinality(S)
      /\ \A i, j \in S : i < j => Rank(S, i) < Rank(S, j)
  BY RankGrows
<1>1. ASSUME NEW k \in 1..Cardinality(S)
      PROVE  Nth(S, k) \in S /\ Rank(S, Nth(S, k)) = k
  BY RankReaches, Zenon DEF Nth
<1>2. ASSUME NEW k \in 1..Cardinality(S), NEW l \in 1..Cardinality(S), k < l
      PROVE  Nth(S, k) < Nth(S, l)
  <2>1. Nth(S, k) \in 0..27 /\ Nth(S, l) \in 0..27
    BY <1>1
  <2> SUFFICES ASSUME ~ (Nth(S, k) < Nth(S, l)) PROVE FALSE
    OBVIOUS
  <2>2. Nth(S, l) < Nth(S, k) \/ Nth(S, l) = Nth(S, k)
    BY <2>1
  <2>3. l <= k
    BY <1>1, <2>2, <2>1, <1>0
  <2> QED
    BY <1>2, <2>3, <1>0
<1>3. ASSUME NEW i \in S
      PROVE  \E k \in 1..Cardinality(S) : Nth(S, k) = i
  <2>1. Rank(S, i) \in 1..Cardinality(S)
    BY <1>0
  <2> DEFINE k == Rank(S, i)
  <2>2. Nth(S, k) \in S /\ Rank(S, Nth(S, k)) = k
    BY <1>1, <2>1
  <2>3. Nth(S, k) \in 0..27 /\ i \in 0..27
    BY <2>2
  <2>5. ~ (Rank(S, Nth(S, k)) < Rank(S, i)) /\ ~ (Rank(S, i) < Rank(S, Nth(S, k)))
    BY <2>1, <2>2
  <2>4. ~ (Nth(S, k) < i) /\ ~ (i < Nth(S, k))
    BY <2>1, <2>2, <2>5, <1>0
  <2> QED
    BY <2>1, <2>3, <2>4
<1> QED
  BY <1>1, <1>2, <1>3

----------------------------------------------------------------------------
(* Masks.                                                                  *)

\* The lowest bit of a number.
LEMMA Parity ==
  ASSUME NEW x \in 0..1, NEW q \in Int
  PROVE  (x + 2 * q) % 2 = x
OBVIOUS

\* The decoder finds exactly the slots that were packed.
LEMMA SeptetBits ==
  ASSUME NEW S \in SUBSET (0..27), NEW k \in 1..4
  PROVE  /\ Septets(S)[k] \in 0..127
         /\ \A b \in 0..6 : (Septets(S)[k] \div Weight[b + 1]) % 2
                               = IF 7 * (k - 1) + b \in S THEN 1 ELSE 0
<1> DEFINE at(b) == IF 7 * (k - 1) + b \in S THEN 1 ELSE 0
           s == Septets(S)[k]
<1>1. /\ Weight[1] = 1 /\ Weight[2] = 2 /\ Weight[3] = 4 /\ Weight[4] = 8
      /\ Weight[5] = 16 /\ Weight[6] = 32 /\ Weight[7] = 64
  BY DEF Weight
<1>2. /\ at(0) \in 0..1 /\ at(1) \in 0..1 /\ at(2) \in 0..1 /\ at(3) \in 0..1
      /\ at(4) \in 0..1 /\ at(5) \in 0..1 /\ at(6) \in 0..1
  OBVIOUS
<1>3. /\ 7 * (k - 1) + 1 - 1 = 7 * (k - 1) + 0 /\ 7 * (k - 1) + 2 - 1 = 7 * (k - 1) + 1
      /\ 7 * (k - 1) + 3 - 1 = 7 * (k - 1) + 2 /\ 7 * (k - 1) + 4 - 1 = 7 * (k - 1) + 3
      /\ 7 * (k - 1) + 5 - 1 = 7 * (k - 1) + 4 /\ 7 * (k - 1) + 6 - 1 = 7 * (k - 1) + 5
      /\ 7 * (k - 1) + 7 - 1 = 7 * (k - 1) + 6
  OBVIOUS
<1>4. s = at(0) + 2 * at(1) + 4 * at(2) + 8 * at(3) + 16 * at(4) + 32 * at(5) + 64 * at(6)
  BY <1>1, <1>3 DEF Septets
<1> HIDE DEF at, s
<1>5. s \in 0..127
  BY <1>2, <1>4
<1>6. /\ (s \div 1) % 2 = at(0) /\ (s \div 2) % 2 = at(1) /\ (s \div 4) % 2 = at(2)
      /\ (s \div 8) % 2 = at(3) /\ (s \div 16) % 2 = at(4) /\ (s \div 32) % 2 = at(5)
      /\ (s \div 64) % 2 = at(6)
  <2>1. (s \div 1) % 2 = at(0)
    <3> DEFINE q == at(1) + 2 * at(2) + 4 * at(3) + 8 * at(4) + 16 * at(5) + 32 * at(6)
    <3>1. s \div 1 = at(0) + 2 * q /\ q \in Int
      BY <1>2, <1>4
    <3> HIDE DEF q
    <3>2. (at(0) + 2 * q) % 2 = at(0)
      BY <1>2, <3>1, Parity
    <3> QED
      BY <3>1, <3>2
  <2>2. (s \div 2) % 2 = at(1)
    <3> DEFINE q == at(2) + 2 * at(3) + 4 * at(4) + 8 * at(5) + 16 * at(6)
    <3>1. s \div 2 = at(1) + 2 * q /\ q \in Int
      BY <1>2, <1>4
    <3> HIDE DEF q
    <3>2. (at(1) + 2 * q) % 2 = at(1)
      BY <1>2, <3>1, Parity
    <3> QED
      BY <3>1, <3>2
  <2>3. (s \div 4) % 2 = at(2)
    <3> DEFINE q == at(3) + 2 * at(4) + 4 * at(5) + 8 * at(6)
    <3>1. s \div 4 = at(2) + 2 * q /\ q \in Int
      BY <1>2, <1>4
    <3> HIDE DEF q
    <3>2. (at(2) + 2 * q) % 2 = at(2)
      BY <1>2, <3>1, Parity
    <3> QED
      BY <3>1, <3>2
  <2>4. (s \div 8) % 2 = at(3)
    <3> DEFINE q == at(4) + 2 * at(5) + 4 * at(6)
    <3>1. s \div 8 = at(3) + 2 * q /\ q \in Int
      BY <1>2, <1>4
    <3> HIDE DEF q
    <3>2. (at(3) + 2 * q) % 2 = at(3)
      BY <1>2, <3>1, Parity
    <3> QED
      BY <3>1, <3>2
  <2>5. (s \div 16) % 2 = at(4)
    <3> DEFINE q == at(5) + 2 * at(6)
    <3>1. s \div 16 = at(4) + 2 * q /\ q \in Int
      BY <1>2, <1>4
    <3> HIDE DEF q
    <3>2. (at(4) + 2 * q) % 2 = at(4)
      BY <1>2, <3>1, Parity
    <3> QED
      BY <3>1, <3>2
  <2>6. (s \div 32) % 2 = at(5)
    <3> DEFINE q == at(6)
    <3>1. s \div 32 = at(5) + 2 * q /\ q \in Int
      BY <1>2, <1>4
    <3> HIDE DEF q
    <3>2. (at(5) + 2 * q) % 2 = at(5)
      BY <1>2, <3>1, Parity
    <3> QED
      BY <3>1, <3>2
  <2>7. (s \div 64) % 2 = at(6)
    <3> DEFINE q == 0
    <3>1. s \div 64 = at(6) + 2 * q /\ q \in Int
      BY <1>2, <1>4
    <3> HIDE DEF q
    <3>2. (at(6) + 2 * q) % 2 = at(6)
      BY <1>2, <3>1, Parity
    <3> QED
      BY <3>1, <3>2
  <2> QED
    BY <2>1, <2>2, <2>3, <2>4, <2>5, <2>6, <2>7
<1>7. ASSUME NEW b \in 0..6
      PROVE  (s \div Weight[b + 1]) % 2 = at(b)
  <2>1. b = 0 \/ b = 1 \/ b = 2 \/ b = 3 \/ b = 4 \/ b = 5 \/ b = 6
    OBVIOUS
  <2> QED
    BY <1>1, <1>6, <2>1
<1> QED
  BY <1>5, <1>7 DEF at, s

\* The mask a player reads is the set that was packed.
LEMMA SeptetsCarry ==
  ASSUME NEW S \in SUBSET (0..27), NEW msg, NEW first \in Nat,
         \A k \in 1..4 : msg[first + k - 1] = Septets(S)[k]
  PROVE  \A i \in 0..27 : Bit(msg, first, i) = IF i \in S THEN 1 ELSE 0
<1> TAKE i \in 0..27
<1> DEFINE k == (i \div 7) + 1
           b == i % 7
<1>1. k \in 1..4 /\ b \in 0..6 /\ 7 * (k - 1) + b = i /\ first + k - 1 = first + (i \div 7)
  OBVIOUS
<1>2. (Septets(S)[k] \div Weight[b + 1]) % 2 = IF 7 * (k - 1) + b \in S THEN 1 ELSE 0
  BY <1>1, SeptetBits
<1>3. Bit(msg, first, i) = (Septets(S)[k] \div Weight[b + 1]) % 2
  BY <1>1 DEF Bit
<1> QED
  BY <1>1, <1>2, <1>3

----------------------------------------------------------------------------
(* The bytes of a message.                                                 *)

\* Where the elements of a concatenation are.
LEMMA Joined ==
  ASSUME NEW s \in Seq(Int), NEW t \in Seq(Int)
  PROVE  /\ s \o t \in Seq(Int) /\ Len(s \o t) = Len(s) + Len(t)
         /\ Len(s) \in Nat /\ Len(t) \in Nat
         /\ \A i \in 1..Len(s) : (s \o t)[i] = s[i]
         /\ \A i \in 1..Len(t) : (s \o t)[Len(s) + i] = t[i]
<1>1. s \o t \in Seq(Int) /\ Len(s \o t) = Len(s) + Len(t) /\ Len(s) \in Nat /\ Len(t) \in Nat
  OBVIOUS
<1>2. \A i \in 1..Len(s) : (s \o t)[i] = s[i]
  BY <1>1
<1>3. \A i \in 1..Len(t) : (s \o t)[Len(s) + i] = t[i]
  BY <1>1
<1> QED
  BY <1>1, <1>2, <1>3

\* Where the bytes of a framed message are.
LEMMA SysExBytes ==
  ASSUME NEW op \in Int, NEW body \in Seq(Int)
  PROVE  LET msg == SysEx(op, body)
         IN  /\ msg \in Seq(Int) /\ Len(msg) = Len(body) + 4 /\ Len(body) \in Nat
             /\ msg[1] = ASID_SYSEX_START /\ msg[2] = ASID_SYSEX_MAN_ID /\ msg[3] = op
             /\ \A i \in 1..Len(body) : msg[i + 3] = body[i]
             /\ msg[Len(msg)] = ASID_SYSEX_STOP
<1> DEFINE opcode == <<op>>
           stop == <<ASID_SYSEX_STOP>>
           head == asid_prefix \o opcode
           open == head \o body
           msg == open \o stop
<1>1. /\ asid_prefix \in Seq(Int) /\ Len(asid_prefix) = 2
      /\ asid_prefix[1] = ASID_SYSEX_START /\ asid_prefix[2] = ASID_SYSEX_MAN_ID
      /\ opcode \in Seq(Int) /\ Len(opcode) = 1 /\ opcode[1] = op
      /\ stop \in Seq(Int) /\ Len(stop) = 1 /\ stop[1] = ASID_SYSEX_STOP
  BY DEF asid_prefix, ASID_SYSEX_START, ASID_SYSEX_MAN_ID, ASID_SYSEX_STOP
<1>2. msg = SysEx(op, body)
  BY DEF SysEx
<1> HIDE DEF opcode, stop
<1>3. /\ head \in Seq(Int) /\ Len(head) = Len(asid_prefix) + Len(opcode)
      /\ Len(asid_prefix) \in Nat /\ Len(opcode) \in Nat
      /\ \A i \in 1..Len(asid_prefix) : head[i] = asid_prefix[i]
      /\ \A i \in 1..Len(opcode) : head[Len(asid_prefix) + i] = opcode[i]
  BY <1>1, Joined, Zenon
<1> HIDE DEF head
<1>4. head \in Seq(Int) /\ Len(head) = 3
  BY <1>1, <1>3
<1>5. head[1] = asid_prefix[1] /\ head[2] = asid_prefix[2] /\ head[3] = opcode[1]
  BY <1>1, <1>3
<1>6. /\ open \in Seq(Int) /\ Len(open) = Len(head) + Len(body)
      /\ Len(head) \in Nat /\ Len(body) \in Nat
      /\ \A i \in 1..Len(head) : open[i] = head[i]
      /\ \A i \in 1..Len(body) : open[Len(head) + i] = body[i]
  BY <1>4, Joined, Zenon
<1> HIDE DEF open
<1>7. /\ open \in Seq(Int) /\ Len(open) = Len(body) + 3 /\ Len(body) \in Nat
      /\ \A i \in 1..3 : open[i] = head[i]
  BY <1>4, <1>6
<1>8. \A i \in 1..Len(body) : open[i + 3] = body[i]
  BY <1>4, <1>6
<1>9. /\ msg \in Seq(Int) /\ Len(msg) = Len(open) + Len(stop)
      /\ Len(open) \in Nat /\ Len(stop) \in Nat
      /\ \A i \in 1..Len(open) : msg[i] = open[i]
      /\ \A i \in 1..Len(stop) : msg[Len(open) + i] = stop[i]
  BY <1>1, <1>7, Joined, Zenon
<1> HIDE DEF msg
<1>10. /\ msg \in Seq(Int) /\ Len(msg) = Len(body) + 4 /\ msg[Len(body) + 4] = stop[1]
       /\ \A i \in 1..(Len(body) + 3) : msg[i] = open[i]
  BY <1>1, <1>7, <1>9
<1>11. msg[1] = open[1] /\ msg[2] = open[2] /\ msg[3] = open[3]
  BY <1>7, <1>10
<1>12. msg[1] = ASID_SYSEX_START /\ msg[2] = ASID_SYSEX_MAN_ID /\ msg[3] = op
  BY <1>1, <1>5, <1>7, <1>11
<1>13. \A i \in 1..Len(body) : msg[i + 3] = body[i]
  <2> TAKE i \in 1..Len(body)
  <2>1. i + 3 \in 1..(Len(body) + 3)
    BY <1>7
  <2>2. msg[i + 3] = open[i + 3]
    BY <1>10, <2>1
  <2> QED
    BY <1>8, <2>2
<1>14. msg[Len(msg)] = ASID_SYSEX_STOP
  BY <1>1, <1>10
<1> QED
  BY <1>2, <1>7, <1>10, <1>12, <1>13, <1>14

----------------------------------------------------------------------------
(* The registers a flush packs.                                            *)

Count(c) == Cardinality(Slots(c))

\* The changed registers are registers, and their values bytes.
LEMMA SlotTypes ==
  ASSUME TypeOK, NEW c \in Chips
  PROVE  /\ Slots(c) \in SUBSET (0..27) /\ Slots(c) \subseteq 0..24
         /\ HighSlots(c) \in SUBSET (0..27)
         /\ Count(c) \in Nat
         /\ \A r \in Regs : Value(c, r) \in 0..255
         /\ sid_modified[c] \in SUBSET Regs
<1>1. Slots(c) \subseteq 0..24
  BY DEF Slots, ASID_NUM_REGS
<1>2. Slots(c) \in SUBSET (0..27) /\ HighSlots(c) \in SUBSET (0..27)
  BY <1>1 DEF HighSlots
<1>3. Count(c) \in Nat
  BY <1>2, RankGrows DEF Count
<1>4. \A r \in Regs : Value(c, r) \in 0..255
  <2> TAKE r \in Regs
  <2>1. sid_register[c] \in [Regs -> 0..255]
    BY DEF TypeOK, Regs
  <2> QED
    BY <2>1 DEF Value
<1>5. sid_modified[c] \in SUBSET Regs
  BY DEF TypeOK, Regs
<1> QED
  BY <1>1, <1>2, <1>3, <1>4, <1>5

\* What a byte's value is made of on the wire.
LEMMA SplitByte ==
  ASSUME NEW v \in 0..255
  PROVE  /\ v % 128 \in 0..127 /\ v % 128 \in Int
         /\ v = 128 * (IF v > 127 THEN 1 ELSE 0) + (v % 128)
OBVIOUS

\* Each of them once, the controls last.
LEMMA ChangedRegisters ==
  ASSUME TypeOK, NEW c \in Chips
  PROVE  /\ DOMAIN Changed(c) = 1..Count(c) /\ Len(Changed(c)) = Count(c)
         /\ \A k \in 1..Count(c) : /\ Nth(Slots(c), k) \in Slots(c)
                                   /\ Changed(c)[k] = regmap[Nth(Slots(c), k) + 1]
                                   /\ Changed(c)[k] \in sid_modified[c]
                                   /\ Changed(c)[k] \in Regs
         /\ \A k, l \in 1..Count(c) : Changed(c)[k] = Changed(c)[l] => k = l
         /\ \A k, l \in 1..Count(c) :
               k < l /\ Changed(c)[k] \in ControlRegs => Changed(c)[l] \in ControlRegs
         /\ \A r \in sid_modified[c] : \E k \in 1..Count(c) : Changed(c)[k] = r
<1> DEFINE S == Slots(c)
           at(k) == Nth(S, k)
<1>1. /\ S \in SUBSET (0..27) /\ S \subseteq 0..24 /\ Count(c) \in Nat
      /\ sid_modified[c] \in SUBSET Regs
  BY SlotTypes
<1>2. /\ \A k \in 1..Count(c) : at(k) \in S
      /\ \A k, l \in 1..Count(c) : k < l => at(k) < at(l)
      /\ \A i \in S : \E k \in 1..Count(c) : at(k) = i
  BY <1>1, NthWithRank DEF Count
<1>3. DOMAIN Changed(c) = 1..Count(c) /\ Len(Changed(c)) = Count(c)
  BY <1>1 DEF Changed, Count
<1>4. \A k \in 1..Count(c) : Changed(c)[k] = regmap[at(k) + 1]
  BY DEF Changed, Count
<1>5. \A i \in S : regmap[i + 1] \in sid_modified[c]
  BY DEF Slots
<1>6. \A r \in sid_modified[c] : \E i \in S : regmap[i + 1] = r
  <2> TAKE r \in sid_modified[c]
  <2>1. PICK i \in 0..24 : regmap[i + 1] = r
    BY <1>1, RegmapOrders
  <2>2. i \in S
    BY <2>1 DEF Slots, ASID_NUM_REGS
  <2> QED
    BY <2>1, <2>2
<1> HIDE DEF S, at
<1>7. \A k \in 1..Count(c) : Changed(c)[k] \in sid_modified[c]
  BY <1>2, <1>4, <1>5
<1>8. ASSUME NEW k \in 1..Count(c), NEW l \in 1..Count(c)
      PROVE  /\ at(k) \in 0..24 /\ at(l) \in 0..24
             /\ Changed(c)[k] = regmap[at(k) + 1] /\ Changed(c)[l] = regmap[at(l) + 1]
  BY <1>1, <1>2, <1>4
<1>9. ASSUME NEW k \in 1..Count(c), NEW l \in 1..Count(c), Changed(c)[k] = Changed(c)[l]
      PROVE  k = l
  <2>1. at(k) = at(l)
    BY <1>8, <1>9, RegmapOrders
  <2>2. ~ (k < l) /\ ~ (l < k)
    BY <1>2, <1>8, <2>1
  <2> QED
    BY <1>1, <2>2
<1>10. ASSUME NEW k \in 1..Count(c), NEW l \in 1..Count(c), k < l,
              Changed(c)[k] \in ControlRegs
       PROVE  Changed(c)[l] \in ControlRegs
  <2>1. at(k) \geq 22
    BY <1>8, <1>10, RegmapOrders
  <2>2. at(k) < at(l)
    BY <1>2, <1>10
  <2>3. at(l) \geq 22
    BY <1>8, <2>1, <2>2
  <2> QED
    BY <1>8, <2>3, RegmapOrders
<1>11. ASSUME NEW r \in sid_modified[c]
       PROVE  \E k \in 1..Count(c) : Changed(c)[k] = r
  <2>1. PICK i \in S : regmap[i + 1] = r
    BY <1>6
  <2>2. PICK k \in 1..Count(c) : at(k) = i
    BY <1>2
  <2>3. Changed(c)[k] = r
    BY <1>4, <2>1, <2>2
  <2> QED
    BY <2>3
<1>12. \A k \in 1..Count(c) : Changed(c)[k] \in Regs
  BY <1>1, <1>7
<1> QED
  BY <1>2, <1>3, <1>4, <1>7, <1>9, <1>10, <1>11, <1>12 DEF S, at

\* Each with a byte for a value.
LEMMA ChangedValues ==
  ASSUME TypeOK, NEW c \in Chips
  PROVE  /\ DOMAIN Changed(c) = 1..Count(c) /\ Len(Changed(c)) = Count(c) /\ Count(c) \in Nat
         /\ \A k \in 1..Count(c) : Changed(c)[k] \in Regs /\ Value(c, Changed(c)[k]) \in 0..255
<1>1. /\ DOMAIN Changed(c) = 1..Count(c) /\ Len(Changed(c)) = Count(c)
      /\ \A k \in 1..Count(c) : Changed(c)[k] \in Regs
  BY ChangedRegisters
<1>2. Count(c) \in Nat /\ \A r \in Regs : Value(c, r) \in 0..255
  BY SlotTypes
<1> QED
  BY <1>1, <1>2

----------------------------------------------------------------------------
(* The two forms.                                                          *)

\* Which byte of an update is what.
LEMMA UpdateBytes ==
  ASSUME TypeOK, NEW c \in Chips
  PROVE  LET msg == UpdateForm(c)
         IN  /\ Len(msg) = 12 + Count(c)
             /\ msg[1] = ASID_SYSEX_START /\ msg[2] = ASID_SYSEX_MAN_ID
             /\ msg[3] = asid_update[c + 1] /\ msg[Len(msg)] = ASID_SYSEX_STOP
             /\ \A k \in 1..4 : msg[3 + k] = Septets(Slots(c))[k]
             /\ \A k \in 1..4 : msg[7 + k] = Septets(HighSlots(c))[k]
             /\ \A k \in 1..Count(c) : msg[11 + k] = Value(c, Changed(c)[k]) % 128
<1> DEFINE mask == Septets(Slots(c))
           msb == Septets(HighSlots(c))
           values == [k \in DOMAIN Changed(c) |-> Value(c, Changed(c)[k]) % 128]
           header == mask \o msb
           body == header \o values
           msg == UpdateForm(c)
<1>1. /\ mask \in Seq(Int) /\ Len(mask) = 4 /\ msb \in Seq(Int) /\ Len(msb) = 4
  <2>1. \A k \in 1..4 : mask[k] \in Int /\ msb[k] \in Int
    BY SlotTypes, SeptetBits
  <2>2. DOMAIN mask = 1..4 /\ DOMAIN msb = 1..4
    BY DEF Septets
  <2>3. mask = [k \in 1..4 |-> mask[k]] /\ msb = [k \in 1..4 |-> msb[k]]
    BY DEF Septets
  <2> HIDE DEF mask, msb
  <2> QED
    BY <2>1, <2>2, <2>3
<1>2. /\ values \in Seq(Int) /\ Len(values) = Count(c) /\ Count(c) \in Nat
      /\ \A k \in 1..Count(c) : values[k] = Value(c, Changed(c)[k]) % 128
  <2>1. /\ DOMAIN Changed(c) = 1..Count(c) /\ Count(c) \in Nat
        /\ \A k \in 1..Count(c) : Value(c, Changed(c)[k]) \in 0..255
    BY ChangedValues
  <2>2. ASSUME NEW k \in 1..Count(c)
        PROVE  Value(c, Changed(c)[k]) % 128 \in Int
    <3>1. Value(c, Changed(c)[k]) \in 0..255
      BY <2>1
    <3> QED
      BY <3>1, SplitByte
  <2> QED
    BY <2>1, <2>2
<1> HIDE DEF mask, msb, values
<1>3. /\ header \in Seq(Int) /\ Len(header) = Len(mask) + Len(msb)
      /\ \A i \in 1..Len(mask) : header[i] = mask[i]
      /\ \A i \in 1..Len(msb) : header[Len(mask) + i] = msb[i]
  BY <1>1, Joined, Zenon
<1> HIDE DEF header
<1>4. /\ body \in Seq(Int) /\ Len(body) = Len(header) + Len(values)
      /\ \A i \in 1..Len(header) : body[i] = header[i]
      /\ \A i \in 1..Len(values) : body[Len(header) + i] = values[i]
  BY <1>2, <1>3, Joined, Zenon
<1>5. msg = SysEx(asid_update[c + 1], body)
  BY DEF UpdateForm, header, mask, msb, values
<1> HIDE DEF body, msg
<1>6. asid_update[c + 1] \in Int
  BY DEF asid_update, Chips
<1>7. /\ Len(msg) = Len(body) + 4 /\ Len(body) \in Nat
      /\ msg[1] = ASID_SYSEX_START /\ msg[2] = ASID_SYSEX_MAN_ID /\ msg[3] = asid_update[c + 1]
      /\ \A i \in 1..Len(body) : msg[i + 3] = body[i]
      /\ msg[Len(msg)] = ASID_SYSEX_STOP
  BY <1>4, <1>5, <1>6, SysExBytes, SMTT(30)
<1>8. Len(header) = 8 /\ Len(body) = 8 + Count(c)
  BY <1>1, <1>2, <1>3, <1>4
<1>9. ASSUME NEW k \in 1..4
      PROVE  msg[3 + k] = mask[k]
  <2>1. k \in 1..Len(mask) /\ k \in 1..Len(header) /\ k \in 1..Len(body) /\ k + 3 = 3 + k
    BY <1>1, <1>2, <1>8
  <2> QED
    BY <1>3, <1>4, <1>7, <2>1
<1>10. ASSUME NEW k \in 1..4
       PROVE  msg[7 + k] = msb[k]
  <2>1. /\ k \in 1..Len(msb) /\ 4 + k \in 1..Len(header) /\ 4 + k \in 1..Len(body)
        /\ (4 + k) + 3 = 7 + k
    BY <1>1, <1>2, <1>8
  <2>2. header[4 + k] = msb[k]
    BY <1>1, <1>3, <2>1
  <2> QED
    BY <1>4, <1>7, <2>1, <2>2
<1>11. ASSUME NEW k \in 1..Count(c)
       PROVE  msg[11 + k] = values[k]
  <2>1. k \in 1..Len(values) /\ 8 + k \in 1..Len(body) /\ (8 + k) + 3 = 11 + k
    BY <1>2, <1>8
  <2>2. body[8 + k] = values[k]
    BY <1>4, <1>8, <2>1
  <2> QED
    BY <1>7, <2>1, <2>2
<1>12. Len(msg) = 12 + Count(c)
  BY <1>2, <1>7, <1>8
<1> QED
  BY <1>2, <1>7, <1>9, <1>10, <1>11, <1>12 DEF mask, msb, msg

\* Which byte of a register update is what.
LEMMA UpdateRegBytes ==
  ASSUME TypeOK, NEW c \in Chips
  PROVE  LET msg == UpdateRegForm(c)
         IN  /\ Len(msg) = 4 + 2 * Count(c)
             /\ msg[1] = ASID_SYSEX_START /\ msg[2] = ASID_SYSEX_MAN_ID
             /\ msg[3] = asid_update_reg[c + 1] /\ msg[Len(msg)] = ASID_SYSEX_STOP
             /\ \A k \in 1..Count(c) : /\ msg[2 * k + 2] = RegisterByte(c, Changed(c)[k])
                                       /\ msg[2 * k + 3] = Value(c, Changed(c)[k]) % 128
<1> DEFINE byte(p) == LET r == Changed(c)[(p + 1) \div 2]
                      IN IF p % 2 = 1 THEN RegisterByte(c, r) ELSE Value(c, r) % 128
           body == [p \in 1..(2 * Count(c)) |-> byte(p)]
           msg == UpdateRegForm(c)
<1>1. /\ Len(Changed(c)) = Count(c) /\ Count(c) \in Nat
      /\ \A k \in 1..Count(c) : Changed(c)[k] \in Regs /\ Value(c, Changed(c)[k]) \in 0..255
  BY ChangedValues
<1>2. msg = SysEx(asid_update_reg[c + 1], body)
  BY <1>1 DEF UpdateRegForm
<1>3. ASSUME NEW p \in 1..(2 * Count(c))
      PROVE  byte(p) \in Int
  <2> DEFINE k == (p + 1) \div 2
  <2>1. k \in 1..Count(c)
    BY <1>1
  <2>2. Changed(c)[k] \in Regs /\ Value(c, Changed(c)[k]) \in 0..255
    BY <1>1, <2>1
  <2>3. RegisterByte(c, Changed(c)[k]) \in Int /\ Value(c, Changed(c)[k]) % 128 \in Int
    BY <2>2 DEF RegisterByte, Regs, ASID_NUM_REGS
  <2> QED
    BY <2>3
<1>4. body \in Seq(Int) /\ Len(body) = 2 * Count(c)
  <2> HIDE DEF byte
  <2> QED
    BY <1>1, <1>3
<1>5. ASSUME NEW k \in 1..Count(c)
      PROVE  /\ body[2 * k - 1] = RegisterByte(c, Changed(c)[k])
             /\ body[2 * k] = Value(c, Changed(c)[k]) % 128
  <2>1. /\ 2 * k - 1 \in 1..(2 * Count(c)) /\ ((2 * k - 1) + 1) \div 2 = k
        /\ (2 * k - 1) % 2 = 1
    BY <1>1
  <2>2. 2 * k \in 1..(2 * Count(c)) /\ ((2 * k) + 1) \div 2 = k /\ (2 * k) % 2 = 0
    BY <1>1
  <2> QED
    BY <2>1, <2>2
<1> HIDE DEF body, msg
<1>6. asid_update_reg[c + 1] \in Int
  BY DEF asid_update_reg, Chips
<1>7. /\ Len(msg) = Len(body) + 4
      /\ msg[1] = ASID_SYSEX_START /\ msg[2] = ASID_SYSEX_MAN_ID
      /\ msg[3] = asid_update_reg[c + 1]
      /\ \A i \in 1..Len(body) : msg[i + 3] = body[i]
      /\ msg[Len(msg)] = ASID_SYSEX_STOP
  BY <1>2, <1>4, <1>6, SysExBytes
<1>8. ASSUME NEW k \in 1..Count(c)
      PROVE  msg[2 * k + 2] = body[2 * k - 1] /\ msg[2 * k + 3] = body[2 * k]
  <2>1. /\ 2 * k - 1 \in 1..Len(body) /\ 2 * k \in 1..Len(body)
        /\ (2 * k - 1) + 3 = 2 * k + 2
    BY <1>1, <1>4
  <2> QED
    BY <1>7, <2>1
<1>9. Len(msg) = 4 + 2 * Count(c)
  BY <1>1, <1>4, <1>7
<1> QED
  BY <1>5, <1>7, <1>8, <1>9 DEF msg

----------------------------------------------------------------------------
(* What the player decodes.                                                *)

\* The changes in packing order.
Packing(c) == [k \in 1..Count(c) |-> <<Changed(c)[k], Value(c, Changed(c)[k])>>]

\* No opcode of a chip is one of the other chip's, or of its other form.
LEMMA OpcodesDiffer ==
  ASSUME NEW c \in Chips
  PROVE  /\ 1 - c \in Chips
         /\ asid_update[c + 1] # asid_update[(1 - c) + 1]
         /\ asid_update[c + 1] # asid_update_reg[(1 - c) + 1]
         /\ asid_update_reg[c + 1] # asid_update[c + 1]
         /\ asid_update_reg[c + 1] # asid_update[(1 - c) + 1]
         /\ asid_update_reg[c + 1] # asid_update_reg[(1 - c) + 1]
         /\ asid_update[c + 1] \in 0..127 /\ asid_update_reg[c + 1] \in 0..127
<1>1. /\ asid_update[1] = 78 /\ asid_update[2] = 80
      /\ asid_update_reg[1] = 108 /\ asid_update_reg[2] = 109
  BY DEF asid_update, asid_update_reg
<1>2. c = 0 \/ c = 1
  BY DEF Chips
<1>3. CASE c = 0
  BY <1>1, <1>3 DEF Chips
<1>4. CASE c = 1
  BY <1>1, <1>4 DEF Chips
<1> QED
  BY <1>2, <1>3, <1>4

\* A player gets the changes from an update, for the chip it is of.
LEMMA UpdateDecodes ==
  ASSUME TypeOK, NEW c \in Chips
  PROVE  Decode(c, UpdateForm(c)) = Packing(c) /\ Decode(1 - c, UpdateForm(c)) = <<>>
<1> DEFINE msg == UpdateForm(c)
           S == Slots(c)
           H == HighSlots(c)
           slots == {i \in 0..27 : Bit(msg, 4, i) = 1}
<1>1. /\ S \in SUBSET (0..27) /\ H \in SUBSET (0..27) /\ Count(c) \in Nat
      /\ \A r \in Regs : Value(c, r) \in 0..255
  BY SlotTypes
<1>2. /\ msg[3] = asid_update[c + 1]
      /\ \A k \in 1..4 : msg[3 + k] = Septets(S)[k]
      /\ \A k \in 1..4 : msg[7 + k] = Septets(H)[k]
      /\ \A k \in 1..Count(c) : msg[11 + k] = Value(c, Changed(c)[k]) % 128
  BY UpdateBytes
<1> HIDE DEF msg
<1>3. \A k \in 1..4 : msg[4 + k - 1] = Septets(S)[k] /\ msg[8 + k - 1] = Septets(H)[k]
  <2> TAKE k \in 1..4
  <2>1. 4 + k - 1 = 3 + k /\ 8 + k - 1 = 7 + k
    OBVIOUS
  <2> QED
    BY <1>2, <2>1
<1> HIDE DEF S, H
<1>4. \A i \in 0..27 : Bit(msg, 4, i) = IF i \in S THEN 1 ELSE 0
  BY <1>1, <1>3, SeptetsCarry
<1>5. \A i \in 0..27 : Bit(msg, 8, i) = IF i \in H THEN 1 ELSE 0
  BY <1>1, <1>3, SeptetsCarry
<1>6. slots = S
  <2>1. \A i \in 0..27 : Bit(msg, 4, i) = 1 <=> i \in S
    BY <1>4
  <2> QED
    BY <1>1, <2>1
<1>7. Cardinality(S) = Count(c)
  BY DEF S, Count
<1>8. DecodeUpdate(msg) = [k \in 1..Count(c) |->
         <<regmap[Nth(S, k) + 1], 128 * Bit(msg, 8, Nth(S, k)) + msg[11 + k]>>]
  BY <1>6, <1>7 DEF DecodeUpdate
<1>9. ASSUME NEW k \in 1..Count(c)
      PROVE  /\ regmap[Nth(S, k) + 1] = Changed(c)[k]
             /\ 128 * Bit(msg, 8, Nth(S, k)) + msg[11 + k] = Value(c, Changed(c)[k])
  <2> DEFINE i == Nth(S, k)
             v == Value(c, Changed(c)[k])
  <2>1. i \in S /\ regmap[i + 1] = Changed(c)[k] /\ Changed(c)[k] \in Regs
    BY ChangedRegisters DEF S
  <2>2. i \in 0..27 /\ v \in 0..255
    BY <1>1, <2>1
  <2>3. i \in H <=> v > 127
    BY <2>1 DEF H, S, HighSlots, High
  <2> HIDE DEF i, v
  <2>4. Bit(msg, 8, i) = IF v > 127 THEN 1 ELSE 0
    BY <1>5, <2>2, <2>3
  <2>5. msg[11 + k] = v % 128
    BY <1>2 DEF v
  <2>6. v = 128 * (IF v > 127 THEN 1 ELSE 0) + (v % 128)
    BY <2>2, SplitByte
  <2>7. 128 * Bit(msg, 8, i) + msg[11 + k] = v
    BY <2>4, <2>5, <2>6
  <2> QED
    BY <2>1, <2>7 DEF i, v
<1>10. DecodeUpdate(msg) = Packing(c)
  BY <1>8, <1>9 DEF Packing
<1>11. Decode(c, msg) = Packing(c)
  BY <1>2, <1>10, OpcodesDiffer DEF Decode
<1>12. Decode(1 - c, msg) = <<>>
  BY <1>2, OpcodesDiffer DEF Decode
<1> QED
  BY <1>11, <1>12 DEF msg

\* And from a register update.
LEMMA UpdateRegDecodes ==
  ASSUME TypeOK, NEW c \in Chips
  PROVE  Decode(c, UpdateRegForm(c)) = Packing(c) /\ Decode(1 - c, UpdateRegForm(c)) = <<>>
<1> DEFINE msg == UpdateRegForm(c)
<1>1. /\ Len(msg) = 4 + 2 * Count(c) /\ msg[3] = asid_update_reg[c + 1]
      /\ \A k \in 1..Count(c) : /\ msg[2 * k + 2] = RegisterByte(c, Changed(c)[k])
                                /\ msg[2 * k + 3] = Value(c, Changed(c)[k]) % 128
  BY UpdateRegBytes
<1>2. /\ Count(c) \in Nat
      /\ \A k \in 1..Count(c) : Changed(c)[k] \in 0..24 /\ Value(c, Changed(c)[k]) \in 0..255
  <2>1. Regs = 0..24
    BY DEF Regs, ASID_NUM_REGS
  <2> QED
    BY <2>1, ChangedValues
<1> HIDE DEF msg
<1>3. (Len(msg) - 4) \div 2 = Count(c)
  BY <1>1, <1>2
<1>4. DecodeUpdateReg(msg) = [k \in 1..Count(c) |->
         <<msg[2 * k + 2] % 64, 128 * (msg[2 * k + 2] \div 64) + msg[2 * k + 3]>>]
  BY <1>3 DEF DecodeUpdateReg
<1>5. ASSUME NEW k \in 1..Count(c)
      PROVE  /\ msg[2 * k + 2] % 64 = Changed(c)[k]
             /\ 128 * (msg[2 * k + 2] \div 64) + msg[2 * k + 3] = Value(c, Changed(c)[k])
  <2> DEFINE r == Changed(c)[k]
             v == Value(c, r)
             enc == msg[2 * k + 2]
  <2>1. r \in 0..24 /\ v \in 0..255 /\ msg[2 * k + 3] = v % 128
    BY <1>1, <1>2
  <2>2. enc = r + (IF v > 127 THEN 64 ELSE 0)
    BY <1>1 DEF RegisterByte, High
  <2>3. v = 128 * (IF v > 127 THEN 1 ELSE 0) + (v % 128)
    BY <2>1, SplitByte
  <2> HIDE DEF r, v, enc
  <2>4. enc % 64 = r /\ enc \div 64 = IF v > 127 THEN 1 ELSE 0
    BY <2>1, <2>2
  <2>5. 128 * (enc \div 64) + msg[2 * k + 3] = v
    BY <2>1, <2>3, <2>4
  <2> QED
    BY <2>4, <2>5 DEF r, v, enc
<1>6. DecodeUpdateReg(msg) = Packing(c)
  BY <1>4, <1>5 DEF Packing
<1>7. Decode(c, msg) = Packing(c)
  BY <1>1, <1>6, OpcodesDiffer DEF Decode
<1>8. Decode(1 - c, msg) = <<>>
  BY <1>1, OpcodesDiffer DEF Decode
<1> QED
  BY <1>7, <1>8 DEF msg

----------------------------------------------------------------------------
(* What the message of a flush is.                                         *)

\* Every byte of the standard form but the first and the last is data.
LEMMA UpdateIsData ==
  ASSUME TypeOK, NEW c \in Chips, NEW i \in 2..(Len(UpdateForm(c)) - 1)
  PROVE  UpdateForm(c)[i] \in 0..127
<1> DEFINE msg == UpdateForm(c)
<1>1. /\ Len(msg) = 12 + Count(c) /\ Count(c) \in Nat
      /\ msg[2] = ASID_SYSEX_MAN_ID /\ msg[3] = asid_update[c + 1]
      /\ \A k \in 1..4 : msg[3 + k] = Septets(Slots(c))[k]
      /\ \A k \in 1..4 : msg[7 + k] = Septets(HighSlots(c))[k]
      /\ \A k \in 1..Count(c) : msg[11 + k] = Value(c, Changed(c)[k]) % 128
  BY UpdateBytes, SlotTypes
<1>2. CASE i = 2
  BY <1>1, <1>2 DEF ASID_SYSEX_MAN_ID
<1>3. CASE i = 3
  BY <1>1, <1>3, OpcodesDiffer
<1>4. CASE i \in 4..7
  <2>1. i - 3 \in 1..4 /\ 3 + (i - 3) = i
    BY <1>4
  <2>2. msg[i] = Septets(Slots(c))[i - 3]
    BY <1>1, <2>1
  <2>3. Slots(c) \in SUBSET (0..27)
    BY SlotTypes
  <2>4. Septets(Slots(c))[i - 3] \in 0..127
    BY <2>1, <2>3, SeptetBits
  <2> QED
    BY <2>2, <2>4
<1>5. CASE i \in 8..11
  <2>1. i - 7 \in 1..4 /\ 7 + (i - 7) = i
    BY <1>5
  <2>2. msg[i] = Septets(HighSlots(c))[i - 7]
    BY <1>1, <2>1
  <2>3. HighSlots(c) \in SUBSET (0..27)
    BY SlotTypes
  <2>4. Septets(HighSlots(c))[i - 7] \in 0..127
    BY <2>1, <2>3, SeptetBits
  <2> QED
    BY <2>2, <2>4
<1>6. CASE i > 11
  <2> DEFINE k == i - 11
  <2>1. k \in 1..Count(c) /\ 11 + k = i
    BY <1>1, <1>6
  <2>2. msg[i] = Value(c, Changed(c)[k]) % 128
    BY <1>1, <2>1
  <2>3. Value(c, Changed(c)[k]) \in 0..255
    BY <2>1, ChangedValues
  <2>4. Value(c, Changed(c)[k]) % 128 \in 0..127
    BY <2>3, SplitByte
  <2> QED
    BY <2>2, <2>4
<1> HIDE DEF msg
<1>7. i \in Int /\ i \geq 2
  BY <1>1 DEF msg
<1> QED
  BY <1>2, <1>3, <1>4, <1>5, <1>6, <1>7 DEF msg

\* Nor is a byte of the short form anything else.
LEMMA UpdateRegIsData ==
  ASSUME TypeOK, NEW c \in Chips, NEW i \in 2..(Len(UpdateRegForm(c)) - 1)
  PROVE  UpdateRegForm(c)[i] \in 0..127
<1> DEFINE msg == UpdateRegForm(c)
           k == (i - 2) \div 2
           r == Changed(c)[k]
<1>1. /\ Len(msg) = 4 + 2 * Count(c) /\ Count(c) \in Nat
      /\ msg[2] = ASID_SYSEX_MAN_ID /\ msg[3] = asid_update_reg[c + 1]
      /\ \A j \in 1..Count(c) : /\ msg[2 * j + 2] = RegisterByte(c, Changed(c)[j])
                                /\ msg[2 * j + 3] = Value(c, Changed(c)[j]) % 128
  BY UpdateRegBytes, SlotTypes
<1>2. CASE i = 2
  BY <1>1, <1>2 DEF ASID_SYSEX_MAN_ID
<1>3. CASE i = 3
  BY <1>1, <1>3, OpcodesDiffer
<1>4. CASE i > 3
  <2>1. k \in 1..Count(c) /\ (i = 2 * k + 2 \/ i = 2 * k + 3)
    BY <1>1, <1>4
  <2>2. r \in Regs
    BY <2>1, ChangedValues
  <2>3. Value(c, r) \in 0..255
    BY <2>1, ChangedValues
  <2>4. RegisterByte(c, r) \in 0..127
    <3> HIDE DEF r
    <3>1. r \in 0..24
      BY <2>2 DEF Regs, ASID_NUM_REGS
    <3> QED
      BY <3>1 DEF RegisterByte
  <2>5. Value(c, r) % 128 \in 0..127
    BY <2>3, SplitByte
  <2>6. msg[2 * k + 2] \in 0..127 /\ msg[2 * k + 3] \in 0..127
    BY <1>1, <2>1, <2>4, <2>5
  <2> HIDE DEF msg, k
  <2>7. msg[i] \in 0..127
    BY <2>1, <2>6
  <2> QED
    BY <2>7 DEF msg
<1> HIDE DEF msg, k, r
<1>5. i \in Int /\ i \geq 2
  BY <1>1 DEF msg
<1> QED
  BY <1>2, <1>3, <1>4, <1>5 DEF msg

\* What both forms say.
LEMMA MessageSays ==
  ASSUME TypeOK, NEW c \in Chips, NEW msg \in {UpdateForm(c), UpdateRegForm(c)},
         NEW saved, out' = Message(c, msg, saved)
  PROVE  /\ OneSysEx' /\ DecodesToChanges' /\ GatesLast'
         /\ Decode(out'.chip, out'.msg) = Packing(c)
<1>1. /\ out'.emitted /\ out'.chip = c /\ out'.msg = msg
      /\ out'.changes = [r \in sid_modified[c] |-> Value(c, r)]
  BY DEF Message
<1>2. Decode(c, msg) = Packing(c) /\ Decode(1 - c, msg) = <<>>
  BY UpdateDecodes, UpdateRegDecodes
<1>3. OneSysEx'
  <2>1. msg[1] = ASID_SYSEX_START /\ msg[Len(msg)] = ASID_SYSEX_STOP
    BY UpdateBytes, UpdateRegBytes
  <2>2. \A i \in 2..(Len(msg) - 1) : msg[i] \in 0..127
    BY UpdateIsData, UpdateRegIsData
  <2> QED
    BY <1>1, <2>1, <2>2 DEF OneSysEx
<1> DEFINE n == Count(c)
           reg(k) == Changed(c)[k]
           mod == sid_modified[c]
<1>4. /\ DOMAIN Packing(c) = 1..n
      /\ \A k \in 1..n : /\ Packing(c)[k] = <<reg(k), Value(c, reg(k))>>
                         /\ Packing(c)[k][1] = reg(k)
  BY DEF Packing
<1>5. /\ \A k \in 1..n : reg(k) \in mod
      /\ \A k, l \in 1..n : reg(k) = reg(l) => k = l
      /\ \A k, l \in 1..n : k < l /\ reg(k) \in ControlRegs => reg(l) \in ControlRegs
      /\ \A r \in mod : \E k \in 1..n : reg(k) = r
  BY ChangedRegisters
<1> HIDE DEF n, reg, mod
<1>6. IsInjective(Packing(c))
  BY <1>4, <1>5 DEF IsInjective
<1>7. Range(Packing(c)) = {<<r, Value(c, r)>> : r \in mod}
  <2>1. \A k \in 1..n : Packing(c)[k] \in {<<r, Value(c, r)>> : r \in mod}
    BY <1>4, <1>5
  <2>2. \A r \in mod : \E k \in 1..n : Packing(c)[k] = <<r, Value(c, r)>>
    BY <1>4, <1>5
  <2> QED
    BY <1>4, <2>1, <2>2 DEF Range
<1>8. {<<r, out'.changes[r]>> : r \in DOMAIN out'.changes} = {<<r, Value(c, r)>> : r \in mod}
  BY <1>1 DEF mod
<1>9. DecodesToChanges'
  BY <1>1, <1>2, <1>6, <1>7, <1>8 DEF DecodesToChanges
<1>10. GatesLast'
  BY <1>1, <1>2, <1>4, <1>5 DEF GatesLast
<1> QED
  BY <1>1, <1>2, <1>3, <1>9, <1>10

\* The shorter of two lengths.
LEMMA MinOfTwo ==
  ASSUME NEW a \in Int, NEW b \in Int
  PROVE  Min({a, b}) = IF a \leq b THEN a ELSE b
<1> DEFINE m == IF a \leq b THEN a ELSE b
<1>1. m \in {a, b} /\ \A y \in {a, b} : m \leq y
  OBVIOUS
<1>2. \A x \in {a, b} : (\A y \in {a, b} : x \leq y) => x = m
  OBVIOUS
<1> HIDE DEF m
<1>3. Min({a, b}) = m
  BY <1>1, <1>2 DEF Min
<1> QED
  BY <1>3 DEF m

\* A flush sends a message that is all the properties ask.
LEMMA EmitStep ==
  ASSUME TypeOK, NEW c \in Chips, Emit(c), use_update_reg' = use_update_reg
  PROVE  /\ OneSysEx' /\ DecodesToChanges' /\ GatesLast' /\ CheaperForm'
         /\ out'.emitted
<1> DEFINE n == Count(c)
           short == UpdateRegForm(c)
           long == UpdateForm(c)
<1>1. Len(long) = 12 + n /\ Len(short) = 4 + 2 * n /\ n \in Nat
  BY UpdateBytes, UpdateRegBytes, SlotTypes
<1>2. Len(Packing(c)) = n
  BY <1>1 DEF Packing
<1> HIDE DEF n, short, long
<1>3. Min({12 + n, 4 + 2 * n}) = IF 12 + n \leq 4 + 2 * n THEN 12 + n ELSE 4 + 2 * n
  BY <1>1, MinOfTwo
<1>4. CASE use_update_reg /\ Len(short) < Len(long)
  <2>1. out' = Message(c, short, Len(long) - Len(short))
    BY <1>4 DEF Emit, short, long
  <2>2. /\ OneSysEx' /\ DecodesToChanges' /\ GatesLast'
        /\ Decode(out'.chip, out'.msg) = Packing(c)
    BY <2>1, MessageSays DEF short
  <2>3. out'.emitted /\ out'.msg = short /\ out'.saved = Len(long) - Len(short)
    BY <2>1 DEF Message
  <2>4. Len(out'.msg) = Min({12 + n, 4 + 2 * n})
    BY <1>1, <1>3, <1>4, <2>3
  <2>5. Len(out'.msg) + out'.saved = 12 + n /\ out'.saved \geq 0
    BY <1>1, <1>4, <2>3
  <2>6. CheaperForm'
    BY <1>2, <1>4, <2>2, <2>4, <2>5 DEF CheaperForm
  <2> QED
    BY <2>2, <2>3, <2>6
<1>5. CASE ~ (use_update_reg /\ Len(short) < Len(long))
  <2>1. out' = Message(c, long, 0)
    BY <1>5 DEF Emit, short, long
  <2>2. /\ OneSysEx' /\ DecodesToChanges' /\ GatesLast'
        /\ Decode(out'.chip, out'.msg) = Packing(c)
    BY <2>1, MessageSays DEF long
  <2>3. out'.emitted /\ out'.msg = long /\ out'.saved = 0
    BY <2>1 DEF Message
  <2>4. Len(out'.msg) = IF use_update_reg THEN Min({12 + n, 4 + 2 * n}) ELSE 12 + n
    BY <1>1, <1>3, <1>5, <2>3
  <2>5. Len(out'.msg) + out'.saved = 12 + n /\ out'.saved \geq 0
    BY <1>1, <2>3
  <2>6. CheaperForm'
    BY <1>2, <2>2, <2>4, <2>5 DEF CheaperForm
  <2> QED
    BY <2>2, <2>3, <2>6
<1> QED
  BY <1>4, <1>5

\* And a step that sends nothing is silent.
LEMMA SilentStep ==
  ASSUME out' = NoMessage
  PROVE  /\ OneSysEx' /\ DecodesToChanges' /\ GatesLast' /\ CheaperForm'
         /\ out'.emitted \in BOOLEAN
<1>1. out'.emitted = FALSE
  BY DEF NoMessage
<1> QED
  BY <1>1 DEF OneSysEx, DecodesToChanges, GatesLast, CheaperForm

----------------------------------------------------------------------------
(* The invariant.                                                          *)

Bits(r) == 0..(IF r \in {3, 10, 17} THEN 15 ELSE IF r = 21 THEN 7 ELSE 255)

\* What asid_core_set_reg leaves of a byte fits the register.
LEMMA MaskedBits ==
  ASSUME NEW r \in Regs, NEW byte \in 0..255
  PROVE  Masked(r, byte) \in Bits(r) /\ Masked(r, byte) \in 0..255
<1>1. CASE r \in {3, 10, 17}
  <2>1. Masked(r, byte) = byte % 16
    BY <1>1 DEF Masked
  <2> QED
    BY <1>1, <2>1 DEF Bits
<1>2. CASE r = 21
  <2>1. Masked(r, byte) = byte % 8
    BY <1>2 DEF Masked
  <2> QED
    BY <1>2, <2>1 DEF Bits
<1>3. CASE r \notin {3, 10, 17} /\ r # 21
  <2>1. Masked(r, byte) = byte % 256
    BY <1>3 DEF Masked
  <2> QED
    BY <1>3, <2>1 DEF Bits
<1> QED
  BY <1>1, <1>2, <1>3

\* No property mentions a state before the last message, so together with the types
\* they are inductive.
IInv == TypeOK /\ OneSysEx /\ DecodesToChanges /\ GatesLast /\ CheaperForm

\* At start nothing has been sent.
LEMMA InitIInv == Init => IInv
<1> SUFFICES ASSUME Init PROVE IInv
  OBVIOUS
<1>1. out.emitted = FALSE
  BY DEF Init, NoMessage
<1>2. \A c \in Chips : \A r \in Regs : Value(c, r) = 0
  BY DEF Init, Value, Regs
<1>3. \A c \in Chips : \A r \in Regs : Value(c, r) \in Bits(r)
  BY <1>2 DEF Bits
<1>4. /\ sid_register \in [Chips -> [Regs -> 0..255]]
      /\ sid_modified \in [Chips -> SUBSET Regs] /\ use_update_reg \in BOOLEAN
  BY DEF Init, Regs
<1>5. TypeOK
  BY <1>1, <1>3, <1>4 DEF TypeOK, Regs, Bits
<1> QED
  BY <1>1, <1>5 DEF IInv, OneSysEx, DecodesToChanges, GatesLast, CheaperForm

\* A flush emits a message that is whole, true, in order and the shorter one.
LEMMA FlushStep ==
  ASSUME IInv, NEW c \in Chips, asid_core_flush(c)
  PROVE  IInv'
<1>1. /\ OneSysEx' /\ DecodesToChanges' /\ GatesLast' /\ CheaperForm'
      /\ out'.emitted \in BOOLEAN
  <2>1. CASE sid_modified[c] # {}
    BY <2>1, EmitStep DEF IInv, asid_core_flush
  <2>2. CASE sid_modified[c] = {}
    BY <2>2, SilentStep DEF asid_core_flush
  <2> QED
    BY <2>1, <2>2
<1>2. sid_modified' \in [Chips -> SUBSET Regs]
  BY DEF IInv, TypeOK, asid_core_flush, Regs
<1>3. TypeOK'
  BY <1>1, <1>2 DEF IInv, TypeOK, asid_core_flush, Value, Regs
<1> QED
  BY <1>1, <1>3 DEF IInv

\* So does the write that flushes at a second gate edge; any other sends nothing.
LEMMA SetRegStep ==
  ASSUME IInv, NEW c \in Chips, NEW r \in 0..31, NEW byte \in 0..255,
         asid_core_set_reg(c, r, byte)
  PROVE  IInv'
<1> DEFINE val == Masked(r, byte)
           edge == r \in ControlRegs /\ r \in sid_modified[c]
<1>1. CASE r \notin Regs \/ Value(c, r) = val
  <2>1. out' = NoMessage /\ UNCHANGED <<use_update_reg, sid_register, sid_modified>>
    BY <1>1 DEF asid_core_set_reg, Regs
  <2> QED
    BY <2>1, SilentStep DEF IInv, TypeOK, Value
<1>2. CASE r \in Regs /\ Value(c, r) # val
  <2>1. /\ IF edge THEN Emit(c) ELSE out' = NoMessage
        /\ sid_register' = [sid_register EXCEPT ![c][r] = val]
        /\ sid_modified' = [sid_modified EXCEPT ![c] = (IF edge THEN {} ELSE @) \cup {r}]
        /\ use_update_reg' = use_update_reg
    BY <1>2 DEF asid_core_set_reg, Regs
  <2>2. /\ OneSysEx' /\ DecodesToChanges' /\ GatesLast' /\ CheaperForm'
        /\ out'.emitted \in BOOLEAN
    <3>1. CASE edge
      BY <2>1, <3>1, EmitStep DEF IInv
    <3>2. CASE ~ edge
      BY <2>1, <3>2, SilentStep
    <3> QED
      BY <3>1, <3>2
  <2>3. val \in Bits(r) /\ val \in 0..255
    BY <1>2, MaskedBits
  <2> HIDE DEF val, edge
  <2>4. sid_modified' \in [Chips -> SUBSET Regs]
    BY <1>2, <2>1 DEF IInv, TypeOK, Regs
  <2>5. sid_register' \in [Chips -> [Regs -> 0..255]]
    BY <1>2, <2>1, <2>3 DEF IInv, TypeOK, Regs
  <2>6. ASSUME NEW d \in Chips, NEW q \in Regs
        PROVE  sid_register'[d][q] \in Bits(q)
    <3>1. sid_register[d][q] \in Bits(q)
      BY DEF IInv, TypeOK, Regs, Value, Bits
    <3>2. sid_register'[d][q] = IF d = c /\ q = r THEN val ELSE sid_register[d][q]
      <4>1. sid_register \in [Chips -> [Regs -> 0..255]]
        BY DEF IInv, TypeOK, Regs
      <4> QED
        BY <1>2, <2>1, <4>1
    <3> QED
      BY <2>3, <3>1, <3>2
  <2>7. TypeOK'
    BY <2>1, <2>2, <2>4, <2>5, <2>6 DEF IInv, TypeOK, Regs, Value, Bits
  <2> QED
    BY <2>2, <2>7 DEF IInv
<1> QED
  BY <1>1, <1>2

\* Every step keeps the invariant.
LEMMA StepIInv == IInv /\ [Next]_vars => IInv'
<1> SUFFICES ASSUME IInv, [Next]_vars PROVE IInv'
  OBVIOUS
<1>1. ASSUME NEW c \in Chips, asid_core_flush(c)
      PROVE  IInv'
  BY <1>1, FlushStep
<1>2. ASSUME NEW w \in Writes, asid_core_set_reg(w[1], w[2], w[3])
      PROVE  IInv'
  <2>1. w[1] \in Chips /\ w[2] \in 0..31 /\ w[3] \in 0..255
    BY AsidWireAssumption
  <2> QED
    BY <1>2, <2>1, SetRegStep
<1>3. CASE UNCHANGED vars
  BY <1>3 DEF vars, IInv, TypeOK, OneSysEx, DecodesToChanges, GatesLast, CheaperForm, Value
<1> QED
  BY <1>1, <1>2, <1>3 DEF Next

\* The invariant holds of whatever registers a program writes.
THEOREM Inductive == Spec => []IInv
  BY InitIInv, StepIInv, PTL DEF Spec

\* A register holds its writable bits only, whatever is written (asid_core_set_reg).
THEOREM TypeCorrect == Spec => []TypeOK
<1>1. IInv => TypeOK
  BY DEF IInv
<1> QED
  BY <1>1, Inductive, PTL

\* Every byte between the frame of a message is data (asid_core_flush).
THEOREM AlwaysOneSysEx == Spec => []OneSysEx
<1>1. IInv => OneSysEx
  BY DEF IInv
<1> QED
  BY <1>1, Inductive, PTL

\* Both forms of a message carry exactly the changes of their flush (asid_core_flush).
THEOREM FormsCarryChanges == Spec => []DecodesToChanges
<1>1. IInv => DecodesToChanges
  BY DEF IInv
<1> QED
  BY <1>1, Inductive, PTL

\* Whatever has changed, the control registers come last (regmap).
THEOREM GatesAlwaysLast == Spec => []GatesLast
<1>1. IInv => GatesLast
  BY DEF IInv
<1> QED
  BY <1>1, Inductive, PTL

\* The shorter form is the one that is sent (asid_core_flush).
THEOREM AlwaysCheaperForm == Spec => []CheaperForm
<1>1. IInv => CheaperForm
  BY DEF IInv
<1> QED
  BY <1>1, Inductive, PTL
=============================================================================
