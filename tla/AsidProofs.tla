------------------------------ MODULE AsidProofs -----------------------------
(***************************************************************************)
(* Asid, proved for every set of chips, registers and bytes, every pad,    *)
(* threshold and clock rate, every pool size and every interleaving of     *)
(* writes, IRQs, deliveries and sessions.                                  *)
(***************************************************************************)
EXTENDS Asid, TLAPS

(* Arithmetic.                                                             *)

\* Masking leaves the writable bits.
LEMMA MaskedType ==
  ASSUME NEW r \in Regs, NEW byte \in Bytes
  PROVE  Masked(r, byte) \in Nat /\ Masked(r, byte) < Width[r]
<1>1. Width[r] \in Nat /\ Width[r] > 0 /\ byte \in Nat
  BY AsidAssumption
<1> QED
  BY <1>1 DEF Masked

\* A product of naturals is one.
LEMMA TimesNat == \A a, b \in Nat : a * b \in Nat
  OBVIOUS

\* A quotient is one.
LEMMA DivNat == \A a \in Nat, b \in Nat : b > 0 => a \div b \in Nat
  OBVIOUS

\* A quotient grows with its dividend.
LEMMA DivMonotone == \A a, b, d \in Nat : d > 0 /\ a <= b => a \div d <= b \div d
  OBVIOUS

\* A product grows with its factor.
LEMMA TimesMonotone == \A a, b, n \in Nat : a <= b => a * n <= b * n
  OBVIOUS
\* The conversion to nanoseconds is monotone.
LEMMA NanosMonotone ==
  ASSUME NEW a \in Nat, NEW b \in Nat
  PROVE  /\ ClockToNanos(a) \in Nat
         /\ a <= b => ClockToNanos(a) <= ClockToNanos(b)
<1> DEFINE d == IF CyclesPerSec = 0 THEN PalCyclesPerSec ELSE CyclesPerSec
<1>1. d \in Nat /\ d > 0 /\ NanosPerSec \in Nat
  BY AsidAssumption
<1>2. a * NanosPerSec \in Nat /\ b * NanosPerSec \in Nat
  BY <1>1, TimesNat
<1>3. ClockToNanos(a) = (a * NanosPerSec) \div d /\ ClockToNanos(b) = (b * NanosPerSec) \div d
  BY DEF ClockToNanos
<1>4. (a * NanosPerSec) \div d \in Nat
  BY <1>1, <1>2, DivNat
<1>5. a <= b => a * NanosPerSec <= b * NanosPerSec
  BY <1>1, TimesMonotone
<1> HIDE DEF d
<1>6. a <= b => (a * NanosPerSec) \div d <= (b * NanosPerSec) \div d
  BY <1>1, <1>2, <1>5, DivMonotone
<1> QED
  BY <1>3, <1>4, <1>6

\* The delay of an IRQ flush is not negative, and leads to the timeline or to now.
LEMMA DelayType ==
  ASSUME IInv, NEW c \in Chips
  PROVE  /\ Delay(c) \in Nat
         /\ wall + Delay(c) >= Start(c) + ClockToNanos(irq_clk + CyclePad)
         /\ wall + Delay(c) > wall => wall + Delay(c) = Start(c) + ClockToNanos(irq_clk + CyclePad)
         /\ Start(c) \in Nat \ {0} /\ Start(c) <= wall
<1>1. Start(c) \in Nat \ {0} /\ Start(c) <= wall /\ wall \in Nat
  BY DEF IInv, TypeOK, Timeline, Start
<1>2. irq_clk + CyclePad \in Nat
  BY AsidAssumption DEF IInv, TypeOK
<1>3. ClockToNanos(irq_clk + CyclePad) \in Nat
  BY <1>2, NanosMonotone
<1> QED
  BY <1>1, <1>3 DEF Delay

----------------------------------------------------------------------------
(* Sending.                                                                *)

\* What sending, or not, does to the transport and to the history.
LEMMA FlushType ==
  ASSUME IInv, NEW c \in Chips, NEW nsec \in Nat, Flush(c, nsec)
  PROVE  /\ DOMAIN queue' = 1..Len(queue') /\ Len(queue') \in 0..PoolSize
         /\ \A i \in DOMAIN queue' : IsMessage(queue'[i])
         /\ emitted' \in [Chips -> [Regs -> Seq(Nat)]]
         /\ lost' \in [Chips -> BOOLEAN] /\ overtaken' \in [Chips -> BOOLEAN]
<1> DEFINE m == [chip |-> c, due |-> wall + nsec, regs |-> Update(c),
                 nth |-> [q \in sid_modified[c] |-> Len(emitted[c][q]) + 1]]
<1>1. IsMessage(m)
  <2>1. Update(c) \in [sid_modified[c] -> Nat] /\ sid_modified[c] \subseteq Regs
    BY DEF Update, IInv, TypeOK
  <2>2. wall + nsec \in Nat
    BY DEF IInv, TypeOK
  <2>3. [q \in sid_modified[c] |-> Len(emitted[c][q]) + 1] \in [sid_modified[c] -> Nat]
    <3>1. \A q \in sid_modified[c] : emitted[c][q] \in Seq(Nat)
      BY <2>1 DEF IInv, TypeOK
    <3> QED
      BY <3>1
  <2> QED
    BY <2>1, <2>2, <2>3 DEF IsMessage
<1>2. CASE UNCHANGED <<queue, emitted, overtaken, lost>>
  BY <1>2 DEF IInv, TypeOK
<1>3. CASE Send(c, nsec)
  <2>1. emitted' \in [Chips -> [Regs -> Seq(Nat)]]
    BY <1>3 DEF Send, IInv, TypeOK
  <2>2. lost' \in [Chips -> BOOLEAN]
    BY <1>3 DEF Send, IInv, TypeOK
  <2>3. overtaken' \in [Chips -> BOOLEAN]
    BY <1>3 DEF Send, IInv, TypeOK, Overtakes
  <2>4. CASE Len(queue) < PoolSize /\ queue' = Append(queue, m)
    <3>1. /\ DOMAIN queue = 1..Len(queue) /\ Len(queue) \in 0..PoolSize /\ PoolSize \in Nat
          /\ \A i \in DOMAIN queue : IsMessage(queue[i])
      BY AsidAssumption DEF IInv, TypeOK
    <3>2. /\ DOMAIN queue' = 1..(Len(queue) + 1) /\ Len(queue') = Len(queue) + 1
          /\ \A i \in 1..(Len(queue) + 1) :
                queue'[i] = IF i = Len(queue) + 1 THEN m ELSE queue[i]
      BY <2>4, <3>1
    <3> HIDE DEF m
    <3>3. \A i \in DOMAIN queue' : IsMessage(queue'[i])
      BY <1>1, <3>1, <3>2
    <3>4. DOMAIN queue' = 1..Len(queue') /\ Len(queue') \in 0..PoolSize
      BY <2>4, <3>1, <3>2
    <3> QED
      BY <2>1, <2>2, <2>3, <3>3, <3>4
  <2>5. CASE queue' = queue
    BY <2>1, <2>2, <2>3, <2>5 DEF IInv, TypeOK
  <2> QED
    BY <1>3, <2>4, <2>5 DEF Send
<1> QED
  BY <1>2, <1>3 DEF Flush, SendNothing
\* A flush appends the gathered value of every modified register to what was emitted.
LEMMA FlushEmits ==
  ASSUME IInv, NEW c \in Chips, NEW nsec \in Nat, Flush(c, nsec)
  PROVE  \A d \in Chips, q \in Regs :
            emitted'[d][q] = IF d = c /\ q \in sid_modified[c]
                             THEN Append(emitted[d][q], sid_register[d][q])
                             ELSE emitted[d][q]
<1>1. emitted \in [Chips -> [Regs -> Seq(Nat)]]
  BY DEF IInv, TypeOK
<1>2. CASE Send(c, nsec)
  BY <1>1, <1>2 DEF Send
<1>3. CASE sid_modified[c] = {} /\ SendNothing
  BY <1>1, <1>3 DEF SendNothing
<1> QED
  BY <1>2, <1>3 DEF Flush

\* After a flush nothing of the chip is owed: edges and values are all emitted.
LEMMA FlushSettles ==
  ASSUME IInv, NEW c \in Chips, NEW nsec \in Nat, Flush(c, nsec)
  PROVE  /\ \A q \in ControlRegs : written[c][q] = emitted'[c][q]
         /\ \A q \in Regs : sid_register[c][q] = SentLast(emitted'[c][q])
<1>1. ASSUME NEW q \in ControlRegs  PROVE written[c][q] = emitted'[c][q]
  <2>1. q \in Regs
    BY AsidAssumption
  <2> QED
    BY <2>1, FlushEmits DEF IInv, EdgesKept
<1>2. ASSUME NEW q \in Regs  PROVE sid_register[c][q] = SentLast(emitted'[c][q])
  <2>1. CASE q \in sid_modified[c]
    <3>1. emitted[c][q] \in Seq(Nat) /\ sid_register[c][q] \in Nat
      BY DEF IInv, TypeOK
    <3>2. emitted'[c][q] = Append(emitted[c][q], sid_register[c][q])
      BY <2>1, FlushEmits
    <3> QED
      BY <3>1, <3>2 DEF SentLast
  <2>2. CASE q \notin sid_modified[c]
    <3>1. emitted'[c][q] = emitted[c][q]
      BY <2>2, FlushEmits
    <3> QED
      BY <2>2, <3>1 DEF IInv, CleanIsSent
  <2> QED
    BY <2>1, <2>2
<1> QED
  BY <1>1, <1>2

\* A message sent now or later is at the end of the queue, the others are as before.
LEMMA FlushQueues ==
  ASSUME IInv, NEW c \in Chips, NEW nsec \in Nat, Flush(c, nsec)
  PROVE  \A i \in DOMAIN queue' :
            \/ i \in DOMAIN queue /\ queue'[i] = queue[i]
            \/ queue'[i].chip = c /\ queue'[i].due = wall + nsec
<1> DEFINE m == [chip |-> c, due |-> wall + nsec, regs |-> Update(c),
                 nth |-> [q \in sid_modified[c] |-> Len(emitted[c][q]) + 1]]
<1>1. CASE queue' = queue
  BY <1>1
<1>2. CASE queue' = Append(queue, m)
  <2>1. DOMAIN queue = 1..Len(queue) /\ Len(queue) \in Nat
    BY AsidAssumption DEF IInv, TypeOK
  <2>2. /\ DOMAIN queue' = 1..(Len(queue) + 1)
        /\ \A i \in 1..(Len(queue) + 1) :
              queue'[i] = IF i = Len(queue) + 1 THEN m ELSE queue[i]
    BY <1>2, <2>1
  <2> QED
    BY <2>1, <2>2
<1> QED
  BY <1>1, <1>2 DEF Flush, Send, SendNothing

----------------------------------------------------------------------------
(* The register write.                                                     *)

\* Recording a change on a chip whose other pending changes are given.
LEMMA RecordType ==
  ASSUME IInv, NEW c \in Chips, NEW r \in Regs, NEW byte \in Bytes,
         NEW pending \in SUBSET Regs, Record(c, r, byte, pending)
  PROVE  /\ sid_register' \in [Chips -> [Regs -> Nat]]
         /\ \A d \in Chips, q \in Regs : sid_register'[d][q] < Width[q]
         /\ sid_modified' \in [Chips -> SUBSET Regs]
         /\ written' \in [Chips -> [ControlRegs -> Seq(Nat)]]
<1>1. Masked(r, byte) \in Nat /\ Masked(r, byte) < Width[r]
  BY MaskedType
<1>2. /\ sid_register \in [Chips -> [Regs -> Nat]]
      /\ \A d \in Chips, q \in Regs : sid_register[d][q] < Width[q]
      /\ sid_modified \in [Chips -> SUBSET Regs]
      /\ written \in [Chips -> [ControlRegs -> Seq(Nat)]]
  BY DEF IInv, TypeOK
<1>3. sid_register' \in [Chips -> [Regs -> Nat]]
  BY <1>1, <1>2 DEF Record
<1>4. \A d \in Chips, q \in Regs : sid_register'[d][q] < Width[q]
  BY <1>1, <1>2 DEF Record
<1>5. sid_modified' \in [Chips -> SUBSET Regs]
  BY <1>2 DEF Record
<1>6. written' \in [Chips -> [ControlRegs -> Seq(Nat)]]
  BY <1>1, <1>2 DEF Record
<1> QED
  BY <1>3, <1>4, <1>5, <1>6

\* Recording a change owes exactly that change, when nothing of a control register
\* was owed before it.
LEMMA RecordCodec ==
  ASSUME IInv, NEW c \in Chips, NEW r \in Regs, NEW byte \in Bytes,
         NEW pending \in SUBSET Regs, Record(c, r, byte, pending),
         r \in ControlRegs => r \notin pending,
         emitted' \in [Chips -> [Regs -> Seq(Nat)]],
         \A d \in Chips \ {c}, q \in Regs : emitted'[d][q] = emitted[d][q],
         \A q \in ControlRegs : written[c][q] =
            IF q \in pending THEN Append(emitted'[c][q], sid_register[c][q]) ELSE emitted'[c][q],
         \A q \in Regs \ pending : sid_register[c][q] = SentLast(emitted'[c][q])
  PROVE  EdgesKept' /\ CleanIsSent'
<1>1. /\ sid_register \in [Chips -> [Regs -> Nat]]
      /\ sid_modified \in [Chips -> SUBSET Regs]
      /\ written \in [Chips -> [ControlRegs -> Seq(Nat)]]
      /\ ControlRegs \subseteq Regs
  BY AsidAssumption DEF IInv, TypeOK
<1>2. \A d \in Chips, q \in Regs :
        sid_register'[d][q] = IF d = c /\ q = r THEN Masked(r, byte) ELSE sid_register[d][q]
  BY <1>1 DEF Record
<1>3. \A d \in Chips : sid_modified'[d] = IF d = c THEN pending \cup {r} ELSE sid_modified[d]
  BY <1>1 DEF Record
<1>4. \A d \in Chips, q \in ControlRegs :
        written'[d][q] = IF d = c /\ q = r THEN Append(written[d][q], Masked(r, byte))
                         ELSE written[d][q]
  BY <1>1 DEF Record
<1>5. EdgesKept'
  <2> SUFFICES ASSUME NEW d \in Chips, NEW q \in ControlRegs
               PROVE  written'[d][q] = IF q \in sid_modified'[d]
                                       THEN Append(emitted'[d][q], sid_register'[d][q])
                                       ELSE emitted'[d][q]
    BY DEF EdgesKept
  <2>1. CASE d # c
    BY <1>1, <1>2, <1>3, <1>4, <2>1 DEF IInv, EdgesKept
  <2>2. CASE d = c /\ q = r
    BY <1>1, <1>2, <1>3, <1>4, <2>2
  <2>3. CASE d = c /\ q # r
    BY <1>1, <1>2, <1>3, <1>4, <2>3
  <2> QED
    BY <2>1, <2>2, <2>3
<1>6. CleanIsSent'
  <2> SUFFICES ASSUME NEW d \in Chips, NEW q \in Regs, q \notin sid_modified'[d]
               PROVE  sid_register'[d][q] = SentLast(emitted'[d][q])
    BY DEF CleanIsSent, SentLast
  <2>1. CASE d # c
    <3>1. q \notin sid_modified[d] /\ sid_register'[d][q] = sid_register[d][q]
      BY <1>2, <1>3, <2>1
    <3>2. emitted'[d][q] = emitted[d][q]
      BY <2>1
    <3>3. sid_register[d][q] = SentLast(emitted[d][q])
      BY <3>1 DEF IInv, CleanIsSent
    <3> QED
      BY <3>1, <3>2, <3>3
  <2>2. CASE d = c
    BY <1>2, <1>3, <2>2
  <2> QED
    BY <2>1, <2>2
<1> QED
  BY <1>5, <1>6

\* The types a write touches, apart from what flushing and recording are shown to keep.
LEMMA WriteType ==
  ASSUME IInv, NEW c \in Chips, NEW r \in Addrs, NEW byte \in Bytes, Dump2(c, r, byte)
  PROVE  TypeOK' /\ EdgesKept' /\ CleanIsSent'
<1>1. /\ UNCHANGED <<open, irq_clk, wall, recv, received, rewound>>
      /\ open \in BOOLEAN /\ rewound \in BOOLEAN /\ irq_clk \in Nat /\ wall \in Nat \ {0}
      /\ recv \in [Chips -> [Regs -> Nat]] /\ received \in [Chips -> [Regs -> Seq(Nat)]]
  BY DEF Dump2, IInv, TypeOK
<1>2. Delay(c) \in Nat /\ Start(c) \in Nat
  BY DelayType
<1>3. last_irq' \in [Chips -> Nat] /\ start_clock' \in [Chips -> Nat]
  <2>1. last_irq \in [Chips -> Nat] /\ start_clock \in [Chips -> Nat]
    BY DEF IInv, TypeOK
  <2>2. \/ last_irq' = last_irq /\ start_clock' = start_clock
        \/ /\ last_irq' = [last_irq EXCEPT ![c] = irq_clk]
           /\ start_clock' = [start_clock EXCEPT ![c] = Start(c)]
    BY DEF Dump2, WriteAfterIrq, WriteInFrame, timing
  <2> QED
    BY <1>1, <1>2, <2>1, <2>2
<1>4. /\ sid_register \in [Chips -> [Regs -> Nat]]
      /\ \A d \in Chips, q \in Regs : sid_register[d][q] < Width[q]
      /\ sid_modified \in [Chips -> SUBSET Regs]
      /\ written \in [Chips -> [ControlRegs -> Seq(Nat)]]
      /\ ControlRegs \subseteq Regs
  BY AsidAssumption DEF IInv, TypeOK
<1>5. ASSUME NEW nsec \in Nat, Flush(c, nsec), r \in Regs, Record(c, r, byte, {})
      PROVE  TypeOK' /\ EdgesKept' /\ CleanIsSent'
  <2>1. \A d \in Chips \ {c}, q \in Regs : emitted'[d][q] = emitted[d][q]
    BY <1>5, FlushEmits
  <2>2. /\ \A q \in ControlRegs : written[c][q] = emitted'[c][q]
        /\ \A q \in Regs : sid_register[c][q] = SentLast(emitted'[c][q])
    BY <1>5, FlushSettles
  <2>3. emitted' \in [Chips -> [Regs -> Seq(Nat)]]
    BY <1>5, FlushType
  <2>4. EdgesKept' /\ CleanIsSent'
    BY <1>5, <2>1, <2>2, <2>3, RecordCodec
  <2>5. TypeOK'
    BY <1>1, <1>3, <1>5, FlushType, RecordType DEF TypeOK, IsMessage
  <2> QED
    BY <2>4, <2>5
<1>6. ASSUME NEW nsec \in Nat, Flush(c, nsec),
             sid_modified' = [sid_modified EXCEPT ![c] = {}], UNCHANGED <<sid_register, written>>
      PROVE  TypeOK' /\ EdgesKept' /\ CleanIsSent'
  <2>1. \A d \in Chips \ {c}, q \in Regs : emitted'[d][q] = emitted[d][q]
    BY <1>6, FlushEmits
  <2>2. /\ \A q \in ControlRegs : written[c][q] = emitted'[c][q]
        /\ \A q \in Regs : sid_register[c][q] = SentLast(emitted'[c][q])
    BY <1>6, FlushSettles
  <2>3. \A d \in Chips : sid_modified'[d] = IF d = c THEN {} ELSE sid_modified[d]
    BY <1>4, <1>6
  <2>4. EdgesKept'
    BY <1>4, <1>6, <2>1, <2>2, <2>3 DEF IInv, EdgesKept
  <2>5. CleanIsSent'
    BY <1>6, <2>1, <2>2, <2>3 DEF IInv, CleanIsSent, SentLast
  <2>6. sid_modified' \in [Chips -> SUBSET Regs]
    BY <1>4, <1>6
  <2>7. TypeOK'
    BY <1>1, <1>3, <1>4, <1>6, <2>6, FlushType DEF TypeOK, IsMessage
  <2> QED
    BY <2>4, <2>5, <2>7
<1>7. CASE WriteAfterIrq(c, r, byte)
  BY <1>2, <1>5, <1>6, <1>7 DEF WriteAfterIrq, Changes
<1>8. ASSUME SendNothing, UNCHANGED <<coreVars, written>>
      PROVE  TypeOK' /\ EdgesKept' /\ CleanIsSent'
  BY <1>1, <1>3, <1>8 DEF IInv, SendNothing, coreVars, TypeOK, IsMessage, EdgesKept,
     CleanIsSent, SentLast
<1>9. ASSUME SendNothing, r \in Regs, ~EdgePending(c, r), Record(c, r, byte, sid_modified[c])
      PROVE  TypeOK' /\ EdgesKept' /\ CleanIsSent'
  <2>1. emitted' = emitted /\ emitted \in [Chips -> [Regs -> Seq(Nat)]]
        /\ sid_modified[c] \in SUBSET Regs
    BY <1>9 DEF SendNothing, IInv, TypeOK
  <2>2. /\ \A q \in ControlRegs : written[c][q] =
             IF q \in sid_modified[c] THEN Append(emitted[c][q], sid_register[c][q])
             ELSE emitted[c][q]
        /\ \A q \in Regs \ sid_modified[c] : sid_register[c][q] = SentLast(emitted[c][q])
    BY DEF IInv, EdgesKept, CleanIsSent
  <2>3. r \in ControlRegs => r \notin sid_modified[c]
    BY <1>9 DEF EdgePending
  <2>4. EdgesKept' /\ CleanIsSent'
    BY <1>9, <2>1, <2>2, <2>3, RecordCodec, SMTT(30)
  <2>5. /\ sid_register' \in [Chips -> [Regs -> Nat]]
        /\ \A d \in Chips, q \in Regs : sid_register'[d][q] < Width[q]
        /\ sid_modified' \in [Chips -> SUBSET Regs]
        /\ written' \in [Chips -> [ControlRegs -> Seq(Nat)]]
    BY <1>9, <2>1, RecordType
  <2>6. TypeOK'
    BY <1>1, <1>3, <1>9, <2>1, <2>5 DEF SendNothing, IInv, TypeOK, IsMessage
  <2> QED
    BY <2>4, <2>6
<1>10. CASE WriteInFrame(c, r, byte)
  BY <1>5, <1>8, <1>9, <1>10 DEF WriteInFrame, Changes
<1> QED
  BY <1>7, <1>10 DEF Dump2

\* On a clock never rewound, an older message of the chip is due no later than the flush of a newer IRQ.
LEMMA IrqFlushIsLast ==
  ASSUME IInv, ~rewound, NEW c \in Chips, NEW i \in DOMAIN queue, queue[i].chip = c
  PROVE  /\ queue[i].due <= wall + Delay(c)
         /\ queue[i].due > wall =>
               queue[i].due <= Start(c) + ClockToNanos(irq_clk + CyclePad)
<1>1. /\ wall \in Nat /\ queue[i].due \in Nat /\ last_irq[c] \in Nat /\ irq_clk \in Nat
      /\ start_clock[c] \in Nat /\ last_irq[c] <= irq_clk
      /\ queue[i].due > wall =>
            /\ start_clock[c] # 0
            /\ queue[i].due <= start_clock[c] + ClockToNanos(last_irq[c] + CyclePad)
  BY DEF IInv, TypeOK, Timeline, IsMessage
<1>2. /\ last_irq[c] + CyclePad \in Nat /\ irq_clk + CyclePad \in Nat
      /\ last_irq[c] + CyclePad <= irq_clk + CyclePad
  BY <1>1, AsidAssumption
<1>3. /\ ClockToNanos(last_irq[c] + CyclePad) \in Nat
      /\ ClockToNanos(irq_clk + CyclePad) \in Nat
      /\ ClockToNanos(last_irq[c] + CyclePad) <= ClockToNanos(irq_clk + CyclePad)
  BY <1>2, NanosMonotone
<1>4. start_clock[c] # 0 => Start(c) = start_clock[c]
  BY DEF Start
<1>5. queue[i].due > wall => queue[i].due <= Start(c) + ClockToNanos(irq_clk + CyclePad)
  BY <1>1, <1>3, <1>4
<1> QED
  BY <1>1, <1>3, <1>5, DelayType

\* While the clock has not been rewound, a write keeps the queue within the timeline,
\* and one that follows an IRQ overtakes nothing.
LEMMA ForwardTimeline ==
  ASSUME IInv, ~rewound,
         NEW c \in Chips, NEW r \in Addrs, NEW byte \in Bytes, Dump2(c, r, byte)
  PROVE  /\ Timeline'
         /\ \A d \in Chips : ~overtaken[d] /\ overtaken'[d] => last_irq'[d] = last_irq[d]
<1>1. /\ open /\ open' = open /\ irq_clk' = irq_clk /\ wall' = wall
      /\ irq_clk \in Nat /\ wall \in Nat
      /\ last_irq \in [Chips -> Nat] /\ start_clock \in [Chips -> Nat]
      /\ \A d \in Chips : last_irq[d] <= irq_clk /\ start_clock[d] <= wall
  BY DEF Dump2, IInv, TypeOK, Timeline
<1>2. \A d \in Chips, i \in DOMAIN queue :
         queue[i].chip = d /\ queue[i].due > wall =>
            /\ start_clock[d] # 0
            /\ queue[i].due <= start_clock[d] + ClockToNanos(last_irq[d] + CyclePad)
  BY DEF IInv, Timeline
<1>3. /\ Delay(c) \in Nat /\ Start(c) \in Nat \ {0} /\ Start(c) <= wall
      /\ wall + Delay(c) > wall => wall + Delay(c) = Start(c) + ClockToNanos(irq_clk + CyclePad)
  BY DelayType
<1>4. CASE WriteAfterIrq(c, r, byte)
  <2>1. /\ \A d \in Chips : last_irq'[d] = IF d = c THEN irq_clk ELSE last_irq[d]
        /\ \A d \in Chips : start_clock'[d] = IF d = c THEN Start(c) ELSE start_clock[d]
    BY <1>1, <1>4 DEF WriteAfterIrq
  <2>2. Flush(c, Delay(c))
    BY <1>4 DEF WriteAfterIrq
  <2>3. \A i \in DOMAIN queue' :
            \/ i \in DOMAIN queue /\ queue'[i] = queue[i]
            \/ queue'[i].chip = c /\ queue'[i].due = wall + Delay(c)
    BY <1>3, <2>2, FlushQueues
  <2>4. ASSUME NEW d \in Chips, NEW i \in DOMAIN queue', queue'[i].chip = d, queue'[i].due > wall
        PROVE  /\ start_clock'[d] # 0
               /\ queue'[i].due <= start_clock'[d] + ClockToNanos(last_irq'[d] + CyclePad)
    <3>1. CASE i \in DOMAIN queue /\ queue'[i] = queue[i] /\ d # c
      BY <1>2, <2>1, <2>4, <3>1
    <3>2. CASE i \in DOMAIN queue /\ queue'[i] = queue[i] /\ d = c
      BY <1>3, <2>1, <2>4, <3>2, IrqFlushIsLast
    <3>3. CASE queue'[i].chip = c /\ queue'[i].due = wall + Delay(c)
      <4>1. d = c /\ start_clock'[d] = Start(c) /\ last_irq'[d] = irq_clk
        BY <2>1, <2>4, <3>3
      <4>2. queue'[i].due = Start(c) + ClockToNanos(irq_clk + CyclePad)
        BY <1>3, <2>4, <3>3
      <4>3. irq_clk + CyclePad \in Nat
        BY <1>1, AsidAssumption
      <4>4. ClockToNanos(irq_clk + CyclePad) \in Nat
        BY <4>3, NanosMonotone
      <4>5. Start(c) + ClockToNanos(irq_clk + CyclePad) <= Start(c) + ClockToNanos(irq_clk + CyclePad)
        BY <1>3, <4>4
      <4> QED
        BY <1>3, <4>1, <4>2, <4>5
    <3> QED
      BY <2>3, <3>1, <3>2, <3>3
  <2>5. Timeline'
    <3>1. \A d \in Chips : last_irq'[d] <= irq_clk' /\ start_clock'[d] <= wall'
      BY <1>1, <1>3, <2>1
    <3> QED
      BY <1>1, <2>4, <3>1 DEF Timeline, ClockToNanos
  <2>6. ~Overtakes(c, wall + Delay(c))
    <3> SUFFICES ASSUME NEW i \in DOMAIN queue, queue[i].chip = c
                 PROVE  ~(queue[i].due > wall + Delay(c))
      BY DEF Overtakes
    <3>1. queue[i].due \in Nat
      BY DEF IInv, TypeOK, IsMessage
    <3>2. queue[i].due <= wall + Delay(c)
      BY IrqFlushIsLast
    <3> QED
      BY <1>1, <1>3, <3>1, <3>2
  <2>7. \A d \in Chips : overtaken'[d] => overtaken[d]
    <3>1. overtaken \in [Chips -> BOOLEAN]
      BY DEF IInv, TypeOK
    <3> QED
      BY <2>2, <2>6, <3>1 DEF Flush, Send, SendNothing
  <2> QED
    BY <2>5, <2>7
<1>5. CASE WriteInFrame(c, r, byte)
  <2>1. last_irq' = last_irq /\ start_clock' = start_clock
    BY <1>5 DEF WriteInFrame, timing
  <2>2. \A i \in DOMAIN queue' :
            \/ i \in DOMAIN queue /\ queue'[i] = queue[i]
            \/ queue'[i].due = wall
    <3>1. CASE Flush(c, 0)
      BY <1>1, <3>1, FlushQueues
    <3>2. CASE queue' = queue
      BY <3>2
    <3> QED
      BY <1>5, <3>1, <3>2 DEF WriteInFrame, SendNothing
  <2>3. ASSUME NEW d \in Chips, NEW i \in DOMAIN queue', queue'[i].chip = d, queue'[i].due > wall
        PROVE  /\ start_clock[d] # 0
               /\ queue'[i].due <= start_clock[d] + ClockToNanos(last_irq[d] + CyclePad)
    <3>1. i \in DOMAIN queue /\ queue'[i] = queue[i]
      BY <1>1, <2>2, <2>3
    <3> QED
      BY <1>2, <2>3, <3>1
  <2>4. Timeline'
    BY <1>1, <2>1, <2>3 DEF Timeline, ClockToNanos
  <2> QED
    BY <2>1, <2>4
<1> QED
  BY <1>4, <1>5 DEF Dump2

\* A write keeps the timeline, and unless the clock was rewound one that follows an IRQ
\* overtakes nothing.
LEMMA WriteTimeline ==
  ASSUME IInv, NEW c \in Chips, NEW r \in Addrs, NEW byte \in Bytes, Dump2(c, r, byte)
  PROVE  /\ Timeline'
         /\ \A d \in Chips :
               ~rewound /\ ~overtaken[d] /\ overtaken'[d] => last_irq'[d] = last_irq[d]
<1>1. CASE ~rewound
  BY <1>1, ForwardTimeline
<1>2. CASE rewound
  <2>1. rewound' /\ open' /\ wall' = wall
    BY <1>2 DEF Dump2
  <2>2. start_clock \in [Chips -> Nat] /\ \A d \in Chips : start_clock[d] <= wall
    BY DEF IInv, TypeOK, Timeline
  <2>3. start_clock' = start_clock \/ start_clock' = [start_clock EXCEPT ![c] = Start(c)]
    BY DEF Dump2, WriteAfterIrq, WriteInFrame, timing
  <2>4. \A d \in Chips : start_clock'[d] <= wall'
    BY <2>1, <2>2, <2>3, DelayType
  <2> QED
    BY <1>2, <2>1, <2>4 DEF Timeline
<1> QED
  BY <1>1, <1>2

----------------------------------------------------------------------------
(* The device and the world.                                               *)

\* What a delivery leaves in the queue was there before.
LEMMA DeliverKeeps ==
  ASSUME IInv, Deliver
  PROVE  /\ DOMAIN queue' = 1..Len(queue') /\ Len(queue') \in 0..PoolSize
         /\ \A j \in DOMAIN queue' : \E k \in DOMAIN queue : queue'[j] = queue[k]
         /\ queue # << >>
<1>1. DOMAIN queue = 1..Len(queue) /\ Len(queue) \in 0..PoolSize /\ PoolSize \in Nat
  BY AsidAssumption DEF IInv, TypeOK
<1>2. PICK i \in DOMAIN queue :
        queue' = [j \in 1..(Len(queue) - 1) |-> IF j < i THEN queue[j] ELSE queue[j + 1]]
  BY DEF Deliver
<1>3. Len(queue) - 1 \in Nat /\ Len(queue) > 0
  BY <1>1, <1>2
<1>4. DOMAIN queue' = 1..(Len(queue) - 1) /\ Len(queue') = Len(queue) - 1
  BY <1>2, <1>3
<1>5. ASSUME NEW j \in DOMAIN queue'  PROVE \E k \in DOMAIN queue : queue'[j] = queue[k]
  <2>1. j \in DOMAIN queue /\ j + 1 \in DOMAIN queue
    BY <1>1, <1>3, <1>4, <1>5
  <2> QED
    BY <1>2, <1>4, <1>5, <2>1
<1> QED
  BY <1>1, <1>3, <1>4, <1>5

\* A step that leaves the codec and its history alone keeps what is said of them.
LEMMA CodecFrame ==
  ASSUME IInv, UNCHANGED <<sid_register, sid_modified, written, emitted>>
  PROVE  EdgesKept' /\ CleanIsSent'
  BY DEF IInv, EdgesKept, CleanIsSent, SentLast

\* Opening starts over with an empty queue.
LEMMA OpenKeeps ==
  ASSUME IInv, Open
  PROVE  IInv'
<1>1. /\ queue = << >> /\ queue' = queue /\ irq_clk' = irq_clk /\ wall' = wall /\ recv' = recv
      /\ irq_clk \in Nat /\ wall \in Nat \ {0} /\ recv \in [Chips -> [Regs -> Nat]]
      /\ PoolSize \in Nat /\ ControlRegs \subseteq Regs
      /\ \A q \in Regs : Width[q] \in Nat /\ Width[q] > 0
  BY AsidAssumption DEF Open, OpenPort, IInv, TypeOK, Timeline
<1>2. /\ sid_register' = [c \in Chips |-> [r \in Regs |-> 0]]
      /\ sid_modified' = [c \in Chips |-> {}]
      /\ last_irq' = [c \in Chips |-> 0] /\ start_clock' = [c \in Chips |-> 0]
      /\ written' = [c \in Chips |-> [r \in ControlRegs |-> << >>]]
      /\ emitted' = [c \in Chips |-> [r \in Regs |-> << >>]]
      /\ received' = [c \in Chips |-> [r \in Regs |-> << >>]]
      /\ lost' = [c \in Chips |-> FALSE] /\ overtaken' = [c \in Chips |-> FALSE]
      /\ open' = TRUE /\ rewound' = FALSE
  BY DEF Open, OpenPort, NoRegs
<1>3. DOMAIN queue' = {} /\ Len(queue') = 0 /\ 1..0 = {}
  BY <1>1
<1>4. TypeOK'
  <2>1. open' \in BOOLEAN /\ rewound' \in BOOLEAN
    BY Zenon, <1>2
  <2>2. lost' \in [Chips -> BOOLEAN] /\ overtaken' \in [Chips -> BOOLEAN]
    BY <1>2
  <2>3. /\ sid_register' \in [Chips -> [Regs -> Nat]]
        /\ \A c \in Chips, r \in Regs : sid_register'[c][r] < Width[r]
        /\ sid_modified' \in [Chips -> SUBSET Regs]
        /\ last_irq' \in [Chips -> Nat] /\ start_clock' \in [Chips -> Nat]
    BY <1>1, <1>2
  <2>4. /\ written' \in [Chips -> [ControlRegs -> Seq(Nat)]]
        /\ emitted' \in [Chips -> [Regs -> Seq(Nat)]]
        /\ received' \in [Chips -> [Regs -> Seq(Nat)]]
    BY <1>2
  <2>5. /\ DOMAIN queue' = 1..Len(queue') /\ Len(queue') \in 0..PoolSize
        /\ \A i \in DOMAIN queue' : IsMessage(queue'[i])
    BY <1>1, <1>3
  <2> QED
    BY <1>1, <2>1, <2>2, <2>3, <2>4, <2>5 DEF TypeOK
<1>5. EdgesKept' /\ CleanIsSent'
  BY <1>1, <1>2 DEF EdgesKept, CleanIsSent, SentLast
<1>6. Timeline'
  BY <1>1, <1>2, <1>3 DEF Timeline, ClockToNanos
<1> QED
  BY <1>4, <1>5, <1>6 DEF IInv

\* Closing empties the queue.
LEMMA CloseKeeps ==
  ASSUME IInv, Close
  PROVE  IInv'
<1>1. queue' = << >> /\ DOMAIN queue' = {} /\ Len(queue') = 0 /\ 1..0 = {} /\ PoolSize \in Nat
  BY AsidAssumption DEF Close
<1>2. EdgesKept' /\ CleanIsSent'
  BY CodecFrame DEF Close, coreVars, history
<1>3. TypeOK'
  <2>1. /\ DOMAIN queue' = 1..Len(queue') /\ Len(queue') \in 0..PoolSize
        /\ \A i \in DOMAIN queue' : IsMessage(queue'[i])
    BY <1>1
  <2>2. open' \in BOOLEAN
    BY DEF Close
  <2> QED
    BY <2>1, <2>2 DEF Close, coreVars, timing, history, IInv, TypeOK, IsMessage
<1>4. Timeline'
  BY <1>1 DEF Close, timing, history, IInv, Timeline, ClockToNanos
<1> QED
  BY <1>2, <1>3, <1>4 DEF IInv

\* Time passes: messages only come nearer.
LEMMA TimeKeeps ==
  ASSUME IInv, Irq \/ WallTick
  PROVE  IInv'
<1>1. /\ UNCHANGED <<coreVars, timing, open, queue, recv, history>>
      /\ irq_clk \in Nat /\ wall \in Nat \ {0}
      /\ irq_clk' \in Nat /\ irq_clk <= irq_clk' /\ wall' \in Nat \ {0} /\ wall <= wall'
  BY DEF Irq, WallTick, IInv, TypeOK
<1>2. EdgesKept' /\ CleanIsSent'
  BY <1>1, CodecFrame DEF coreVars, history
<1>3. TypeOK'
  BY <1>1 DEF coreVars, timing, history, IInv, TypeOK, IsMessage
<1>4. Timeline'
  <2>1. ~open' => queue' = << >>
    BY <1>1 DEF IInv, Timeline
  <2>2. \A c \in Chips : start_clock'[c] <= wall'
    BY <1>1 DEF timing, IInv, TypeOK, Timeline
  <2>4. ~rewound' => \A c \in Chips : last_irq'[c] <= irq_clk'
    BY <1>1 DEF timing, history, IInv, TypeOK, Timeline
  <2>3. ASSUME ~rewound', NEW c \in Chips, NEW i \in DOMAIN queue', queue'[i].chip = c, queue'[i].due > wall'
        PROVE  /\ start_clock'[c] # 0
               /\ queue'[i].due <= start_clock'[c] + ClockToNanos(last_irq'[c] + CyclePad)
    <3>1. /\ queue' = queue /\ start_clock' = start_clock /\ last_irq' = last_irq
          /\ queue[i].due \in Nat
      BY <1>1, <2>3 DEF timing, IInv, TypeOK, IsMessage
    <3>2. queue[i].due > wall
      BY <1>1, <2>3, <3>1
    <3>3. ~rewound
      BY <1>1, <2>3 DEF history
    <3> QED
      BY <2>3, <3>1, <3>2, <3>3 DEF IInv, Timeline
  <2> QED
    BY <2>1, <2>2, <2>3, <2>4 DEF Timeline, ClockToNanos
<1> QED
  BY <1>2, <1>3, <1>4 DEF IInv

\* A machine reset touches the clock only, and gives the timeline up.
LEMMA ResetKeeps ==
  ASSUME IInv, MachineReset
  PROVE  IInv'
<1>1. EdgesKept' /\ CleanIsSent'
  BY CodecFrame DEF MachineReset, coreVars
<1>2. TypeOK'
  BY DEF MachineReset, coreVars, timing, IInv, TypeOK, IsMessage
<1>3. Timeline'
  BY DEF MachineReset, timing, IInv, Timeline
<1> QED
  BY <1>1, <1>2, <1>3 DEF IInv

\* A delivery takes one message out and gives it to the player.
LEMMA DeliverInv ==
  ASSUME IInv, Deliver
  PROVE  IInv'
<1>1. UNCHANGED <<coreVars, timing, open, irq_clk, wall, written, emitted, lost, overtaken,
                  rewound>>
  BY DEF Deliver
<1>2. EdgesKept' /\ CleanIsSent'
  BY <1>1, CodecFrame DEF coreVars
<1>3. recv' \in [Chips -> [Regs -> Nat]] /\ received' \in [Chips -> [Regs -> Seq(Nat)]]
  <2>1. PICK i \in DOMAIN queue :
          /\ recv' = [recv EXCEPT ![queue[i].chip] = [r \in Regs |->
                        IF r \in DOMAIN queue[i].regs THEN queue[i].regs[r] ELSE @[r]]]
          /\ received' = [received EXCEPT ![queue[i].chip] = [r \in Regs |->
                        IF r \in DOMAIN queue[i].regs THEN Append(@[r], queue[i].regs[r]) ELSE @[r]]]
    BY DEF Deliver
  <2>2. /\ recv \in [Chips -> [Regs -> Nat]] /\ received \in [Chips -> [Regs -> Seq(Nat)]]
        /\ queue[i].chip \in Chips /\ queue[i].regs \in [DOMAIN queue[i].regs -> Nat]
    BY DEF IInv, TypeOK, IsMessage
  <2> QED
    BY <2>1, <2>2
<1>4. TypeOK'
  <2>1. \A j \in DOMAIN queue' : IsMessage(queue'[j])
    BY DeliverKeeps DEF IInv, TypeOK
  <2> QED
    BY <1>1, <1>3, <2>1, DeliverKeeps DEF coreVars, timing, IInv, TypeOK, IsMessage
<1>5. Timeline'
  <2>1. open
    BY DeliverKeeps DEF IInv, Timeline
  <2>2. ASSUME ~rewound,
               NEW c \in Chips, NEW j \in DOMAIN queue', queue'[j].chip = c, queue'[j].due > wall
        PROVE  /\ start_clock[c] # 0
               /\ queue'[j].due <= start_clock[c] + ClockToNanos(last_irq[c] + CyclePad)
    BY <2>2, DeliverKeeps DEF IInv, Timeline
  <2> QED
    BY <1>1, <2>1, <2>2 DEF timing, IInv, Timeline, ClockToNanos
<1> QED
  BY <1>2, <1>4, <1>5 DEF IInv

----------------------------------------------------------------------------
(* The theorems.                                                           *)

\* At start nothing is owed, sent or queued.
LEMMA InitInv == Init => IInv
<1> SUFFICES ASSUME Init  PROVE IInv
  OBVIOUS
<1>1. /\ queue = << >> /\ DOMAIN queue = {} /\ Len(queue) = 0 /\ 1..0 = {}
      /\ PoolSize \in Nat /\ ControlRegs \subseteq Regs
      /\ \A q \in Regs : Width[q] \in Nat /\ Width[q] > 0
  BY AsidAssumption DEF Init
<1>2. TypeOK
  <2>1. /\ DOMAIN queue = 1..Len(queue) /\ Len(queue) \in 0..PoolSize
        /\ \A i \in DOMAIN queue : IsMessage(queue[i])
    BY <1>1
  <2>2. /\ sid_register \in [Chips -> [Regs -> Nat]]
        /\ \A c \in Chips, r \in Regs : sid_register[c][r] < Width[r]
        /\ recv \in [Chips -> [Regs -> Nat]]
    BY <1>1 DEF Init, NoRegs
  <2>3. /\ written \in [Chips -> [ControlRegs -> Seq(Nat)]]
        /\ emitted \in [Chips -> [Regs -> Seq(Nat)]]
        /\ received \in [Chips -> [Regs -> Seq(Nat)]]
    BY DEF Init
  <2>4. /\ sid_modified \in [Chips -> SUBSET Regs]
        /\ last_irq \in [Chips -> Nat] /\ start_clock \in [Chips -> Nat]
        /\ lost \in [Chips -> BOOLEAN] /\ overtaken \in [Chips -> BOOLEAN]
    BY DEF Init
  <2>5. open \in BOOLEAN /\ rewound \in BOOLEAN
    BY Zenon DEF Init
  <2>6. irq_clk \in Nat /\ wall \in Nat \ {0}
    BY DEF Init
  <2> QED
    BY <2>1, <2>2, <2>3, <2>4, <2>5, <2>6 DEF TypeOK
<1>3. EdgesKept /\ CleanIsSent
  BY <1>1 DEF Init, NoRegs, EdgesKept, CleanIsSent, SentLast
<1>4. Timeline
  BY <1>1 DEF Init, Timeline
<1> QED
  BY <1>2, <1>3, <1>4 DEF IInv

\* A write, a reset, the clocks, the transport and a restart keep the invariant.
LEMMA StepInv == IInv /\ [Next]_vars => IInv'
<1> SUFFICES ASSUME IInv, [Next]_vars  PROVE IInv'
  OBVIOUS
<1>1. ASSUME NEW c \in Chips, NEW r \in Addrs, NEW b \in Bytes, Dump2(c, r, b)  PROVE IInv'
  BY <1>1, WriteType, WriteTimeline DEF IInv
<1>2. CASE UNCHANGED vars
  BY <1>2 DEF vars, coreVars, timing, history, IInv, TypeOK, IsMessage, EdgesKept,
     CleanIsSent, SentLast, Timeline, ClockToNanos
<1> QED
  BY <1>1, <1>2, OpenKeeps, CloseKeeps, TimeKeeps, ResetKeeps, DeliverInv DEF Next

\* The codec's marks, the transport's history and the queue's due times fit together
\* in every reachable state.
THEOREM Inductive == Spec => []IInv
  BY InitInv, StepInv, PTL DEF Spec

\* asid_core_t, asid_timing and the queue keep their shape, and a register never holds
\* a bit its regmask clears.
THEOREM TypeCorrect == Spec => []TypeOK
<1>1. IInv => TypeOK
  BY DEF IInv
<1> QED
  BY Inductive, <1>1, PTL

\* asid_core_set_reg loses no gate edge on the way to the transport.
THEOREM EdgesAlwaysKept == Spec => []EdgesKept
<1>1. IInv => EdgesKept
  BY DEF IInv
<1> QED
  BY Inductive, <1>1, PTL

\* asid_core_flush clears a mark only with the value sent.
THEOREM CleanAlwaysSent == Spec => []CleanIsSent
<1>1. IInv => CleanIsSent
  BY DEF IInv
<1> QED
  BY Inductive, <1>1, PTL

\* asid_dump2 schedules IRQ flushes in order whatever the wall clock does: what goes
\* out of order was forced by a control register, or follows a machine reset.
THEOREM OnlyEdgesEverOvertake == Spec => OnlyEdgesOvertake
<1> DEFINE P == \A c \in Chips :
                ~rewound /\ ~overtaken[c] /\ overtaken'[c] => last_irq'[c] = last_irq[c]
<1>1. IInv /\ [Next]_vars => [P]_vars
  <2> SUFFICES ASSUME IInv, Next  PROVE P
    OBVIOUS
  <2>1. ASSUME NEW c \in Chips, NEW r \in Addrs, NEW b \in Bytes, Dump2(c, r, b)  PROVE P
    BY <2>1, WriteTimeline
  <2>2. CASE Open
    BY <2>2 DEF Open, OpenPort
  <2>3. CASE Close \/ Irq \/ WallTick \/ MachineReset \/ Deliver
    BY <2>3 DEF Close, Irq, WallTick, MachineReset, Deliver, history
  <2> QED
    BY <2>1, <2>2, <2>3 DEF Next
<1> QED
  BY Inductive, <1>1, PTL DEF Spec, OnlyEdgesOvertake
----------------------------------------------------------------------------
(***************************************************************************)
(* PlayerInSync: what reaches the player when no message is refused and    *)
(* none overtaken.                                                         *)
(***************************************************************************)

(* Sending.                                                                *)

\* The types the steps below need of what was emitted, received and gathered.
LEMMA HistoryTypes ==
  ASSUME IInv
  PROVE  /\ DOMAIN queue = 1..Len(queue) /\ Len(queue) \in Nat
         /\ \A c \in Chips : sid_modified[c] \subseteq Regs
         /\ \A c \in Chips, r \in Regs :
               /\ emitted[c][r] \in Seq(Nat) /\ Len(emitted[c][r]) \in Nat
               /\ received[c][r] \in Seq(Nat) /\ Len(received[c][r]) \in Nat
               /\ sid_register[c][r] \in Nat
         /\ \A i \in DOMAIN queue : /\ queue[i].chip \in Chips /\ queue[i].due \in Nat
                                    /\ DOMAIN queue[i].regs \subseteq Regs
                                    /\ \A r \in DOMAIN queue[i].regs : queue[i].nth[r] \in Nat
<1>1. DOMAIN queue = 1..Len(queue) /\ Len(queue) \in Nat
  BY AsidAssumption DEF IInv, TypeOK
<1>2. \A c \in Chips : sid_modified[c] \subseteq Regs
  BY DEF IInv, TypeOK
<1>3. \A c \in Chips, r \in Regs : /\ emitted[c][r] \in Seq(Nat) /\ received[c][r] \in Seq(Nat)
                                   /\ sid_register[c][r] \in Nat
  BY DEF IInv, TypeOK
<1>4. \A c \in Chips, r \in Regs : Len(emitted[c][r]) \in Nat /\ Len(received[c][r]) \in Nat
  BY <1>3
<1>5. \A i \in DOMAIN queue : IsMessage(queue[i])
  BY DEF IInv, TypeOK
<1>6. \A i \in DOMAIN queue : /\ queue[i].chip \in Chips /\ queue[i].due \in Nat
                              /\ DOMAIN queue[i].regs \subseteq Regs
                              /\ \A r \in DOMAIN queue[i].regs : queue[i].nth[r] \in Nat
  BY <1>5 DEF IsMessage
<1> QED
  BY <1>1, <1>2, <1>3, <1>4, <1>6

\* A message that is sent and not refused comes last and carries the gathered values,
\* each with its place among those emitted.
LEMMA SentMessage ==
  ASSUME IInv, NEW c \in Chips, NEW nsec \in Nat, Send(c, nsec), ~lost'[c],
         NEW n, n = Len(queue) + 1
  PROVE  /\ DOMAIN queue' = 1..n
         /\ \A i \in DOMAIN queue : queue'[i] = queue[i]
         /\ queue'[n].chip = c /\ queue'[n].due = wall + nsec
         /\ DOMAIN queue'[n].regs = sid_modified[c]
         /\ \A r \in sid_modified[c] : /\ queue'[n].regs[r] = sid_register[c][r]
                                       /\ queue'[n].nth[r] = Len(emitted[c][r]) + 1
<1> DEFINE m == [chip |-> c, due |-> wall + nsec, regs |-> Update(c),
                 nth |-> [q \in sid_modified[c] |-> Len(emitted[c][q]) + 1]]
<1>1. lost \in [Chips -> BOOLEAN]
  BY DEF IInv, TypeOK
<1>2. queue' = Append(queue, m)
  BY <1>1 DEF Send
<1>3. /\ m.chip = c /\ m.due = wall + nsec /\ DOMAIN m.regs = sid_modified[c]
      /\ \A r \in sid_modified[c] : /\ m.regs[r] = sid_register[c][r]
                                    /\ m.nth[r] = Len(emitted[c][r]) + 1
  BY DEF Update
<1> HIDE DEF m
<1>4. /\ DOMAIN queue' = 1..n
      /\ \A i \in 1..n : queue'[i] = IF i = n THEN m ELSE queue[i]
  BY <1>2, HistoryTypes
<1>5. n \in 1..n /\ \A i \in DOMAIN queue : i \in 1..n /\ i # n
  BY HistoryTypes
<1> QED
  BY <1>3, <1>4, <1>5

\* Nothing changes for a chip when queue, history and player do not.
LEMMA StillInStep ==
  ASSUME NEW d \in Chips, InStep(d), UNCHANGED <<queue, emitted, received, recv>>
  PROVE  InStep(d)'
  BY DEF InStep, DueInOrder, QueuedInOrder, Carries, Applied, Prefix

\* A message of another chip does not matter.
LEMMA OthersInStep ==
  ASSUME IInv, NEW c \in Chips, NEW nsec \in Nat, Send(c, nsec),
         NEW d \in Chips, d # c, InStep(d), UNCHANGED <<received, recv>>
  PROVE  InStep(d)'
<1>1. emitted'[d] = emitted[d]
  BY DEF Send, IInv, TypeOK
<1>2. CASE queue' = queue
  BY <1>1, <1>2 DEF InStep, DueInOrder, QueuedInOrder, Carries, Applied, Prefix
<1>3. CASE queue' # queue
  <2> DEFINE n == Len(queue) + 1
  <2>1. DOMAIN queue' = 1..n /\ \A i \in DOMAIN queue : queue'[i] = queue[i]
    BY <1>3, HistoryTypes DEF Send
  <2>2. queue'[n].chip = c
    BY <1>3, HistoryTypes DEF Send
  <2>3. \A i \in DOMAIN queue' : queue'[i].chip = d => i \in DOMAIN queue
    BY <2>1, <2>2, HistoryTypes
  <2>4. \A i \in DOMAIN queue : i \in DOMAIN queue'
    BY <2>1, HistoryTypes
  <2>5. DueInOrder(d)'
    BY <2>1, <2>3 DEF InStep, DueInOrder
  <2>6. ASSUME NEW r \in Regs  PROVE QueuedInOrder(d, r)'
    <3>1. QueuedInOrder(d, r)
      BY DEF InStep
    <3>2. emitted'[d][r] = emitted[d][r] /\ received' = received
      BY <1>1
    <3>3. \A i \in DOMAIN queue' : Carries(queue'[i], d, r) =>
             i \in DOMAIN queue /\ queue'[i] = queue[i] /\ Carries(queue[i], d, r)
      BY <2>1, <2>3 DEF Carries
    <3>4. \A i \in DOMAIN queue : Carries(queue[i], d, r) =>
             i \in DOMAIN queue' /\ Carries(queue'[i], d, r) /\ queue'[i].nth = queue[i].nth
      BY <2>1, <2>4 DEF Carries
    <3> QED
      BY <3>1, <3>2, <3>3, <3>4 DEF QueuedInOrder, Carries
  <2>7. ASSUME NEW r \in Regs  PROVE Applied(d, r)'
    BY <1>1 DEF InStep, Applied, Prefix
  <2> QED
    BY <2>5, <2>6, <2>7 DEF InStep
<1> QED
  BY <1>2, <1>3

\* A message of the chip itself, not refused and overtaking none, is due last and adds
\* the last place of each register it carries.
LEMMA SenderInStep ==
  ASSUME IInv, NEW c \in Chips, NEW nsec \in Nat, Send(c, nsec), ~lost'[c], ~overtaken'[c],
         InStep(c), UNCHANGED <<received, recv>>
  PROVE  InStep(c)'
<1> DEFINE n == Len(queue) + 1
<1>1. /\ DOMAIN queue = 1..Len(queue) /\ Len(queue) \in Nat
      /\ DOMAIN queue' = 1..n
      /\ \A i \in DOMAIN queue : queue'[i] = queue[i]
      /\ queue'[n].chip = c /\ queue'[n].due = wall + nsec
      /\ DOMAIN queue'[n].regs = sid_modified[c]
      /\ \A r \in sid_modified[c] : /\ queue'[n].regs[r] = sid_register[c][r]
                                    /\ queue'[n].nth[r] = Len(emitted[c][r]) + 1
  BY SentMessage, HistoryTypes
<1>2. \A i \in DOMAIN queue' : i \in DOMAIN queue \/ i = n
  BY <1>1
<1>3. n \in DOMAIN queue' /\ \A i \in DOMAIN queue : i \in DOMAIN queue' /\ i < n /\ i # n
  BY <1>1
<1> HIDE DEF n
<1>4. \A i \in DOMAIN queue : queue[i].chip = c => queue[i].due <= queue'[n].due
  <2>1. overtaken \in [Chips -> BOOLEAN] /\ wall + nsec \in Nat
    BY DEF IInv, TypeOK
  <2>2. ~ Overtakes(c, wall + nsec)
    BY <2>1 DEF Send
  <2> QED
    BY <1>1, <2>1, <2>2, HistoryTypes DEF Overtakes
<1>5. DueInOrder(c)'
  <2> SUFFICES ASSUME NEW i \in DOMAIN queue', NEW j \in DOMAIN queue',
                      i < j, queue'[i].chip = c, queue'[j].chip = c
               PROVE  queue'[i].due <= queue'[j].due
    BY DEF DueInOrder
  <2>1. CASE j = n
    <3>1. i \in DOMAIN queue
      BY <1>1, <1>2, <2>1
    <3> QED
      BY <1>1, <1>4, <2>1, <3>1
  <2>2. CASE j # n
    <3>1. i \in DOMAIN queue /\ j \in DOMAIN queue
      BY <1>1, <1>2, <1>3, <2>2
    <3> QED
      BY <1>1, <3>1 DEF InStep, DueInOrder
  <2> QED
    BY <2>1, <2>2
<1>6. ASSUME NEW r \in Regs
      PROVE  /\ r \in sid_modified[c] => emitted'[c][r] = Append(emitted[c][r], sid_register[c][r])
             /\ r \notin sid_modified[c] => emitted'[c][r] = emitted[c][r]
  BY <1>6 DEF Send, IInv, TypeOK
<1>7. ASSUME NEW r \in Regs  PROVE QueuedInOrder(c, r)' /\ Applied(c, r)'
  <2>1. CASE r \notin sid_modified[c]
    <3>1. emitted'[c][r] = emitted[c][r] /\ received' = received /\ recv' = recv
      BY <1>6, <2>1
    <3>2. \A i \in DOMAIN queue' : Carries(queue'[i], c, r) =>
             i \in DOMAIN queue /\ queue'[i] = queue[i] /\ Carries(queue[i], c, r)
      BY <1>1, <1>2, <2>1 DEF Carries
    <3>3. \A i \in DOMAIN queue : Carries(queue[i], c, r) =>
             i \in DOMAIN queue' /\ Carries(queue'[i], c, r) /\ queue'[i].nth = queue[i].nth
      BY <1>1, <1>3 DEF Carries
    <3>4. QueuedInOrder(c, r)'
      BY <3>1, <3>2, <3>3 DEF InStep, QueuedInOrder, Carries
    <3>5. Applied(c, r)'
      BY <3>1 DEF InStep, Applied, Prefix
    <3> QED
      BY <3>4, <3>5
  <2>2. CASE r \in sid_modified[c]
    <3> DEFINE e == emitted[c][r]
               s == received[c][r]
               last == Len(e) + 1
    <3>1. /\ e \in Seq(Nat) /\ Len(e) \in Nat /\ s \in Seq(Nat) /\ Len(s) \in Nat
          /\ sid_register[c][r] \in Nat
      BY HistoryTypes
    <3>2. emitted'[c][r] = Append(e, sid_register[c][r]) /\ received' = received /\ recv' = recv
      BY <1>6, <2>2
    <3>3. /\ Len(emitted'[c][r]) = last /\ emitted'[c][r][last] = sid_register[c][r]
          /\ \A k \in 1..Len(e) : emitted'[c][r][k] = e[k]
      BY <3>1, <3>2
    <3>4. Prefix(s, e) /\ (s # << >> => recv[c][r] = s[Len(s)])
      BY DEF InStep, Applied
    <3>5. Applied(c, r)'
      <4>1. Prefix(s, emitted'[c][r])
        <5>1. Len(s) <= Len(e) /\ \A k \in 1..Len(s) : s[k] = e[k]
          BY <3>4 DEF Prefix
        <5> HIDE DEF e, s
        <5>2. ASSUME NEW k \in 1..Len(s)
              PROVE  emitted'[c][r][k] = s[k]
          <6>1. k \in 1..Len(e) /\ s[k] = e[k]
            BY <3>1, <5>1
          <6> QED
            BY <3>3, <6>1
        <5>3. Len(s) <= Len(emitted'[c][r])
          BY <3>1, <3>3, <5>1
        <5> QED
          BY <5>2, <5>3 DEF Prefix
      <4>2. received'[c][r] = s /\ recv'[c][r] = recv[c][r]
        BY <3>2
      <4> QED
        BY <3>4, <4>1, <4>2 DEF Applied
    <3>6. Carries(queue'[n], c, r) /\ queue'[n].nth[r] = last /\ queue'[n].regs[r] = sid_register[c][r]
      BY <1>1, <2>2 DEF Carries
    <3>7. \A i \in DOMAIN queue' : Carries(queue'[i], c, r) =>
             \/ i = n
             \/ /\ i \in DOMAIN queue /\ queue'[i] = queue[i]
                /\ queue[i].nth[r] \in Nat
                /\ queue[i].nth[r] > Len(s) /\ queue[i].nth[r] <= Len(e)
                /\ queue[i].regs[r] = e[queue[i].nth[r]]
      BY <1>1, <1>2, HistoryTypes DEF InStep, QueuedInOrder, Carries
    <3>8. Len(s) <= Len(e)
      BY <3>4 DEF Prefix
    <3> HIDE DEF e, s
    <3>9. \A i \in DOMAIN queue' : Carries(queue'[i], c, r) =>
             /\ queue'[i].nth[r] > Len(s) /\ queue'[i].nth[r] <= last
             /\ queue'[i].regs[r] = emitted'[c][r][queue'[i].nth[r]]
      <4> SUFFICES ASSUME NEW i \in DOMAIN queue', Carries(queue'[i], c, r)
                   PROVE  /\ queue'[i].nth[r] > Len(s) /\ queue'[i].nth[r] <= last
                          /\ queue'[i].regs[r] = emitted'[c][r][queue'[i].nth[r]]
        OBVIOUS
      <4>1. CASE i = n
        BY <3>1, <3>3, <3>6, <3>8, <4>1
      <4>2. CASE i # n
        <5>1. /\ queue'[i] = queue[i] /\ queue[i].nth[r] \in 1..Len(e)
              /\ queue[i].nth[r] > Len(s) /\ queue[i].regs[r] = e[queue[i].nth[r]]
          BY <3>1, <3>7, <4>2
        <5>2. emitted'[c][r][queue[i].nth[r]] = e[queue[i].nth[r]]
          BY <3>3, <5>1
        <5> QED
          BY <3>1, <5>1, <5>2
      <4> QED
        BY <4>1, <4>2
    <3>10. ASSUME NEW i \in DOMAIN queue', NEW j \in DOMAIN queue', i < j,
                  Carries(queue'[i], c, r), Carries(queue'[j], c, r)
           PROVE  queue'[i].nth[r] < queue'[j].nth[r]
      <4>1. CASE j = n
        <5>1. i \in DOMAIN queue /\ i # n
          BY <1>1, <1>2, <3>10, <4>1
        <5> QED
          BY <3>1, <3>6, <3>7, <3>10, <4>1, <5>1
      <4>2. CASE j # n
        <5>1. i \in DOMAIN queue /\ j \in DOMAIN queue
          BY <1>1, <1>2, <1>3, <3>10, <4>2
        <5> QED
          BY <1>1, <3>10, <5>1 DEF InStep, QueuedInOrder
      <4> QED
        BY <4>1, <4>2
    <3>11. ASSUME NEW k \in (Len(s) + 1)..last
           PROVE  \E i \in DOMAIN queue' : Carries(queue'[i], c, r) /\ queue'[i].nth[r] = k
      <4>1. CASE k = last
        BY <1>3, <3>6, <4>1
      <4>2. CASE k # last
        <5>1. k \in (Len(s) + 1)..Len(e)
          BY <3>1, <3>11, <4>2
        <5>2. \E i \in DOMAIN queue : Carries(queue[i], c, r) /\ queue[i].nth[r] = k
          BY <5>1 DEF InStep, QueuedInOrder, e, s
        <5> QED
          BY <1>1, <1>3, <5>2
      <4> QED
        BY <4>1, <4>2
    <3>12. s = received'[c][r] /\ last = Len(emitted'[c][r])
      BY <3>2, <3>3 DEF s
    <3> HIDE DEF last
    <3>13. QueuedInOrder(c, r)'
      BY <3>9, <3>10, <3>11, <3>12 DEF QueuedInOrder
    <3> QED
      BY <3>5, <3>13
  <2> QED
    BY <2>1, <2>2
<1> QED
  BY <1>5, <1>7 DEF InStep

\* A flush, or none, keeps every chip in step of which nothing is lost or overtaken.
LEMMA FlushOrdered ==
  ASSUME IInv, Ordered, open, NEW c \in Chips, NEW nsec \in Nat,
         Flush(c, nsec) \/ SendNothing, UNCHANGED <<received, recv>>
  PROVE  Ordered'
<1> SUFFICES ASSUME NEW d \in Chips, ~lost'[d], ~overtaken'[d]  PROVE InStep(d)'
  BY DEF Ordered
<1>1. lost \in [Chips -> BOOLEAN] /\ overtaken \in [Chips -> BOOLEAN]
  BY DEF IInv, TypeOK
<1>2. ~lost[d] /\ ~overtaken[d]
  BY <1>1 DEF Flush, Send, SendNothing
<1>3. InStep(d)
  BY <1>2 DEF Ordered
<1>4. CASE SendNothing
  BY <1>3, <1>4, StillInStep DEF SendNothing
<1>5. CASE Send(c, nsec)
  BY <1>3, <1>5, SenderInStep, OthersInStep
<1> QED
  BY <1>4, <1>5 DEF Flush

\* A write that flushes puts its message behind those of its chip, or the chip has lost order.
LEMMA WriteOrdered ==
  ASSUME IInv, Ordered, NEW c \in Chips, NEW r \in Addrs, NEW byte \in Bytes, Dump2(c, r, byte)
  PROVE  Ordered'
<1>1. open /\ UNCHANGED <<received, recv>>
  BY DEF Dump2
<1>2. Delay(c) \in Nat
  BY DelayType
<1>3. \E nsec \in Nat : Flush(c, nsec) \/ SendNothing
  BY <1>2 DEF Dump2, WriteAfterIrq, WriteInFrame
<1> QED
  BY <1>1, <1>3, FlushOrdered

----------------------------------------------------------------------------
(* Delivering.                                                             *)

\* What a delivery takes out, and how the rest closes up.
LEMMA Delivered ==
  ASSUME IInv, Deliver
  PROVE  \E i \in DOMAIN queue :
            /\ Earliest(i)
            /\ \A d \in Chips, r \in Regs :
                 /\ Carries(queue[i], d, r) =>
                       /\ received'[d][r] = Append(received[d][r], queue[i].regs[r])
                       /\ recv'[d][r] = queue[i].regs[r]
                 /\ ~Carries(queue[i], d, r) =>
                       received'[d][r] = received[d][r] /\ recv'[d][r] = recv[d][r]
            /\ DOMAIN queue' \subseteq Nat
            /\ \A j \in DOMAIN queue' : LET x == IF j < i THEN j ELSE j + 1
                                        IN x \in DOMAIN queue \ {i} /\ queue'[j] = queue[x]
            /\ \A x \in DOMAIN queue \ {i} : LET j == IF x < i THEN x ELSE x - 1
                                             IN j \in DOMAIN queue' /\ queue'[j] = queue[x]
<1>1. PICK i \in DOMAIN queue :
        /\ Earliest(i)
        /\ recv' = [recv EXCEPT ![queue[i].chip] = [r \in Regs |->
                      IF r \in DOMAIN queue[i].regs THEN queue[i].regs[r] ELSE @[r]]]
        /\ received' = [received EXCEPT ![queue[i].chip] = [r \in Regs |->
                      IF r \in DOMAIN queue[i].regs THEN Append(@[r], queue[i].regs[r]) ELSE @[r]]]
        /\ queue' = [j \in 1..(Len(queue) - 1) |-> IF j < i THEN queue[j] ELSE queue[j + 1]]
  BY DEF Deliver
<1>2. DOMAIN queue = 1..Len(queue) /\ Len(queue) \in Nat /\ queue[i].chip \in Chips
  BY HistoryTypes
<1>3. recv \in [Chips -> [Regs -> Nat]] /\ received \in [Chips -> [Regs -> Seq(Nat)]]
  BY DEF IInv, TypeOK
<1>4. ASSUME NEW d \in Chips, NEW r \in Regs
      PROVE  /\ Carries(queue[i], d, r) =>
                   /\ received'[d][r] = Append(received[d][r], queue[i].regs[r])
                   /\ recv'[d][r] = queue[i].regs[r]
             /\ ~Carries(queue[i], d, r) =>
                   received'[d][r] = received[d][r] /\ recv'[d][r] = recv[d][r]
  BY <1>1, <1>2, <1>3 DEF Carries
<1>5. DOMAIN queue' = 1..(Len(queue) - 1)
  BY <1>1
<1>6. ASSUME NEW j \in DOMAIN queue', NEW x, x = IF j < i THEN j ELSE j + 1
      PROVE  x \in DOMAIN queue \ {i} /\ queue'[j] = queue[x]
  BY <1>1, <1>2, <1>5, <1>6
<1>7. ASSUME NEW x \in DOMAIN queue \ {i}, NEW j, j = IF x < i THEN x ELSE x - 1
      PROVE  j \in DOMAIN queue' /\ queue'[j] = queue[x]
  <2>1. j \in DOMAIN queue'
    BY <1>2, <1>5, <1>7
  <2>2. queue'[j] = IF j < i THEN queue[j] ELSE queue[j + 1]
    BY <1>1, <1>5, <2>1
  <2> QED
    BY <1>2, <1>7, <2>1, <2>2
<1>8. DOMAIN queue' \subseteq Nat
  BY <1>2, <1>5
<1>9. \A j \in DOMAIN queue' : LET x == IF j < i THEN j ELSE j + 1
                              IN x \in DOMAIN queue \ {i} /\ queue'[j] = queue[x]
  BY <1>6
<1>10. \A x \in DOMAIN queue \ {i} : LET j == IF x < i THEN x ELSE x - 1
                                    IN j \in DOMAIN queue' /\ queue'[j] = queue[x]
  BY <1>7
<1> WITNESS i \in DOMAIN queue
<1> QED
  BY <1>1, <1>4, <1>8, <1>9, <1>10

\* The message due first carries the next value of each of its registers.
LEMMA EarliestIsNext ==
  ASSUME IInv, NEW c \in Chips, InStep(c), NEW i \in DOMAIN queue, Earliest(i),
         NEW r \in Regs, Carries(queue[i], c, r)
  PROVE  /\ queue[i].nth[r] = Len(received[c][r]) + 1
         /\ queue[i].nth[r] <= Len(emitted[c][r])
         /\ queue[i].regs[r] = emitted[c][r][queue[i].nth[r]]
<1> DEFINE next == Len(received[c][r]) + 1
<1>1. /\ queue[i].nth[r] \in Nat /\ queue[i].nth[r] >= next /\ next \in Nat
      /\ queue[i].nth[r] <= Len(emitted[c][r]) /\ Len(emitted[c][r]) \in Nat
      /\ queue[i].regs[r] = emitted[c][r][queue[i].nth[r]]
  <2>1. /\ queue[i].nth[r] \in Nat
        /\ Len(received[c][r]) \in Nat /\ Len(emitted[c][r]) \in Nat
    BY HistoryTypes DEF Carries
  <2>2. /\ queue[i].nth[r] > Len(received[c][r]) /\ queue[i].nth[r] <= Len(emitted[c][r])
        /\ queue[i].regs[r] = emitted[c][r][queue[i].nth[r]]
    BY DEF InStep, QueuedInOrder
  <2> QED
    BY <2>1, <2>2
<1>2. next \in (Len(received[c][r]) + 1)..Len(emitted[c][r])
  BY <1>1
<1>3. PICK k \in DOMAIN queue : Carries(queue[k], c, r) /\ queue[k].nth[r] = next
  BY <1>2 DEF InStep, QueuedInOrder
<1>4. i \in Nat /\ k \in Nat /\ queue[i].due \in Nat /\ queue[k].due \in Nat
  BY HistoryTypes
<1>5. ~(k < i)
  <2> SUFFICES ASSUME k < i  PROVE FALSE
    OBVIOUS
  <2>1. queue[k].due <= queue[i].due
    BY <1>3 DEF InStep, DueInOrder, Carries
  <2> QED
    BY <1>4, <2>1 DEF Earliest
<1>6. ~(i < k)
  <2> SUFFICES ASSUME i < k  PROVE FALSE
    OBVIOUS
  <2>1. queue[i].nth[r] < queue[k].nth[r]
    BY <1>3 DEF InStep, QueuedInOrder
  <2> QED
    BY <1>1, <1>3, <2>1
<1> QED
  BY <1>1, <1>3, <1>4, <1>5, <1>6

\* A sequence and one more.
LEMMA Appended ==
  ASSUME NEW s, s \in Seq(Nat), NEW v, v \in Nat, NEW t, t = Append(s, v)
  PROVE  /\ t \in Seq(Nat) /\ Len(t) = Len(s) + 1 /\ t # << >> /\ t[Len(t)] = v
         /\ \A k \in 1..Len(s) : t[k] = s[k]
<1>1. t \in Seq(Nat) /\ Len(s) \in Nat /\ Len(t) = Len(s) + 1
  OBVIOUS
<1>2. t # << >>
  BY <1>1
<1> QED
  BY <1>1, <1>2

\* The other messages stay in order behind it.
LEMMA DeliverInStep ==
  ASSUME IInv, NEW c \in Chips, InStep(c), Deliver, emitted' = emitted
  PROVE  InStep(c)'
<1>1. PICK i \in DOMAIN queue :
        /\ Earliest(i)
        /\ \A r \in Regs :
             /\ Carries(queue[i], c, r) =>
                   /\ received'[c][r] = Append(received[c][r], queue[i].regs[r])
                   /\ recv'[c][r] = queue[i].regs[r]
             /\ ~Carries(queue[i], c, r) =>
                   received'[c][r] = received[c][r] /\ recv'[c][r] = recv[c][r]
        /\ DOMAIN queue' \subseteq Nat
        /\ \A j \in DOMAIN queue' : LET x == IF j < i THEN j ELSE j + 1
                                    IN x \in DOMAIN queue \ {i} /\ queue'[j] = queue[x]
        /\ \A x \in DOMAIN queue \ {i} : LET j == IF x < i THEN x ELSE x - 1
                                         IN j \in DOMAIN queue' /\ queue'[j] = queue[x]
  BY Delivered
<1>2. DOMAIN queue \subseteq Nat /\ i \in Nat /\ DOMAIN queue' \subseteq Nat
  BY <1>1, HistoryTypes
<1>3. \A j \in DOMAIN queue' : \E x \in DOMAIN queue \ {i} : queue'[j] = queue[x]
  BY <1>1
<1>4. \A x \in DOMAIN queue \ {i} : \E j \in DOMAIN queue' : queue'[j] = queue[x]
  BY <1>1
<1>5. ASSUME NEW j \in DOMAIN queue', NEW k \in DOMAIN queue', j < k
      PROVE  \E x, y \in DOMAIN queue \ {i} :
                x < y /\ queue'[j] = queue[x] /\ queue'[k] = queue[y]
  <2> DEFINE x == IF j < i THEN j ELSE j + 1
             y == IF k < i THEN k ELSE k + 1
  <2>1. x \in DOMAIN queue \ {i} /\ queue'[j] = queue[x]
    BY <1>1
  <2>2. y \in DOMAIN queue \ {i} /\ queue'[k] = queue[y]
    BY <1>1
  <2>3. x < y
    BY <1>2, <1>5
  <2> QED
    BY <2>1, <2>2, <2>3
<1>6. DueInOrder(c)'
  BY <1>5 DEF DueInOrder, InStep
<1>7. ASSUME NEW r \in Regs  PROVE QueuedInOrder(c, r)' /\ Applied(c, r)'
  <2> DEFINE e == emitted[c][r]
             s == received[c][r]
             t == received'[c][r]
  <2>1. /\ e \in Seq(Nat) /\ Len(e) \in Nat /\ s \in Seq(Nat) /\ Len(s) \in Nat
        /\ \A x \in DOMAIN queue : Carries(queue[x], c, r) => queue[x].nth[r] \in Nat
    BY HistoryTypes DEF Carries
  <2>2. Prefix(s, e) /\ (s # << >> => recv[c][r] = s[Len(s)])
    BY DEF InStep, Applied
  <2>3. \A x \in DOMAIN queue : Carries(queue[x], c, r) =>
           /\ queue[x].nth[r] > Len(s) /\ queue[x].nth[r] <= Len(e)
           /\ queue[x].regs[r] = e[queue[x].nth[r]]
    BY DEF InStep, QueuedInOrder
  <2>4. \A x, y \in DOMAIN queue :
           x < y /\ Carries(queue[x], c, r) /\ Carries(queue[y], c, r)
               => queue[x].nth[r] < queue[y].nth[r]
    BY DEF InStep, QueuedInOrder
  <2>5. \A k \in (Len(s) + 1)..Len(e) :
           \E x \in DOMAIN queue : Carries(queue[x], c, r) /\ queue[x].nth[r] = k
    BY DEF InStep, QueuedInOrder
  <2>6. CASE Carries(queue[i], c, r)
    <3>1. /\ queue[i].nth[r] = Len(s) + 1 /\ Len(s) + 1 <= Len(e)
          /\ queue[i].regs[r] = e[Len(s) + 1]
      BY <1>1, <2>6, EarliestIsNext
    <3>2. t = Append(s, e[Len(s) + 1]) /\ recv'[c][r] = e[Len(s) + 1]
      BY <1>1, <2>6, <3>1
    <3>3. e[Len(s) + 1] \in Nat
      <4>1. Len(s) + 1 \in 1..Len(e)
        BY <2>1, <3>1
      <4> HIDE DEF e, s
      <4> QED
        BY <2>1, <4>1
    <3>4. /\ t \in Seq(Nat) /\ Len(t) = Len(s) + 1 /\ t # << >> /\ t[Len(t)] = e[Len(s) + 1]
          /\ \A k \in 1..Len(s) : t[k] = s[k]
      <4> DEFINE v == e[Len(s) + 1]
      <4>1. s \in Seq(Nat) /\ v \in Nat /\ t = Append(s, v)
        BY <2>1, <3>2, <3>3
      <4> HIDE DEF e, s, t, v
      <4>2. /\ t \in Seq(Nat) /\ Len(t) = Len(s) + 1 /\ t # << >> /\ t[Len(t)] = v
            /\ \A k \in 1..Len(s) : t[k] = s[k]
        BY <4>1, Appended
      <4> QED
        BY <4>2 DEF v
    <3>5. \A x \in DOMAIN queue \ {i} : Carries(queue[x], c, r) => queue[x].nth[r] # Len(s) + 1
      BY <1>2, <2>1, <2>4, <2>6, <3>1
    <3>6. Applied(c, r)'
      <4> HIDE DEF e, s, t
      <4>1. Len(t) <= Len(e)
        BY <3>1, <3>4
      <4>2. ASSUME NEW k \in 1..Len(t)  PROVE t[k] = e[k]
        <5>1. CASE k \in 1..Len(s)
          BY <2>2, <3>4, <5>1 DEF Prefix
        <5>2. CASE k = Len(t)
          BY <3>4, <5>2
        <5> QED
          BY <2>1, <3>4, <5>1, <5>2
      <4>3. Prefix(t, e) /\ recv'[c][r] = t[Len(t)]
        BY <3>2, <3>4, <4>1, <4>2 DEF Prefix
      <4> QED
        BY <4>3 DEF Applied, Prefix, e, t
    <3> HIDE DEF e, s, t
    <3>7. \A j \in DOMAIN queue' : Carries(queue'[j], c, r) =>
             /\ queue'[j].nth[r] > Len(t) /\ queue'[j].nth[r] <= Len(e)
             /\ queue'[j].regs[r] = e[queue'[j].nth[r]]
      BY <1>3, <2>1, <2>3, <3>4, <3>5
    <3>8. \A j, k \in DOMAIN queue' :
             j < k /\ Carries(queue'[j], c, r) /\ Carries(queue'[k], c, r)
                 => queue'[j].nth[r] < queue'[k].nth[r]
      BY <1>5, <2>4
    <3>9. ASSUME NEW k \in (Len(t) + 1)..Len(e)
          PROVE  \E j \in DOMAIN queue' : Carries(queue'[j], c, r) /\ queue'[j].nth[r] = k
      <4>1. k \in (Len(s) + 1)..Len(e) /\ k # Len(s) + 1
        BY <2>1, <3>4, <3>9
      <4>2. PICK x \in DOMAIN queue : Carries(queue[x], c, r) /\ queue[x].nth[r] = k
        BY <2>5, <4>1
      <4> QED
        BY <1>4, <3>1, <4>1, <4>2
    <3>10. QueuedInOrder(c, r)'
      BY <3>7, <3>8, <3>9 DEF QueuedInOrder, e, t
    <3> QED
      BY <3>6, <3>10
  <2>7. CASE ~Carries(queue[i], c, r)
    <3>1. t = s /\ recv'[c][r] = recv[c][r]
      BY <1>1, <2>7
    <3>2. Applied(c, r)'
      BY <2>2, <3>1 DEF Applied, Prefix
    <3> HIDE DEF e, s, t
    <3>3. \A j \in DOMAIN queue' : Carries(queue'[j], c, r) =>
             /\ queue'[j].nth[r] > Len(t) /\ queue'[j].nth[r] <= Len(e)
             /\ queue'[j].regs[r] = e[queue'[j].nth[r]]
      BY <1>3, <2>3, <3>1
    <3>4. \A j, k \in DOMAIN queue' :
             j < k /\ Carries(queue'[j], c, r) /\ Carries(queue'[k], c, r)
                 => queue'[j].nth[r] < queue'[k].nth[r]
      BY <1>5, <2>4
    <3>5. \A k \in (Len(t) + 1)..Len(e) :
             \E j \in DOMAIN queue' : Carries(queue'[j], c, r) /\ queue'[j].nth[r] = k
      BY <1>4, <2>5, <2>7, <3>1
    <3>6. QueuedInOrder(c, r)'
      BY <3>3, <3>4, <3>5 DEF QueuedInOrder, e, t
    <3> QED
      BY <3>2, <3>6
  <2> QED
    BY <2>6, <2>7
<1> QED
  BY <1>6, <1>7 DEF InStep

\* The message due first takes only the next value of each of its registers.
LEMMA DeliverOrdered ==
  ASSUME IInv, Ordered, Deliver
  PROVE  Ordered'
<1>1. UNCHANGED <<open, lost, overtaken, emitted>>
  BY DEF Deliver
<1> QED
  BY <1>1, DeliverInStep DEF Ordered

----------------------------------------------------------------------------
(* The theorem.                                                            *)

\* An opened device has an empty queue and a player to whom nothing is owed.
LEMMA OpenOrdered ==
  ASSUME IInv, Open
  PROVE  Ordered'
<1>1. queue' = << >> /\ DOMAIN queue' = {}
  BY DEF Open, IInv, Timeline
<1>2. \A c \in Chips, r \in Regs : emitted'[c][r] = << >> /\ received'[c][r] = << >>
  BY DEF Open
<1>3. Len(<< >>) = 0 /\ (0 + 1)..0 = {} /\ 1..0 = {}
  OBVIOUS
<1>4. \A c \in Chips : DueInOrder(c)'
  BY <1>1 DEF DueInOrder
<1>5. \A c \in Chips, r \in Regs : QueuedInOrder(c, r)'
  BY <1>1, <1>2, <1>3 DEF QueuedInOrder
<1>6. \A c \in Chips, r \in Regs : Applied(c, r)'
  BY <1>2, <1>3 DEF Applied, Prefix
<1> QED
  BY <1>4, <1>5, <1>6 DEF Ordered, InStep

\* Every step keeps the queue of a chip that lost nothing in order.
LEMMA StepOrdered == IInv /\ Ordered /\ [Next]_vars => Ordered'
<1> SUFFICES ASSUME IInv, Ordered, [Next]_vars  PROVE Ordered'
  OBVIOUS
<1>1. ASSUME UNCHANGED <<queue, emitted, received, recv, open, lost, overtaken>>
      PROVE  Ordered'
  BY <1>1, StillInStep DEF Ordered
<1>2. CASE Irq \/ WallTick \/ MachineReset \/ UNCHANGED vars
  BY <1>1, <1>2 DEF Irq, WallTick, MachineReset, history, vars
<1>3. CASE Close
  BY <1>3 DEF Close, Ordered
<1>4. ASSUME NEW c \in Chips, NEW r \in Addrs, NEW b \in Bytes, Dump2(c, r, b)
      PROVE  Ordered'
  BY <1>4, WriteOrdered
<1> QED
  BY <1>2, <1>3, <1>4, OpenOrdered, DeliverOrdered DEF Next

\* Of length 0 is the empty sequence alone.
LEMMA EmptySequence ==
  ASSUME NEW e \in Seq(Nat), Len(e) = 0
  PROVE  e = << >>
  OBVIOUS

\* With every message of the chip delivered, the player holds what was sent last.
LEMMA OrderedIsInSync == IInv /\ Ordered => PlayerInSync
<1> SUFFICES ASSUME IInv, Ordered, NEW c \in Chips, open, ~lost[c], ~overtaken[c], NEW r \in Regs
             PROVE  /\ Prefix(received[c][r], emitted[c][r])
                    /\ (\A i \in DOMAIN queue : queue[i].chip # c)
                            /\ r \notin sid_modified[c] /\ emitted[c][r] # << >>
                          => recv[c][r] = sid_register[c][r]
  BY DEF PlayerInSync
<1> DEFINE e == emitted[c][r]
           s == received[c][r]
<1>1. e \in Seq(Nat) /\ Len(e) \in Nat /\ s \in Seq(Nat) /\ Len(s) \in Nat
  BY HistoryTypes
<1>2. Prefix(s, e) /\ (s # << >> => recv[c][r] = s[Len(s)])
  BY DEF Ordered, InStep, Applied
<1>3. ASSUME \A i \in DOMAIN queue : queue[i].chip # c, r \notin sid_modified[c], e # << >>
      PROVE  recv[c][r] = sid_register[c][r]
  <2>1. (Len(s) + 1)..Len(e) = {}
    BY <1>3 DEF Ordered, InStep, QueuedInOrder, Carries
  <2>2. sid_register[c][r] = e[Len(e)]
    BY <1>3 DEF IInv, CleanIsSent, SentLast
  <2> HIDE DEF e, s
  <2>3. Len(s) = Len(e) /\ Len(e) \in 1..Len(s)
    <3>1. Len(e) # 0
      BY <1>1, <1>3, EmptySequence, Zenon
    <3>2. Len(s) <= Len(e)
      BY <1>2 DEF Prefix
    <3>3. ~(Len(s) + 1 <= Len(e))
      BY <1>1, <2>1
    <3> QED
      BY <1>1, <3>1, <3>2, <3>3
  <2>4. s # << >> /\ s[Len(s)] = e[Len(e)]
    BY <1>1, <1>2, <2>3 DEF Prefix
  <2> QED
    BY <1>2, <2>2, <2>4
<1> QED
  BY <1>2, <1>3

\* However writes, IRQs and deliveries interleave, the player applies the emitted values
\* in order and ends with the emulated registers, unless the sequencer refused a message
\* or a forced flush overtook one.
THEOREM PlayerAlwaysInSync == Spec => []PlayerInSync
<1>1. Init => IInv /\ Ordered
  <2>1. Init => Ordered
    BY DEF Init, Ordered
  <2> QED
    BY <2>1, InitInv
<1>2. (IInv /\ Ordered) /\ [Next]_vars => (IInv /\ Ordered)'
  BY StepInv, StepOrdered
<1> QED
  BY <1>1, <1>2, OrderedIsInSync, PTL DEF Spec
=============================================================================
