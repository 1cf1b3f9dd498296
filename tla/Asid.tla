-------------------------------- MODULE Asid --------------------------------
(***************************************************************************)
(* The ASID sound device: the register tracker of                          *)
(* libs/asid/src/asid_core.c, the scheduler of libs/asid/vice/soundasid.c, *)
(* the ALSA sequencer queue between them and the SID player, and the       *)
(* player.                                                                 *)
(*                                                                         *)
(* The emulated program writes SID registers (asid_dump2).  Changes are    *)
(* gathered per chip and sent as one update message when the next IRQ's    *)
(* first write comes in, to be delivered CyclePad cycles after that IRQ;   *)
(* a second change of a control register (gate) within a frame sends what  *)
(* was gathered at once.  The bytes of a message are not modelled here.    *)
(***************************************************************************)
EXTENDS Integers, Sequences

CONSTANTS
    Chips,              \* 0..ASID_CHIPS-1
    Regs,               \* the SID registers carried, 0..ASID_MAX_SID_REG
    Addrs,              \* the registers a write may address, 0..31
    ControlRegs,        \* {4, 11, 18}
    Width,              \* per register: 1 + its regmask, a power of two
    Bytes,              \* the bytes programs write
    CyclePad,           \* ASID_CYCLE_PAD
    IrqThreshold,       \* ASID_IRQ_FLUSH_THRESHOLD
    CyclesPerSec,       \* machine_get_cycles_per_second(); 0 is "unknown"
    PalCyclesPerSec,    \* ASID_PAL_CYCLES_PER_SEC
    NanosPerSec,        \* 10^9
    ClockWrap,          \* 2^64: the difference of two clocks is unsigned
    PoolSize,           \* events the sequencer's output pool holds
    MaxWrites,          \* bound on register writes
    MaxTime,            \* bound on the emulated and on the wall clock
    MaxSessions         \* bound on how often the device is opened

ASSUME AsidAssumption ==
    /\ ControlRegs \subseteq Regs /\ Regs \subseteq Addrs
    /\ Width \in [Regs -> Nat \ {0}]
    /\ Bytes \subseteq Nat
    /\ CyclePad \in Nat /\ IrqThreshold \in Nat
    /\ CyclesPerSec \in Nat /\ PalCyclesPerSec \in Nat \ {0} /\ NanosPerSec \in Nat
    /\ ClockWrap \in Nat /\ ClockWrap > MaxTime
    /\ PoolSize \in Nat /\ MaxWrites \in Nat /\ MaxTime \in Nat /\ MaxSessions \in Nat

VARIABLES
    \* asid_core_t, per chip
    sid_register, sid_modified,
    \* asid_timing, per chip; start_clock 0 is "not started"
    last_irq, start_clock,
    \* the transport: sent messages not yet delivered, in the order sent
    open, queue,
    \* the world
    irq_clk,            \* clock of the last IRQ the CPU took
    wall,               \* CLOCK_MONOTONIC, ns
    recv,               \* the player's registers
    \* history of this session, per chip
    written,            \* per control register: the values it took
    emitted,            \* per register: the values handed to the transport
    received,           \* per register: the values the player applied
    lost,               \* a message was refused by the pool
    overtaken,          \* a message was sent to be delivered before an older one
    rewound,            \* a machine reset set the clock back (all chips)
    writes, sessions

coreVars == <<sid_register, sid_modified>>
timing == <<last_irq, start_clock>>
history == <<written, emitted, received, lost, overtaken, rewound>>
vars == <<coreVars, timing, open, queue, irq_clk, wall, recv, history, writes, sessions>>

----------------------------------------------------------------------------
(* The codec.                                                              *)

NoRegs == [r \in Regs |-> 0]

\* Masked, without the mask.
Unmasked(r, byte) == byte

\* The writable bits of a byte: every regmask is a power of two less one.
Masked(r, byte) == byte % Width[r]

\* A message carries every register changed since the last flush.
Update(c) == [r \in sid_modified[c] |-> sid_register[c][r]]

----------------------------------------------------------------------------
(* The scheduler.                                                          *)

\* asid_clock_to_nanos
ClockToNanos(clock) ==
    (clock * NanosPerSec) \div (IF CyclesPerSec = 0 THEN PalCyclesPerSec ELSE CyclesPerSec)

\* asid_should_flush_on_irq
ShouldFlush(c) == (irq_clk - last_irq[c]) % ClockWrap > IrqThreshold

\* The wall clock at which a chip's timeline starts: its first IRQ flush.
Start(c) == IF start_clock[c] = 0 THEN wall ELSE start_clock[c]

\* Delay, with the pad on the first flush only.
DelayPaddedOnce(c) ==
    LET n == ClockToNanos(irq_clk + (IF start_clock[c] = 0 THEN CyclePad ELSE 0))
                - (wall - Start(c))
    IN IF n < 0 THEN 0 ELSE n

\* How long an IRQ flush waits; one that has slipped goes out at once.
Delay(c) ==
    LET n == ClockToNanos(irq_clk + CyclePad) - (wall - Start(c))
    IN IF n < 0 THEN 0 ELSE n

----------------------------------------------------------------------------
(* The transport (ALSA).                                                   *)

Overtakes(c, due) == \E i \in DOMAIN queue : queue[i].chip = c /\ queue[i].due > due

\* _send_message of chip c's update, nsec from now.  asid_emit drops the error when
\* the pool is full.
Send(c, nsec) ==
    LET m == [chip |-> c, due |-> wall + nsec, regs |-> Update(c),
              \* history: the place of each value among those emitted
              nth |-> [r \in sid_modified[c] |-> Len(emitted[c][r]) + 1]]
    IN
    /\ emitted' = [emitted EXCEPT ![c] = [r \in Regs |->
            IF r \in sid_modified[c] THEN Append(@[r], sid_register[c][r]) ELSE @[r]]]
    /\ overtaken' = [overtaken EXCEPT ![c] = @ \/ Overtakes(c, wall + nsec)]
    /\ IF Len(queue) < PoolSize
       THEN queue' = Append(queue, m) /\ UNCHANGED lost
       ELSE lost' = [lost EXCEPT ![c] = TRUE] /\ UNCHANGED queue

SendNothing == UNCHANGED <<queue, emitted, overtaken, lost>>

\* Flush, taking a delay of 0 for "nothing to schedule".
FlushDelayed(c, nsec) == IF sid_modified[c] # {} /\ nsec > 0 THEN Send(c, nsec) ELSE SendNothing

\* asid_core_flush
Flush(c, nsec) == IF sid_modified[c] # {} THEN Send(c, nsec) ELSE SendNothing

----------------------------------------------------------------------------
(* asid_dump2: the program writes byte to register r of chip c.            *)

\* asid_core_set_reg, once the registers in pending are dirty.
Record(c, r, byte, pending) ==
    /\ sid_register' = [sid_register EXCEPT ![c][r] = Masked(r, byte)]
    /\ sid_modified' = [sid_modified EXCEPT ![c] = pending \cup {r}]
    /\ written' = IF r \in ControlRegs
                  THEN [written EXCEPT ![c][r] = Append(@, Masked(r, byte))]
                  ELSE written

\* An address above ASID_MAX_SID_REG and a write of the value held are ignored.
Changes(c, r, byte) == r \in Regs /\ sid_register[c][r] # Masked(r, byte)

\* EdgePending, never.
EdgeForgotten(c, r) == FALSE

\* The register's previous change is still waiting to be sent.
EdgePending(c, r) == r \in ControlRegs /\ r \in sid_modified[c]

\* The first write after an IRQ: send the last frame's changes, then record this one.
WriteAfterIrq(c, r, byte) ==
    /\ ShouldFlush(c)
    /\ last_irq' = [last_irq EXCEPT ![c] = irq_clk]
    /\ start_clock' = [start_clock EXCEPT ![c] = Start(c)]
    /\ Flush(c, Delay(c))
    /\ IF Changes(c, r, byte)
       THEN Record(c, r, byte, {})
       ELSE /\ sid_modified' = [sid_modified EXCEPT ![c] = {}]
            /\ UNCHANGED <<sid_register, written>>

\* A later write: a second change of a control register sends the first at once.
WriteInFrame(c, r, byte) ==
    /\ ~ShouldFlush(c)
    /\ UNCHANGED timing
    /\ IF ~Changes(c, r, byte) THEN UNCHANGED <<coreVars, written>> /\ SendNothing
       ELSE IF EdgePending(c, r) THEN Flush(c, 0) /\ Record(c, r, byte, {})
       ELSE SendNothing /\ Record(c, r, byte, sid_modified[c])

Dump2(c, r, byte) ==
    /\ open /\ writes < MaxWrites
    /\ writes' = writes + 1
    /\ WriteAfterIrq(c, r, byte) \/ WriteInFrame(c, r, byte)
    /\ UNCHANGED <<open, irq_clk, wall, recv, received, rewound, sessions>>

----------------------------------------------------------------------------
(* The device.                                                             *)

\* _open_port starts every chip's timeline anew.
OpenPort ==
    /\ last_irq' = [c \in Chips |-> 0]
    /\ start_clock' = [c \in Chips |-> 0]

\* asid_init; the ways it may fail leave no device, and VICE falls back to another.
Open ==
    /\ ~open /\ sessions < MaxSessions
    /\ sessions' = sessions + 1
    /\ open' = TRUE
    /\ sid_register' = [c \in Chips |-> NoRegs]
    /\ sid_modified' = [c \in Chips |-> {}]
    /\ OpenPort
    /\ written' = [c \in Chips |-> [r \in ControlRegs |-> << >>]]
    /\ emitted' = [c \in Chips |-> [r \in Regs |-> << >>]]
    /\ received' = [c \in Chips |-> [r \in Regs |-> << >>]]
    /\ lost' = [c \in Chips |-> FALSE]
    /\ overtaken' = [c \in Chips |-> FALSE]
    /\ rewound' = FALSE
    /\ UNCHANGED <<queue, irq_clk, wall, recv, writes>>

\* Close, leaving the queue to play out.
CloseKeepsQueue ==
    /\ open
    /\ open' = FALSE
    /\ UNCHANGED <<queue, coreVars, timing, irq_clk, wall, recv, history, writes, sessions>>

\* asid_close: what is gathered stays unsent, what is queued is removed.
Close ==
    /\ open
    /\ open' = FALSE
    /\ queue' = << >>
    /\ UNCHANGED <<coreVars, timing, irq_clk, wall, recv, history, writes, sessions>>

----------------------------------------------------------------------------
(* The world.                                                              *)

Irq ==
    /\ irq_clk < MaxTime
    /\ irq_clk' = irq_clk + 1
    /\ UNCHANGED <<coreVars, timing, open, queue, wall, recv, history, writes, sessions>>

WallTick ==
    /\ wall < MaxTime
    /\ wall' = wall + 1
    /\ UNCHANGED <<coreVars, timing, open, queue, irq_clk, recv, history, writes, sessions>>

\* A machine reset starts the CPU's clock again; the device is not told and keeps the
\* origin of its timelines ("TODO: handle sound restarts").
MachineReset ==
    /\ irq_clk' = 0
    /\ rewound' = TRUE
    /\ UNCHANGED <<coreVars, timing, open, queue, wall, recv, written, emitted, received,
                   lost, overtaken, writes, sessions>>

\* The sequencer delivers the message that is due first, in the order sent among
\* equals; the player applies all of it.
Earliest(i) ==
    \A j \in DOMAIN queue : queue[i].due < queue[j].due \/ (queue[i].due = queue[j].due /\ i <= j)

Deliver ==
    \E i \in DOMAIN queue :
        /\ queue[i].due <= wall
        /\ Earliest(i)
        /\ LET c == queue[i].chip
               regs == queue[i].regs
           IN /\ recv' = [recv EXCEPT ![c] = [r \in Regs |->
                            IF r \in DOMAIN regs THEN regs[r] ELSE @[r]]]
              /\ received' = [received EXCEPT ![c] = [r \in Regs |->
                            IF r \in DOMAIN regs THEN Append(@[r], regs[r]) ELSE @[r]]]
        /\ queue' = [j \in 1..(Len(queue) - 1) |-> IF j < i THEN queue[j] ELSE queue[j + 1]]
        /\ UNCHANGED <<coreVars, timing, open, irq_clk, wall, written, emitted, lost,
                       overtaken, rewound, writes, sessions>>

----------------------------------------------------------------------------
Init ==
    /\ sid_register = [c \in Chips |-> NoRegs]
    /\ sid_modified = [c \in Chips |-> {}]
    /\ last_irq = [c \in Chips |-> 0]
    /\ start_clock = [c \in Chips |-> 0]
    /\ open = FALSE
    /\ queue = << >>
    /\ irq_clk = 0
    /\ wall = 1
    /\ recv = [c \in Chips |-> NoRegs]
    /\ written = [c \in Chips |-> [r \in ControlRegs |-> << >>]]
    /\ emitted = [c \in Chips |-> [r \in Regs |-> << >>]]
    /\ received = [c \in Chips |-> [r \in Regs |-> << >>]]
    /\ lost = [c \in Chips |-> FALSE]
    /\ overtaken = [c \in Chips |-> FALSE]
    /\ rewound = FALSE
    /\ writes = 0
    /\ sessions = 0

Next ==
    \/ \E c \in Chips, r \in Addrs, b \in Bytes : Dump2(c, r, b)
    \/ Open \/ Close \/ Irq \/ WallTick \/ Deliver \/ MachineReset

Spec == Init /\ [][Next]_vars

----------------------------------------------------------------------------
(* Properties.                                                             *)

IsMessage(m) ==
    /\ m.chip \in Chips /\ m.due \in Nat
    /\ DOMAIN m.regs \subseteq Regs /\ m.regs \in [DOMAIN m.regs -> Nat]
    /\ m.nth \in [DOMAIN m.regs -> Nat]

\* The shape of the codec's, the scheduler's and the transport's state; a register
\* holds its writable bits only.
TypeOK ==
    /\ sid_register \in [Chips -> [Regs -> Nat]]
    /\ \A c \in Chips, r \in Regs : sid_register[c][r] < Width[r]
    /\ sid_modified \in [Chips -> SUBSET Regs]
    /\ last_irq \in [Chips -> Nat] /\ start_clock \in [Chips -> Nat]
    /\ open \in BOOLEAN
    /\ DOMAIN queue = 1..Len(queue) /\ Len(queue) \in 0..PoolSize
    /\ \A i \in DOMAIN queue : IsMessage(queue[i])
    /\ irq_clk \in Nat /\ wall \in Nat \ {0}
    /\ recv \in [Chips -> [Regs -> Nat]]
    /\ written \in [Chips -> [ControlRegs -> Seq(Nat)]]
    /\ emitted \in [Chips -> [Regs -> Seq(Nat)]]
    /\ received \in [Chips -> [Regs -> Seq(Nat)]]
    /\ lost \in [Chips -> BOOLEAN] /\ overtaken \in [Chips -> BOOLEAN]
    /\ rewound \in BOOLEAN

\* The codec loses no gate edge: every value a control register took has been handed
\* to the transport, in order and once, but for the last, which is still gathered.
EdgesKept ==
    \A c \in Chips, r \in ControlRegs :
        written[c][r] = IF r \in sid_modified[c]
                        THEN Append(emitted[c][r], sid_register[c][r])
                        ELSE emitted[c][r]

\* The value a register was sent with last; 0 when it never was.
SentLast(e) == IF e = << >> THEN 0 ELSE e[Len(e)]

\* A register not marked as modified is the one sent last: no change falls between
\* the clearing of the marks and the message.
CleanIsSent ==
    \A c \in Chips, r \in Regs :
        r \notin sid_modified[c] => sid_register[c][r] = SentLast(emitted[c][r])

Prefix(s, t) == Len(s) <= Len(t) /\ \A i \in 1..Len(s) : s[i] = t[i]

\* The player's view, when no message was refused and none overtaken: it applied, in
\* order, what was emitted in this session; with nothing left in the queue, its
\* registers are the emulated ones wherever no change is being gathered.
PlayerInSync ==
    \A c \in Chips :
        open /\ ~lost[c] /\ ~overtaken[c] =>
            \A r \in Regs :
                /\ Prefix(received[c][r], emitted[c][r])
                /\ (\A i \in DOMAIN queue : queue[i].chip # c)
                        /\ r \notin sid_modified[c] /\ emitted[c][r] # << >>
                      => recv[c][r] = sid_register[c][r]

\* IRQ flushes, slipped or not, never overtake anything: only a flush forced by a
\* control register, which leaves the timing alone, does.  (After a machine reset an
\* IRQ flush is late by the time before it, goes out at once and may.)
OnlyEdgesOvertake ==
    [][\A c \in Chips : ~rewound /\ ~overtaken[c] /\ overtaken'[c] => last_irq'[c] = last_irq[c]]_vars

\* Where the queue stands against the timeline: a message due later than now is an IRQ
\* flush, due no later than the last IRQ plus the pad, unless the clock was rewound;
\* a closed device has no queue.
Timeline ==
    /\ ~open => queue = << >>
    /\ \A c \in Chips : start_clock[c] <= wall
    /\ ~rewound =>
          \A c \in Chips :
              /\ last_irq[c] <= irq_clk
              /\ \A i \in DOMAIN queue :
                    queue[i].chip = c /\ queue[i].due > wall =>
                        /\ start_clock[c] # 0
                        /\ queue[i].due <= start_clock[c] + ClockToNanos(last_irq[c] + CyclePad)

\* The inductive invariant behind the codec's and the scheduler's properties.
IInv == TypeOK /\ EdgesKept /\ CleanIsSent /\ Timeline

\* A value of register r of chip c in the queue.
Carries(m, c, r) == m.chip = c /\ r \in DOMAIN m.regs

\* What PlayerInSync adds to IInv.  A chip's messages are due in the order sent.
DueInOrder(c) ==
    \A i, j \in DOMAIN queue :
        i < j /\ queue[i].chip = c /\ queue[j].chip = c => queue[i].due <= queue[j].due

\* The queue holds, in order, the emitted values of a register not yet received, each
\* in one message.
QueuedInOrder(c, r) ==
    /\ \A i \in DOMAIN queue : Carries(queue[i], c, r) =>
          /\ queue[i].nth[r] > Len(received[c][r]) /\ queue[i].nth[r] <= Len(emitted[c][r])
          /\ queue[i].regs[r] = emitted[c][r][queue[i].nth[r]]
    /\ \A i, j \in DOMAIN queue :
          i < j /\ Carries(queue[i], c, r) /\ Carries(queue[j], c, r)
              => queue[i].nth[r] < queue[j].nth[r]
    /\ \A k \in (Len(received[c][r]) + 1)..Len(emitted[c][r]) :
          \E i \in DOMAIN queue : Carries(queue[i], c, r) /\ queue[i].nth[r] = k

\* The player's register holds the value received last.
Applied(c, r) ==
    /\ Prefix(received[c][r], emitted[c][r])
    /\ received[c][r] # << >> => recv[c][r] = received[c][r][Len(received[c][r])]

InStep(c) == DueInOrder(c) /\ \A r \in Regs : QueuedInOrder(c, r) /\ Applied(c, r)

Ordered == \A c \in Chips : open /\ ~lost[c] /\ ~overtaken[c] => InStep(c)

\* revice_asid.h, asid_core_set_reg: the forced flush is there "so the previous gate
\* edge is not lost".  The player sees the edges of a control register in order.
GateEdgesArrive ==
    \A c \in Chips, r \in ControlRegs :
        open /\ ~lost[c] => Prefix(received[c][r], written[c][r])
=============================================================================
