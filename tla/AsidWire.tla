------------------------------- MODULE AsidWire -------------------------------
(***************************************************************************)
(* The bytes of the ASID updates: the codec of libs/asid/src/asid_core.c,  *)
(* which packs the changed registers of a chip into a SysEx message in one *)
(* of two forms, and a player that decodes them.  When a flush happens is  *)
(* the scheduler's business (module Asid); here it may happen at any time. *)
(***************************************************************************)
EXTENDS Integers, Sequences, FiniteSetsExt, Functions

CONSTANT
    Writes              \* the writes of the program: <<chip, register, byte>>

ASID_SYSEX_START == 240
ASID_SYSEX_MAN_ID == 45
ASID_SYSEX_STOP == 247
Chips == 0..1
ASID_NUM_REGS == 25
ControlRegs == {4, 11, 18}

ASSUME AsidWireAssumption ==
    Writes \subseteq Chips \X (0..31) \X (0..255)

VARIABLES
    use_update_reg,     \* the option of -soundarg, set when the device opens
    sid_register,
    sid_modified,       \* per chip: the registers changed since its last flush
    out                 \* the message the last step emitted

vars == <<use_update_reg, sid_register, sid_modified, out>>

NoMessage == [emitted |-> FALSE]

----------------------------------------------------------------------------
(* Encoding.                                                               *)

asid_prefix == <<ASID_SYSEX_START, ASID_SYSEX_MAN_ID>>
asid_update == <<78, 80>>
asid_update_reg == <<108, 109>>

\* Mutant: the registers in the order of their numbers.
regmap_Plain == [i \in 1..ASID_NUM_REGS |-> i - 1]

\* The order in which registers are packed: controls last.
regmap == <<0, 1, 2, 3, 5, 6, 7, 8, 9, 10, 12, 13, 14,
            15, 16, 17, 19, 20, 21, 22, 23, 24, 4, 11, 18>>

\* Mutant: without the writable-bit mask.
Masked_All(r, byte) == byte

\* The writable bits of a byte written to register r.
Masked(r, byte) ==
    byte % (CASE r \in {3, 10, 17} -> 16 [] r = 21 -> 8 [] OTHER -> 256)

Value(c, r) == sid_register[c][r]
High(c, r) == Value(c, r) > 127

\* The slots of the packing order whose registers have changed.
Slots(c) == {i \in 0..(ASID_NUM_REGS - 1) : regmap[i + 1] \in sid_modified[c]}

\* How many of S a pass over the slots has met when it leaves slot i, and the k-th it meets.
Rank(S, i) == Cardinality({j \in S : j <= i})
Nth(S, k) == CHOOSE i \in S : Rank(S, i) = k

\* The changed registers of chip c in packing order.
Changed(c) == [k \in 1..Cardinality(Slots(c)) |-> regmap[Nth(Slots(c), k) + 1]]

HighSlots(c) == {i \in Slots(c) : High(c, regmap[i + 1])}

Weight == <<1, 2, 4, 8, 16, 32, 64>>

\* A 25-bit mask, seven bits to a byte, lowest first.
Septets(S) ==
    [k \in 1..4 |->
        LET bit(i) == IF 7 * (k - 1) + i - 1 \in S THEN Weight[i] ELSE 0
        IN bit(1) + bit(2) + bit(3) + bit(4) + bit(5) + bit(6) + bit(7)]

\* Both forms open with the prefix and an opcode, and close with the stop byte.
SysEx(op, body) == asid_prefix \o <<op>> \o body \o <<ASID_SYSEX_STOP>>

\* Mutant: the values whole.
UpdateForm_EightBit(c) ==
    SysEx(asid_update[c + 1],
          Septets(Slots(c)) \o Septets(HighSlots(c))
              \o [k \in DOMAIN Changed(c) |-> Value(c, Changed(c)[k])])

UpdateForm(c) ==
    SysEx(asid_update[c + 1],
          Septets(Slots(c)) \o Septets(HighSlots(c))
              \o [k \in DOMAIN Changed(c) |-> Value(c, Changed(c)[k]) % 128])

\* Mutant: the values' high bits left out.
RegisterByte_NoMsb(c, r) == r

\* A register of the short form, with the high bit of its value.
RegisterByte(c, r) == r + (IF High(c, r) THEN 64 ELSE 0)

\* Each register and its value in turn.
UpdateRegForm(c) ==
    SysEx(asid_update_reg[c + 1],
          [p \in 1..(2 * Len(Changed(c))) |->
              LET r == Changed(c)[(p + 1) \div 2]
              IN IF p % 2 = 1 THEN RegisterByte(c, r) ELSE Value(c, r) % 128])

----------------------------------------------------------------------------
(* asid_core_flush.  With the message go the changes it is to carry and    *)
(* the addition to bytes_saved.                                            *)

Message(c, msg, saved) ==
    [emitted |-> TRUE, chip |-> c, msg |-> msg, saved |-> saved,
     changes |-> [r \in sid_modified[c] |-> Value(c, r)]]

\* Mutant: the short form whenever it is asked for.
Emit_AlwaysShort(c) ==
    LET short == UpdateRegForm(c)
        long == UpdateForm(c)
    IN IF use_update_reg
       THEN out' = Message(c, short, Len(long) - Len(short))
       ELSE out' = Message(c, long, 0)

Emit(c) ==
    LET short == UpdateRegForm(c)
        long == UpdateForm(c)
    IN IF use_update_reg /\ Len(short) < Len(long)
       THEN out' = Message(c, short, Len(long) - Len(short))
       ELSE out' = Message(c, long, 0)

asid_core_flush(c) ==
    /\ IF sid_modified[c] # {} THEN Emit(c) ELSE out' = NoMessage
    /\ sid_modified' = [sid_modified EXCEPT ![c] = {}]
    /\ UNCHANGED <<use_update_reg, sid_register>>

\* A changed control register whose last change is still waiting goes out first.
asid_core_set_reg(c, r, byte) ==
    LET val == Masked(r, byte)
        edge == r \in ControlRegs /\ r \in sid_modified[c]
    IN IF r \notin 0..(ASID_NUM_REGS - 1) \/ Value(c, r) = val
       THEN out' = NoMessage /\ UNCHANGED <<use_update_reg, sid_register, sid_modified>>
       ELSE /\ IF edge THEN Emit(c) ELSE out' = NoMessage
            /\ sid_register' = [sid_register EXCEPT ![c][r] = val]
            /\ sid_modified' = [sid_modified EXCEPT ![c] = (IF edge THEN {} ELSE @) \cup {r}]
            /\ UNCHANGED use_update_reg

\* asid_core_init
Init ==
    /\ use_update_reg \in BOOLEAN
    /\ sid_register = [c \in Chips |-> [r \in 0..(ASID_NUM_REGS - 1) |-> 0]]
    /\ sid_modified = [c \in Chips |-> {}]
    /\ out = NoMessage

Next ==
    \/ \E c \in Chips : asid_core_flush(c)
    \/ \E w \in Writes : asid_core_set_reg(w[1], w[2], w[3])

Spec == Init /\ [][Next]_vars

----------------------------------------------------------------------------
(* The player: what it does on a message, from the ASID protocol.  It      *)
(* applies the registers in the order of the result.                       *)

\* Bit i of the septets that start at byte `first` of a message.
Bit(msg, first, i) == (msg[first + (i \div 7)] \div Weight[(i % 7) + 1]) % 2

DecodeUpdate(msg) ==
    LET slots == {i \in 0..27 : Bit(msg, 4, i) = 1}
    IN [k \in 1..Cardinality(slots) |->
           <<regmap[Nth(slots, k) + 1], 128 * Bit(msg, 8, Nth(slots, k)) + msg[11 + k]>>]

DecodeUpdateReg(msg) ==
    [k \in 1..((Len(msg) - 4) \div 2) |->
        LET enc == msg[2 * k + 2] IN <<enc % 64, 128 * (enc \div 64) + msg[2 * k + 3]>>]

\* The registers of the messages for chip c, by opcode.
Decode(c, msg) ==
    CASE msg[3] = asid_update[c + 1] -> DecodeUpdate(msg)
      [] msg[3] = asid_update_reg[c + 1] -> DecodeUpdateReg(msg)
      [] OTHER -> <<>>

(* Properties.                                                             *)

\* Whichever form a message takes, its chip's player decodes each change the flush
\* gathered exactly once, with all eight bits of its value; the other chip's player
\* finds nothing in it.
DecodesToChanges ==
    out.emitted =>
        LET applied == Decode(out.chip, out.msg) IN
        /\ Range(applied) = {<<r, out.changes[r]>> : r \in DOMAIN out.changes}
        /\ IsInjective(applied)
        /\ Decode(1 - out.chip, out.msg) = <<>>

\* A player sets a voice's other registers before its gate: in both forms no register
\* comes after a control register but another control register.
GatesLast ==
    out.emitted =>
        LET applied == Decode(out.chip, out.msg) IN
        \A i, j \in DOMAIN applied :
            i < j /\ applied[i][1] \in ControlRegs => applied[j][1] \in ControlRegs

\* The message is one SysEx: between its first and its last byte every byte is data,
\* the high bit clear, or a receiver would take it for a status byte and drop the rest.
OneSysEx ==
    out.emitted =>
        /\ out.msg[1] = ASID_SYSEX_START /\ out.msg[Len(out.msg)] = ASID_SYSEX_STOP
        /\ \A i \in 2..(Len(out.msg) - 1) : out.msg[i] \in 0..127

\* The cheaper form is sent, and bytes_saved grows by what it saves over the standard
\* form, never by a negative difference.
CheaperForm ==
    out.emitted =>
        LET n == Len(Decode(out.chip, out.msg))
            long == 12 + n
            short == 4 + 2 * n
        IN /\ Len(out.msg) = IF use_update_reg THEN Min({long, short}) ELSE long
           /\ Len(out.msg) + out.saved = long /\ out.saved >= 0

\* The shape of the state; a register holds its writable bits only.
TypeOK ==
    /\ use_update_reg \in BOOLEAN
    /\ sid_register \in [Chips -> [0..(ASID_NUM_REGS - 1) -> 0..255]]
    /\ \A c \in Chips : \A r \in 0..(ASID_NUM_REGS - 1) :
          Value(c, r) \in 0..(IF r \in {3, 10, 17} THEN 15 ELSE IF r = 21 THEN 7 ELSE 255)
    /\ sid_modified \in [Chips -> SUBSET (0..(ASID_NUM_REGS - 1))]
    /\ out.emitted \in BOOLEAN
=============================================================================
