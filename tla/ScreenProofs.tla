----------------------------- MODULE ScreenProofs -----------------------------
(***************************************************************************)
(* For every set of memory pointers, offsets, buffer sizes and screen      *)
(* codes: a response shows what the VIC-II displays, and tells where it    *)
(* was read.  A response lives only until the program runs on, so what has *)
(* to be carried along is that it is the response of the present state.    *)
(***************************************************************************)
EXTENDS Screen, TLAPS

Drawings == {Drawing(Response, raw, code) : raw \in BOOLEAN, code \in Codes}

\* A reply is about the present state.
IInv ==
    /\ s_provider \in BOOLEAN
    /\ ecm \in BOOLEAN /\ bmm \in BOOLEAN /\ mcm \in BOOLEAN
    /\ d018 \in MemoryPointers /\ bank \in 0..3
    /\ reply \in {NoReply, Error, Response} \cup Drawings

\* Every step keeps the reply about the present state: requests leave the VIC-II alone,
\* and the program running on takes the reply back.
LEMMA Inductive == Spec => []IInv
<1>1. Init => IInv
  <2>1. 0 \in 0..3
    OBVIOUS
  <2> QED
    BY <2>1, Zenon DEF Init, IInv
<1>2. IInv /\ [Next]_vars => IInv'
  <2> SUFFICES ASSUME IInv, [Next]_vars PROVE IInv'
    OBVIOUS
  <2>1. CASE c64screen_init
    BY <2>1 DEF IInv, c64screen_init, vic
  <2>2. CASE Program
    BY <2>2 DEF IInv, Program
  <2>3. ASSUME UNCHANGED vic PROVE Response' = Response /\ Drawings' = Drawings
    <3>1. UNCHANGED <<ecm, bmm, mcm, d018, bank>>
      BY <2>3 DEF vic
    <3>2. Response' = Response
      BY <3>1 DEF Response, vic_mode, charset_kind, screen_addr, charset_addr, bitmap_addr,
                  vbank, charset_in_chargen_window, rom_base
    <3> QED
      BY <3>2 DEF Drawings, Drawing
  <2>4. ASSUME NEW size \in Sizes, mon_screen_binmon_get(size) PROVE IInv'
    BY <2>3, <2>4 DEF IInv, mon_screen_binmon_get, vic
  <2>5. ASSUME NEW raw \in BOOLEAN, NEW code \in Codes, mon_screen_show(raw, code) PROVE IInv'
    <3>1. UNCHANGED <<s_provider, ecm, bmm, mcm, d018, bank>>
      BY <2>5 DEF mon_screen_show, vic
    <3>2. reply' \in {Error} \cup Drawings
      BY <2>5 DEF mon_screen_show, Drawings
    <3> QED
      BY <2>3, <3>1, <3>2 DEF IInv, vic
  <2>6. CASE UNCHANGED vars
    BY <2>3, <2>6 DEF IInv, vars, vic
  <2> QED
    BY <2>1, <2>2, <2>4, <2>5, <2>6 DEF Next
<1> QED
  BY <1>1, <1>2, PTL DEF Spec

----------------------------------------------------------------------------
(* Addresses. The character-set field of D018 alone decides with the bank. *)

Field == (d018 \div 2) % 8

\* The character set's address and window, by field and bank.
LEMMA CharsetAddress ==
    ASSUME IInv
    PROVE  /\ Field \in 0..7
           /\ charset_addr = 16384 * bank + 2048 * Field
           /\ charset_in_chargen_window <=> bank \in {0, 2} /\ Field \in {2, 3}
           /\ rom_base = 2048 * (Field % 2)
<1>1. d018 \in 0..255 /\ bank \in 0..3
  BY ScreenAssumption DEF IInv
<1>2. Field \in 0..7 /\ (d018 % 16) \div 2 = Field
  BY <1>1 DEF Field
<1>3. charset_addr = 16384 * bank + 2048 * Field
  BY <1>1, <1>2 DEF charset_addr, vbank
<1>4. charset_addr \div 4096 = 4 * bank + (Field \div 2)
  BY <1>1, <1>2, <1>3
<1>5. charset_in_chargen_window <=> bank \in {0, 2} /\ Field \in {2, 3}
  BY <1>1, <1>2, <1>4 DEF charset_in_chargen_window
<1>6. charset_addr \div 2048 = 8 * bank + Field
  BY <1>1, <1>2, <1>3
<1>7. rom_base = 2048 * (Field % 2)
  BY <1>1, <1>2, <1>6 DEF rom_base
<1> QED
  BY <1>2, <1>3, <1>5, <1>7

\* The screen's address, by line and bank.
LEMMA ScreenAddress ==
    ASSUME IInv
    PROVE  \E line \in 0..15 :
               /\ line = (d018 \div 16) % 16
               /\ screen_addr = 16384 * bank + 1024 * line
<1>1. d018 \in 0..255 /\ bank \in 0..3
  BY ScreenAssumption DEF IInv
<1>2. d018 \div 16 \in 0..15 /\ (d018 \div 16) % 16 = d018 \div 16
  BY <1>1
<1> QED
  BY <1>1, <1>2 DEF screen_addr, vbank

\* Every address of a bank fits 16 bits.
LEMMA InBank ==
    ASSUME NEW b \in 0..3, NEW a \in Nat, a < 16384
    PROVE  16384 * b + a \in Word
BY DEF Word

\* A packed reply is the response of the present state.
LEMMA PackedIsResponse ==
    ASSUME IInv, Packed
    PROVE  reply = Response
<1>1. NoReply.kind # "response" /\ Error.kind # "response"
  BY DEF NoReply, Error
<1>2. \A d \in Drawings : d.kind # "response"
  <2> SUFFICES ASSUME NEW raw \in BOOLEAN, NEW code \in Codes
               PROVE  Drawing(Response, raw, code).kind # "response"
    BY DEF Drawings
  <2> QED
    BY <1>1 DEF Drawing
<1> QED
  BY <1>1, <1>2 DEF IInv, Packed

----------------------------------------------------------------------------
\* The state keeps its shape, and the packed addresses fit 16 bits.
THEOREM ScreenTypeOK == Spec => []TypeOK
<1>1. ASSUME IInv PROVE TypeOK
  <2>1. /\ s_provider \in BOOLEAN
        /\ ecm \in BOOLEAN /\ bmm \in BOOLEAN /\ mcm \in BOOLEAN
        /\ d018 \in MemoryPointers /\ d018 \in 0..255 /\ bank \in 0..3
    BY <1>1, ScreenAssumption DEF IInv
  <2>2. reply.kind \in {"none", "error", "response", "grid", "hex"}
    <3>1. ASSUME NEW raw \in BOOLEAN, NEW code \in Codes
          PROVE  Drawing(Response, raw, code).kind \in {"error", "grid", "hex"}
      BY DEF Drawing, Error
    <3>2. Response.kind = "response" /\ NoReply.kind = "none" /\ Error.kind = "error"
      BY DEF Response, NoReply, Error
    <3> QED
      BY <1>1, <3>1, <3>2 DEF IInv, Drawings
  <2>3. ASSUME Packed
        PROVE  /\ reply.vic_mode \in 0..7
               /\ \A a \in {reply.screen_addr, reply.charset_addr, reply.bitmap_addr} :
                     a \in Word
    <3>1. /\ reply.vic_mode = vic_mode
          /\ reply.screen_addr = screen_addr
          /\ reply.charset_addr = charset_addr
          /\ reply.bitmap_addr = IF bmm THEN bitmap_addr ELSE 0
      BY <1>1, <2>3, PackedIsResponse DEF Response
    <3>2. vic_mode \in 0..7
      BY <2>1 DEF vic_mode, Bit
    <3>3. bank \in 0..3 /\ d018 \in 0..255
      BY <2>1
    <3>4. screen_addr \in Word
      BY <1>1, <3>3, ScreenAddress DEF Word
    <3>5. charset_addr \in Word
      <4>1. 2048 * Field \in Nat /\ 2048 * Field < 16384
        BY <1>1, CharsetAddress
      <4> QED
        BY <1>1, <3>3, <4>1, CharsetAddress, InBank
    <3>6. bitmap_addr \in Word
      <4> DEFINE half == (d018 % 16) \div 8
      <4>1. half \in 0..1 /\ bitmap_addr = 16384 * bank + 8192 * half
        BY <3>3 DEF bitmap_addr, vbank
      <4> HIDE DEF half
      <4>2. 8192 * half \in Nat /\ 8192 * half < 16384
        BY <4>1
      <4> QED
        BY <3>3, <4>1, <4>2, InBank
    <3>7. reply.bitmap_addr \in Word
      <4>1. 0 \in Word
        BY DEF Word
      <4>2. CASE bmm
        BY <3>1, <3>6, <4>2, Zenon
      <4>3. CASE ~ bmm
        BY <3>1, <4>1, <4>3, Zenon
      <4> QED
        BY <4>2, <4>3, Zenon
    <3> QED
      BY <3>1, <3>2, <3>4, <3>5, <3>7, Zenon
  <2> QED
    BY <2>1, <2>2, <2>3, Zenon DEF TypeOK
<1> QED
  BY <1>1, Inductive, PTL

\* The character set is the one displayed, for every memory pointer and bank
\* (screen_pack's window test and ROM half).
THEOREM GlyphsAlwaysShown == Spec => []GlyphsShown
<1>1. ASSUME IInv PROVE GlyphsShown
  <2> SUFFICES ASSUME Packed, NEW i \in Offsets
               PROVE  reply.charset[i] = Fetch(bank, 2048 * Field + i)
    BY DEF GlyphsShown, Field
  <2>1. i \in Nat /\ i < 2048
    BY ScreenAssumption DEF SCREEN_CHARSET_BYTES
  <2>2. bank \in 0..3 /\ Field \in 0..7
    BY <1>1, CharsetAddress DEF IInv
  <2>3. reply.charset[i] = IF charset_in_chargen_window THEN Chargen(rom_base + i)
                           ELSE Ram(charset_addr + i)
    BY <1>1, PackedIsResponse DEF Response
  <2>4. CASE charset_in_chargen_window
    <3>1. bank \in {0, 2} /\ Field \in {2, 3} /\ rom_base = 2048 * (Field % 2)
      BY <1>1, <2>4, CharsetAddress
    <3> DEFINE a == 2048 * Field + i
               o == rom_base + i
    <3>2. 4096 <= a /\ a < 8192 /\ o = a - 4096
      BY <2>1, <3>1
    <3>3. reply.charset[i] = Chargen(o)
      BY <2>3, <2>4
    <3> SUFFICES reply.charset[i] = Fetch(bank, a)
      OBVIOUS
    <3> HIDE DEF a, o
    <3>4. Fetch(bank, a) = Chargen(o)
      BY <3>1, <3>2 DEF Fetch
    <3> QED
      BY <3>3, <3>4
  <2>5. CASE ~ charset_in_chargen_window
    <3>1. ~ (bank \in {0, 2} /\ Field \in {2, 3})
      BY <1>1, <2>5, CharsetAddress
    <3>2. ~ (bank \in {0, 2} /\ 4096 <= 2048 * Field + i /\ 2048 * Field + i < 8192)
      BY <2>1, <2>2, <3>1
    <3>3. charset_addr + i = 16384 * bank + (2048 * Field + i)
      BY <1>1, <2>1, <2>2, CharsetAddress
    <3> QED
      BY <2>3, <2>5, <3>2, <3>3 DEF Fetch
  <2> QED
    BY <2>4, <2>5
<1> QED
  BY <1>1, Inductive, PTL

\* The screen codes are those displayed wherever the VIC-II reads them from RAM.
THEOREM CellsAlwaysShown == Spec => []CellsShown
<1>1. ASSUME IInv PROVE CellsShown
  <2> DEFINE line == (d018 \div 16) % 16
  <2> SUFFICES ASSUME Packed, NEW i \in Cells
               PROVE  LET a == 1024 * line + i IN
                      /\ a < 16384
                      /\ reply.screen[i] # Fetch(bank, a) => Fetch(bank, a) = Chargen(a - 4096)
    BY DEF CellsShown
  <2>1. i \in Nat /\ i < 1000
    BY DEF Cells, SCREEN_TEXT_CELLS, SCREEN_TEXT_ROWS, SCREEN_TEXT_COLS
  <2>2. line \in 0..15 /\ bank \in 0..3 /\ screen_addr = 16384 * bank + 1024 * line
    BY <1>1, ScreenAddress DEF IInv
  <2>3. reply.screen[i] = Ram(screen_addr + i)
    BY <1>1, PackedIsResponse DEF Response
  <2> HIDE DEF line
  <2>4. screen_addr + i = 16384 * bank + (1024 * line + i) /\ 1024 * line + i < 16384
    BY <2>1, <2>2
  <2> QED
    BY <2>3, <2>4 DEF Fetch
<1> QED
  BY <1>1, Inductive, PTL

\* The header says where each region was read: in a text mode the kind of the character
\* set follows the test that chose between the ROM and RAM.
THEOREM HeaderAlwaysTruthful == Spec => []HeaderTruthful
<1>1. ASSUME IInv PROVE HeaderTruthful
  <2> SUFFICES ASSUME Packed PROVE HeaderTruthful
    BY DEF HeaderTruthful
  <2>1. reply = Response
    BY <1>1, PackedIsResponse
  <2>2. reply.vic_bank = bank
    BY <2>1 DEF Response
  <2>3. \A a \in {reply.screen_addr, reply.charset_addr} : a \div 16384 = reply.vic_bank
    <3>1. bank \in 0..3
      BY <1>1 DEF IInv
    <3>2. screen_addr \div 16384 = bank
      BY <1>1, <3>1, ScreenAddress
    <3>3. charset_addr \div 16384 = bank
      BY <1>1, <3>1, CharsetAddress
    <3>4. reply.screen_addr = screen_addr /\ reply.charset_addr = charset_addr
      BY <2>1 DEF Response
    <3> QED
      BY <2>2, <3>2, <3>3, <3>4
  <2>4. \A i \in Cells : reply.screen[i] = Ram(reply.screen_addr + i)
    BY <2>1 DEF Response
  <2>5. ASSUME ~ bmm, NEW i \in Offsets
        PROVE  reply.charset[i] =
                   CASE reply.charset_kind = SCREEN_CHARSET_RAM -> Ram(reply.charset_addr + i)
                     [] reply.charset_kind = SCREEN_CHARSET_ROM_UPPER_GFX -> Chargen(i)
                     [] OTHER -> Chargen(2048 + i)
    <3>1. i \in Nat /\ i < 2048
      BY ScreenAssumption DEF SCREEN_CHARSET_BYTES
    <3>2. rom_base \in {0, 2048}
      BY <1>1, CharsetAddress
    <3>3. /\ reply.charset_kind = charset_kind
          /\ reply.charset_addr = charset_addr
          /\ reply.charset[i] = IF charset_in_chargen_window THEN Chargen(rom_base + i)
                                ELSE Ram(charset_addr + i)
      BY <2>1 DEF Response
    <3> QED
      BY <3>1, <3>2, <3>3 DEF charset_kind, SCREEN_CHARSET_RAM,
         SCREEN_CHARSET_ROM_UPPER_GFX, SCREEN_CHARSET_ROM_UPPER_LOWER
  <2> QED
    BY <2>2, <2>3, <2>4, <2>5 DEF HeaderTruthful
<1> QED
  BY <1>1, Inductive, PTL

\* A character tells the screen code it stands for.
Tells(char, code) ==
    \/ char \in 32..95 /\ char % 64 = code % 128
    \/ char = 46 /\ code % 128 >= 64

\* screen_screencode_to_ascii keeps what the code stands for.
LEMMA AsciiTells ==
    ASSUME NEW code \in 0..255
    PROVE  Tells(screen_screencode_to_ascii(code), code)
<1>1. code % 128 \in 0..127
  OBVIOUS
<1> DEFINE sc == code % 128
<1>2. CASE sc = 0
  BY <1>2 DEF Tells, screen_screencode_to_ascii
<1>3. CASE sc \in 1..26
  BY <1>3 DEF Tells, screen_screencode_to_ascii
<1>4. CASE sc \in 27..31
  BY <1>4 DEF Tells, screen_screencode_to_ascii
<1>5. CASE sc \in 32..63
  BY <1>5 DEF Tells, screen_screencode_to_ascii
<1>6. CASE sc \in 64..127
  BY <1>6 DEF Tells, screen_screencode_to_ascii
<1> QED
  BY <1>1, <1>2, <1>3, <1>4, <1>5, <1>6

\* A drawn character tells its screen code (screen_screencode_to_ascii).
THEOREM AsciiAlwaysFaithful == Spec => []AsciiFaithful
<1>1. ASSUME IInv PROVE AsciiFaithful
  <2> SUFFICES ASSUME reply.kind \in {"grid", "hex"} PROVE AsciiFaithful
    BY DEF AsciiFaithful
  <2>1. reply \in Drawings
    BY <1>1 DEF IInv, NoReply, Error, Response
  <2>2. PICK raw \in BOOLEAN, code \in Codes : reply = Drawing(Response, raw, code)
    BY <2>1 DEF Drawings
  <2>3. Response.rows * Response.cols = SCREEN_TEXT_CELLS
    BY DEF Response, SCREEN_TEXT_CELLS
  <2>4. /\ reply.cells = SCREEN_TEXT_CELLS
        /\ reply.code = code
        /\ reply.char = screen_screencode_to_ascii(code)
    BY <2>2, <2>3 DEF Drawing, Error
  <2>5. code \in 0..255
    BY ScreenAssumption
  <2>6. Tells(screen_screencode_to_ascii(code), code)
    BY <2>5, AsciiTells
  <2>7. Tells(reply.char, reply.code)
    BY <2>4, <2>6
  <2> QED
    BY <2>4, <2>7 DEF AsciiFaithful, Tells
<1> QED
  BY <1>1, Inductive, PTL
=============================================================================
