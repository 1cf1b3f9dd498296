-------------------------------- MODULE Screen --------------------------------
(***************************************************************************)
(* The screen reader: libs/screen/src/screen_core.c with its VICE adapters *)
(* libs/screen/vice/c64screen.c (the C64's provider) and                   *)
(* libs/screen/vice/mon_screen.c (SCREEN_GET and screenscrape).            *)
(*                                                                         *)
(* The program sets the VIC-II's registers and bank; a client asks for the *)
(* screen, or the user has it drawn.  In a response a byte of memory is    *)
(* the place it was read from; in a drawing it is a screen code.           *)
(***************************************************************************)
EXTENDS Integers

CONSTANTS
    MemoryPointers,     \* values the program writes to D018
    Offsets,            \* offsets into the regions of the payload
    Sizes,              \* sizes of the buffer a caller offers for a response
    Codes               \* screen codes

SCREEN_HEADER_BYTES == 24
SCREEN_TEXT_ROWS == 25
SCREEN_TEXT_COLS == 40
SCREEN_TEXT_CELLS == SCREEN_TEXT_ROWS * SCREEN_TEXT_COLS
SCREEN_CHARSET_BYTES == 2048
SCREEN_RESPONSE_SIZE == SCREEN_HEADER_BYTES + 2 * SCREEN_TEXT_CELLS + SCREEN_CHARSET_BYTES

SCREEN_CHARSET_ROM_UPPER_GFX == 0
SCREEN_CHARSET_ROM_UPPER_LOWER == 1
SCREEN_CHARSET_RAM == 2

ASSUME ScreenAssumption ==
    /\ MemoryPointers \subseteq 0..255
    /\ Offsets \subseteq 0..(SCREEN_CHARSET_BYTES - 1)
    /\ Sizes \subseteq Nat
    /\ Codes \subseteq 0..255

VARIABLES
    s_provider,         \* the provider is registered (a C64 build)
    ecm, bmm, mcm,      \* D011 bits 6 and 5, D016 bit 4
    d018,
    bank,               \* the VIC-II's 16 KiB bank, set by CIA2
    reply               \* the answer to a request, until the program runs on

vic == <<ecm, bmm, mcm, d018, bank>>
vars == <<s_provider, vic, reply>>

NoReply == [kind |-> "none"]
Error == [kind |-> "error"]

----------------------------------------------------------------------------
(* Addresses.                                                              *)

vbank == 16384 * bank

\* Mutant: bit 4 of D018 dropped, as of a character set's address.
screen_addr_TwoKiB == vbank + 2048 * (d018 \div 32)

\* D018 bits 4-7, in KiB.
screen_addr == vbank + 1024 * (d018 \div 16)

\* D018 bits 1-3, in 2 KiB.
charset_addr == vbank + 2048 * ((d018 % 16) \div 2)

\* D018 bit 3, in 8 KiB.
bitmap_addr == vbank + 8192 * ((d018 % 16) \div 8)

\* Mutant: the window of bank 0 only.
charset_in_chargen_window_BankZero == charset_addr \div 4096 = 1

\* (addr & mask) = value, with VICE's mask 7000 and value 1000 of a C64.
charset_in_chargen_window == (charset_addr \div 4096) % 8 = 1

\* The half of the ROM.
rom_base == 2048 * ((charset_addr \div 2048) % 2)

\* Mutant: the halves swapped.
charset_kind_Swapped ==
    IF ~ charset_in_chargen_window THEN SCREEN_CHARSET_RAM
    ELSE IF rom_base = 0 THEN SCREEN_CHARSET_ROM_UPPER_LOWER ELSE SCREEN_CHARSET_ROM_UPPER_GFX

charset_kind ==
    IF ~ charset_in_chargen_window THEN SCREEN_CHARSET_RAM
    ELSE IF rom_base = 0 THEN SCREEN_CHARSET_ROM_UPPER_GFX ELSE SCREEN_CHARSET_ROM_UPPER_LOWER

Bit(b) == IF b THEN 1 ELSE 0

\* Mutant: the bits left where the registers have them.
vic_mode_Unshifted == 64 * Bit(ecm) + 32 * Bit(bmm) + 16 * Bit(mcm)

vic_mode == 4 * Bit(ecm) + 2 * Bit(bmm) + Bit(mcm)

----------------------------------------------------------------------------
(* screen_pack.  Memory is seen from the CPU: 16-bit addresses.            *)

Word == {a \in Nat : a < 65536}
Ram(a) == <<"ram", a % 65536>>
Colorram(a) == <<"colorram", a>>
Chargen(o) == <<"chargen", o>>

Cells == Offsets \cap (0..(SCREEN_TEXT_CELLS - 1))

Response ==
    [kind |-> "response", length |-> SCREEN_RESPONSE_SIZE,
     vic_mode |-> vic_mode, rows |-> SCREEN_TEXT_ROWS, cols |-> SCREEN_TEXT_COLS,
     charset_kind |-> charset_kind, vic_bank |-> bank,
     screen_addr |-> screen_addr, charset_addr |-> charset_addr,
     bitmap_addr |-> IF bmm THEN bitmap_addr ELSE 0,
     screen |-> [i \in Cells |-> Ram(screen_addr + i)],
     color |-> [i \in Cells |-> Colorram(55296 + i)],
     charset |-> [i \in Offsets |-> IF charset_in_chargen_window THEN Chargen(rom_base + i)
                                    ELSE Ram(charset_addr + i)]]

\* mon_screen_binmon_get, and the provider it calls: c64screen_get_state.
mon_screen_binmon_get(size) ==
    /\ reply' = IF size >= SCREEN_RESPONSE_SIZE /\ s_provider THEN Response ELSE Error
    /\ UNCHANGED <<s_provider, vic>>

----------------------------------------------------------------------------
(* screen_render.                                                          *)

\* Mutant: the letters off by one.
screen_screencode_to_ascii_OffByOne(code) ==
    LET sc == code % 128 IN
    CASE sc = 0 -> 64
      [] sc \in 1..26 -> 65 + sc
      [] sc \in 27..31 -> 91 + (sc - 27)
      [] sc \in 32..63 -> sc
      [] OTHER -> 46

\* The ASCII of a screen code: '@', 'A'.., '[' to '_', space to '?', or '.'.
screen_screencode_to_ascii(code) ==
    LET sc == code % 128 IN
    CASE sc = 0 -> 64
      [] sc \in 1..26 -> 65 + (sc - 1)
      [] sc \in 27..31 -> 91 + (sc - 27)
      [] sc \in 32..63 -> sc
      [] OTHER -> 46

\* A response is drawn if it is as long as its header says; code stands for each cell.
Drawing(r, raw, code) ==
    IF r.length < SCREEN_HEADER_BYTES \/ r.length < SCREEN_HEADER_BYTES + r.rows * r.cols
    THEN Error
    ELSE [kind |-> IF raw THEN "hex" ELSE "grid", cells |-> r.rows * r.cols,
          code |-> code, char |-> screen_screencode_to_ascii(code)]

\* screenscrape, screenscrape raw
mon_screen_show(raw, code) ==
    /\ reply' = IF s_provider THEN Drawing(Response, raw, code) ELSE Error
    /\ UNCHANGED <<s_provider, vic>>

----------------------------------------------------------------------------
\* machine_specific_init of a C64
c64screen_init ==
    /\ s_provider' = TRUE
    /\ reply' = NoReply
    /\ UNCHANGED vic

\* The program runs on and changes one thing the VIC-II decodes.
Program ==
    /\ \/ ecm' = ~ ecm /\ UNCHANGED <<bmm, mcm, d018, bank>>
       \/ bmm' = ~ bmm /\ UNCHANGED <<ecm, mcm, d018, bank>>
       \/ mcm' = ~ mcm /\ UNCHANGED <<ecm, bmm, d018, bank>>
       \/ d018' \in MemoryPointers /\ UNCHANGED <<ecm, bmm, mcm, bank>>
       \/ bank' \in 0..3 /\ UNCHANGED <<ecm, bmm, mcm, d018>>
    /\ reply' = NoReply
    /\ UNCHANGED s_provider

Init ==
    /\ s_provider = FALSE
    /\ ecm = FALSE /\ bmm = FALSE /\ mcm = FALSE
    /\ d018 \in MemoryPointers /\ bank = 0
    /\ reply = NoReply

Next ==
    \/ c64screen_init
    \/ Program
    \/ \E size \in Sizes : mon_screen_binmon_get(size)
    \/ \E raw \in BOOLEAN, code \in Codes : mon_screen_show(raw, code)

Spec == Init /\ [][Next]_vars

----------------------------------------------------------------------------
(* What the VIC-II fetches at 14-bit address a of bank b: in banks 0 and 2 *)
(* the character ROM covers 1000 to 1FFF hexadecimal.                      *)

Fetch(b, a) ==
    IF b \in {0, 2} /\ 4096 <= a /\ a < 8192 THEN Chargen(a - 4096) ELSE Ram(16384 * b + a)

(* Properties.                                                             *)

Packed == reply.kind = "response"

\* In a text mode the character set of a response is byte for byte the one the VIC-II
\* displays, whatever bank and memory pointer the program set: from the ROM exactly
\* where the ROM is visible to it.
GlyphsShown ==
    Packed /\ ~ bmm =>
        \A i \in Offsets : reply.charset[i] = Fetch(bank, 2048 * ((d018 \div 2) % 8) + i)

\* The screen codes are those displayed, all 1000 of one bank, unless the program
\* points the screen at the character ROM.
CellsShown ==
    Packed => \A i \in Cells :
        LET a == 1024 * ((d018 \div 16) % 16) + i IN
        /\ a < 16384
        /\ reply.screen[i] # Fetch(bank, a) => Fetch(bank, a) = Chargen(a - 4096)

\* A client needs the response alone: its header tells the bank of every address and,
\* in a text mode, where the character set that follows was read.
HeaderTruthful ==
    Packed =>
        /\ reply.vic_bank = bank
        /\ \A a \in {reply.screen_addr, reply.charset_addr} : a \div 16384 = reply.vic_bank
        /\ \A i \in Cells : reply.screen[i] = Ram(reply.screen_addr + i)
        /\ ~ bmm => \A i \in Offsets : reply.charset[i] =
               CASE reply.charset_kind = SCREEN_CHARSET_RAM -> Ram(reply.charset_addr + i)
                 [] reply.charset_kind = SCREEN_CHARSET_ROM_UPPER_GFX -> Chargen(i)
                 [] OTHER -> Chargen(2048 + i)

\* The whole screen is drawn, and a drawn character tells the screen code it stands
\* for, reverse video apart: ASCII 32 to 95 are the codes modulo 64, '.' any other.
AsciiFaithful ==
    reply.kind \in {"grid", "hex"} =>
        /\ reply.cells = SCREEN_TEXT_CELLS
        /\ \/ reply.char \in 32..95 /\ reply.char % 64 = reply.code % 128
           \/ reply.char = 46 /\ reply.code % 128 >= 64

\* README.md, SCREEN_GET's payload: "In bitmap mode this is the lower 2 KiB of bitmap
\* memory".
BitmapShown ==
    Packed /\ bmm => \A i \in Offsets : reply.charset[i] = Ram(reply.bitmap_addr + i)

\* The shape of the state; addresses fit 16 bits.
TypeOK ==
    /\ s_provider \in BOOLEAN
    /\ ecm \in BOOLEAN /\ bmm \in BOOLEAN /\ mcm \in BOOLEAN
    /\ d018 \in MemoryPointers /\ bank \in 0..3
    /\ reply.kind \in {"none", "error", "response", "grid", "hex"}
    /\ Packed => /\ reply.vic_mode \in 0..7
                 /\ \A a \in {reply.screen_addr, reply.charset_addr, reply.bitmap_addr} :
                       a \in Word
=============================================================================
