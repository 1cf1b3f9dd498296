------------------------------- MODULE MCScreen -------------------------------
(* Screen with every character-set field of D018, screens at both ends of a    *)
(* bank and in the character ROM, and the first, the last and the middle bytes *)
(* of each region.                                                             *)
EXTENDS Screen

MCMemoryPointers == {16 * s + c : s \in {0, 1, 4, 7, 15}, c \in 0..15}
MCOffsets == {0, 999, 1000, 2047}
MCSizes == {0, SCREEN_RESPONSE_SIZE - 1, SCREEN_RESPONSE_SIZE}
MCCodes == {0, 1, 26, 27, 31, 32, 63, 64, 127, 128, 129, 255}
=============================================================================
