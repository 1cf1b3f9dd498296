----------------------------- MODULE MCKeymatrix -----------------------------
(* Three small instances of Keymatrix.  "Bits" has many keys and little time,   *)
(* "Time" one key and room for deadlines to pass, "Live" one tap length: room   *)
(* for clock resets in the runs that check liveness.                           *)
EXTENDS Keymatrix

A == <<1, 2>>
B == <<2, 2>>
Restore == <<-3, 0>>    \* a custom key: not in the matrix
Outside == <<20, 0>>    \* does not parse; the binary monitor accepts it

BitsKeys == {A, B, Restore, Outside}
\* Single keys, a chord, a repeated key, an unknown key, no key, too many keys.
BitsKeyLists == {<<A>>, <<A, B>>, <<A, A>>, <<B, Restore>>, <<Outside>>,
                 << >>, <<A, B, Restore>>}
BitsForFrames == {NoFor}
BitsTapFrames == {0}
BitsSetBodies ==
    {<< >>,
     <<[key |-> A, value |-> TRUE], [key |-> A, value |-> FALSE]>>,
     <<[key |-> Outside, value |-> TRUE], [key |-> Restore, value |-> TRUE]>>}
BitsScans == {{1}, {2}}
BitsFrameLengths == {1}

TimeKeys == {A}
TimeKeyLists == {<<A>>}
TimeForFrames == {NoFor, 0, 1}
TimeTapFrames == {0, 1}
TimeSetBodies == {}
TimeScans == {{1}}      \* port A samples the key, port B does not
TimeFrameLengths == {0, 1}

LiveForFrames == {NoFor}
LiveTapFrames == {1}
LiveFrameLengths == {1}
=============================================================================
