--------------------------- MODULE MCKeymatrixScan ---------------------------
(* KeymatrixScan with two keys of one column, a key of the keyboard that no     *)
(* scan shows, and a pair that is no key.  "Whole" is a program that pulls      *)
(* every line low, "Rows" one that pulls one line low at a time.                *)
EXTENDS KeymatrixScan

A == <<1, 2>>
B == <<2, 2>>
Restore == <<-3, 0>>    \* a custom key: not in the matrix
Outside == <<20, 0>>    \* does not parse; the binary monitor accepts it

\* Single keys, a chord, a repeated key, an unknown key, no key, too many keys.
WholeKeys == {A, B, Restore, Outside}
WholeKeyLists == {<<A>>, <<A, B>>, <<A, A>>, <<Restore, A>>, <<Outside>>,
                  << >>, <<A, B, Restore>>}
WholeSetBodies ==
    {<< >>,
     <<[key |-> A, value |-> TRUE], [key |-> A, value |-> FALSE]>>,
     <<[key |-> Outside, value |-> TRUE], [key |-> Restore, value |-> TRUE]>>}
WholeScans == {{}, 0..7}

RowKeys == {A, Restore, Outside}
RowKeyLists == {<<A>>, <<Restore, A>>, <<Restore>>, <<Outside>>}
RowSetBodies == {<<[key |-> A, value |-> FALSE], [key |-> Restore, value |-> TRUE]>>}
RowScans == {{1}, {2}}

MCForFrames == {NoFor}
MCTapFrames == {0}
MCFrameLengths == {1}
=============================================================================
