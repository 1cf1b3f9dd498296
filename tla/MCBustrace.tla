------------------------------ MODULE MCBustrace -----------------------------
(* Bustrace with two files and two kinds of access, both interchangeable.     *)
EXTENDS Bustrace, TLC

Symmetry == Permutations(Names) \cup Permutations(Accesses)
=============================================================================
