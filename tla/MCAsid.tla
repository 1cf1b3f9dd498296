-------------------------------- MODULE MCAsid -------------------------------
(* Asid with one chip, a frequency register of two values, a gate register   *)
(* of two and an address that is no register; times are in IRQ periods.      *)
EXTENDS Asid

MCRegs == {0, 4}
MCControlRegs == {4}
MCAddrs == {0, 4, 25}
MCWidth == [r \in MCRegs |-> 2]
MCBytes == {1, 2}
=============================================================================
