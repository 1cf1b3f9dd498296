------------------------------ MODULE MCAsidWire ------------------------------
(* AsidWire with nine registers of the first chip, enough for the standard     *)
(* form to be the shorter one: the first and the last of a mask byte, a masked *)
(* one and controls, and an address no message carries.                        *)
EXTENDS AsidWire

MCWrites ==
    {<<0, r, 205>> : r \in {0, 3, 7, 8, 13, 21, 24, 18}}
        \cup {<<0, 4, 205>>, <<0, 4, 0>>, <<1, 11, 90>>, <<1, 25, 205>>}
=============================================================================
