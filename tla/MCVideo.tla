------------------------------- MODULE MCVideo -------------------------------
(* Video with bodies short of, at and past every length the parser compares,   *)
(* the two documented actions and an undocumented one.                         *)
EXTENDS Video
=============================================================================
