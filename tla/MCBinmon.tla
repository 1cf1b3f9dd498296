------------------------------- MODULE MCBinmon -------------------------------
(* Binmon with two images, bodies one byte short of and at each length a decoder *)
(* compares, and coordinates at and beyond the ends of the drives.               *)
EXTENDS Binmon

Attach8(len, drive, path_len, path) ==
    [cmd |-> "DRIVE_ATTACH", length |-> len, unit |-> 8, drive |-> drive,
     path_len |-> path_len, path |-> path]

AttachBodies ==
    {Attach8(2, 0, 0, "a"), Attach8(3, 0, 0, "a"), Attach8(4, 0, 1, "a"),
     Attach8(4, 0, 1, "b"), Attach8(3, 0, 1, "a"), Attach8(4, 1, 1, "a"),
     Attach8(4, 2, 1, "a"),
     [Attach8(4, 0, 1, "a") EXCEPT !.unit = 12], [Attach8(3, 0, 0, "a") EXCEPT !.unit = 7]}

SetBody(len, silent, stop, temporary) ==
    [cmd |-> "CHECKPOINT_SET", length |-> len, silent |-> silent, stop |-> stop,
     temporary |-> temporary]

CheckpointBodies ==
    {SetBody(7, 1, FALSE, FALSE), SetBody(9, 1, FALSE, FALSE),
     SetBody(10, 0, TRUE, FALSE), SetBody(10, 66, FALSE, FALSE),
     SetBody(10, 1, TRUE, TRUE)}

MCRequests ==
    AttachBodies \cup CheckpointBodies
    \cup {[cmd |-> "KEYMATRIX_TAP", rejected |-> b] : b \in BOOLEAN}
    \cup {[cmd |-> c] : c \in {"KEYMATRIX_GET", "SCREEN_GET", "EXIT", "VIDEO_RECORD"}}
=============================================================================
