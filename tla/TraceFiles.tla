------------------------------ MODULE TraceFiles ------------------------------
(***************************************************************************)
(* What the bus trace promises the reader of its files, without bytes,     *)
(* handles or failures: one trace at a time is being made; a file shows a  *)
(* reader nothing until its trace ends, then either nothing or, at once,   *)
(* every access made; and it shows that until the next trace begins in it. *)
(***************************************************************************)
EXTENDS Sequences

CONSTANTS Names, Accesses, NoName

VARIABLES
    current,    \* the file whose trace is being made, or NoName
    log,        \* per file: the accesses made since its trace began
    view        \* per file: what a reader may take it for, nothing or one trace

vars == <<current, log, view>>

Init ==
    /\ current = NoName
    /\ log = [n \in Names |-> << >>]
    /\ view = [n \in Names |-> {}]

Begin(n, a) ==
    /\ current = NoName
    /\ current' = n
    /\ log' = [log EXCEPT ![n] = <<a>>]
    /\ view' = [view EXCEPT ![n] = {}]

Extend(a) ==
    /\ current # NoName
    /\ log' = [log EXCEPT ![current] = Append(@, a)]
    /\ UNCHANGED <<current, view>>

End ==
    /\ current # NoName
    /\ current' = NoName
    /\ \/ view' = [view EXCEPT ![current] = {log[current]}]
       \/ UNCHANGED view
    /\ UNCHANGED log

Next ==
    \/ \E n \in Names, a \in Accesses : Begin(n, a)
    \/ \E a \in Accesses : Extend(a)
    \/ End

Spec == Init /\ [][Next]_vars
=============================================================================
