----------------------------- MODULE KeyInjection -----------------------------
(***************************************************************************)
(* What the injector promises the clients who share it, without clocks,    *)
(* alarms, counters or matrix bits.  There is at most one injection; a new *)
(* one replaces it whole.  A tap may be seen, once, by the program.  Keys  *)
(* may be let go one by one; with the last of them, or all at once, the    *)
(* injection ends.  The reason a client reads is "none" until the tap is   *)
(* seen or ended, and from then on it stays: being seen wins over the way  *)
(* the injection ends, and only taps time out.                             *)
(***************************************************************************)
CONSTANT Keys

VARIABLES
    held,       \* the keys of the running injection
    mode,       \* how it ends, or "idle"
    reason      \* why the last injection was released, as its client reads it

vars == <<held, mode, reason>>

Taps == {"tap-observed", "tap-fixed"}

Init == held = {} /\ mode = "idle" /\ reason = "none"

Start(K, m) ==
    /\ held' = K
    /\ mode' = m
    /\ reason' = "none"

Seen ==
    /\ mode = "tap-observed" /\ reason = "none"
    /\ reason' = "observed"
    /\ UNCHANGED <<held, mode>>

LetGo(K) ==
    /\ mode # "idle" /\ held \ K # {}
    /\ held' = held \ K
    /\ UNCHANGED <<mode, reason>>

End(r) ==
    /\ mode # "idle"
    /\ r = "timeout" => mode \in Taps
    /\ held' = {} /\ mode' = "idle"
    /\ reason' = IF reason = "none" THEN r ELSE reason

Next ==
    \/ \E K \in (SUBSET Keys) \ {{}}, m \in Taps \cup {"press"} : Start(K, m)
    \/ Seen
    \/ \E K \in SUBSET Keys : LetGo(K)
    \/ \E r \in {"manual", "timeout"} : End(r)

Spec == Init /\ [][Next]_vars
=============================================================================
