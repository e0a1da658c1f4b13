----------------------------- MODULE RollingLimit -----------------------------
(***************************************************************************)
(* What docs/batch-activation-v3.3.7.md promises of one failure counter:   *)
(* failures count in a rolling window, reaching the threshold starts a     *)
(* cooldown of fixed length, and nothing is recorded during a cooldown.    *)
(***************************************************************************)
EXTENDS Integers, FiniteSets, Sequences

CONSTANTS
    Window,       \* width of the rolling window
    Cooldown,     \* length of a cooldown
    MaxAttempts   \* the threshold

VARIABLES
    now,          \* the clock
    recorded,     \* the times of all failures so far
    blockedUntil  \* end of the last cooldown, 0 when there was none

vars == <<now, recorded, blockedUntil>>

\* How many of the failures lie in the window of a width that ends at a time.
CountWithin(times, end, width) ==
    Cardinality({i \in DOMAIN times : times[i] > end - width /\ times[i] <= end})

Init ==
    /\ now = 0
    /\ recorded = <<>>
    /\ blockedUntil = 0

Fail ==
    /\ blockedUntil <= now
    /\ recorded' = Append(recorded, now)
    /\ blockedUntil' = IF CountWithin(recorded', now, Window) >= MaxAttempts
                       THEN now + Cooldown ELSE blockedUntil
    /\ UNCHANGED now

Tick ==
    /\ now' = now + 1
    /\ UNCHANGED <<recorded, blockedUntil>>

Next == Fail \/ Tick

Spec == Init /\ [][Next]_vars
=============================================================================
