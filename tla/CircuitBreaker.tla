--------------------------- MODULE CircuitBreaker ---------------------------
(***************************************************************************)
(* What the exchange health monitor promises of its breaker, whatever it   *)
(* measures: it closes again only after a cooldown without a failure and   *)
(* then Streak successes without a failure (the hysteresis of its module   *)
(* comment).  ExchangeHealth implements this specification.                *)
(***************************************************************************)
EXTENDS Naturals

CONSTANT Streak     \* successes that close the breaker

VARIABLES
    state,      \* "closed", "open" (cooling down) or "probing" (half-open)
    streak      \* successes seen while probing

vars == <<state, streak>>

Init == state = "closed" /\ streak = 0

Trip == state = "closed" /\ state' = "open" /\ streak' = 0

\* The cooldown has passed.
CoolDown == state = "open" /\ state' = "probing" /\ UNCHANGED streak

\* A failure while probing starts all over.
Relapse == state = "probing" /\ state' = "open" /\ streak' = 0

Probe ==
    /\ state = "probing"
    /\ streak + 1 < Streak
    /\ streak' = streak + 1
    /\ UNCHANGED state

Close ==
    /\ state = "probing"
    /\ streak + 1 = Streak
    /\ state' = "closed"
    /\ streak' = 0

Next == Trip \/ CoolDown \/ Relapse \/ Probe \/ Close

Spec == Init /\ [][Next]_vars
=============================================================================
