----------------------------- MODULE FillLedger -----------------------------
(***************************************************************************)
(* What the execution engine promises about fills, independent of how they *)
(* are reported: every lot the exchange fills is booked into the L4        *)
(* portfolio at most once, nothing is booked that was not filled, and an   *)
(* order the engine has declared dead (CANCELLED or REJECTED) is never     *)
(* booked again.  OrderLifecycle implements this specification.            *)
(***************************************************************************)
EXTENDS Naturals

CONSTANTS
    Orders,     \* the orders of one session
    Qty         \* requested quantity of an order, in lots

VARIABLES
    filled,     \* filled[o]: lots the exchange has filled
    booked,     \* booked[o]: lots booked into the portfolio
    dead        \* orders declared dead

vars == <<filled, booked, dead>>

LedgerTypeOK ==
    /\ filled \in [Orders -> 0..Qty]
    /\ booked \in [Orders -> 0..Qty]
    /\ dead \subseteq Orders

Init ==
    /\ filled = [o \in Orders |-> 0]
    /\ booked = [o \in Orders |-> 0]
    /\ dead = {}

\* The exchange fills one more lot.
Fill(o) ==
    /\ filled[o] < Qty
    /\ filled' = [filled EXCEPT ![o] = @ + 1]
    /\ UNCHANGED <<booked, dead>>

\* The engine catches up with some cumulative quantity it was told of.
Book(o) ==
    /\ o \notin dead
    /\ \E n \in booked[o] + 1 .. filled[o] : booked' = [booked EXCEPT ![o] = n]
    /\ UNCHANGED <<filled, dead>>

\* Orders are declared dead, whatever the exchange still does with them.
Bury(S) ==
    /\ dead' = dead \cup S
    /\ UNCHANGED <<filled, booked>>

Next ==
    \/ \E o \in Orders : Fill(o) \/ Book(o)
    \/ \E S \in SUBSET Orders : Bury(S)

Spec == Init /\ [][Next]_vars
=============================================================================
