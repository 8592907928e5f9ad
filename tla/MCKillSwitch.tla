---------------------------- MODULE MCKillSwitch ----------------------------
(***************************************************************************)
(* Three orders on two pairs: a position that is entered and left again,   *)
(* with a second position beside it, so that a snapshot can be stale and   *)
(* one close can fail while another does not.                              *)
(***************************************************************************)
EXTENDS KillSwitch

CONSTANTS enter, leave, other, btc, eth, risk

MCOrders == {enter, leave, other}
MCSymbols == {btc, eth}
MCTasks == {risk}
MCSymbolOf == [o \in MCOrders |-> IF o = other THEN eth ELSE btc]
MCSideOf == [o \in MCOrders |-> IF o = leave THEN -1 ELSE 1]
=============================================================================
