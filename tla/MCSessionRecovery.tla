-------------------------- MODULE MCSessionRecovery --------------------------
(***************************************************************************)
(* SessionRecovery with two orders of one pair and one of another, over    *)
(* three runs.                                                             *)
(***************************************************************************)
EXTENDS SessionRecovery

CONSTANTS o1, o2, o3, btc, eth

MCOrders == {o1, o2, o3}
MCSymbols == {btc, eth}
MCSymbolOf == [o \in MCOrders |-> IF o = o3 THEN eth ELSE btc]
=============================================================================
