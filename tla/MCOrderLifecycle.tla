-------------------------- MODULE MCOrderLifecycle --------------------------
(***************************************************************************)
(* Two orders of two lots on one pair: the least for which one order can   *)
(* be synced away while another is still being reported, and for which a   *)
(* fill comes in parts.                                                    *)
(***************************************************************************)
EXTENDS OrderLifecycle

CONSTANTS o1, o2, btc

MCOrders == {o1, o2}
MCSymbols == {btc}
MCSymbolOf == [o \in MCOrders |-> btc]

\* A round trip: the first order buys, the second sells.
RoundTrip == [o \in MCOrders |-> IF o = o1 THEN 1 ELSE -1]

\* Only buying.
BuyOnly == [o \in MCOrders |-> 1]
=============================================================================
