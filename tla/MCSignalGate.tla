---------------------------- MODULE MCSignalGate ----------------------------
(***************************************************************************)
(* SignalGate on entries of two pairs and exits of one of them.            *)
(***************************************************************************)
EXTENDS SignalGate, TLC

CONSTANTS o1, o2, o3, x1, x2, btc, eth

PairOf(orders) == [o \in orders |-> IF o = o3 THEN eth ELSE btc]

\* Two entries and an exit of one pair, and an entry of the other.
MCOrders == {o1, o2, o3, x1}
MCExits == {x1}
MCSymbols == {btc, eth}
MCSymbolOf == PairOf(MCOrders)

\* The entries of one pair are told apart by nothing but their turn.
MCSymmetry == Permutations({o1, o2})

\* An entry and an exit of one pair.
OneOfEach == {o1, x1}
OneOfEachPair == PairOf(OneOfEach)

\* An entry and two exits of one pair.
TwoExits == {x1, x2}
ExitedTwice == {o1} \cup TwoExits
ExitedTwicePair == PairOf(ExitedTwice)
=============================================================================
