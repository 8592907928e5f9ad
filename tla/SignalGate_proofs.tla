-------------------------- MODULE SignalGate_proofs --------------------------
(***************************************************************************)
(* Proofs about SignalGate, for every set of orders and pairs and every    *)
(* limit.                                                                  *)
(***************************************************************************)
EXTENDS SignalGate, FiniteSetTheorems, TLAPS

-----------------------------------------------------------------------------
(***************************************************************************)
(* The inductive invariant, in named parts.                                *)
(***************************************************************************)

\* What the session has booked of an order trails what the exchange filled.
FillsInOrder ==
    \A o \in Orders : booked[o] <= filled[o] /\ filled[o] <= size[o]

\* How far an order can be, by its status on the exchange.
StatusFitsFills ==
    \A o \in Orders :
        /\ ex[o] = "none" <=> size[o] = 0
        /\ ex[o] \in {"none", "sent", "refused"} => filled[o] = 0
        /\ ex[o] = "open" => filled[o] < size[o]

\* Nothing is booked of an order that is not tracked, nor is one before it exists.
UntrackedIsUnbooked ==
    \A o \in Orders :
        /\ local[o] = "untracked" => booked[o] = 0
        /\ size[o] = 0 => local[o] = "untracked"

\* While create_order is awaited nothing takes the reservation but the switch.
SubmitIsReserved ==
    /\ pc # "idle" => cur \in Orders
    /\ pc = "submit" => local[cur] = "untracked" /\ size[cur] > 0
    /\ pc = "submit" /\ ~killed /\ cur \in Buys => reserved[Uuid(cur)] = size[cur]

\* An answer takes no lot of an exit into account that is not filled.
CountedIsFilled == \A x \in Exits : counted[x] <= filled[x]

IInv ==
    /\ TypeOK
    /\ FillsInOrder
    /\ StatusFitsFills
    /\ UntrackedIsUnbooked
    /\ SubmitIsReserved
    /\ CountedIsFilled
    /\ ReservationCovers

-----------------------------------------------------------------------------
(***************************************************************************)
(* The ledger: a key is a pair, so no release of one key touches another.  *)
(***************************************************************************)

LEMMA KeyLemma ==
    ASSUME NEW o \in Orders, NEW r \in Orders
    PROVE  /\ Uuid(o) \in Ids
           /\ ExchangeId(o) \in Ids
           /\ Uuid(o) # ExchangeId(r)
           /\ o # r => Uuid(o) # Uuid(r)
BY DEF Uuid, ExchangeId, Ids

\* Releasing keeps the ledger a ledger, and other keys as they were.
LEMMA ReleaseLemma ==
    ASSUME NEW id \in Ids, reserved \in [Ids -> 0..Cap], GateAssumption
    PROVE  /\ Release(id) \in [Ids -> 0..Cap]
           /\ Release(id)[id] = 0
           /\ \A i \in Ids : i # id => Release(id)[i] = reserved[i]
BY DEF Release, GateAssumption

\* So does reducing an entry, which never goes below zero.
LEMMA PartialConfirmLemma ==
    ASSUME NEW id \in Ids, reserved \in [Ids -> 0..Cap], NEW n \in Nat, GateAssumption
    PROVE  /\ PartialConfirm(id, n) \in [Ids -> 0..Cap]
           /\ PartialConfirm(id, n)[id] >= reserved[id] - n
           /\ \A i \in Ids : i # id => PartialConfirm(id, n)[i] = reserved[i]
BY DEF PartialConfirm, GateAssumption

\* What the outcome of a submit leaves reserved is what is not yet filled.
LEMMA SettleLemma ==
    ASSUME NEW o \in Orders, reserved \in [Ids -> 0..Cap], NEW n \in Nat, GateAssumption,
           size[o] \in Nat
    PROVE  /\ Settle(o, n) \in [Ids -> 0..Cap]
           /\ o \in Exits => Settle(o, n) = reserved
           /\ o \in Buys /\ reserved[Uuid(o)] = size[o] => Settle(o, n)[Uuid(o)] >= size[o] - n
           /\ \A i \in Ids : i # Uuid(o) => Settle(o, n)[i] = reserved[i]
<1>1. Uuid(o) \in Ids
  BY KeyLemma
<1>2. CASE o \in Exits
  BY <1>2 DEF Settle, Buys
<1>3. CASE o \notin Exits /\ n = size[o]
  BY <1>1, <1>3, ReleaseLemma DEF Settle, GateAssumption
<1>4. CASE o \notin Exits /\ n # size[o] /\ n > 0
  BY <1>1, <1>4, PartialConfirmLemma DEF Settle, GateAssumption
<1>5. CASE o \notin Exits /\ n # size[o] /\ ~(n > 0)
  BY <1>1, <1>5 DEF Settle, GateAssumption
<1> QED BY <1>2, <1>3, <1>4, <1>5

\* An order can add no less than nothing to what is booked of it, an exit nothing.
LEMMA PotentialLemma ==
    ASSUME IInv, GateAssumption, NEW o \in Orders
    PROVE  /\ Potential(o) \in Nat
           /\ Potential(o) <= size[o] - booked[o]
           /\ Potential(o) > 0 => o \in Buys
BY DEF Potential, IInv, TypeOK, FillsInOrder, GateAssumption, Buys

-----------------------------------------------------------------------------
(***************************************************************************)
(* The data loop.                                                          *)
(***************************************************************************)

\* A new entry reserves all it can fill before it is sent.
LEMMA EntryLemma ==
    ASSUME IInv, GateAssumption, NEW o \in Orders, NEW n \in 1..Cap, EntrySignal(o, n)
    PROVE  IInv'
<1>1. /\ size[o] = 0 /\ ex[o] = "none" /\ filled[o] = 0 /\ booked[o] = 0
      /\ local[o] = "untracked" /\ o \in Buys
  BY DEF IInv, TypeOK, EntrySignal, StatusFitsFills, UntrackedIsUnbooked
<1>2. Uuid(o) \in Ids /\ \A r \in Orders : r # o => Uuid(r) # Uuid(o) /\ Uuid(r) \in Ids
  BY KeyLemma
<1>3. TypeOK'
  <2>1. reserved' \in [Ids -> 0..Cap] /\ size' \in [Orders -> Nat]
        /\ \A r \in Buys : size'[r] <= Cap
    BY <1>2 DEF IInv, TypeOK, EntrySignal, Reserve, Buys, GateAssumption
  <2> QED BY <2>1 DEF IInv, TypeOK, EntrySignal, engine, answer, Buys
<1>4. (FillsInOrder /\ StatusFitsFills /\ UntrackedIsUnbooked /\ CountedIsFilled)'
  BY <1>1 DEF IInv, TypeOK, EntrySignal, engine, answer, FillsInOrder, StatusFitsFills,
              UntrackedIsUnbooked, CountedIsFilled, GateAssumption
<1>5. SubmitIsReserved'
  BY <1>1, <1>2 DEF IInv, TypeOK, EntrySignal, Reserve, engine, SubmitIsReserved, Uuid, Buys,
                    GateAssumption
<1>6. ReservationCovers'
  <2> SUFFICES ASSUME NEW r \in Orders, ~killed, r \notin lost \cup swept
               PROVE  reserved'[Uuid(r)] >= Potential(r)'
    BY DEF ReservationCovers, EntrySignal, Uuid
  <2>1. CASE r = o
    BY <1>1, <1>2, <2>1 DEF IInv, TypeOK, EntrySignal, Reserve, engine, Potential, GateAssumption
  <2>2. CASE r # o
    BY <1>2, <2>2 DEF IInv, TypeOK, EntrySignal, Reserve, engine, Potential, ReservationCovers
  <2> QED BY <2>1, <2>2
<1> QED BY <1>3, <1>4, <1>5, <1>6 DEF IInv

\* An exit reserves nothing: it can add nothing to the position.
LEMMA ExitLemma ==
    ASSUME IInv, GateAssumption, NEW x \in Orders, ExitSignal(x)
    PROVE  IInv'
<1>1. /\ size[x] = 0 /\ ex[x] = "none" /\ filled[x] = 0 /\ booked[x] = 0
      /\ local[x] = "untracked" /\ x \in Exits /\ x \notin Buys
      /\ pos[SymbolOf[x]] \in Nat \ {0}
  BY DEF IInv, TypeOK, ExitSignal, StatusFitsFills, UntrackedIsUnbooked, Buys, GateAssumption
<1>2. TypeOK'
  <2>1. size' \in [Orders -> Nat] /\ \A r \in Buys : size'[r] <= Cap
    BY <1>1 DEF IInv, TypeOK, ExitSignal, Buys
  <2> QED BY <2>1 DEF IInv, TypeOK, ExitSignal, ledger, engine, answer, Buys
<1>3. (FillsInOrder /\ StatusFitsFills /\ UntrackedIsUnbooked /\ CountedIsFilled)'
  BY <1>1 DEF IInv, TypeOK, ExitSignal, engine, answer, FillsInOrder, StatusFitsFills,
              UntrackedIsUnbooked, CountedIsFilled, GateAssumption
<1>4. SubmitIsReserved'
  BY <1>1 DEF IInv, TypeOK, ExitSignal, engine, SubmitIsReserved
<1>5. ReservationCovers'
  <2> SUFFICES ASSUME NEW r \in Orders, ~killed, r \notin lost \cup swept
               PROVE  reserved[Uuid(r)] >= Potential(r)'
    BY DEF ReservationCovers, ExitSignal, ledger, Uuid
  <2>1. CASE r = x
    <3>1. reserved[Uuid(r)] \in Nat
      BY KeyLemma DEF IInv, TypeOK
    <3> QED BY <1>1, <2>1, <3>1 DEF Potential
  <2>2. CASE r # x
    BY <2>2 DEF IInv, TypeOK, ExitSignal, engine, Potential, ReservationCovers
  <2> QED BY <2>1, <2>2
<1> QED BY <1>2, <1>3, <1>4, <1>5 DEF IInv

\* The response books what it carries and leaves the rest reserved.
LEMMA SubmitReturnsLemma ==
    ASSUME IInv, GateAssumption, NEW n \in Nat, SubmitReturns(n)
    PROVE  IInv'
<1>1. /\ cur \in Orders /\ local[cur] = "untracked" /\ booked[cur] = 0 /\ size[cur] \in Nat
      /\ ~killed /\ cur \in Buys => reserved[Uuid(cur)] = size[cur]
  BY DEF IInv, TypeOK, SubmitReturns, SubmitIsReserved, UntrackedIsUnbooked
<1>2. /\ Settle(cur, n) \in [Ids -> 0..Cap]
      /\ ~killed /\ cur \in Buys => Settle(cur, n)[Uuid(cur)] >= size[cur] - n
      /\ \A i \in Ids : i # Uuid(cur) => Settle(cur, n)[i] = reserved[i]
  BY <1>1, SettleLemma DEF IInv, TypeOK
<1>3. TypeOK'
  <2>1. pos' \in [Symbols -> Int]
    <3>1. Booking(cur, n) \in Int /\ SymbolOf[cur] \in Symbols
      BY <1>1 DEF Booking, GateAssumption
    <3> QED BY <3>1 DEF IInv, TypeOK, SubmitReturns
  <2> QED BY <1>1, <1>2, <2>1 DEF IInv, TypeOK, SubmitReturns, answer, exch
<1>4. (FillsInOrder /\ StatusFitsFills /\ UntrackedIsUnbooked /\ SubmitIsReserved
       /\ CountedIsFilled)'
  BY <1>1 DEF IInv, TypeOK, SubmitReturns, answer, exch, FillsInOrder, StatusFitsFills,
              UntrackedIsUnbooked, SubmitIsReserved, CountedIsFilled
<1>5. ReservationCovers'
  <2> SUFFICES ASSUME NEW r \in Orders, ~killed, r \notin lost \cup swept
               PROVE  reserved'[Uuid(r)] >= Potential(r)'
    BY DEF ReservationCovers, SubmitReturns, Uuid
  <2>1. CASE r = cur /\ r \in Buys
    <3>1. Potential(r)' <= size[r] - n /\ Potential(r)' \in Int
      BY <1>1, <2>1 DEF IInv, TypeOK, SubmitReturns, exch, Potential, FillsInOrder
    <3> QED BY <1>1, <1>2, <2>1, <3>1, KeyLemma DEF SubmitReturns, IInv, TypeOK, GateAssumption
  <2>2. CASE r = cur /\ r \notin Buys
    <3>1. Potential(r)' = 0
      BY <2>2 DEF Potential, Buys
    <3>2. reserved'[Uuid(r)] \in Nat
      BY <1>3, KeyLemma DEF TypeOK
    <3> QED BY <3>1, <3>2
  <2>3. CASE r # cur
    BY <1>1, <1>2, <2>3, KeyLemma
    DEF IInv, TypeOK, SubmitReturns, exch, Potential, ReservationCovers
  <2> QED BY <2>1, <2>2, <2>3
<1> QED BY <1>3, <1>4, <1>5 DEF IInv

\* A failed submit gives the reservation back; an order that may live is lost.
LEMMA SubmitFailsLemma ==
    ASSUME IInv, GateAssumption, SubmitFails
    PROVE  IInv'
<1>1. cur \in Orders
  BY DEF IInv, SubmitFails, SubmitIsReserved
<1>2. Uuid(cur) \in Ids
  BY <1>1, KeyLemma
<1>3. /\ reserved' \in [Ids -> 0..Cap] /\ reserved'[Uuid(cur)] = 0
      /\ \A i \in Ids : i # Uuid(cur) => reserved'[i] = reserved[i]
  BY <1>2, ReleaseLemma DEF IInv, TypeOK, SubmitFails
<1>4. TypeOK'
  <2>1. lost' \subseteq Buys
    BY <1>1, PotentialLemma DEF IInv, TypeOK, SubmitFails
  <2> QED BY <1>1, <1>3, <2>1 DEF IInv, TypeOK, SubmitFails, answer, exch, engine
<1>5. (FillsInOrder /\ StatusFitsFills /\ UntrackedIsUnbooked /\ SubmitIsReserved
       /\ CountedIsFilled)'
  BY DEF IInv, SubmitFails, answer, exch, engine, FillsInOrder, StatusFitsFills,
         UntrackedIsUnbooked, SubmitIsReserved, CountedIsFilled
<1>6. ReservationCovers'
  <2> SUFFICES ASSUME NEW r \in Orders, ~killed, r \notin lost' \cup swept
               PROVE  reserved'[Uuid(r)] >= Potential(r)
    BY DEF ReservationCovers, SubmitFails, exch, engine, Uuid, Potential
  <2>1. CASE r = cur
    <3>1. Potential(r) = 0
      BY <2>1, PotentialLemma DEF SubmitFails
    <3> QED BY <1>3, <2>1, <3>1
  <2>2. CASE r # cur
    <3>1. Uuid(r) # Uuid(cur) /\ Uuid(r) \in Ids
      BY <1>1, <2>2, KeyLemma
    <3>2. r \notin lost \cup swept
      BY <2>2 DEF SubmitFails
    <3> QED BY <1>3, <3>1, <3>2 DEF IInv, ReservationCovers
  <2> QED BY <2>1, <2>2
<1> QED BY <1>4, <1>5, <1>6 DEF IInv

-----------------------------------------------------------------------------
(***************************************************************************)
(* Steps that leave the ledger, the sizes and the submit alone.            *)
(***************************************************************************)

\* A step that keeps every reservation by uuid and only lets orders shrink
\* what they may still add, outside the submit, keeps every order covered.
LEMMA StillCovered ==
    ASSUME ReservationCovers,
           UNCHANGED <<killed, swept, lost>>,
           \A o \in Orders : reserved'[Uuid(o)] = reserved[Uuid(o)],
           \A o \in Orders : Potential(o)' <= Potential(o),
           \A o \in Orders : Potential(o)' \in Int /\ Potential(o) \in Int
                             /\ reserved[Uuid(o)] \in Int
    PROVE  ReservationCovers'
<1> SUFFICES ASSUME NEW o \in Orders, ~killed, o \notin lost \cup swept
             PROVE  reserved'[Uuid(o)] >= Potential(o)'
  BY DEF ReservationCovers, Uuid
<1>1. reserved[Uuid(o)] >= Potential(o)
  BY DEF ReservationCovers
<1> QED BY <1>1

\* A push books more of an order, so it can add less.
LEMMA PushFillsLemma ==
    ASSUME IInv, GateAssumption, NEW o \in Orders, NEW n \in Nat, PushFills(o, n)
    PROVE  IInv'
<1>1. n > booked[o] /\ n <= filled[o] /\ SymbolOf[o] \in Symbols /\ booked[o] \in Nat
  BY DEF PushFills, IInv, TypeOK, GateAssumption
<1>2. TypeOK'
  <2>1. pos' \in [Symbols -> Int]
    <3>1. Booking(o, n) \in Int
      BY <1>1 DEF Booking
    <3> QED BY <1>1, <3>1 DEF IInv, TypeOK, PushFills
  <2> QED BY <2>1 DEF IInv, TypeOK, PushFills, ledger, loop, exch
<1>3. (FillsInOrder /\ StatusFitsFills /\ UntrackedIsUnbooked /\ SubmitIsReserved
       /\ CountedIsFilled)'
  BY <1>1 DEF IInv, TypeOK, PushFills, ledger, loop, exch, FillsInOrder, StatusFitsFills,
              UntrackedIsUnbooked, SubmitIsReserved, CountedIsFilled, Uuid
<1>4. \A r \in Orders : Potential(r)' <= Potential(r) /\ Potential(r)' \in Int
                        /\ Potential(r) \in Int /\ reserved[Uuid(r)] \in Int
  BY <1>1, KeyLemma DEF IInv, TypeOK, PushFills, exch, Potential
<1>5. ReservationCovers'
  BY <1>4, StillCovered DEF IInv, PushFills, ledger, Uuid
<1> QED BY <1>2, <1>3, <1>5 DEF IInv

\* A cancel pushed, a timeout: the order ends for the session, not its reservation.
LEMMA EndsLemma ==
    ASSUME IInv, GateAssumption, NEW o \in Orders, PushCanceled(o) \/ TimeOut(o)
    PROVE  IInv'
<1>1. local[o] = "open"
  BY DEF PushCanceled, TimeOut
<1>2. TypeOK'
  BY DEF IInv, TypeOK, PushCanceled, TimeOut, ledger, answer, loop, exch
<1>3. (FillsInOrder /\ StatusFitsFills /\ UntrackedIsUnbooked /\ CountedIsFilled)'
  BY <1>1 DEF IInv, TypeOK, PushCanceled, TimeOut, ledger, answer, loop, exch, FillsInOrder,
              StatusFitsFills, UntrackedIsUnbooked, CountedIsFilled
<1>4. SubmitIsReserved'
  BY <1>1 DEF IInv, TypeOK, PushCanceled, TimeOut, ledger, loop, exch, SubmitIsReserved, Uuid
<1>5. ReservationCovers'
  BY DEF IInv, PushCanceled, TimeOut, ledger, exch, ReservationCovers, Potential, Uuid
<1> QED BY <1>2, <1>3, <1>4, <1>5 DEF IInv

\* The cancel and the query of a timed-out order change no book.
LEMMA AskLemma ==
    ASSUME IInv, GateAssumption, (\E ok \in BOOLEAN : CancelReturns(ok)) \/ QueryAnswered
    PROVE  IInv'
<1>1. TypeOK'
  <2>1. /\ QueryAnswered => counted' \in [Exits -> Nat]
        /\ (\E ok \in BOOLEAN : CancelReturns(ok))
              => cancelOk' \in BOOLEAN /\ UNCHANGED counted
    BY DEF IInv, TypeOK, CancelReturns, QueryAnswered, answer, GateAssumption
  <2> QED BY <2>1 DEF IInv, TypeOK, CancelReturns, QueryAnswered, ledger, engine, answer, exch
<1>2. (FillsInOrder /\ StatusFitsFills /\ UntrackedIsUnbooked /\ SubmitIsReserved)'
  BY DEF IInv, CancelReturns, QueryAnswered, ledger, engine, exch, FillsInOrder,
         StatusFitsFills, UntrackedIsUnbooked, SubmitIsReserved
<1>3. CountedIsFilled'
  BY DEF IInv, TypeOK, CancelReturns, QueryAnswered, answer, exch, CountedIsFilled, GateAssumption
<1>4. ReservationCovers'
  BY DEF IInv, CancelReturns, QueryAnswered, ledger, engine, exch, ReservationCovers,
         Potential, Uuid
<1> QED BY <1>1, <1>2, <1>3, <1>4 DEF IInv

\* The sync releases by the id of the exchange, which no reservation is under.
LEMMA SyncLemma ==
    ASSUME IInv, GateAssumption, SyncReturns \/ SyncFails
    PROVE  IInv'
<1>1. cur \in Orders
  BY DEF IInv, SubmitIsReserved, SyncReturns, SyncFails
<1>2. /\ reserved' \in [Ids -> 0..Cap]
      /\ \A o \in Orders : reserved'[Uuid(o)] = reserved[Uuid(o)]
  BY <1>1, KeyLemma, ReleaseLemma DEF IInv, TypeOK, SyncReturns, SyncFails
<1>3. TypeOK'
  <2>1. pos' \in [Symbols -> Int]
    BY DEF IInv, TypeOK, SyncReturns, SyncFails, engine
  <2>2. /\ pc' = "idle" /\ cancelOk' = FALSE /\ snap' \in [Symbols -> Nat]
        /\ counted' \in [Exits -> Nat] /\ blurred' \subseteq Symbols /\ cur' = "nobody"
    BY DEF IInv, TypeOK, SyncReturns, SyncFails, NoAnswer, NothingCounted
  <2> QED BY <1>2, <2>1, <2>2 DEF IInv, TypeOK, SyncReturns, SyncFails, engine, exch
<1>4. (FillsInOrder /\ StatusFitsFills /\ UntrackedIsUnbooked /\ SubmitIsReserved)'
  BY DEF IInv, SyncReturns, SyncFails, engine, exch, FillsInOrder, StatusFitsFills,
         UntrackedIsUnbooked, SubmitIsReserved
<1>5. CountedIsFilled'
  BY DEF IInv, TypeOK, SyncReturns, SyncFails, exch, NothingCounted, CountedIsFilled,
         GateAssumption
<1>6. \A o \in Orders : Potential(o)' = Potential(o)
  BY DEF SyncReturns, SyncFails, engine, exch, Potential
<1>7. ReservationCovers'
  BY <1>2, <1>6 DEF IInv, SyncReturns, SyncFails, ReservationCovers, Uuid
<1> QED BY <1>3, <1>4, <1>5, <1>7 DEF IInv

\* A sweep gives one order up to the alert, the switch all of them.
LEMMA ReleasingLemma ==
    ASSUME IInv, GateAssumption, (\E o \in Orders : Sweep(o)) \/ ReleaseAll
    PROVE  IInv'
<1>1. CASE ReleaseAll
  <2>1. TypeOK'
    BY <1>1 DEF IInv, TypeOK, ReleaseAll, engine, loop, exch, GateAssumption
  <2>2. (FillsInOrder /\ StatusFitsFills /\ UntrackedIsUnbooked /\ SubmitIsReserved
         /\ CountedIsFilled)'
    BY <1>1 DEF IInv, ReleaseAll, engine, loop, exch, FillsInOrder, StatusFitsFills,
                UntrackedIsUnbooked, SubmitIsReserved, CountedIsFilled
  <2>3. ReservationCovers'
    BY <1>1 DEF ReleaseAll, ReservationCovers
  <2> QED BY <2>1, <2>2, <2>3 DEF IInv
<1>2. ASSUME NEW o \in Orders, Sweep(o) PROVE IInv'
  <2>1. /\ reserved' \in [Ids -> 0..Cap]
        /\ \A i \in Ids : i # Uuid(o) => reserved'[i] = reserved[i]
    BY <1>2, KeyLemma, ReleaseLemma DEF IInv, TypeOK, Sweep
  <2>2. TypeOK'
    BY <1>2, <2>1 DEF IInv, TypeOK, Sweep, engine, loop, exch
  <2>3. (FillsInOrder /\ StatusFitsFills /\ UntrackedIsUnbooked /\ SubmitIsReserved
         /\ CountedIsFilled)'
    BY <1>2 DEF IInv, Sweep, engine, loop, exch, FillsInOrder, StatusFitsFills,
                UntrackedIsUnbooked, SubmitIsReserved, CountedIsFilled
  <2>4. ReservationCovers'
    <3> SUFFICES ASSUME NEW r \in Orders, ~killed, r \notin lost \cup swept', r # o
                 PROVE  reserved'[Uuid(r)] >= Potential(r)
      BY <1>2 DEF ReservationCovers, Sweep, engine, exch, Uuid, Potential
    <3>1. Uuid(r) # Uuid(o) /\ Uuid(r) \in Ids /\ r \notin lost \cup swept
      BY <1>2, KeyLemma DEF Sweep
    <3> QED BY <2>1, <3>1 DEF IInv, ReservationCovers
  <2> QED BY <2>2, <2>3, <2>4 DEF IInv
<1> QED BY <1>1, <1>2

\* The exchange fills or ends an order: it can add no more than before.
LEMMA ExchangeLemma ==
    ASSUME IInv, GateAssumption, NEW o \in Orders,
           ExAccept(o) \/ ExRefuse(o) \/ ExFill(o) \/ ExCancel(o)
    PROVE  IInv'
<1>1. UNCHANGED <<size, lost, reserved, swept, local, booked, pos, pc, cur, cancelOk, snap,
                  counted, blurred, killed>>
  BY DEF ExAccept, ExRefuse, ExFill, ExCancel, ExMoves, ledger, engine, loop
<1>2. SymbolOf[o] \in Symbols
  BY DEF GateAssumption
<1>3. /\ ex' \in [Orders -> {"none", "sent", "refused", "open", "done"}]
      /\ filled' \in [Orders -> Nat]
      /\ exPos' \in [Symbols -> Nat]
  BY <1>2 DEF IInv, TypeOK, ExAccept, ExRefuse, ExFill, ExCancel, ExMoves
<1>4. TypeOK'
  BY <1>1, <1>3 DEF IInv, TypeOK
<1>5. (FillsInOrder /\ StatusFitsFills)'
  BY <1>1 DEF IInv, TypeOK, FillsInOrder, StatusFitsFills, ExAccept, ExRefuse, ExFill,
              ExCancel, ExMoves
<1>6. (UntrackedIsUnbooked /\ SubmitIsReserved)'
  BY <1>1 DEF IInv, UntrackedIsUnbooked, SubmitIsReserved, Uuid
<1>7. CountedIsFilled'
  <2>1. \A r \in Orders : filled'[r] >= filled[r] /\ filled[r] \in Nat
    BY DEF IInv, TypeOK, ExAccept, ExRefuse, ExFill, ExCancel, ExMoves
  <2> QED BY <1>1, <1>3, <2>1 DEF IInv, TypeOK, CountedIsFilled, GateAssumption
<1>8. \A r \in Orders : Potential(r)' <= Potential(r) /\ Potential(r)' \in Int
                        /\ Potential(r) \in Int /\ reserved[Uuid(r)] \in Int
  BY <1>1, <1>3, KeyLemma DEF IInv, TypeOK, FillsInOrder, StatusFitsFills, Potential, ExAccept,
     ExRefuse, ExFill, ExCancel, ExMoves
<1>9. ReservationCovers'
  BY <1>1, <1>8, StillCovered DEF IInv, Uuid
<1> QED BY <1>4, <1>5, <1>6, <1>7, <1>9 DEF IInv

-----------------------------------------------------------------------------
(***************************************************************************)
(* Sums over finite sets: the exposure of a pair and of the book.          *)
(***************************************************************************)

\* Every non-empty set of subsets of a finite set has a minimal element: the
\* form of induction over finite sets the proofs below use.
LEMMA MinimalSet ==
    ASSUME NEW S, IsFiniteSet(S), NEW C \in SUBSET (SUBSET S), C # {}
    PROVE  \E T \in C : \A U \in C : U \subseteq T => U = T
<1>1. IsWellFoundedOn(StrictSubsetOrdering(S), SUBSET S)
  BY FS_StrictSubsetOrderingWellFounded, FS_FiniteSubsetsOfFinite
<1>2. PICK T \in C : \A U \in C : ~ (<<U, T>> \in StrictSubsetOrdering(S))
  BY <1>1, WFMin, Zenon
<1>3. \A U \in C : U \subseteq T => U = T
  BY <1>2 DEF StrictSubsetOrdering
<1> QED BY <1>3

\* The function a sum over S is computed with.
Some(s) == CHOOSE x \in s : TRUE
Sums(f, S, g) ==
    g = [s \in SUBSET S |-> IF s = {} THEN 0 ELSE f[Some(s)] + g[s \ {Some(s)}]]

LEMMA SumDef ==
    ASSUME NEW f, NEW S
    PROVE  SumFunctionOnSet(f, S) = (CHOOSE g : Sums(f, S, g))[S]
BY Zenon DEF SumFunctionOnSet, FoldFunctionOnSet, MapThenFoldSet, Sums, Some

LEMMA SumsStep ==
    ASSUME NEW f, NEW S, NEW g, Sums(f, S, g), NEW s \in SUBSET S, s # {}
    PROVE  /\ Some(s) \in s
           /\ g[s] = f[Some(s)] + g[s \ {Some(s)}]
<1>1. g[s] = f[Some(s)] + g[s \ {Some(s)}]
  <2> DEFINE rhs == [t \in SUBSET S |-> IF t = {} THEN 0 ELSE f[Some(t)] + g[t \ {Some(t)}]]
  <2>1. g = rhs
    BY Zenon DEF Sums
  <2>2. rhs[s] = f[Some(s)] + g[s \ {Some(s)}]
    OBVIOUS
  <2> HIDE DEF rhs
  <2> QED BY <2>1, <2>2
<1>2. \E x \in s : TRUE
  OBVIOUS
<1> QED BY <1>1, <1>2 DEF Some

LEMMA SumsEmpty ==
    ASSUME NEW f, NEW S, NEW g, Sums(f, S, g)
    PROVE  g[{}] = 0
<1> DEFINE rhs == [t \in SUBSET S |-> IF t = {} THEN 0 ELSE f[Some(t)] + g[t \ {Some(t)}]]
<1>1. g = rhs
  BY Zenon DEF Sums
<1>2. rhs[{}] = 0
  OBVIOUS
<1> HIDE DEF rhs
<1> QED BY <1>1, <1>2

\* Two such functions agree wherever both are defined.
LEMMA SumsAgree ==
    ASSUME NEW f, NEW S, IsFiniteSet(S), NEW T, NEW g, NEW h, Sums(f, S, g), Sums(f, T, h)
    PROVE  \A s \in (SUBSET S) \cap (SUBSET T) : g[s] = h[s]
<1> DEFINE C == {s \in (SUBSET S) \cap (SUBSET T) : g[s] # h[s]}
<1> SUFFICES ASSUME C # {} PROVE FALSE
  OBVIOUS
<1>1. C \in SUBSET (SUBSET S)
  OBVIOUS
<1> HIDE DEF C
<1>2. PICK s \in C : \A u \in C : u \subseteq s => u = s
  BY <1>1, MinimalSet
<1> USE DEF C
<1>3. s # {} /\ s \in SUBSET S /\ s \in SUBSET T
  BY SumsEmpty
<1>4. s \ {Some(s)} \notin C /\ Some(s) \in s
  BY <1>2, <1>3, SumsStep
<1>5. g[s \ {Some(s)}] = h[s \ {Some(s)}]
  BY <1>4
<1>6. g[s] = f[Some(s)] + g[s \ {Some(s)}]
  BY <1>3, SumsStep
<1>7. h[s] = f[Some(s)] + h[s \ {Some(s)}]
  BY <1>3, SumsStep
<1> QED BY <1>5, <1>6, <1>7

\* And there is one over every finite set.
LEMMA SumsExist ==
    ASSUME NEW f, NEW S, IsFiniteSet(S)
    PROVE  \E g : Sums(f, S, g)
<1> DEFINE C == {s \in SUBSET S : ~ \E g : Sums(f, s, g)}
<1> SUFFICES ASSUME C # {} PROVE FALSE
  OBVIOUS
<1>1. C \in SUBSET (SUBSET S)
  OBVIOUS
<1> HIDE DEF C
<1>2. PICK T \in C : \A u \in C : u \subseteq T => u = T
  BY <1>1, MinimalSet
<1> USE DEF C
<1> DEFINE sum(s) == (CHOOSE g : Sums(f, s, g))[s]
           G == [s \in SUBSET T |-> IF s = {} THEN 0 ELSE f[Some(s)] + sum(s \ {Some(s)})]
<1>3. ASSUME NEW s \in SUBSET T, s # T
      PROVE  G[s] = sum(s)
  <2>1. Sums(f, s, CHOOSE g : Sums(f, s, g))
    BY <1>2, <1>3
  <2>2. CASE s = {}
    BY <2>1, <2>2, SumsEmpty
  <2>3. CASE s # {}
    <3> DEFINE t == s \ {Some(s)}
    <3>1. Some(s) \in s /\ sum(s) = f[Some(s)] + (CHOOSE g : Sums(f, s, g))[t]
      BY <2>1, <2>3, SumsStep
    <3>2. Sums(f, t, CHOOSE g : Sums(f, t, g))
      <4>1. t \in SUBSET S /\ t \subseteq T /\ t # T
        BY <1>3, <3>1
      <4> QED BY <1>2, <4>1
    <3>3. IsFiniteSet(s)
      BY FS_Subset
    <3>4. (CHOOSE g : Sums(f, s, g))[t] = sum(t)
      <4>1. t \in (SUBSET s) \cap (SUBSET t)
        OBVIOUS
      <4> HIDE DEF t
      <4> QED BY <2>1, <3>2, <3>3, <4>1, SumsAgree
    <3> QED BY <2>3, <3>1, <3>4
  <2> QED BY <2>2, <2>3
<1>4. \A s \in SUBSET T : s # {} => G[s \ {Some(s)}] = sum(s \ {Some(s)})
  <2> TAKE s \in SUBSET T
  <2> HAVE s # {}
  <2>1. \E x \in s : TRUE
    OBVIOUS
  <2>2. Some(s) \in s
    BY <2>1 DEF Some
  <2> HIDE DEF G
  <2> QED BY <1>3, <2>2
<1>5. G = [s \in SUBSET T |-> IF s = {} THEN 0 ELSE f[Some(s)] + G[s \ {Some(s)}]]
  <2> DEFINE r == [s \in SUBSET T |-> IF s = {} THEN 0 ELSE f[Some(s)] + G[s \ {Some(s)}]]
  <2>1. ASSUME NEW s \in SUBSET T PROVE G[s] = r[s]
    <3>1. G[s] = IF s = {} THEN 0 ELSE f[Some(s)] + sum(s \ {Some(s)})
      OBVIOUS
    <3>2. r[s] = IF s = {} THEN 0 ELSE f[Some(s)] + G[s \ {Some(s)}]
      OBVIOUS
    <3> HIDE DEF G, r, sum
    <3> QED BY <1>4, <3>1, <3>2
  <2> QED BY <2>1
<1>6. Sums(f, T, G)
  BY <1>5 DEF Sums
<1> QED BY <1>2, <1>6

\* The recursive equation of a sum over a finite set.
LEMMA SumStep ==
    ASSUME NEW f, NEW S, IsFiniteSet(S), S # {}
    PROVE  /\ Some(S) \in S
           /\ SumFunctionOnSet(f, S) = f[Some(S)] + SumFunctionOnSet(f, S \ {Some(S)})
<1> DEFINE T == S \ {Some(S)}
           g == CHOOSE k : Sums(f, S, k)
           h == CHOOSE k : Sums(f, T, k)
<1>1. IsFiniteSet(T) /\ T \in (SUBSET S) \cap (SUBSET T)
  BY FS_Subset
<1>2. Sums(f, S, g) /\ Sums(f, T, h)
  BY <1>1, SumsExist
<1>3. S \in SUBSET S
  OBVIOUS
<1>4. SumFunctionOnSet(f, S) = g[S] /\ SumFunctionOnSet(f, T) = h[T]
  BY SumDef
<1> HIDE DEF g, h
<1>5. Some(S) \in S /\ g[S] = f[Some(S)] + g[T]
  BY <1>2, <1>3, SumsStep
<1>6. g[T] = h[T]
  <2> HIDE DEF T
  <2>1. \A s \in (SUBSET S) \cap (SUBSET T) : g[s] = h[s]
    BY <1>2, SumsAgree
  <2> QED BY <1>1, <2>1
<1> QED BY <1>4, <1>5, <1>6

LEMMA SumEmpty ==
    ASSUME NEW f
    PROVE  SumFunctionOnSet(f, {}) = 0
<1> DEFINE g == CHOOSE k : Sums(f, {}, k)
<1>1. Sums(f, {}, g)
  BY SumsExist, FS_EmptySet
<1> HIDE DEF g
<1>2. g[{}] = 0
  BY <1>1, SumsEmpty
<1> QED BY <1>2, SumDef DEF g

\* A sum of integers is one, a sum of naturals too, and it is not zero for nothing.
LEMMA SumType ==
    ASSUME NEW f, NEW S, IsFiniteSet(S), \A x \in S : f[x] \in Int
    PROVE  /\ SumFunctionOnSet(f, S) \in Int
           /\ (\A x \in S : f[x] >= 0) => SumFunctionOnSet(f, S) >= 0
           /\ (\A x \in S : f[x] = 0) => SumFunctionOnSet(f, S) = 0
<1> DEFINE Good(T) ==
        /\ SumFunctionOnSet(f, T) \in Int
        /\ (\A x \in T : f[x] >= 0) => SumFunctionOnSet(f, T) >= 0
        /\ (\A x \in T : f[x] = 0) => SumFunctionOnSet(f, T) = 0
    C == {T \in SUBSET S : ~ Good(T)}
<1> SUFFICES ASSUME C # {} PROVE FALSE
  OBVIOUS
<1>1. C \in SUBSET (SUBSET S)
  OBVIOUS
<1> HIDE DEF C
<1>2. PICK T \in C : \A U \in C : U \subseteq T => U = T
  BY <1>1, MinimalSet
<1>3. T \in SUBSET S /\ ~ Good(T)
  BY DEF C
<1>4. T # {}
  BY <1>3, SumEmpty
<1>5. IsFiniteSet(T)
  BY <1>3, FS_Subset
<1>6. /\ Some(T) \in T
      /\ SumFunctionOnSet(f, T) = f[Some(T)] + SumFunctionOnSet(f, T \ {Some(T)})
  BY <1>4, <1>5, SumStep
<1>7. Good(T \ {Some(T)})
  <2>1. T \ {Some(T)} \notin C
    BY <1>2, <1>6
  <2> QED BY <1>3, <2>1 DEF C
<1>8. f[Some(T)] \in Int
  BY <1>3, <1>6
<1> QED BY <1>3, <1>6, <1>7, <1>8

\* Any element can be taken out first.
LEMMA SumRemove ==
    ASSUME NEW f, NEW S, IsFiniteSet(S), \A x \in S : f[x] \in Int, NEW x \in S
    PROVE  SumFunctionOnSet(f, S) = f[x] + SumFunctionOnSet(f, S \ {x})
<1> DEFINE Good(T) ==
        \A y \in T : SumFunctionOnSet(f, T) = f[y] + SumFunctionOnSet(f, T \ {y})
    C == {T \in SUBSET S : ~ Good(T)}
<1> SUFFICES ASSUME C # {} PROVE FALSE
  OBVIOUS
<1>1. C \in SUBSET (SUBSET S)
  OBVIOUS
<1> HIDE DEF C
<1>2. PICK T \in C : \A U \in C : U \subseteq T => U = T
  BY <1>1, MinimalSet
<1>3. T \in SUBSET S /\ ~ Good(T)
  BY DEF C
<1>4. PICK y \in T : SumFunctionOnSet(f, T) # f[y] + SumFunctionOnSet(f, T \ {y})
  BY <1>3
<1> DEFINE z == Some(T)
<1>5. IsFiniteSet(T)
  BY <1>3, FS_Subset
<1>6. z \in T /\ SumFunctionOnSet(f, T) = f[z] + SumFunctionOnSet(f, T \ {z})
  BY <1>4, <1>5, SumStep
<1> HIDE DEF z
<1>7. y # z
  BY <1>4, <1>6
<1>8. \A t \in T : Good(T \ {t})
  <2> TAKE t \in T
  <2>1. T \ {t} \notin C
    BY <1>2
  <2> QED BY <1>3, <2>1 DEF C
<1>9. SumFunctionOnSet(f, T \ {z}) = f[y] + SumFunctionOnSet(f, (T \ {z}) \ {y})
  <2>1. y \in T \ {z}
    BY <1>7
  <2> QED BY <1>6, <1>8, <2>1
<1>10. SumFunctionOnSet(f, T \ {y}) = f[z] + SumFunctionOnSet(f, (T \ {y}) \ {z})
  <2>1. z \in T \ {y}
    BY <1>6, <1>7
  <2> QED BY <1>8, <2>1
<1>11. (T \ {z}) \ {y} = (T \ {y}) \ {z}
  OBVIOUS
<1>12. f[y] \in Int /\ f[z] \in Int /\ SumFunctionOnSet(f, (T \ {z}) \ {y}) \in Int
  <2>1. IsFiniteSet((T \ {z}) \ {y})
    BY <1>5, FS_Subset
  <2>2. \A t \in (T \ {z}) \ {y} : f[t] \in Int
    BY <1>3
  <2> QED BY <1>3, <1>6, <2>1, <2>2, SumType
<1> DEFINE r == SumFunctionOnSet(f, (T \ {z}) \ {y})
<1>13. SumFunctionOnSet(f, T) = f[z] + (f[y] + r)
  BY <1>6, <1>9
<1>14. SumFunctionOnSet(f, T \ {y}) = f[z] + r
  BY <1>10, <1>11
<1>15. SumFunctionOnSet(f, T) # f[y] + (f[z] + r)
  BY <1>4, <1>14
<1> HIDE DEF r
<1>16. f[z] + (f[y] + r) = f[y] + (f[z] + r)
  BY <1>12 DEF r
<1> QED BY <1>13, <1>15, <1>16

\* A sum grows with its terms.
LEMMA SumLeq ==
    ASSUME NEW f, NEW g, NEW S, IsFiniteSet(S),
           \A x \in S : f[x] \in Int /\ g[x] \in Int /\ f[x] <= g[x]
    PROVE  SumFunctionOnSet(f, S) <= SumFunctionOnSet(g, S)
<1> DEFINE C == {T \in SUBSET S : ~ (SumFunctionOnSet(f, T) <= SumFunctionOnSet(g, T))}
<1> SUFFICES ASSUME C # {} PROVE FALSE
  OBVIOUS
<1>1. C \in SUBSET (SUBSET S)
  OBVIOUS
<1> HIDE DEF C
<1>2. PICK T \in C : \A U \in C : U \subseteq T => U = T
  BY <1>1, MinimalSet
<1>3. T \in SUBSET S /\ ~ (SumFunctionOnSet(f, T) <= SumFunctionOnSet(g, T))
  BY DEF C
<1>4. T # {}
  BY <1>3, SumEmpty
<1>5. PICK z \in T : TRUE
  BY <1>4
<1>6. IsFiniteSet(T) /\ IsFiniteSet(T \ {z})
  BY <1>3, FS_Subset
<1>7. /\ SumFunctionOnSet(f, T) = f[z] + SumFunctionOnSet(f, T \ {z})
      /\ SumFunctionOnSet(g, T) = g[z] + SumFunctionOnSet(g, T \ {z})
  BY <1>3, <1>6, SumRemove
<1>8. SumFunctionOnSet(f, T \ {z}) <= SumFunctionOnSet(g, T \ {z})
  <2>1. T \ {z} \notin C
    BY <1>2
  <2> QED BY <1>3, <2>1 DEF C
<1>9. SumFunctionOnSet(f, T \ {z}) \in Int /\ SumFunctionOnSet(g, T \ {z}) \in Int
  BY <1>3, <1>6, SumType
<1> QED BY <1>3, <1>7, <1>8, <1>9

\* Changing one term by some amount changes the sum by as much.
LEMMA SumUpdate ==
    ASSUME NEW f, NEW g, NEW S, IsFiniteSet(S), NEW x \in S,
           \A y \in S : f[y] \in Int /\ g[y] \in Int,
           \A y \in S \ {x} : f[y] = g[y]
    PROVE  SumFunctionOnSet(g, S) = SumFunctionOnSet(f, S) + (g[x] - f[x])
<1>1. IsFiniteSet(S \ {x})
  BY FS_Subset
<1>2. /\ SumFunctionOnSet(f, S) = f[x] + SumFunctionOnSet(f, S \ {x})
      /\ SumFunctionOnSet(g, S) = g[x] + SumFunctionOnSet(g, S \ {x})
  BY SumRemove
<1>3. SumFunctionOnSet(f, S \ {x}) \in Int /\ SumFunctionOnSet(g, S \ {x}) \in Int
  BY <1>1, SumType
<1>4. /\ SumFunctionOnSet(f, S \ {x}) <= SumFunctionOnSet(g, S \ {x})
      /\ SumFunctionOnSet(g, S \ {x}) <= SumFunctionOnSet(f, S \ {x})
  BY <1>1, SumLeq
<1> QED BY <1>2, <1>3, <1>4

\* The sum of two functions is summed term by term.
LEMMA SumPlus ==
    ASSUME NEW f, NEW g, NEW h, NEW S, IsFiniteSet(S),
           \A x \in S : f[x] \in Int /\ g[x] \in Int /\ h[x] = f[x] + g[x]
    PROVE  SumFunctionOnSet(h, S) = SumFunctionOnSet(f, S) + SumFunctionOnSet(g, S)
<1> DEFINE Good(T) == SumFunctionOnSet(h, T) = SumFunctionOnSet(f, T) + SumFunctionOnSet(g, T)
           C == {T \in SUBSET S : ~ Good(T)}
<1> SUFFICES ASSUME C # {} PROVE FALSE
  OBVIOUS
<1>1. C \in SUBSET (SUBSET S)
  OBVIOUS
<1> HIDE DEF C
<1>2. PICK T \in C : \A U \in C : U \subseteq T => U = T
  BY <1>1, MinimalSet
<1>3. T \in SUBSET S /\ ~ Good(T)
  BY DEF C
<1>4. PICK z \in T : TRUE
  <2>1. Good({})
    BY SumEmpty
  <2> QED BY <1>3, <2>1
<1>5. IsFiniteSet(T) /\ IsFiniteSet(T \ {z})
  BY <1>3, FS_Subset
<1>6. \A x \in T : f[x] \in Int /\ g[x] \in Int /\ h[x] \in Int /\ h[x] = f[x] + g[x]
  BY <1>3
<1>7. /\ SumFunctionOnSet(f, T) = f[z] + SumFunctionOnSet(f, T \ {z})
      /\ SumFunctionOnSet(g, T) = g[z] + SumFunctionOnSet(g, T \ {z})
      /\ SumFunctionOnSet(h, T) = h[z] + SumFunctionOnSet(h, T \ {z})
  BY <1>5, <1>6, SumRemove
<1>8. Good(T \ {z})
  <2>1. T \ {z} \notin C
    BY <1>2
  <2> QED BY <1>3, <2>1 DEF C
<1>9. SumFunctionOnSet(f, T \ {z}) \in Int /\ SumFunctionOnSet(g, T \ {z}) \in Int
  BY <1>5, <1>6, SumType
<1> QED BY <1>3, <1>6, <1>7, <1>8, <1>9

\* Where one term changes and no other shrinks, the sum gains at least as much.
LEMMA SumMoves ==
    ASSUME NEW f, NEW g, NEW S, IsFiniteSet(S), NEW x \in S,
           \A y \in S : f[y] \in Int /\ g[y] \in Int,
           \A y \in S \ {x} : f[y] <= g[y]
    PROVE  SumFunctionOnSet(g, S) >= SumFunctionOnSet(f, S) + (g[x] - f[x])
<1>1. IsFiniteSet(S \ {x})
  BY FS_Subset
<1>2. /\ SumFunctionOnSet(f, S) = f[x] + SumFunctionOnSet(f, S \ {x})
      /\ SumFunctionOnSet(g, S) = g[x] + SumFunctionOnSet(g, S \ {x})
  BY SumRemove
<1>3. SumFunctionOnSet(f, S \ {x}) \in Int /\ SumFunctionOnSet(g, S \ {x}) \in Int
  BY <1>1, SumType
<1>4. SumFunctionOnSet(f, S \ {x}) <= SumFunctionOnSet(g, S \ {x})
  BY <1>1, SumLeq
<1> QED BY <1>2, <1>3, <1>4

-----------------------------------------------------------------------------
(***************************************************************************)
(* The inductive invariant of the exposure, in named parts.                *)
(***************************************************************************)

\* No reservation is larger than its order, no exit has one, and none is ever
\* kept under the id the exchange gave the order.
ReservedByUuid ==
    \A o \in Orders :
        /\ reserved[Uuid(o)] <= size[o]
        /\ reserved[ExchangeId(o)] = 0
        /\ o \in Exits => reserved[Uuid(o)] = 0

\* Lots filled that the reservation still stands for: not booked, or booked
\* without the reservation being told.
Cover(o) ==
    LET confirmed == size[o] - reserved[Uuid(o)]
    IN IF filled[o] > confirmed THEN filled[o] - confirmed ELSE 0

\* Lots an exit was filled for that will still be subtracted: from the book as
\* it is, and from the book as the answer on its way back will leave it.
Live(o) == local[o] = "open" \/ (pc = "submit" /\ cur = o)
Owed(o) == IF o \in Exits /\ Live(o) THEN filled[o] - booked[o] ELSE 0
OwedLate(o) == IF o \in Exits /\ Live(o) THEN filled[o] - counted[o] ELSE 0

\* How far the book, and the answer, may trail the exchange by one order.
Trail(o) == Cover(o) - Owed(o)
TrailLate(o) == Cover(o) - OwedLate(o)
SymbolTrail(s) == SumFunctionOnSet([o \in Orders |-> Trail(o)], OnSymbol(s))
SymbolTrailLate(s) == SumFunctionOnSet([o \in Orders |-> TrailLate(o)], OnSymbol(s))

\* What the book lacks of the exchange's position is covered by reservations,
\* with all that exits will still take from it; and so is what an answer lacks.
BookCovers == ~killed => \A s \in Tracked : pos[s] + SymbolTrail(s) >= exPos[s]

AnswerCovers ==
    ~killed /\ pc = "answered" =>
        \A s \in Tracked : snap[s] > 0 => snap[s] + SymbolTrailLate(s) >= exPos[s]

\* The places of max_positions that are taken: held or pending.  The pairs an
\* answer is about to write have places among them, or had.
Places == Held \cup {s \in Symbols : PendingFor(s) > 0}
Answered == {s \in Symbols : pc = "answered" /\ snap[s] > 0}

PlacesBounded ==
    ~killed /\ Tracked = Symbols => Cardinality(Places \cup Answered) <= MaxPositions

EInv ==
    /\ ReservedByUuid
    /\ BookCovers
    /\ AnswerCovers
    /\ PlacesBounded
    /\ ExposureBounded
    /\ PositionsBounded

\* The orders of a pair are finitely many.
LEMMA OnSymbolLemma ==
    ASSUME GateAssumption, NEW s \in Symbols
    PROVE  /\ OnSymbol(s) \subseteq Orders /\ IsFiniteSet(OnSymbol(s))
           /\ \A o \in Orders : o \in OnSymbol(s) <=> SymbolOf[o] = s
<1>1. OnSymbol(s) \subseteq Orders /\ \A o \in Orders : o \in OnSymbol(s) <=> SymbolOf[o] = s
  BY DEF OnSymbol
<1>2. IsFiniteSet(OnSymbol(s))
  BY <1>1, FS_Subset DEF GateAssumption
<1> QED BY <1>1, <1>2

\* A reservation stands for what is filled and not yet seen, and what is open.
LEMMA CoverLemma ==
    ASSUME IInv, ReservedByUuid, GateAssumption, NEW o \in Orders
    PROVE  /\ Cover(o) \in Nat /\ OpenLots(o) \in Nat
           /\ Owed(o) \in Nat /\ OwedLate(o) \in Nat
           /\ Trail(o) \in Int /\ TrailLate(o) \in Int
           /\ Trail(o) <= Cover(o) /\ TrailLate(o) <= Cover(o)
           /\ reserved[Uuid(o)] \in Nat /\ reserved[ExchangeId(o)] = 0
           /\ Cover(o) <= reserved[Uuid(o)]
           /\ ~killed /\ o \notin lost \cup swept => reserved[Uuid(o)] >= Cover(o) + OpenLots(o)
<1>1. reserved[Uuid(o)] \in Nat
  BY KeyLemma DEF IInv, TypeOK
<1>2. /\ size[o] \in Nat /\ filled[o] \in Nat /\ booked[o] \in Nat
      /\ booked[o] <= filled[o] /\ filled[o] <= size[o]
      /\ reserved[Uuid(o)] <= size[o] /\ reserved[ExchangeId(o)] = 0
  BY DEF IInv, TypeOK, FillsInOrder, ReservedByUuid
<1>3. ~killed /\ o \notin lost \cup swept => reserved[Uuid(o)] >= Potential(o)
  BY DEF IInv, ReservationCovers
<1>4. o \in Exits => counted[o] \in Nat /\ counted[o] <= filled[o]
  BY DEF IInv, TypeOK, CountedIsFilled
<1>5. Owed(o) \in Nat /\ OwedLate(o) \in Nat
  BY <1>2, <1>4 DEF Owed, OwedLate
<1>6. Cover(o) \in Nat /\ Cover(o) <= reserved[Uuid(o)]
  BY <1>1, <1>2 DEF Cover
<1>7. OpenLots(o) \in Nat
  BY <1>2 DEF OpenLots
<1>8. ~killed /\ o \notin lost \cup swept => reserved[Uuid(o)] >= Cover(o) + OpenLots(o)
  BY <1>1, <1>2, <1>3, <1>6 DEF Cover, OpenLots, Potential, Buys
<1>9. /\ Trail(o) \in Int /\ TrailLate(o) \in Int
      /\ Trail(o) <= Cover(o) /\ TrailLate(o) <= Cover(o)
  BY <1>5, <1>6 DEF Trail, TrailLate
<1> QED BY <1>1, <1>2, <1>5, <1>6, <1>7, <1>8, <1>9

\* The pending view of a pair is positive exactly if one of its orders is reserved.
LEMMA PendingLemma ==
    ASSUME IInv, ReservedByUuid, GateAssumption, NEW s \in Symbols
    PROVE  /\ PendingFor(s) \in Nat
           /\ PendingFor(s) > 0 <=> \E o \in OnSymbol(s) : reserved[Uuid(o)] > 0
<1> DEFINE r == [o \in Orders |-> reserved[Uuid(o)] + reserved[ExchangeId(o)]]
           Sum == SumFunctionOnSet(r, OnSymbol(s))
<1>1. OnSymbol(s) \subseteq Orders /\ IsFiniteSet(OnSymbol(s))
  BY OnSymbolLemma
<1>2. \A o \in OnSymbol(s) : r[o] = reserved[Uuid(o)] /\ r[o] \in Int /\ r[o] >= 0
  BY <1>1, CoverLemma
<1> HIDE DEF r
<1>3. Sum \in Nat /\ ((\A o \in OnSymbol(s) : r[o] = 0) => Sum = 0)
  BY <1>1, <1>2, SumType
<1>4. ASSUME NEW o \in OnSymbol(s), r[o] > 0 PROVE Sum > 0
  <2>1. Sum = r[o] + SumFunctionOnSet(r, OnSymbol(s) \ {o})
    BY <1>1, <1>2, SumRemove
  <2>2. IsFiniteSet(OnSymbol(s) \ {o})
    BY <1>1, FS_Subset
  <2>3. SumFunctionOnSet(r, OnSymbol(s) \ {o}) \in Nat
    BY <1>2, <2>2, SumType
  <2> QED BY <1>2, <1>4, <2>1, <2>3
<1>5. Sum = PendingFor(s)
  BY DEF PendingFor, r
<1> HIDE DEF Sum
<1>6. Sum > 0 => \E o \in OnSymbol(s) : r[o] > 0
  BY <1>2, <1>3
<1> QED BY <1>2, <1>3, <1>4, <1>5, <1>6

\* A pair's trail is no more than its reservations, and where it is positive
\* there is one.
LEMMA SymbolTrailLemma ==
    ASSUME IInv, ReservedByUuid, GateAssumption, NEW s \in Symbols
    PROVE  /\ SymbolTrail(s) \in Int
           /\ SymbolTrailLate(s) \in Int
           /\ SymbolTrail(s) > 0 => \E o \in OnSymbol(s) : reserved[Uuid(o)] > 0
<1> DEFINE b == [o \in Orders |-> Trail(o)]
           a == [o \in Orders |-> TrailLate(o)]
           c == [o \in Orders |-> reserved[Uuid(o)]]
<1>1. OnSymbol(s) \subseteq Orders /\ IsFiniteSet(OnSymbol(s))
  BY OnSymbolLemma
<1>2. \A o \in OnSymbol(s) : /\ b[o] = Trail(o) /\ a[o] = TrailLate(o) /\ c[o] = reserved[Uuid(o)]
                             /\ b[o] \in Int /\ a[o] \in Int /\ c[o] \in Nat /\ b[o] <= c[o]
  BY <1>1, CoverLemma
<1>3. SymbolTrail(s) = SumFunctionOnSet(b, OnSymbol(s))
  BY DEF SymbolTrail
<1>4. SymbolTrailLate(s) = SumFunctionOnSet(a, OnSymbol(s))
  BY DEF SymbolTrailLate
<1> HIDE DEF a, b, c
<1>5. SumFunctionOnSet(b, OnSymbol(s)) \in Int /\ SumFunctionOnSet(a, OnSymbol(s)) \in Int
  BY <1>1, <1>2, SumType
<1>6. SumFunctionOnSet(b, OnSymbol(s)) <= SumFunctionOnSet(c, OnSymbol(s))
  BY <1>1, <1>2, SumLeq
<1>7. (\A o \in OnSymbol(s) : c[o] = 0) => SumFunctionOnSet(c, OnSymbol(s)) = 0
  BY <1>1, <1>2, SumType
<1>8. SymbolTrail(s) > 0 => \E o \in OnSymbol(s) : c[o] > 0
  BY <1>2, <1>3, <1>5, <1>6, <1>7
<1> QED BY <1>2, <1>3, <1>4, <1>5, <1>8

\* So what the risk checks see covers the exposure: position and cover make up
\* for the fills, and the reservations for the cover and the open lots.
LEMMA SeenLemma ==
    ASSUME IInv, ReservedByUuid, BookCovers, GateAssumption
    PROVE  ExposureSeen
<1> SUFFICES ASSUME ~killed, NEW s \in Tracked
             PROVE  pos[s] + PendingFor(s) >= Exposure(s)
  BY DEF ExposureSeen
<1> DEFINE c == [o \in Orders |-> Trail(o)]
           l == [o \in Orders |-> OpenLots(o)]
           r == [o \in Orders |-> reserved[Uuid(o)] + reserved[ExchangeId(o)]]
           k == [o \in Orders |-> c[o] + l[o]]
           S == OnSymbol(s)
<1>1. s \in Symbols /\ S \subseteq Orders /\ IsFiniteSet(S)
  BY OnSymbolLemma DEF Tracked
<1>2. \A o \in S : o \notin lost \cup swept
  BY DEF Tracked
<1>3. \A o \in S : /\ c[o] \in Int /\ l[o] \in Int /\ k[o] \in Int /\ r[o] \in Int
                   /\ k[o] = c[o] + l[o]
                   /\ k[o] <= r[o]
  BY <1>1, <1>2, CoverLemma
<1>4. /\ SymbolTrail(s) = SumFunctionOnSet(c, S)
      /\ PendingFor(s) = SumFunctionOnSet(r, S)
      /\ Exposure(s) = exPos[s] + SumFunctionOnSet(l, S)
  BY DEF SymbolTrail, PendingFor, Exposure
<1> HIDE DEF c, l, r, k, S
<1>5. SumFunctionOnSet(k, S) = SumFunctionOnSet(c, S) + SumFunctionOnSet(l, S)
  BY <1>1, <1>3, SumPlus
<1>6. SumFunctionOnSet(k, S) <= SumFunctionOnSet(r, S)
  BY <1>1, <1>3, SumLeq
<1>7. SumFunctionOnSet(c, S) \in Int /\ SumFunctionOnSet(l, S) \in Int /\ SumFunctionOnSet(r, S) \in Int
  BY <1>1, <1>3, SumType
<1>8. pos[s] + SymbolTrail(s) >= exPos[s] /\ pos[s] \in Int /\ exPos[s] \in Int
  BY <1>1 DEF BookCovers, IInv, TypeOK
<1> QED BY <1>4, <1>5, <1>6, <1>7, <1>8

-----------------------------------------------------------------------------
(***************************************************************************)
(* Its steps: the ledger, and what it covers.                              *)
(***************************************************************************)

\* Only the loop's own uuid keys the ledger, and a key only ever shrinks.
LEMMA ReservedStep ==
    ASSUME IInv, ReservedByUuid, GateAssumption, [Next]_vars
    PROVE  ReservedByUuid'
<1> SUFFICES ASSUME NEW o \in Orders
             PROVE  /\ reserved'[Uuid(o)] <= size'[o] /\ reserved'[ExchangeId(o)] = 0
                    /\ o \in Exits => reserved'[Uuid(o)] = 0
  BY DEF ReservedByUuid, Uuid, ExchangeId
<1>1. /\ reserved[Uuid(o)] <= size[o] /\ reserved[ExchangeId(o)] = 0
      /\ o \in Exits => reserved[Uuid(o)] = 0
      /\ size \in [Orders -> Nat] /\ reserved \in [Ids -> 0..Cap]
      /\ Cap \in Nat
  BY DEF ReservedByUuid, IInv, TypeOK, GateAssumption
<1>2. /\ Uuid(o) \in Ids /\ ExchangeId(o) \in Ids /\ Uuid(o) # ExchangeId(o)
      /\ \A r \in Orders : /\ Uuid(r) \in Ids /\ ExchangeId(r) \in Ids
                           /\ Uuid(o) # ExchangeId(r) /\ Uuid(r) # ExchangeId(o)
                           /\ r # o => Uuid(o) # Uuid(r)
  BY KeyLemma
<1>3. CASE \E r \in Orders, n \in 1..Cap : EntrySignal(r, n)
  BY <1>1, <1>2, <1>3 DEF EntrySignal, Reserve, Buys
<1>4. CASE \E x \in Orders : ExitSignal(x)
  <2>1. PICK x \in Orders : ExitSignal(x)
    BY <1>4
  <2>2. /\ size[x] = 0 /\ reserved' = reserved /\ pos[SymbolOf[x]] > 0 /\ pos[SymbolOf[x]] \in Int
        /\ size' = [size EXCEPT ![x] = pos[SymbolOf[x]]]
    BY <2>1 DEF ExitSignal, ledger, IInv, TypeOK, GateAssumption
  <2>3. size'[o] >= size[o]
    BY <1>1, <2>2
  <2>4. reserved[Uuid(o)] \in Nat /\ size'[o] \in Int
    BY <1>1, <1>2, <2>2
  <2> QED BY <1>1, <2>2, <2>3, <2>4
<1>5. CASE \E n \in Nat : SubmitReturns(n)
  <2>1. PICK n \in Nat : SubmitReturns(n)
    BY <1>5
  <2>2. cur \in Orders
    BY <2>1 DEF IInv, SubmitIsReserved, SubmitReturns
  <2>3. reserved' \in {reserved, Release(Uuid(cur)), PartialConfirm(Uuid(cur), n)} /\ size' = size
    BY <2>1 DEF SubmitReturns, Settle
  <2> QED BY <1>1, <1>2, <2>2, <2>3 DEF Release, PartialConfirm
<1>6. CASE SubmitFails
  <2>1. cur \in Orders
    BY <1>6 DEF IInv, SubmitIsReserved, SubmitFails
  <2> QED BY <1>1, <1>2, <1>6, <2>1 DEF SubmitFails, Release
<1>7. CASE SyncReturns \/ SyncFails
  <2>1. cur \in Orders
    BY <1>7 DEF IInv, SubmitIsReserved, SyncReturns, SyncFails
  <2> QED BY <1>1, <1>2, <1>7, <2>1 DEF SyncReturns, SyncFails, Release, engine, exch
<1>8. CASE \E r \in Orders : Sweep(r)
  BY <1>1, <1>2, <1>8 DEF Sweep, Release
<1>9. CASE ReleaseAll
  BY <1>1, <1>2, <1>9 DEF ReleaseAll
<1>10. CASE UNCHANGED <<reserved, size>>
  BY <1>1, <1>10
<1>11. (\/ \E r \in Orders, n \in Nat : PushFills(r, n)
        \/ \E r \in Orders : PushCanceled(r) \/ TimeOut(r)
        \/ \E ok \in BOOLEAN : CancelReturns(ok)
        \/ QueryAnswered
        \/ \E r \in Orders : ExAccept(r) \/ ExRefuse(r) \/ ExFill(r) \/ ExCancel(r))
       => UNCHANGED <<reserved, size>>
  BY DEF PushFills, PushCanceled, TimeOut, CancelReturns, QueryAnswered, ExAccept,
         ExRefuse, ExFill, ExCancel, ExMoves, ledger
<1> QED BY <1>3, <1>4, <1>5, <1>6, <1>7, <1>8, <1>9, <1>10, <1>11 DEF Next, vars

\* An order that was lost or swept stays so, and a book once blurred.
LEMMA TrackedStep ==
    ASSUME [Next]_vars
    PROVE  /\ lost \subseteq lost' /\ swept \subseteq swept' /\ blurred \subseteq blurred'
           /\ Tracked' \subseteq Tracked
           /\ killed => killed'
<1>1. /\ lost \subseteq lost' /\ swept \subseteq swept' /\ blurred \subseteq blurred'
      /\ killed => killed'
  <2>1. (\E o \in Orders, n \in 1..Cap : EntrySignal(o, n))
        => UNCHANGED <<lost, swept, blurred, killed>>
    BY DEF EntrySignal
  <2>2. (\E o \in Orders : ExitSignal(o)) => UNCHANGED <<lost, swept, blurred, killed>>
    BY DEF ExitSignal, ledger
  <2>3. (\E n \in Nat : SubmitReturns(n)) => UNCHANGED <<lost, swept, blurred, killed>>
    BY DEF SubmitReturns
  <2>4. SubmitFails => lost \subseteq lost' /\ UNCHANGED <<swept, blurred, killed>>
    BY DEF SubmitFails
  <2>5. (\E o \in Orders, n \in Nat : PushFills(o, n)) => UNCHANGED <<lost, swept, blurred, killed>>
    BY DEF PushFills, ledger, loop
  <2>6. (\E o \in Orders : PushCanceled(o) \/ TimeOut(o)) => UNCHANGED <<lost, swept, blurred, killed>>
    BY DEF PushCanceled, TimeOut, ledger, loop
  <2>7. (\E o \in Orders : Sweep(o)) => swept \subseteq swept' /\ UNCHANGED <<lost, blurred, killed>>
    BY DEF Sweep, loop
  <2>8. (\E ok \in BOOLEAN : CancelReturns(ok)) \/ QueryAnswered
        => UNCHANGED <<lost, swept, blurred, killed>>
    BY DEF CancelReturns, QueryAnswered, ledger
  <2>9. SyncReturns \/ SyncFails => blurred \subseteq blurred' /\ UNCHANGED <<lost, swept, killed>>
    BY DEF SyncReturns, SyncFails
  <2>10. ReleaseAll => UNCHANGED <<lost, swept, blurred>> /\ killed'
    BY DEF ReleaseAll, loop
  <2>11. (\E o \in Orders : ExAccept(o) \/ ExRefuse(o) \/ ExFill(o) \/ ExCancel(o))
         => UNCHANGED <<lost, swept, blurred, killed>>
    BY DEF ExAccept, ExRefuse, ExFill, ExCancel, ExMoves, ledger, loop
  <2> QED BY <2>1, <2>2, <2>3, <2>4, <2>5, <2>6, <2>7, <2>8, <2>9, <2>10, <2>11 DEF Next, vars
<1>2. Tracked' \subseteq Tracked
  BY <1>1 DEF Tracked, OnSymbol
<1> QED BY <1>1, <1>2

\* Trails are integers, before a step and after it.
LEMMA TrailType ==
    IInv /\ ReservedByUuid =>
        /\ \A o \in Orders : /\ Cover(o) \in Nat /\ Owed(o) \in Nat /\ OwedLate(o) \in Nat
                             /\ Trail(o) = Cover(o) - Owed(o)
                             /\ TrailLate(o) = Cover(o) - OwedLate(o)
        /\ \A s \in Symbols : SymbolTrail(s) \in Int /\ SymbolTrailLate(s) \in Int
BY CoverLemma, SymbolTrailLemma, GateAssumption DEF Trail, TrailLate

LEMMA TrailTypeNext ==
    IInv' /\ ReservedByUuid' =>
        (/\ \A o \in Orders : /\ Cover(o) \in Nat /\ Owed(o) \in Nat /\ OwedLate(o) \in Nat
                              /\ Trail(o) = Cover(o) - Owed(o)
                              /\ TrailLate(o) = Cover(o) - OwedLate(o)
         /\ \A s \in Symbols : SymbolTrail(s) \in Int /\ SymbolTrailLate(s) \in Int)'
BY TrailType, PTL

\* Where one order's trail changes and no other shrinks the pair's gains as much.
LEMMA TrailMoves ==
    ASSUME IInv, ReservedByUuid, IInv', ReservedByUuid', GateAssumption,
           NEW s \in Symbols, NEW o \in Orders,
           \A r \in OnSymbol(s) \ {o} : Trail(r)' >= Trail(r)
    PROVE  SymbolTrail(s)' >= SymbolTrail(s) +
                              (IF SymbolOf[o] = s THEN Trail(o)' - Trail(o) ELSE 0)
<1> DEFINE c == [r \in Orders |-> Trail(r)]
           d == [r \in Orders |-> Trail(r)']
           S == OnSymbol(s)
<1>1. S \subseteq Orders /\ IsFiniteSet(S) /\ (o \in S <=> SymbolOf[o] = s)
  BY OnSymbolLemma
<1>2. \A r \in Orders : Trail(r) \in Int /\ Trail(r)' \in Int
  BY TrailType, TrailTypeNext
<1>3. \A r \in S : c[r] \in Int /\ d[r] \in Int
  BY <1>1, <1>2
<1>4. \A r \in S \ {o} : c[r] <= d[r]
  BY <1>1, <1>2
<1>5. SymbolTrail(s) = SumFunctionOnSet(c, S) /\ SymbolTrail(s) \in Int
  BY TrailType DEF SymbolTrail
<1>6. SymbolTrail(s)' = SumFunctionOnSet(d, S) /\ SymbolTrail(s)' \in Int
  BY TrailTypeNext DEF SymbolTrail, OnSymbol
<1>7. c[o] = Trail(o) /\ d[o] = Trail(o)'
  OBVIOUS
<1> HIDE DEF c, d, S
<1>8. CASE SymbolOf[o] = s
  BY <1>1, <1>3, <1>4, <1>5, <1>6, <1>7, <1>8, SumMoves
<1>9. CASE SymbolOf[o] # s
  <2>1. \A r \in S : c[r] \in Int /\ d[r] \in Int /\ c[r] <= d[r]
    BY <1>1, <1>3, <1>4, <1>9
  <2>2. SumFunctionOnSet(c, S) <= SumFunctionOnSet(d, S)
    BY <1>1, <2>1, SumLeq
  <2> QED BY <1>5, <1>6, <1>9, <2>2
<1> QED BY <1>8, <1>9

LEMMA TrailLateMoves ==
    ASSUME IInv, ReservedByUuid, IInv', ReservedByUuid', GateAssumption,
           NEW s \in Symbols, NEW o \in Orders,
           \A r \in OnSymbol(s) \ {o} : TrailLate(r)' >= TrailLate(r)
    PROVE  SymbolTrailLate(s)' >= SymbolTrailLate(s) +
                                  (IF SymbolOf[o] = s THEN TrailLate(o)' - TrailLate(o) ELSE 0)
<1> DEFINE c == [r \in Orders |-> TrailLate(r)]
           d == [r \in Orders |-> TrailLate(r)']
           S == OnSymbol(s)
<1>1. S \subseteq Orders /\ IsFiniteSet(S) /\ (o \in S <=> SymbolOf[o] = s)
  BY OnSymbolLemma
<1>2. \A r \in Orders : TrailLate(r) \in Int /\ TrailLate(r)' \in Int
  BY TrailType, TrailTypeNext
<1>3. \A r \in S : c[r] \in Int /\ d[r] \in Int
  BY <1>1, <1>2
<1>4. \A r \in S \ {o} : c[r] <= d[r]
  BY <1>1, <1>2
<1>5. SymbolTrailLate(s) = SumFunctionOnSet(c, S) /\ SymbolTrailLate(s) \in Int
  BY TrailType DEF SymbolTrailLate
<1>6. SymbolTrailLate(s)' = SumFunctionOnSet(d, S) /\ SymbolTrailLate(s)' \in Int
  BY TrailTypeNext DEF SymbolTrailLate, OnSymbol
<1>7. c[o] = TrailLate(o) /\ d[o] = TrailLate(o)'
  OBVIOUS
<1> HIDE DEF c, d, S
<1>8. CASE SymbolOf[o] = s
  BY <1>1, <1>3, <1>4, <1>5, <1>6, <1>7, <1>8, SumMoves
<1>9. CASE SymbolOf[o] # s
  <2>1. \A r \in S : c[r] \in Int /\ d[r] \in Int /\ c[r] <= d[r]
    BY <1>1, <1>3, <1>4, <1>9
  <2>2. SumFunctionOnSet(c, S) <= SumFunctionOnSet(d, S)
    BY <1>1, <2>1, SumLeq
  <2> QED BY <1>5, <1>6, <1>9, <2>2
<1> QED BY <1>8, <1>9

\* An order that a step does not move, or only ends, trails no more than before.
LEMMA OrderKept ==
    ASSUME IInv, ReservedByUuid, IInv', ReservedByUuid', GateAssumption, NEW r \in Orders,
           UNCHANGED <<size[r], filled[r], booked[r]>>,
           reserved'[Uuid(r)] = reserved[Uuid(r)],
           r \in Exits /\ Live(r)' => Live(r)
    PROVE  /\ Trail(r)' >= Trail(r)
           /\ counted' = counted => TrailLate(r)' >= TrailLate(r)
<1>1. Cover(r)' = Cover(r)
  BY DEF Cover, Uuid
<1>2. Owed(r)' = 0 \/ Owed(r)' = Owed(r)
  BY DEF Owed
<1>3. counted' = counted => OwedLate(r)' = 0 \/ OwedLate(r)' = OwedLate(r)
  BY DEF OwedLate
<1>4. /\ Cover(r) \in Nat /\ Owed(r) \in Nat /\ OwedLate(r) \in Nat
      /\ Trail(r) = Cover(r) - Owed(r) /\ TrailLate(r) = Cover(r) - OwedLate(r)
  BY TrailType
<1>5. /\ Trail(r)' = Cover(r)' - Owed(r)' /\ TrailLate(r)' = Cover(r)' - OwedLate(r)'
      /\ Owed(r)' \in Nat /\ OwedLate(r)' \in Nat
  BY TrailTypeNext
<1> QED BY <1>1, <1>2, <1>3, <1>4, <1>5

\* A fill of an entry finds the reservation still standing, and adds to the
\* cover; a fill of an exit adds what the book owes, or is of one given up.
LEMMA FillTrails ==
    ASSUME IInv, ReservedByUuid, IInv', ReservedByUuid', GateAssumption, ~killed,
           NEW o \in Orders, o \notin lost \cup swept, ExFill(o)
    PROVE  /\ o \in Buys => Trail(o)' = Trail(o) + 1 /\ TrailLate(o)' = TrailLate(o) + 1
           /\ o \in Exits => Trail(o)' >= Trail(o) - 1 /\ TrailLate(o)' >= TrailLate(o) - 1
<1>1. /\ ex[o] = "open" /\ filled' = [filled EXCEPT ![o] = @ + 1]
      /\ UNCHANGED <<size, reserved, booked, local, counted, pc, cur>>
  BY DEF ExFill, ExMoves, ledger, engine, loop
<1>2. /\ size[o] \in Nat /\ filled[o] \in Nat /\ booked[o] \in Nat
      /\ booked[o] <= filled[o] /\ filled'[o] = filled[o] + 1
  BY <1>1 DEF IInv, TypeOK, FillsInOrder
<1>3. reserved[Uuid(o)] \in Nat
  BY CoverLemma
<1>4. Uuid(o)' = Uuid(o)
  BY DEF Uuid
<1>5. /\ Cover(o) \in Nat /\ Owed(o) \in Nat /\ OwedLate(o) \in Nat
      /\ Trail(o) = Cover(o) - Owed(o) /\ TrailLate(o) = Cover(o) - OwedLate(o)
  BY TrailType
<1>6. /\ Cover(o)' \in Nat /\ Owed(o)' \in Nat /\ OwedLate(o)' \in Nat
      /\ Trail(o)' = Cover(o)' - Owed(o)' /\ TrailLate(o)' = Cover(o)' - OwedLate(o)'
  BY TrailTypeNext
<1>7. CASE o \in Buys
  <2>1. reserved[Uuid(o)] >= size[o] - booked[o]
    BY <1>1, <1>7 DEF IInv, ReservationCovers, Potential, Buys
  <2>2. Cover(o)' = Cover(o) + 1
    BY <1>1, <1>2, <1>3, <1>4, <2>1 DEF Cover
  <2>3. Owed(o) = 0 /\ Owed(o)' = 0 /\ OwedLate(o) = 0 /\ OwedLate(o)' = 0
    BY <1>7 DEF Owed, OwedLate, Buys
  <2> QED BY <1>5, <1>6, <1>7, <2>2, <2>3 DEF Buys
<1>8. CASE o \in Exits
  <2>1. reserved[Uuid(o)] = 0 /\ filled[o] <= size[o]
    BY <1>8 DEF ReservedByUuid, IInv, FillsInOrder
  <2>2. Cover(o) = 0
    BY <1>2, <2>1 DEF Cover
  <2>3. Live(o)' <=> Live(o)
    BY <1>1 DEF Live
  <2>4. counted[o] \in Nat
    BY <1>8 DEF IInv, TypeOK
  <2>5. Owed(o)' <= Owed(o) + 1 /\ OwedLate(o)' <= OwedLate(o) + 1
    BY <1>1, <1>2, <2>3, <2>4 DEF Owed, OwedLate
  <2> QED BY <1>5, <1>6, <1>8, <2>2, <2>5 DEF Buys
<1> QED BY <1>7, <1>8 DEF Buys

\* A response takes no more from the trail than it books.
LEMMA ResponseTrails ==
    ASSUME IInv, ReservedByUuid, IInv', ReservedByUuid', GateAssumption, ~killed,
           NEW n \in Nat, NEW o \in Orders, o = cur, SubmitReturns(n)
    PROVE  Trail(o)' >= Trail(o) - Booking(o, n) /\ Booking(o, n) \in Int
<1>1. /\ o \in Buys => reserved[Uuid(o)] = size[o]
      /\ pc = "submit" /\ booked[o] = 0
  BY DEF IInv, SubmitIsReserved, SubmitReturns, UntrackedIsUnbooked
<1>2. /\ size[o] \in Nat /\ filled[o] \in Nat /\ filled[o] <= size[o] /\ n <= filled[o]
      /\ UNCHANGED <<size, filled>> /\ reserved' = Settle(o, n) /\ pc' = "idle"
      /\ booked'[o] = n /\ local'[o] = (IF n = size[o] THEN "ended" ELSE "open")
  BY <1>1 DEF IInv, TypeOK, FillsInOrder, SubmitReturns, exch
<1>3. /\ Cover(o) \in Nat /\ Owed(o) \in Nat
      /\ Trail(o) = Cover(o) - Owed(o)
  BY TrailType
<1>4. /\ Cover(o)' \in Nat /\ Owed(o)' \in Nat
      /\ Trail(o)' = Cover(o)' - Owed(o)'
  BY TrailTypeNext
<1>5. CASE o \in Buys
  <2>1. reserved'[Uuid(o)] >= size[o] - n
    BY <1>1, <1>2, <1>5, SettleLemma DEF IInv, TypeOK
  <2>2. reserved'[Uuid(o)] \in Nat
    BY KeyLemma DEF IInv, TypeOK
  <2>3. Uuid(o)' = Uuid(o)
    BY DEF Uuid
  <2>4. Cover(o)' >= Cover(o) - n
    BY <1>1, <1>2, <1>5, <2>1, <2>2, <2>3 DEF Cover
  <2>5. Owed(o) = 0 /\ Owed(o)' = 0 /\ Booking(o, n) = n
    BY <1>1, <1>5 DEF Owed, Booking, Buys
  <2> QED BY <1>3, <1>4, <2>4, <2>5
<1>6. CASE o \in Exits
  <2>1. reserved' = reserved
    BY <1>2, <1>6 DEF Settle
  <2>2. Cover(o)' = Cover(o)
    BY <1>2, <2>1 DEF Cover, Uuid
  <2>3. Owed(o) = filled[o] /\ Booking(o, n) = -n
    BY <1>1, <1>2, <1>6 DEF Owed, Live, Booking
  <2>4. Owed(o)' = filled[o] - n
    BY <1>2, <1>6 DEF Owed, Live
  <2> QED BY <1>2, <1>3, <1>4, <2>2, <2>3, <2>4
<1> QED BY <1>5, <1>6 DEF Buys

\* And so does a push.
LEMMA PushTrails ==
    ASSUME IInv, ReservedByUuid, IInv', ReservedByUuid', GateAssumption,
           NEW o \in Orders, NEW n \in Nat, PushFills(o, n)
    PROVE  /\ Trail(o)' >= Trail(o) - Booking(o, n) /\ Booking(o, n) \in Int
           /\ TrailLate(o)' >= TrailLate(o)
<1>1. /\ n > booked[o] /\ n <= filled[o] /\ booked[o] \in Nat /\ filled[o] \in Nat
      /\ filled[o] <= size[o] /\ size[o] \in Nat /\ local[o] = "open"
      /\ UNCHANGED <<size, filled, reserved, counted, pc, cur>>
      /\ booked'[o] = n /\ local'[o] = (IF n = size[o] THEN "ended" ELSE "open")
  BY DEF PushFills, IInv, TypeOK, FillsInOrder, ledger, loop, exch
<1>2. /\ Cover(o) \in Nat /\ Owed(o) \in Nat /\ OwedLate(o) \in Nat
      /\ Trail(o) = Cover(o) - Owed(o) /\ TrailLate(o) = Cover(o) - OwedLate(o)
  BY TrailType
<1>3. /\ Cover(o)' \in Nat /\ Owed(o)' \in Nat /\ OwedLate(o)' \in Nat
      /\ Trail(o)' = Cover(o)' - Owed(o)' /\ TrailLate(o)' = Cover(o)' - OwedLate(o)'
  BY TrailTypeNext
<1>4. Cover(o)' = Cover(o)
  BY <1>1 DEF Cover, Uuid
<1>5. CASE o \in Buys
  <2>1. Owed(o) = 0 /\ Owed(o)' = 0 /\ OwedLate(o) = 0 /\ OwedLate(o)' = 0
    BY <1>5 DEF Owed, OwedLate, Buys
  <2>2. Booking(o, n) = n - booked[o]
    BY <1>5 DEF Booking, Buys
  <2> QED BY <1>1, <1>2, <1>3, <1>4, <2>1, <2>2
<1>6. CASE o \in Exits
  <2>1. Owed(o) = filled[o] - booked[o] /\ Booking(o, n) = booked[o] - n
    BY <1>1, <1>6 DEF Owed, Live, Booking
  <2>2. pc = "submit" => cur # o
    BY <1>1 DEF IInv, SubmitIsReserved
  <2>3. Owed(o)' <= filled[o] - n
    BY <1>1, <1>6, <2>2 DEF Owed, Live
  <2>4. OwedLate(o)' = 0 \/ OwedLate(o)' = OwedLate(o)
    BY <1>1, <1>6 DEF OwedLate, Live
  <2> QED BY <1>1, <1>2, <1>3, <1>4, <2>1, <2>3, <2>4
<1> QED BY <1>5, <1>6 DEF Buys

\* What is refused, or fails without being lost, had nothing filled.
LEMMA FailureTrails ==
    ASSUME IInv, ReservedByUuid, IInv', ReservedByUuid', GateAssumption,
           NEW o \in Orders, o = cur, o \notin lost', SubmitFails
    PROVE  Trail(o)' >= Trail(o)
<1>1. /\ pc = "submit" /\ size[o] > 0 /\ booked[o] = 0 /\ pc' = "idle"
      /\ local[o] = "untracked" /\ local'[o] = "untracked"
      /\ size[o] \in Nat /\ filled[o] \in Nat /\ filled[o] <= size[o]
  BY DEF IInv, TypeOK, SubmitIsReserved, UntrackedIsUnbooked, FillsInOrder, SubmitFails, engine
<1>2. reserved[Uuid(o)] \in Nat /\ reserved[Uuid(o)] <= size[o]
  BY KeyLemma DEF IInv, TypeOK, ReservedByUuid
<1>3. Cover(o) = 0
  <2>1. CASE o \in Exits
    <3>1. reserved[Uuid(o)] = 0
      BY <2>1 DEF ReservedByUuid
    <3> QED BY <1>1, <3>1 DEF Cover
  <2>2. CASE o \notin Exits
    <3>1. ~ (Potential(o) > 0)
      BY DEF SubmitFails
    <3>2. filled[o] = 0
      BY <1>1, <2>2, <3>1 DEF Potential
    <3> QED BY <1>1, <1>2, <3>2 DEF Cover
  <2> QED BY <2>1, <2>2
<1>4. Owed(o)' = 0
  BY <1>1 DEF Owed, Live
<1>5. Owed(o) \in Nat /\ Trail(o) = Cover(o) - Owed(o)
  BY TrailType
<1>6. Cover(o)' \in Nat /\ Trail(o)' = Cover(o)' - Owed(o)'
  BY TrailTypeNext
<1> QED BY <1>3, <1>4, <1>5, <1>6

\* What a sync writes trails the exchange by what it was covered for on its way,
\* unless the book already owed more: that pair is then blurred.
LEMMA SyncTrails ==
    ASSUME IInv, ReservedByUuid, IInv', ReservedByUuid', GateAssumption, SyncReturns,
           NEW s \in Symbols, s \notin blurred', snap[s] > 0
    PROVE  SymbolTrail(s)' >= SymbolTrailLate(s)
<1> DEFINE c == [r \in Orders |-> TrailLate(r)]
           d == [r \in Orders |-> Trail(r)']
           S == OnSymbol(s)
<1>1. S \subseteq Orders /\ IsFiniteSet(S)
  BY OnSymbolLemma
<1>2. /\ pc = "answered" /\ pc' = "idle" /\ UNCHANGED <<size, filled, booked, local>>
      /\ \A x \in S \cap Exits : ~ StillToSubtract(x)
  BY DEF SyncReturns, exch
<1>3. \A r \in Orders : reserved'[Uuid(r)] = reserved[Uuid(r)]
  BY KeyLemma, ReleaseLemma DEF IInv, TypeOK, SubmitIsReserved, SyncReturns
<1>4. \A r \in S : Trail(r)' \in Int /\ TrailLate(r) \in Int /\ TrailLate(r) <= Trail(r)'
  <2> TAKE r \in S
  <2>1. r \in Orders /\ Cover(r)' = Cover(r)
    BY <1>1, <1>2, <1>3 DEF Cover, Uuid
  <2>2. Owed(r)' <= OwedLate(r)
    <3>1. CASE r \in Exits /\ local[r] = "open"
      <4>1. ~ (booked[r] < counted[r])
        BY <1>2, <3>1 DEF StillToSubtract
      <4>2. booked[r] \in Nat /\ counted[r] \in Nat /\ filled[r] \in Nat
        BY <1>1, <3>1 DEF IInv, TypeOK
      <4>3. Owed(r)' = filled[r] - booked[r] /\ OwedLate(r) = filled[r] - counted[r]
        BY <1>2, <3>1 DEF Owed, OwedLate, Live
      <4> QED BY <4>1, <4>2, <4>3
    <3>2. CASE ~ (r \in Exits /\ local[r] = "open")
      BY <1>2, <3>2 DEF Owed, OwedLate, Live
    <3> QED BY <3>1, <3>2
  <2>3. Cover(r) \in Nat /\ OwedLate(r) \in Nat /\ TrailLate(r) = Cover(r) - OwedLate(r)
    BY <2>1, TrailType
  <2>4. Owed(r)' \in Nat /\ Trail(r)' = Cover(r)' - Owed(r)'
    BY <2>1, TrailTypeNext
  <2> QED BY <2>1, <2>2, <2>3, <2>4
<1>5. SymbolTrailLate(s) = SumFunctionOnSet(c, S)
  BY DEF SymbolTrailLate
<1>6. SymbolTrail(s)' = SumFunctionOnSet(d, S)
  BY DEF SymbolTrail, OnSymbol
<1>7. \A r \in S : c[r] \in Int /\ d[r] \in Int /\ c[r] <= d[r]
  BY <1>1, <1>4
<1>8. SymbolTrail(s)' \in Int /\ SymbolTrailLate(s) \in Int
  BY TrailType, TrailTypeNext
<1> HIDE DEF c, d, S
<1>9. SumFunctionOnSet(c, S) <= SumFunctionOnSet(d, S)
  BY <1>1, <1>7, SumLeq
<1> QED BY <1>5, <1>6, <1>8, <1>9

\* An answer takes every lot filled into account.
LEMMA QueryTrails ==
    ASSUME IInv, ReservedByUuid, IInv', ReservedByUuid', GateAssumption, QueryAnswered,
           NEW s \in Symbols
    PROVE  SymbolTrailLate(s)' >= 0
<1> DEFINE d == [r \in Orders |-> TrailLate(r)']
<1>1. OnSymbol(s) \subseteq Orders /\ IsFiniteSet(OnSymbol(s))
  BY OnSymbolLemma
<1>2. \A r \in Orders : TrailLate(r)' \in Int /\ TrailLate(r)' >= 0
  <2> TAKE r \in Orders
  <2>1. /\ Cover(r)' \in Nat /\ OwedLate(r)' \in Nat
        /\ TrailLate(r)' = Cover(r)' - OwedLate(r)'
    BY TrailTypeNext
  <2>2. r \in Exits => counted'[r] = filled'[r] /\ filled'[r] \in Nat
    BY DEF QueryAnswered, exch, IInv, TypeOK
  <2>3. OwedLate(r)' = 0
    BY <2>2 DEF OwedLate
  <2> QED BY <2>1, <2>3
<1>3. \A r \in OnSymbol(s) : d[r] \in Int /\ d[r] >= 0
  BY <1>1, <1>2
<1>4. SymbolTrailLate(s)' = SumFunctionOnSet(d, OnSymbol(s))
  BY DEF SymbolTrailLate, OnSymbol
<1> HIDE DEF d
<1> QED BY <1>1, <1>3, <1>4, SumType

\* What the book lacks stays covered: a fill adds to the trail, a booking only
\* takes from it what it adds to the book, and a snapshot older than a fill is
\* short of it by no more than the fill added.
LEMMA CoveredStep ==
    ASSUME IInv, IInv', ReservedByUuid, ReservedByUuid', BookCovers, AnswerCovers,
           GateAssumption, [Next]_vars
    PROVE  (BookCovers /\ AnswerCovers)'
<1> DEFINE BookSafe(s) == pos'[s] + SymbolTrail(s)' >= exPos'[s]
           AnswerSafe(s) == pc' = "answered" /\ snap'[s] > 0 =>
                              snap'[s] + SymbolTrailLate(s)' >= exPos'[s]
<1> SUFFICES ASSUME ~killed', NEW s \in Tracked' PROVE BookSafe(s) /\ AnswerSafe(s)
  BY DEF BookCovers, AnswerCovers
<1>1. ~killed /\ s \in Tracked /\ s \in Symbols
  BY TrackedStep DEF Tracked
<1>2. /\ pos[s] + SymbolTrail(s) >= exPos[s]
      /\ pc = "answered" /\ snap[s] > 0 => snap[s] + SymbolTrailLate(s) >= exPos[s]
  BY <1>1 DEF BookCovers, AnswerCovers
<1>3. /\ pos \in [Symbols -> Int] /\ exPos \in [Symbols -> Nat] /\ snap \in [Symbols -> Nat]
      /\ pos' \in [Symbols -> Int] /\ exPos' \in [Symbols -> Nat]
      /\ SymbolTrail(s) \in Int /\ SymbolTrail(s)' \in Int
      /\ SymbolTrailLate(s) \in Int /\ SymbolTrailLate(s)' \in Int
      /\ \A r \in Orders : /\ Trail(r) \in Int /\ Trail(r)' \in Int
                           /\ TrailLate(r) \in Int /\ TrailLate(r)' \in Int
  BY <1>1, TrailType, TrailTypeNext DEF IInv, TypeOK
<1>4. \A o \in OnSymbol(s) : o \in Orders /\ SymbolOf[o] = s
                             /\ o \notin lost' \cup swept' /\ o \notin lost \cup swept
  BY <1>1, TrackedStep DEF Tracked, OnSymbol
\* A step that moves no order but o, and what it makes of o's trail.
<1> DEFINE Kept(o) == \A r \in OnSymbol(s) \ {o} :
                        /\ Trail(r)' >= Trail(r)
                        /\ pc' = "answered" => TrailLate(r)' >= TrailLate(r)
<1>5. ASSUME NEW o \in Orders, Kept(o)
      PROVE  /\ SymbolOf[o] = s => SymbolTrail(s)' >= SymbolTrail(s) + (Trail(o)' - Trail(o))
             /\ SymbolOf[o] # s => SymbolTrail(s)' >= SymbolTrail(s)
             /\ pc' = "answered" =>
                  /\ SymbolOf[o] = s =>
                       SymbolTrailLate(s)' >= SymbolTrailLate(s) + (TrailLate(o)' - TrailLate(o))
                  /\ SymbolOf[o] # s => SymbolTrailLate(s)' >= SymbolTrailLate(s)
  BY <1>1, <1>3, <1>5, TrailMoves, TrailLateMoves
<1>6. ASSUME NEW o \in Orders, Kept(o), SymbolOf[o] = s => Trail(o)' >= Trail(o)
      PROVE  SymbolTrail(s)' >= SymbolTrail(s)
  <2> HIDE DEF Kept
  <2> QED BY <1>3, <1>5, <1>6
<1>7. ASSUME UNCHANGED <<size, filled, booked>>,
             \A r \in Orders : reserved'[Uuid(r)] = reserved[Uuid(r)],
             \A r \in Exits : Live(r)' => Live(r)
      PROVE  /\ SymbolTrail(s)' >= SymbolTrail(s)
             /\ pc' = "answered" /\ counted' = counted => SymbolTrailLate(s)' >= SymbolTrailLate(s)
  <2>1. \A r \in Orders : /\ Trail(r)' >= Trail(r)
                          /\ counted' = counted => TrailLate(r)' >= TrailLate(r)
    BY <1>7, OrderKept
  <2>2. CASE OnSymbol(s) = {}
    <3>1. SymbolTrail(s) = 0 /\ SymbolTrailLate(s) = 0
      BY <2>2, SumEmpty DEF SymbolTrail, SymbolTrailLate
    <3>2. SymbolTrail(s)' = 0 /\ SymbolTrailLate(s)' = 0
      BY <2>2, SumEmpty DEF SymbolTrail, SymbolTrailLate, OnSymbol
    <3> QED BY <3>1, <3>2
  <2>3. ASSUME NEW o \in OnSymbol(s)
        PROVE  /\ SymbolTrail(s)' >= SymbolTrail(s)
               /\ counted' = counted => SymbolTrailLate(s)' >= SymbolTrailLate(s)
    <3>1. o \in Orders /\ SymbolOf[o] = s
      BY <1>4
    <3>2. SymbolTrail(s)' >= SymbolTrail(s) + (Trail(o)' - Trail(o))
      BY <1>1, <1>4, <2>1, <3>1, TrailMoves
    <3>3. counted' = counted =>
            SymbolTrailLate(s)' >= SymbolTrailLate(s) + (TrailLate(o)' - TrailLate(o))
      BY <1>1, <1>4, <2>1, <3>1, TrailLateMoves
    <3> QED BY <1>3, <2>1, <3>1, <3>2, <3>3
  <2> QED BY <2>2, <2>3
<1>8. CASE \E o \in Orders, n \in 1..Cap : EntrySignal(o, n)
  <2>1. PICK o \in Orders, n \in 1..Cap : EntrySignal(o, n)
    BY <1>8
  <2>2. /\ o \in Buys /\ size[o] = 0 /\ pc = "idle" /\ pc' = "submit" /\ cur' = o
        /\ UNCHANGED <<filled, booked, local, pos, exPos>>
        /\ size' = [size EXCEPT ![o] = n] /\ reserved' = [reserved EXCEPT ![Uuid(o)] = n]
    BY <2>1 DEF EntrySignal, engine, Reserve
  <2>3. Kept(o)
    <3> SUFFICES ASSUME NEW r \in OnSymbol(s), r # o PROVE Trail(r)' >= Trail(r)
      BY <2>2
    <3>1. /\ r \in Orders /\ size'[r] = size[r] /\ reserved'[Uuid(r)] = reserved[Uuid(r)]
          /\ Live(r)' => Live(r)
      BY <1>4, <2>2, KeyLemma DEF IInv, TypeOK, Live
    <3> QED BY <2>2, <3>1, OrderKept
  <2>4. Trail(o)' >= Trail(o)
    <3>1. Cover(o) = 0 /\ Owed(o) \in Nat /\ Trail(o) = Cover(o) - Owed(o)
      <4>1. filled[o] = 0 /\ reserved[Uuid(o)] = 0
        BY <2>2, KeyLemma DEF IInv, TypeOK, FillsInOrder, ReservedByUuid
      <4> QED BY <2>2, <4>1, TrailType DEF Cover
    <3>2. Owed(o)' = 0 /\ Cover(o)' \in Nat /\ Trail(o)' = Cover(o)' - Owed(o)'
      BY <2>2, TrailTypeNext DEF Owed, Buys
    <3> QED BY <3>1, <3>2
  <2>5. SymbolTrail(s)' >= SymbolTrail(s)
    BY <1>6, <2>3, <2>4
  <2> QED BY <1>1, <1>2, <1>3, <2>2, <2>5
<1>9. CASE \E x \in Orders : ExitSignal(x)
  <2>1. PICK x \in Orders : ExitSignal(x)
    BY <1>9
  <2>2. /\ x \in Exits /\ size[x] = 0 /\ pc = "idle" /\ pc' = "submit" /\ cur' = x
        /\ UNCHANGED <<filled, booked, local, pos, exPos, reserved>>
        /\ size' = [size EXCEPT ![x] = pos[SymbolOf[x]]]
    BY <2>1 DEF ExitSignal, ledger, engine
  <2>3. Kept(x)
    <3> SUFFICES ASSUME NEW r \in OnSymbol(s), r # x PROVE Trail(r)' >= Trail(r)
      BY <2>2
    <3>1. r \in Orders /\ size'[r] = size[r] /\ (Live(r)' => Live(r))
      BY <1>4, <2>2 DEF IInv, TypeOK, Live
    <3> QED BY <2>2, <3>1, OrderKept
  <2>4. Trail(x)' >= Trail(x)
    <3>1. filled[x] = 0 /\ booked[x] = 0 /\ reserved[Uuid(x)] = 0
      BY <2>2, KeyLemma DEF IInv, TypeOK, FillsInOrder, ReservedByUuid
    <3>2. Cover(x) = 0 /\ Owed(x) \in Nat /\ Trail(x) = Cover(x) - Owed(x)
      BY <2>2, <3>1, TrailType DEF Cover
    <3>3. Owed(x)' = 0 /\ Cover(x)' \in Nat /\ Trail(x)' = Cover(x)' - Owed(x)'
      BY <2>2, <3>1, TrailTypeNext DEF Owed
    <3> QED BY <3>2, <3>3
  <2>5. SymbolTrail(s)' >= SymbolTrail(s)
    BY <1>6, <2>3, <2>4
  <2> QED BY <1>1, <1>2, <1>3, <2>2, <2>5
<1>10. CASE \E n \in Nat : SubmitReturns(n)
  <2>1. PICK n \in Nat : SubmitReturns(n)
    BY <1>10
  <2>2. PICK o \in Orders : o = cur
    BY <2>1 DEF IInv, SubmitIsReserved, SubmitReturns
  <2>3. /\ pc = "submit" /\ pc' = "idle" /\ exPos' = exPos
        /\ pos' = [pos EXCEPT ![SymbolOf[o]] = @ + Booking(o, n)]
        /\ reserved' = Settle(o, n) /\ UNCHANGED <<size, filled>>
        /\ booked' = [booked EXCEPT ![o] = n]
        /\ \A r \in Orders : r # o => local'[r] = local[r]
    BY <2>1, <2>2 DEF SubmitReturns, exch, IInv, TypeOK
  <2>4. Kept(o)
    <3> SUFFICES ASSUME NEW r \in OnSymbol(s), r # o PROVE Trail(r)' >= Trail(r)
      BY <2>3
    <3>1. /\ r \in Orders /\ booked'[r] = booked[r] /\ (Live(r)' => Live(r))
      BY <1>4, <2>3 DEF IInv, TypeOK, Live
    <3>2. reserved'[Uuid(r)] = reserved[Uuid(r)]
      BY <2>2, <2>3, <3>1, KeyLemma, SettleLemma DEF IInv, TypeOK
    <3> QED BY <2>3, <3>1, <3>2, OrderKept
  <2>5. Trail(o)' >= Trail(o) - Booking(o, n) /\ Booking(o, n) \in Int
    BY <1>1, <2>1, <2>2, ResponseTrails
  <2>6. CASE SymbolOf[o] = s
    <3>1. SymbolTrail(s)' >= SymbolTrail(s) + (Trail(o)' - Trail(o))
      <4> HIDE DEF Kept
      <4> QED BY <1>5, <2>4, <2>6
    <3>2. pos'[s] = pos[s] + Booking(o, n)
      BY <1>1, <1>3, <2>3, <2>6
    <3> QED BY <1>1, <1>2, <1>3, <2>3, <2>5, <3>1, <3>2
  <2>7. CASE SymbolOf[o] # s
    <3>1. SymbolTrail(s)' >= SymbolTrail(s)
      BY <1>6, <2>4, <2>7
    <3>2. pos'[s] = pos[s]
      BY <1>1, <1>3, <2>3, <2>7
    <3> QED BY <1>1, <1>2, <1>3, <2>3, <3>1, <3>2
  <2> QED BY <2>6, <2>7
<1>11. CASE SubmitFails
  <2>1. PICK o \in Orders : o = cur
    BY <1>11 DEF IInv, SubmitIsReserved, SubmitFails
  <2>2. /\ pc = "submit" /\ pc' = "idle" /\ exPos' = exPos /\ pos' = pos
        /\ reserved' = Release(Uuid(o)) /\ UNCHANGED <<size, filled, booked, local>>
    BY <1>11, <2>1 DEF SubmitFails, exch, engine
  <2>3. Kept(o)
    <3> SUFFICES ASSUME NEW r \in OnSymbol(s), r # o PROVE Trail(r)' >= Trail(r)
      BY <2>2
    <3>1. r \in Orders /\ (Live(r)' => Live(r))
      BY <1>4, <2>2 DEF Live
    <3>2. reserved'[Uuid(r)] = reserved[Uuid(r)]
      BY <2>2, <3>1, KeyLemma, ReleaseLemma DEF IInv, TypeOK
    <3> QED BY <2>2, <3>1, <3>2, OrderKept
  <2>4. SymbolOf[o] = s => Trail(o)' >= Trail(o)
    <3>1. SymbolOf[o] = s => o \notin lost'
      BY <1>4 DEF OnSymbol
    <3> QED BY <1>11, <2>1, <3>1, FailureTrails
  <2>5. SymbolTrail(s)' >= SymbolTrail(s)
    BY <1>6, <2>3, <2>4
  <2> QED BY <1>1, <1>2, <1>3, <2>2, <2>5
<1>12. CASE \E o \in Orders, n \in Nat : PushFills(o, n)
  <2>1. PICK o \in Orders, n \in Nat : PushFills(o, n)
    BY <1>12
  <2>2. /\ UNCHANGED <<reserved, size, filled, exPos, snap, counted, pc, cur>>
        /\ pos' = [pos EXCEPT ![SymbolOf[o]] = @ + Booking(o, n)]
        /\ booked' = [booked EXCEPT ![o] = n]
        /\ \A r \in Orders : r # o => local'[r] = local[r]
    BY <2>1 DEF PushFills, exch, ledger, loop, IInv, TypeOK
  <2>3. Kept(o)
    <3> SUFFICES ASSUME NEW r \in OnSymbol(s), r # o
                 PROVE  Trail(r)' >= Trail(r) /\ TrailLate(r)' >= TrailLate(r)
      OBVIOUS
    <3>1. r \in Orders /\ booked'[r] = booked[r] /\ (Live(r)' => Live(r))
      BY <1>4, <2>2 DEF IInv, TypeOK, Live
    <3> QED BY <2>2, <3>1, OrderKept
  <2>4. /\ Trail(o)' >= Trail(o) - Booking(o, n) /\ Booking(o, n) \in Int
        /\ TrailLate(o)' >= TrailLate(o)
    BY <2>1, PushTrails
  <2>5. /\ SymbolOf[o] = s => SymbolTrail(s)' >= SymbolTrail(s) + (Trail(o)' - Trail(o))
        /\ SymbolOf[o] # s => SymbolTrail(s)' >= SymbolTrail(s)
        /\ pc' = "answered" => SymbolTrailLate(s)' >= SymbolTrailLate(s)
    <3> HIDE DEF Kept
    <3> QED BY <1>3, <1>5, <2>3, <2>4
  <2>6. AnswerSafe(s)
    BY <1>1, <1>2, <1>3, <2>2, <2>5
  <2>7. CASE SymbolOf[o] = s
    <3>1. pos'[s] = pos[s] + Booking(o, n)
      BY <1>1, <1>3, <2>2, <2>7
    <3>2. BookSafe(s)
      BY <1>1, <1>2, <1>3, <2>2, <2>4, <2>5, <2>7, <3>1
    <3> QED BY <2>6, <3>2
  <2>8. CASE SymbolOf[o] # s
    <3>1. pos'[s] = pos[s]
      BY <1>1, <1>3, <2>2, <2>8
    <3>2. BookSafe(s)
      BY <1>1, <1>2, <1>3, <2>2, <2>5, <2>8, <3>1
    <3> QED BY <2>6, <3>2
  <2> QED BY <2>7, <2>8
<1>13. CASE \/ \E o \in Orders : PushCanceled(o) \/ TimeOut(o)
            \/ \E ok \in BOOLEAN : CancelReturns(ok)
            \/ SyncFails
            \/ \E o \in Orders : ExAccept(o) \/ ExRefuse(o) \/ ExCancel(o)
            \/ UNCHANGED vars
  <2>1. /\ UNCHANGED <<size, filled, exPos, pos, booked>>
        /\ UNCHANGED <<snap, counted, pc>> \/ pc' # "answered"
        /\ UNCHANGED reserved \/ (SyncFails /\ reserved' = Release(ExchangeId(cur)))
        /\ \A r \in Orders : local'[r] = "open" => local[r] = "open"
        /\ UNCHANGED <<pc, cur>> \/ pc' # "submit"
    BY <1>13 DEF PushCanceled, TimeOut, CancelReturns, SyncFails, ExAccept, ExRefuse, ExCancel,
       ExMoves, ledger, engine, loop, exch, vars, IInv, TypeOK
  <2>2. \A o \in Orders : reserved'[Uuid(o)] = reserved[Uuid(o)]
    BY <2>1, KeyLemma, ReleaseLemma DEF IInv, TypeOK, SubmitIsReserved, SyncFails
  <2>3. \A r \in Exits : Live(r)' => Live(r)
    BY <2>1 DEF Live, GateAssumption
  <2>4. /\ SymbolTrail(s)' >= SymbolTrail(s)
        /\ pc' = "answered" /\ counted' = counted => SymbolTrailLate(s)' >= SymbolTrailLate(s)
    BY <1>7, <2>1, <2>2, <2>3
  <2> QED BY <1>1, <1>2, <1>3, <2>1, <2>4
<1>14. CASE QueryAnswered
  <2>1. /\ UNCHANGED <<size, filled, exPos, pos, reserved, booked, local>> /\ snap' = exPos
        /\ pc' = "answered"
    BY <1>14 DEF QueryAnswered, ledger, engine, exch
  <2>2. \A r \in Exits : Live(r)' => Live(r)
    BY <2>1 DEF Live
  <2>3. SymbolTrail(s)' >= SymbolTrail(s)
    BY <1>7, <2>1, <2>2
  <2>4. SymbolTrailLate(s)' >= 0
    BY <1>1, <1>14, QueryTrails
  <2> QED BY <1>1, <1>2, <1>3, <2>1, <2>3, <2>4
<1>15. CASE SyncReturns
  <2>1. /\ UNCHANGED <<size, filled, exPos, booked, local>> /\ pc' = "idle" /\ pc = "answered"
        /\ pos' = [t \in Symbols |-> IF snap[t] > 0 THEN snap[t] ELSE pos[t]]
        /\ reserved' = Release(ExchangeId(cur)) /\ cur \in Orders
    BY <1>15 DEF SyncReturns, exch, IInv, SubmitIsReserved
  <2>2. \A o \in Orders : reserved'[Uuid(o)] = reserved[Uuid(o)]
    BY <2>1, KeyLemma, ReleaseLemma DEF IInv, TypeOK
  <2>3. CASE snap[s] > 0
    <3>1. s \notin blurred'
      BY DEF Tracked
    <3>2. SymbolTrail(s)' >= SymbolTrailLate(s)
      BY <1>1, <1>15, <2>3, <3>1, SyncTrails
    <3> QED BY <1>1, <1>2, <1>3, <2>1, <2>3, <3>2
  <2>4. CASE ~ (snap[s] > 0)
    <3>1. \A r \in Exits : Live(r)' => Live(r)
      BY <2>1 DEF Live
    <3>2. SymbolTrail(s)' >= SymbolTrail(s)
      BY <1>7, <2>1, <2>2, <3>1
    <3> QED BY <1>1, <1>2, <1>3, <2>1, <2>4, <3>2
  <2> QED BY <2>3, <2>4
<1>16. CASE \E o \in Orders : Sweep(o)
  <2>1. PICK o \in Orders : Sweep(o)
    BY <1>16
  <2>2. /\ UNCHANGED <<size, filled, booked, local, exPos, pos, snap, counted, pc, cur>>
        /\ o \in swept' /\ reserved' = Release(Uuid(o)) /\ pc = "idle"
    BY <2>1 DEF Sweep, engine, loop, exch
  <2>3. Kept(o)
    <3> SUFFICES ASSUME NEW r \in OnSymbol(s), r # o PROVE Trail(r)' >= Trail(r)
      BY <2>2
    <3>1. r \in Orders /\ (Live(r)' => Live(r))
      BY <1>4, <2>2 DEF Live
    <3>2. reserved'[Uuid(r)] = reserved[Uuid(r)]
      BY <2>2, <3>1, KeyLemma, ReleaseLemma DEF IInv, TypeOK
    <3> QED BY <2>2, <3>1, <3>2, OrderKept
  <2>4. SymbolOf[o] # s
    BY <1>4, <2>2 DEF OnSymbol
  <2>5. SymbolTrail(s)' >= SymbolTrail(s)
    BY <1>6, <2>3, <2>4
  <2> QED BY <1>1, <1>2, <1>3, <2>2, <2>5
<1>17. CASE ReleaseAll
  BY <1>17 DEF ReleaseAll
<1>18. CASE \E o \in Orders : ExFill(o)
  <2>1. PICK o \in Orders : ExFill(o)
    BY <1>18
  <2>2. /\ UNCHANGED <<size, reserved, booked, local, pos, snap, counted, pc, cur>>
        /\ exPos' = [exPos EXCEPT ![SymbolOf[o]] = IF o \in Exits THEN @ - 1 ELSE @ + 1]
        /\ filled' = [filled EXCEPT ![o] = @ + 1]
    BY <2>1 DEF ExFill, ExMoves, ledger, engine, loop
  <2>3. Kept(o)
    <3> SUFFICES ASSUME NEW r \in OnSymbol(s), r # o
                 PROVE  Trail(r)' >= Trail(r) /\ TrailLate(r)' >= TrailLate(r)
      OBVIOUS
    <3>1. r \in Orders /\ filled'[r] = filled[r] /\ (Live(r)' => Live(r))
      BY <1>4, <2>2 DEF IInv, TypeOK, Live
    <3> QED BY <2>2, <3>1, OrderKept
  <2>4. /\ SymbolOf[o] = s => SymbolTrail(s)' >= SymbolTrail(s) + (Trail(o)' - Trail(o))
        /\ SymbolOf[o] # s => SymbolTrail(s)' >= SymbolTrail(s)
        /\ pc' = "answered" =>
             /\ SymbolOf[o] = s =>
                  SymbolTrailLate(s)' >= SymbolTrailLate(s) + (TrailLate(o)' - TrailLate(o))
             /\ SymbolOf[o] # s => SymbolTrailLate(s)' >= SymbolTrailLate(s)
    <3> HIDE DEF Kept
    <3> QED BY <1>5, <2>3
  <2>5. CASE SymbolOf[o] = s
    <3>1. o \notin lost \cup swept
      BY <1>4, <2>5 DEF OnSymbol
    <3>2. /\ o \in Buys => Trail(o)' = Trail(o) + 1 /\ TrailLate(o)' = TrailLate(o) + 1
          /\ o \in Exits => Trail(o)' >= Trail(o) - 1 /\ TrailLate(o)' >= TrailLate(o) - 1
      BY <1>1, <2>1, <3>1, FillTrails
    <3>3. exPos'[s] = IF o \in Exits THEN exPos[s] - 1 ELSE exPos[s] + 1
      BY <1>1, <1>3, <2>2, <2>5
    <3>4. /\ o \in Exits => SymbolTrail(s)' >= SymbolTrail(s) - 1
          /\ o \notin Exits => SymbolTrail(s)' >= SymbolTrail(s) + 1
      BY <1>3, <2>4, <2>5, <3>2 DEF Buys
    <3>5. pc' = "answered" =>
            /\ o \in Exits => SymbolTrailLate(s)' >= SymbolTrailLate(s) - 1
            /\ o \notin Exits => SymbolTrailLate(s)' >= SymbolTrailLate(s) + 1
      BY <1>3, <2>4, <2>5, <3>2 DEF Buys
    <3>6. exPos[s] \in Int /\ pos[s] \in Int /\ snap[s] \in Int
      BY <1>1, <1>3
    <3>7. BookSafe(s)
      BY <1>2, <1>3, <2>2, <3>3, <3>4, <3>6
    <3>8. AnswerSafe(s)
      BY <1>2, <1>3, <2>2, <3>3, <3>5, <3>6
    <3> QED BY <3>7, <3>8
  <2>6. CASE SymbolOf[o] # s
    <3>1. exPos'[s] = exPos[s]
      BY <1>1, <1>3, <2>2, <2>6
    <3> QED BY <1>1, <1>2, <1>3, <2>2, <2>4, <2>6, <3>1
  <2> QED BY <2>5, <2>6
<1> HIDE DEF BookSafe, AnswerSafe
<1> QED BY <1>8, <1>9, <1>10, <1>11, <1>12, <1>13, <1>14, <1>15, <1>16, <1>17, <1>18 DEF Next

-----------------------------------------------------------------------------
(***************************************************************************)
(* What is at stake on the exchange only grows by an entry.                *)
(***************************************************************************)

LEMMA ExposureType ==
    IInv /\ ReservedByUuid =>
        /\ \A o \in Orders : OpenLots(o) \in Nat
        /\ \A s \in Symbols : Exposure(s) \in Nat
<1> SUFFICES ASSUME IInv, ReservedByUuid, NEW s \in Symbols
             PROVE  (\A o \in Orders : OpenLots(o) \in Nat) /\ Exposure(s) \in Nat
  <2>1. IInv /\ ReservedByUuid => \A o \in Orders : OpenLots(o) \in Nat
    BY CoverLemma, GateAssumption
  <2> QED BY <2>1
<1> DEFINE l == [o \in Orders |-> OpenLots(o)]
<1>1. OnSymbol(s) \subseteq Orders /\ IsFiniteSet(OnSymbol(s))
  BY OnSymbolLemma, GateAssumption
<1>2. \A o \in Orders : OpenLots(o) \in Nat
  BY CoverLemma, GateAssumption
<1>3. \A o \in OnSymbol(s) : l[o] \in Int /\ l[o] >= 0
  BY <1>1, <1>2
<1>4. Exposure(s) = exPos[s] + SumFunctionOnSet(l, OnSymbol(s))
  BY DEF Exposure
<1> HIDE DEF l
<1>5. SumFunctionOnSet(l, OnSymbol(s)) \in Nat
  BY <1>1, <1>3, SumType
<1>6. exPos[s] \in Nat
  BY DEF IInv, TypeOK
<1> QED BY <1>2, <1>4, <1>5, <1>6

LEMMA ExposureTypeNext ==
    IInv' /\ ReservedByUuid' =>
        (/\ \A o \in Orders : OpenLots(o) \in Nat
         /\ \A s \in Symbols : Exposure(s) \in Nat)'
BY ExposureType, PTL

\* Where one order's open lots change, the exposure of its pair follows.
LEMMA OpenMoves ==
    ASSUME IInv, ReservedByUuid, IInv', ReservedByUuid', GateAssumption,
           NEW s \in Symbols, NEW o \in Orders,
           \A r \in Orders : r # o => OpenLots(r)' = OpenLots(r)
    PROVE  Exposure(s)' - exPos'[s] <=
             (Exposure(s) - exPos[s])
             + (IF SymbolOf[o] = s THEN OpenLots(o)' - OpenLots(o) ELSE 0)
<1> DEFINE l == [r \in Orders |-> OpenLots(r)]
           m == [r \in Orders |-> OpenLots(r)']
           S == OnSymbol(s)
<1>1. S \subseteq Orders /\ IsFiniteSet(S) /\ (o \in S <=> SymbolOf[o] = s)
  BY OnSymbolLemma
<1>2. \A r \in Orders : OpenLots(r) \in Nat /\ OpenLots(r)' \in Nat
  BY ExposureType, ExposureTypeNext
<1>3. \A r \in S : l[r] \in Int /\ m[r] \in Int
  BY <1>1, <1>2
<1>4. \A r \in S \ {o} : l[r] = m[r]
  BY <1>1
<1>5. Exposure(s) = exPos[s] + SumFunctionOnSet(l, S)
  BY DEF Exposure
<1>6. Exposure(s)' = exPos'[s] + SumFunctionOnSet(m, S)
  BY DEF Exposure, OnSymbol
<1>7. l[o] = OpenLots(o) /\ m[o] = OpenLots(o)'
  OBVIOUS
<1>8. exPos[s] \in Nat /\ exPos'[s] \in Nat
  BY DEF IInv, TypeOK
<1> HIDE DEF l, m, S
<1>9. SumFunctionOnSet(l, S) \in Int /\ SumFunctionOnSet(m, S) \in Int
  BY <1>1, <1>3, SumType
<1>10. CASE SymbolOf[o] = s
  <2>1. SumFunctionOnSet(m, S) = SumFunctionOnSet(l, S) + (m[o] - l[o])
    BY <1>1, <1>3, <1>4, <1>10, SumUpdate
  <2> QED BY <1>2, <1>5, <1>6, <1>7, <1>8, <1>9, <1>10, <2>1
<1>11. CASE SymbolOf[o] # s
  <2>1. \A r \in S : m[r] \in Int /\ l[r] \in Int /\ m[r] <= l[r]
    BY <1>1, <1>3, <1>4, <1>11
  <2>2. SumFunctionOnSet(m, S) <= SumFunctionOnSet(l, S)
    BY <1>1, <2>1, SumLeq
  <2> QED BY <1>5, <1>6, <1>8, <1>9, <1>11, <2>2
<1> QED BY <1>10, <1>11

\* And where none changes, it moves with the exchange's position alone.
LEMMA OpenKept ==
    ASSUME IInv, ReservedByUuid, IInv', ReservedByUuid', GateAssumption,
           NEW s \in Symbols, UNCHANGED <<ex, size, filled>>
    PROVE  Exposure(s)' - exPos'[s] = Exposure(s) - exPos[s]
<1> DEFINE l == [r \in Orders |-> OpenLots(r)]
           m == [r \in Orders |-> OpenLots(r)']
<1>1. l = m
  BY DEF OpenLots
<1>2. /\ Exposure(s) = exPos[s] + SumFunctionOnSet(l, OnSymbol(s))
      /\ Exposure(s)' = exPos'[s] + SumFunctionOnSet(m, OnSymbol(s))
  BY DEF Exposure, OnSymbol
<1> HIDE DEF l, m
<1>3. exPos[s] \in Nat /\ exPos'[s] \in Nat /\ Exposure(s) \in Nat /\ Exposure(s)' \in Nat
  BY ExposureType, ExposureTypeNext DEF IInv, TypeOK
<1>4. \A a, b, c, d, x \in Int : c = a + x /\ d = b + x => d - b = c - a
  OBVIOUS
<1>5. SumFunctionOnSet(l, OnSymbol(s)) \in Int
  <2>1. \A r \in OnSymbol(s) : l[r] \in Int
    BY ExposureType, OnSymbolLemma DEF l
  <2> QED BY <2>1, OnSymbolLemma, SumType
<1> QED BY <1>1, <1>2, <1>3, <1>4, <1>5

\* An entry adds what it submits, and no other step adds anything.
LEMMA ExposureStep ==
    ASSUME IInv, ReservedByUuid, IInv', ReservedByUuid', GateAssumption, [Next]_vars,
           NEW s \in Symbols
    PROVE  \/ Exposure(s)' <= Exposure(s)
           \/ \E o \in Orders, n \in 1..Cap :
                EntrySignal(o, n) /\ SymbolOf[o] = s /\ Exposure(s)' <= Exposure(s) + n
<1>1. exPos[s] \in Nat /\ exPos'[s] \in Nat /\ Exposure(s) \in Nat /\ Exposure(s)' \in Nat
  BY ExposureType, ExposureTypeNext DEF IInv, TypeOK
<1>2. CASE \E o \in Orders, n \in 1..Cap : EntrySignal(o, n)
  <2>1. PICK o \in Orders, n \in 1..Cap : EntrySignal(o, n)
    BY <1>2
  <2>2. \A r \in Orders : r # o => OpenLots(r)' = OpenLots(r)
    BY <2>1 DEF EntrySignal, OpenLots, IInv, TypeOK
  <2>3. OpenLots(o) = 0 /\ OpenLots(o)' = n /\ exPos' = exPos
    BY <2>1 DEF EntrySignal, OpenLots, IInv, TypeOK, StatusFitsFills
  <2>4. Exposure(s)' - exPos'[s] <=
             (Exposure(s) - exPos[s])
             + (IF SymbolOf[o] = s THEN OpenLots(o)' - OpenLots(o) ELSE 0)
    BY <2>2, OpenMoves
  <2> QED BY <1>1, <2>1, <2>3, <2>4
<1>3. CASE \E o \in Orders : ExAccept(o) \/ ExRefuse(o) \/ ExCancel(o)
  <2>1. PICK o \in Orders : ExAccept(o) \/ ExRefuse(o) \/ ExCancel(o)
    BY <1>3
  <2>2. \A r \in Orders : r # o => OpenLots(r)' = OpenLots(r)
    BY <2>1 DEF ExAccept, ExRefuse, ExCancel, ExMoves, OpenLots, IInv, TypeOK
  <2>3. OpenLots(o)' \in {OpenLots(o), 0} /\ exPos' = exPos
    BY <2>1 DEF ExAccept, ExRefuse, ExCancel, ExMoves, OpenLots, IInv, TypeOK
  <2>4. Exposure(s)' - exPos'[s] <=
             (Exposure(s) - exPos[s])
             + (IF SymbolOf[o] = s THEN OpenLots(o)' - OpenLots(o) ELSE 0)
    BY <2>2, OpenMoves
  <2>5. OpenLots(o) \in Nat
    BY ExposureType
  <2> QED BY <1>1, <2>3, <2>4, <2>5
<1>4. CASE \E o \in Orders : ExFill(o)
  <2>1. PICK o \in Orders : ExFill(o)
    BY <1>4
  <2>2. \A r \in Orders : r # o => OpenLots(r)' = OpenLots(r)
    BY <2>1 DEF ExFill, ExMoves, OpenLots, IInv, TypeOK
  <2>3. /\ ex[o] = "open" /\ filled' = [filled EXCEPT ![o] = @ + 1] /\ size' = size
        /\ ex' = [ex EXCEPT ![o] = IF filled[o] + 1 = size[o] THEN "done" ELSE "open"]
        /\ exPos' = [exPos EXCEPT ![SymbolOf[o]] = IF o \in Exits THEN @ - 1 ELSE @ + 1]
    BY <2>1 DEF ExFill, ExMoves
  <2>4. Exposure(s)' - exPos'[s] <=
             (Exposure(s) - exPos[s])
             + (IF SymbolOf[o] = s THEN OpenLots(o)' - OpenLots(o) ELSE 0)
    BY <2>2, OpenMoves
  <2>5. OpenLots(o) \in Nat
    BY ExposureType
  <2>6. CASE o \in Exits
    <3>1. OpenLots(o) = 0 /\ OpenLots(o)' = 0
      BY <2>6 DEF OpenLots, Buys
    <3>2. exPos'[s] = IF SymbolOf[o] = s THEN exPos[s] - 1 ELSE exPos[s]
      BY <2>3, <2>6 DEF IInv, TypeOK
    <3> QED BY <1>1, <2>4, <3>1, <3>2
  <2>7. CASE o \notin Exits
    <3>1. size[o] \in Nat /\ filled[o] \in Nat /\ filled'[o] = filled[o] + 1
      BY <2>3 DEF IInv, TypeOK
    <3>2. ex'[o] = IF filled[o] + 1 = size[o] THEN "done" ELSE "open"
      BY <2>3 DEF IInv, TypeOK
    <3>3. OpenLots(o)' = OpenLots(o) - 1
      BY <2>3, <2>7, <3>1, <3>2 DEF OpenLots, Buys
    <3>4. exPos'[s] = IF SymbolOf[o] = s THEN exPos[s] + 1 ELSE exPos[s]
      BY <2>3, <2>7 DEF IInv, TypeOK
    <3> QED BY <1>1, <2>4, <2>5, <3>3, <3>4
  <2> QED BY <2>6, <2>7
<1>5. CASE UNCHANGED <<ex, size, filled>> /\ exPos'[s] <= exPos[s]
  <2>1. Exposure(s)' - exPos'[s] = Exposure(s) - exPos[s]
    BY <1>5, OpenKept
  <2> QED BY <1>1, <1>5, <2>1
<1>6. CASE \E x \in Orders : ExitSignal(x)
  <2>1. PICK x \in Orders : ExitSignal(x)
    BY <1>6
  <2>2. \A r \in Orders : r # x => OpenLots(r)' = OpenLots(r)
    BY <2>1 DEF ExitSignal, OpenLots, IInv, TypeOK
  <2>3. OpenLots(x) = 0 /\ OpenLots(x)' = 0 /\ exPos' = exPos
    BY <2>1 DEF ExitSignal, OpenLots, Buys
  <2>4. Exposure(s)' - exPos'[s] <=
             (Exposure(s) - exPos[s])
             + (IF SymbolOf[x] = s THEN OpenLots(x)' - OpenLots(x) ELSE 0)
    BY <2>2, OpenMoves
  <2> QED BY <1>1, <2>3, <2>4
<1>7. (\/ \E n \in Nat : SubmitReturns(n)
       \/ SubmitFails
       \/ \E r \in Orders, n \in Nat : PushFills(r, n)
       \/ \E r \in Orders : PushCanceled(r) \/ TimeOut(r) \/ Sweep(r)
       \/ \E ok \in BOOLEAN : CancelReturns(ok)
       \/ QueryAnswered
       \/ SyncReturns
       \/ SyncFails
       \/ ReleaseAll
       \/ UNCHANGED vars)
      => UNCHANGED <<ex, size, filled, exPos>>
  BY DEF SubmitReturns, SubmitFails, PushFills, PushCanceled, TimeOut, CancelReturns, Sweep,
         QueryAnswered, SyncReturns, SyncFails, ReleaseAll, exch, vars
<1>8. UNCHANGED <<ex, size, filled, exPos>> =>
        UNCHANGED <<ex, size, filled>> /\ exPos'[s] <= exPos[s]
  BY <1>1
<1> QED BY <1>2, <1>3, <1>4, <1>5, <1>6, <1>7, <1>8 DEF Next

-----------------------------------------------------------------------------
(***************************************************************************)
(* The limits.                                                             *)
(***************************************************************************)

LEMMA PendingType ==
    IInv /\ ReservedByUuid =>
        \A s \in Symbols :
            /\ PendingFor(s) \in Nat
            /\ PendingFor(s) > 0 <=> \E o \in OnSymbol(s) : reserved[Uuid(o)] > 0
BY PendingLemma, GateAssumption

LEMMA PendingTypeNext ==
    IInv' /\ ReservedByUuid' =>
        (\A s \in Symbols :
            /\ PendingFor(s) \in Nat
            /\ PendingFor(s) > 0 <=> \E o \in OnSymbol(s) : reserved[Uuid(o)] > 0)'
BY PendingType, PTL

LEMMA SeenType ==
    IInv /\ ReservedByUuid /\ BookCovers => ExposureSeen
BY SeenLemma, GateAssumption

LEMMA SeenNext ==
    IInv' /\ ReservedByUuid' /\ BookCovers' => ExposureSeen'
BY SeenType, PTL

\* An entry passes the limits on what the checks see, which is no less than
\* the exposure, and adds no more than one order to it.
LEMMA ExposureBoundedStep ==
    ASSUME IInv, ReservedByUuid, IInv', ReservedByUuid', BookCovers, GateAssumption,
           [Next]_vars, ExposureBounded
    PROVE  ExposureBounded'
<1>1. ExposureSeen /\ Tracked' \subseteq Tracked /\ Tracked' \subseteq Symbols
  BY SeenLemma, TrackedStep DEF Tracked
<1>2. \A s \in Symbols : /\ Exposure(s) \in Nat /\ Exposure(s)' \in Nat
                         /\ pos[s] \in Int /\ PendingFor(s) \in Nat
                         /\ Magnitude(pos[s]) \in Nat /\ Magnitude(pos[s]) >= pos[s]
  BY ExposureType, ExposureTypeNext, PendingType DEF IInv, TypeOK, Magnitude
<1>3. Cap \in Nat /\ PositionLimit \in Nat /\ BookLimit \in Nat /\ IsFiniteSet(Symbols)
  BY DEF GateAssumption
<1>4. ASSUME NEW s \in Tracked'
      PROVE  Exposure(s)' < PositionLimit + Cap
  <2>1. s \in Symbols /\ s \in Tracked /\ Exposure(s) < PositionLimit + Cap
    BY <1>1 DEF ExposureBounded
  <2>2. CASE Exposure(s)' <= Exposure(s)
    BY <1>2, <1>3, <2>1, <2>2
  <2>3. CASE \E o \in Orders, n \in 1..Cap :
               EntrySignal(o, n) /\ SymbolOf[o] = s /\ Exposure(s)' <= Exposure(s) + n
    <3>1. PICK o \in Orders, n \in 1..Cap :
               EntrySignal(o, n) /\ SymbolOf[o] = s /\ Exposure(s)' <= Exposure(s) + n
      BY <2>3
    <3>2. Magnitude(pos[s]) + PendingFor(s) < PositionLimit /\ ~killed
      BY <3>1 DEF EntrySignal, RiskCheckPasses, PositionLimitPasses
    <3>3. pos[s] + PendingFor(s) >= Exposure(s)
      BY <1>1, <2>1, <3>2 DEF ExposureSeen
    <3> QED BY <1>2, <1>3, <2>1, <3>1, <3>2, <3>3
  <2> QED BY <2>1, <2>2, <2>3, ExposureStep
<1>5. ASSUME Tracked' = Symbols
      PROVE  SumFunction([s \in Symbols |-> Exposure(s)'])  <= BookLimit + Cap
  <2> DEFINE e == [s \in Symbols |-> Exposure(s)]
             d == [s \in Symbols |-> Exposure(s)']
             p == [s \in Symbols |-> Magnitude(pos[s]) + PendingFor(s)]
  <2>1. Tracked = Symbols
    BY <1>1, <1>5 DEF Tracked
  <2>2. /\ SumFunction(e) = SumFunctionOnSet(e, Symbols)
        /\ SumFunction(d) = SumFunctionOnSet(d, Symbols)
        /\ SumFunction(p) = SumFunctionOnSet(p, Symbols)
    BY DEF SumFunction
  <2>3. SumFunction(e) <= BookLimit + Cap
    BY <2>1 DEF ExposureBounded
  <2>4. \A s \in Symbols : /\ e[s] = Exposure(s) /\ d[s] = Exposure(s)'
                           /\ p[s] = Magnitude(pos[s]) + PendingFor(s)
                           /\ e[s] \in Int /\ d[s] \in Int /\ p[s] \in Int
    BY <1>2
  <2> HIDE DEF e, d, p
  <2>5. /\ SumFunctionOnSet(e, Symbols) \in Int /\ SumFunctionOnSet(d, Symbols) \in Int
        /\ SumFunctionOnSet(p, Symbols) \in Int
    BY <1>3, <2>4, SumType
  <2>6. CASE \E o \in Orders, n \in 1..Cap : EntrySignal(o, n)
    <3>1. PICK o \in Orders, n \in 1..Cap : EntrySignal(o, n)
      BY <2>6
    <3>2. SumFunction(p) <= BookLimit /\ ~killed
      BY <3>1 DEF EntrySignal, RiskCheckPasses, ExchangeExposurePasses, p
    <3> DEFINE t == SymbolOf[o]
               g == [e EXCEPT ![t] = e[t] + n]
    <3>3. t \in Symbols
      BY DEF GateAssumption
    <3>4. e \in [Symbols -> Int]
      BY <1>2 DEF e
    <3>5. \A s \in Symbols : g[s] \in Int /\ d[s] <= g[s]
      <4> TAKE s \in Symbols
      <4>1. g[s] = IF s = t THEN e[s] + n ELSE e[s]
        BY <3>4
      <4>2. CASE Exposure(s)' <= Exposure(s)
        <5> HIDE DEF t, g
        <5> QED BY <1>3, <2>4, <4>1, <4>2
      <4>3. CASE \E r \in Orders, m \in 1..Cap :
               EntrySignal(r, m) /\ SymbolOf[r] = s /\ Exposure(s)' <= Exposure(s) + m
        <5>1. PICK r \in Orders, m \in 1..Cap :
               EntrySignal(r, m) /\ SymbolOf[r] = s /\ Exposure(s)' <= Exposure(s) + m
          BY <4>3
        <5>2. r = o
          BY <3>1, <5>1 DEF EntrySignal
        <5>3. m = n
          <6>1. size'[o] = n /\ size'[o] = m
            BY <3>1, <5>1, <5>2 DEF EntrySignal, IInv, TypeOK
          <6> QED BY <6>1
        <5>4. s = t
          BY <5>1, <5>2
        <5> HIDE DEF t, g
        <5> QED BY <1>3, <2>4, <4>1, <5>1, <5>3, <5>4
      <4> QED BY <4>2, <4>3, ExposureStep
    <3>6. g[t] = e[t] + n /\ \A s \in Symbols \ {t} : e[s] = g[s]
      BY <3>3, <3>4
    <3> HIDE DEF t, g
    <3>7. SumFunctionOnSet(g, Symbols) = SumFunctionOnSet(e, Symbols) + (g[t] - e[t])
      BY <1>3, <2>4, <3>3, <3>5, <3>6, SumUpdate
    <3>8. SumFunctionOnSet(d, Symbols) <= SumFunctionOnSet(g, Symbols)
      BY <1>3, <2>4, <3>5, SumLeq
    <3>9. SumFunctionOnSet(e, Symbols) <= SumFunctionOnSet(p, Symbols)
      <4>1. \A s \in Symbols : e[s] <= p[s]
        BY <1>1, <1>2, <2>1, <2>4, <3>2 DEF ExposureSeen
      <4> QED BY <1>3, <2>4, <4>1, SumLeq
    <3>10. n \in Int /\ n <= Cap /\ e[t] \in Int
      BY <1>3, <2>4, <3>3
    <3>11. SumFunctionOnSet(g, Symbols) = SumFunctionOnSet(e, Symbols) + n
      BY <2>5, <3>6, <3>7, <3>10
    <3> QED BY <1>3, <2>2, <2>5, <3>2, <3>8, <3>9, <3>10, <3>11 DEF d
  <2>7. CASE ~ \E o \in Orders, n \in 1..Cap : EntrySignal(o, n)
    <3>1. \A s \in Symbols : d[s] <= e[s]
      BY <2>4, <2>7, ExposureStep
    <3>2. SumFunctionOnSet(d, Symbols) <= SumFunctionOnSet(e, Symbols)
      BY <1>3, <2>4, <3>1, SumLeq
    <3> QED BY <1>3, <2>2, <2>3, <2>5, <3>2 DEF d
  <2> QED BY <2>6, <2>7
<1> QED BY <1>4, <1>5 DEF ExposureBounded

\* The places taken, in terms of the book and the ledger.
LEMMA PlacesType ==
    IInv /\ ReservedByUuid =>
        /\ Places \subseteq Symbols
        /\ \A s \in Symbols :
             s \in Places <=> pos[s] # 0 \/ \E o \in OnSymbol(s) : reserved[Uuid(o)] > 0
<1> SUFFICES ASSUME IInv, ReservedByUuid
             PROVE  /\ Places \subseteq Symbols
                    /\ \A s \in Symbols :
                         s \in Places <=> pos[s] # 0 \/ \E o \in OnSymbol(s) : reserved[Uuid(o)] > 0
  OBVIOUS
<1> QED BY PendingType DEF Places, Held

LEMMA PlacesTypeNext ==
    IInv' /\ ReservedByUuid' =>
        (/\ Places \subseteq Symbols
         /\ \A s \in Symbols :
              s \in Places <=> pos[s] # 0 \/ \E o \in OnSymbol(s) : reserved[Uuid(o)] > 0)'
BY PlacesType, PTL

\* Only an entry reserves more of any order.
LEMMA ReservationShrinks ==
    ASSUME IInv, ReservedByUuid, GateAssumption, [Next]_vars,
           ~ \E o \in Orders, n \in 1..Cap : EntrySignal(o, n)
    PROVE  \A o \in Orders : reserved'[Uuid(o)] <= reserved[Uuid(o)]
<1> SUFFICES ASSUME NEW o \in Orders PROVE reserved'[Uuid(o)] <= reserved[Uuid(o)]
  OBVIOUS
<1>1. reserved[Uuid(o)] \in Nat /\ reserved \in [Ids -> 0..Cap] /\ Cap \in Nat /\ Uuid(o) \in Ids
  BY KeyLemma DEF IInv, TypeOK, GateAssumption
<1>2. CASE reserved' = reserved
  BY <1>1, <1>2
<1>3. CASE \E i \in Ids : reserved' = Release(i)
  BY <1>1, <1>3 DEF Release
<1>4. CASE \E i \in Ids, n \in Nat : reserved' = PartialConfirm(i, n)
  BY <1>1, <1>4 DEF PartialConfirm
<1>5. CASE ReleaseAll
  BY <1>1, <1>5 DEF ReleaseAll
<1>6. ASSUME NEW n \in Nat, SubmitReturns(n)
      PROVE  \/ reserved' = reserved
             \/ \E i \in Ids : reserved' = Release(i)
             \/ \E i \in Ids : reserved' = PartialConfirm(i, n)
  <2>1. cur \in Orders
    BY <1>6 DEF IInv, SubmitIsReserved, SubmitReturns
  <2>2. Uuid(cur) \in Ids
    BY <2>1, KeyLemma
  <2> QED BY <1>6, <2>2 DEF SubmitReturns, Settle
<1>7. SubmitFails \/ SyncReturns \/ SyncFails =>
        reserved' = reserved \/ \E i \in Ids : reserved' = Release(i)
  <2>1. cur \in Orders => Uuid(cur) \in Ids /\ ExchangeId(cur) \in Ids
    BY KeyLemma
  <2> QED BY <2>1 DEF SubmitFails, SyncReturns, SyncFails, IInv, SubmitIsReserved
<1>8. (\E r \in Orders : Sweep(r)) => \E i \in Ids : reserved' = Release(i)
  BY KeyLemma DEF Sweep
<1>9. (\/ \E x \in Orders : ExitSignal(x)
       \/ \E r \in Orders, n \in Nat : PushFills(r, n)
       \/ \E r \in Orders : PushCanceled(r) \/ TimeOut(r)
       \/ \E ok \in BOOLEAN : CancelReturns(ok)
       \/ QueryAnswered
       \/ \E r \in Orders : ExAccept(r) \/ ExRefuse(r) \/ ExFill(r) \/ ExCancel(r)
       \/ UNCHANGED vars)
      => reserved' = reserved
  BY DEF ExitSignal, PushFills, PushCanceled, TimeOut, CancelReturns, QueryAnswered, ExAccept,
         ExRefuse, ExFill, ExCancel, ExMoves, ledger, vars
<1> QED BY <1>2, <1>3, <1>4, <1>5, <1>6, <1>7, <1>8, <1>9 DEF Next

\* A positive trail is a standing reservation, which stood before the step
\* unless the step is an entry.
LEMMA TrailPositive ==
    IInv /\ ReservedByUuid =>
        \A s \in Symbols : SymbolTrail(s) > 0 => \E o \in OnSymbol(s) : reserved[Uuid(o)] > 0
BY SymbolTrailLemma, GateAssumption

LEMMA TrailPositiveNext ==
    IInv' /\ ReservedByUuid' =>
        (\A s \in Symbols : SymbolTrail(s) > 0 => \E o \in OnSymbol(s) : reserved[Uuid(o)] > 0)'
BY TrailPositive, PTL

LEMMA StaysReserved ==
    ASSUME IInv, IInv', ReservedByUuid, GateAssumption, [Next]_vars, NEW s \in Symbols,
           ~ \E o \in Orders, n \in 1..Cap : EntrySignal(o, n),
           \E r \in OnSymbol(s)' : reserved'[Uuid(r)'] > 0
    PROVE  s \in Places
<1>1. PICK r \in OnSymbol(s) : reserved'[Uuid(r)] > 0
  BY DEF OnSymbol, Uuid
<1>2. r \in Orders
  BY <1>1 DEF OnSymbol
<1>3. reserved[Uuid(r)] \in Nat /\ reserved'[Uuid(r)] \in Nat
  BY <1>2, KeyLemma DEF IInv, TypeOK
<1>4. reserved'[Uuid(r)] <= reserved[Uuid(r)]
  BY <1>2, ReservationShrinks
<1> QED BY <1>1, <1>3, <1>4, PlacesType

\* A pair gets a position by a booking, which its reservation announced, or by
\* an answer; and a book below zero has reservations that make up for it.
LEMMA PositionStep ==
    ASSUME IInv, IInv', ReservedByUuid, ReservedByUuid', BookCovers', GateAssumption, [Next]_vars,
           ~killed, ~killed', NEW s \in Tracked, s \in Tracked', pos'[s] # 0
    PROVE  s \in Places \/ s \in Answered
<1>1. s \in Symbols /\ pos \in [Symbols -> Int] /\ pos' \in [Symbols -> Int]
      /\ snap \in [Symbols -> Nat]
  BY DEF Tracked, IInv, TypeOK
<1>2. CASE pos[s] # 0
  BY <1>1, <1>2, PlacesType
<1>3. ASSUME NEW o \in Orders, SymbolOf[o] = s, reserved[Uuid(o)] > 0 PROVE s \in Places
  BY <1>1, <1>3, PlacesType DEF OnSymbol
<1>4. CASE \E n \in Nat : SubmitReturns(n)
  <2>1. PICK n \in Nat : SubmitReturns(n)
    BY <1>4
  <2>2. /\ cur \in Orders /\ (cur \in Buys => reserved[Uuid(cur)] = size[cur]) /\ size[cur] > 0
        /\ pos' = [pos EXCEPT ![SymbolOf[cur]] = @ + Booking(cur, n)]
    BY <2>1 DEF IInv, SubmitIsReserved, SubmitReturns
  <2>3. CASE SymbolOf[cur] # s
    <3>1. pos'[s] = pos[s]
      BY <1>1, <2>2, <2>3
    <3> QED BY <1>2, <3>1
  <2>4. CASE SymbolOf[cur] = s /\ cur \in Buys
    BY <1>3, <2>2, <2>4
  <2>5. CASE SymbolOf[cur] = s /\ cur \notin Buys /\ pos[s] = 0
    <3>1. booked[cur] = 0
      BY <2>1, <2>2 DEF IInv, SubmitIsReserved, UntrackedIsUnbooked, SubmitReturns
    <3>2. pos'[s] <= 0
      BY <1>1, <2>2, <2>5, <3>1 DEF Booking, Buys
    <3>3. \E r \in OnSymbol(s)' : reserved'[Uuid(r)'] > 0
      <4>1. pos'[s] + SymbolTrail(s)' >= exPos'[s] /\ exPos'[s] \in Nat /\ SymbolTrail(s)' \in Int
        BY <1>1, TrailTypeNext DEF BookCovers, IInv, TypeOK
      <4>2. SymbolTrail(s)' > 0
        BY <1>1, <3>2, <4>1
      <4> QED BY <1>1, <4>2, TrailPositiveNext
    <3>4. ~ \E o \in Orders, k \in 1..Cap : EntrySignal(o, k)
      BY <2>1 DEF SubmitReturns, EntrySignal
    <3> QED BY <1>1, <3>3, <3>4, StaysReserved
  <2> QED BY <1>2, <2>3, <2>4, <2>5
<1>5. CASE \E o \in Orders, n \in Nat : PushFills(o, n)
  <2>1. PICK o \in Orders, n \in Nat : PushFills(o, n)
    BY <1>5
  <2>2. /\ n \in booked[o] + 1 .. filled[o] /\ booked[o] \in Nat /\ filled[o] \in Nat
        /\ pos' = [pos EXCEPT ![SymbolOf[o]] = @ + Booking(o, n)]
    BY <2>1 DEF PushFills, IInv, TypeOK
  <2>3. CASE SymbolOf[o] # s
    <3>1. pos'[s] = pos[s]
      BY <1>1, <2>2, <2>3
    <3> QED BY <1>2, <3>1
  <2>4. CASE SymbolOf[o] = s /\ o \in Buys
    <3>1. o \notin lost \cup swept
      BY <2>4 DEF Tracked, OnSymbol
    <3>2. reserved[Uuid(o)] >= Potential(o)
      BY <3>1 DEF IInv, ReservationCovers
    <3>3. size[o] \in Nat /\ filled[o] <= size[o]
      BY DEF IInv, TypeOK, FillsInOrder
    <3>4. Potential(o) > 0 /\ Potential(o) \in Nat
      BY <2>2, <2>4, <3>3 DEF Potential, Buys
    <3>5. reserved[Uuid(o)] \in Nat
      BY CoverLemma
    <3> QED BY <1>3, <2>4, <3>2, <3>4, <3>5
  <2>5. CASE SymbolOf[o] = s /\ o \notin Buys /\ pos[s] = 0
    <3>1. pos'[s] <= 0
      BY <1>1, <2>2, <2>5 DEF Booking, Buys
    <3>2. \E r \in OnSymbol(s)' : reserved'[Uuid(r)'] > 0
      <4>1. pos'[s] + SymbolTrail(s)' >= exPos'[s] /\ exPos'[s] \in Nat /\ SymbolTrail(s)' \in Int
        BY <1>1, TrailTypeNext DEF BookCovers, IInv, TypeOK
      <4>2. SymbolTrail(s)' > 0
        BY <1>1, <3>1, <4>1
      <4> QED BY <1>1, <4>2, TrailPositiveNext
    <3>3. ~ \E r \in Orders, k \in 1..Cap : EntrySignal(r, k)
      BY <2>5 DEF EntrySignal, engine
    <3> QED BY <1>1, <3>2, <3>3, StaysReserved
  <2> QED BY <1>2, <2>3, <2>4, <2>5
<1>6. CASE SyncReturns
  <2>1. pc = "answered" /\ pos'[s] = IF snap[s] > 0 THEN snap[s] ELSE pos[s]
    BY <1>1, <1>6 DEF SyncReturns
  <2> QED BY <1>1, <1>2, <2>1 DEF Answered
<1>7. CASE pos' = pos
  BY <1>2, <1>7
<1>8. (\/ \E o \in Orders, n \in 1..Cap : EntrySignal(o, n)
       \/ \E x \in Orders : ExitSignal(x)
       \/ SubmitFails
       \/ \E r \in Orders : PushCanceled(r) \/ TimeOut(r) \/ Sweep(r)
       \/ \E ok \in BOOLEAN : CancelReturns(ok)
       \/ QueryAnswered
       \/ SyncFails
       \/ ReleaseAll
       \/ \E r \in Orders : ExAccept(r) \/ ExRefuse(r) \/ ExFill(r) \/ ExCancel(r)
       \/ UNCHANGED vars)
      => pos' = pos
  BY DEF EntrySignal, ExitSignal, SubmitFails, PushCanceled, TimeOut, Sweep, CancelReturns,
         QueryAnswered, SyncFails, ReleaseAll, ExAccept, ExRefuse, ExFill, ExCancel, ExMoves,
         engine, vars
<1> QED BY <1>4, <1>5, <1>6, <1>7, <1>8 DEF Next

\* So only an entry takes a place, and it takes one.
LEMMA PlacesStep ==
    ASSUME IInv, ReservedByUuid, IInv', ReservedByUuid', BookCovers', GateAssumption,
           [Next]_vars, ~killed, ~killed', NEW s \in Tracked, s \in Tracked',
           s \in Places', s \notin Places, s \notin Answered
    PROVE  \E o \in Orders, n \in 1..Cap : EntrySignal(o, n) /\ SymbolOf[o] = s
<1>1. s \in Symbols
  BY DEF Tracked
<1>2. ~ (pos'[s] # 0)
  BY PositionStep
<1>3. PICK r \in OnSymbol(s) : reserved'[Uuid(r)] > 0
  BY <1>1, <1>2, PlacesTypeNext DEF Uuid, OnSymbol
<1>4. r \in Orders /\ SymbolOf[r] = s
  BY <1>3 DEF OnSymbol
<1>5. ~ (reserved[Uuid(r)] > 0)
  BY <1>1, <1>3, PlacesType
<1>6. reserved[Uuid(r)] \in Nat /\ reserved'[Uuid(r)] \in Nat
  BY <1>4, KeyLemma DEF IInv, TypeOK
<1>7. PICK o \in Orders, n \in 1..Cap : EntrySignal(o, n)
  BY <1>3, <1>4, <1>5, <1>6, ReservationShrinks
<1>8. o = r
  <2> SUFFICES ASSUME o # r PROVE FALSE
    OBVIOUS
  <2>1. reserved'[Uuid(r)] = reserved[Uuid(r)]
    BY <1>4, <1>7, KeyLemma DEF EntrySignal, Reserve, IInv, TypeOK
  <2> QED BY <1>3, <1>5, <2>1
<1> QED BY <1>4, <1>7, <1>8

\* An answer finds its pairs in their places.
LEMMA AnsweredStep ==
    ASSUME IInv, ReservedByUuid, IInv', BookCovers, GateAssumption, [Next]_vars,
           ~killed, NEW s \in Tracked, s \in Answered'
    PROVE  s \in Places \/ s \in Answered
<1>1. s \in Symbols /\ pc' = "answered" /\ snap'[s] > 0
  BY DEF Answered
<1>2. CASE QueryAnswered
  <2>1. snap' = exPos
    BY <1>2 DEF QueryAnswered
  <2>2. pos[s] + SymbolTrail(s) > 0 /\ pos[s] \in Int /\ SymbolTrail(s) \in Int
    BY <1>1, <2>1, TrailType DEF BookCovers, IInv, TypeOK
  <2>3. CASE pos[s] # 0
    BY <1>1, <2>3, PlacesType
  <2>4. CASE pos[s] = 0
    <3>1. SymbolTrail(s) > 0
      BY <2>2, <2>4
    <3>2. \E o \in OnSymbol(s) : reserved[Uuid(o)] > 0
      BY <1>1, <3>1, SymbolTrailLemma
    <3> QED BY <1>1, <3>2, PlacesType
  <2> QED BY <2>3, <2>4
<1>3. CASE pc = "answered" /\ snap' = snap
  BY <1>1, <1>3 DEF Answered
<1>4. (\/ \E o \in Orders, n \in Nat : PushFills(o, n)
       \/ \E o \in Orders : PushCanceled(o)
       \/ ReleaseAll
       \/ \E o \in Orders : ExAccept(o) \/ ExRefuse(o) \/ ExFill(o) \/ ExCancel(o)
       \/ UNCHANGED vars)
      => snap' = snap /\ pc' = pc
  BY DEF PushFills, PushCanceled, ReleaseAll, ExAccept, ExRefuse, ExFill, ExCancel, ExMoves,
         loop, vars
<1>5. ~ (\/ \E o \in Orders, n \in 1..Cap : EntrySignal(o, n)
         \/ \E x \in Orders : ExitSignal(x)
         \/ \E n \in Nat : SubmitReturns(n)
         \/ SubmitFails
         \/ \E o \in Orders : TimeOut(o) \/ Sweep(o)
         \/ \E ok \in BOOLEAN : CancelReturns(ok)
         \/ SyncReturns
         \/ SyncFails)
  BY <1>1 DEF EntrySignal, ExitSignal, SubmitReturns, SubmitFails, TimeOut, Sweep, CancelReturns,
         SyncReturns, SyncFails, loop
<1> QED BY <1>1, <1>2, <1>3, <1>4, <1>5 DEF Next

\* The limit on places, and the answer that has its places already.
LEMMA PlacesBoundedStep ==
    ASSUME IInv, ReservedByUuid, IInv', ReservedByUuid', BookCovers, BookCovers', PlacesBounded,
           GateAssumption, [Next]_vars
    PROVE  PlacesBounded'
<1> DEFINE Taken == Places \cup Answered
           Next1 == Places' \cup Answered'
<1> SUFFICES ASSUME ~killed', Tracked' = Symbols
             PROVE  Cardinality(Next1) <= MaxPositions
  BY DEF PlacesBounded
<1>1. ~killed /\ Tracked = Symbols /\ IsFiniteSet(Symbols) /\ MaxPositions \in Nat
  BY TrackedStep DEF Tracked, GateAssumption
<1>2. Cardinality(Taken) <= MaxPositions
  BY <1>1 DEF PlacesBounded
<1>3. Taken \subseteq Symbols /\ Next1 \subseteq Symbols /\ Places \subseteq Symbols
  BY PlacesType, PlacesTypeNext DEF Answered
<1>4. /\ IsFiniteSet(Taken) /\ IsFiniteSet(Next1)
      /\ Cardinality(Taken) \in Nat /\ Cardinality(Next1) \in Nat
  <2> HIDE DEF Taken, Next1
  <2> QED BY <1>1, <1>3, FS_Subset, FS_CardinalityType
<1>5. ASSUME NEW s \in Symbols, s \in Next1, s \notin Taken
      PROVE  \E o \in Orders, n \in 1..Cap : EntrySignal(o, n) /\ SymbolOf[o] = s
  BY <1>1, <1>5, PlacesStep, AnsweredStep
<1>6. CASE Next1 \subseteq Taken
  <2> HIDE DEF Taken, Next1
  <2>1. Cardinality(Next1) <= Cardinality(Taken)
    BY <1>4, <1>6, FS_Subset
  <2> QED BY <1>1, <1>2, <1>4, <2>1
<1>7. CASE ~ (Next1 \subseteq Taken)
  <2>1. PICK s \in Symbols : s \in Next1 /\ s \notin Taken
    BY <1>3, <1>7
  <2>2. PICK o \in Orders, n \in 1..Cap : EntrySignal(o, n) /\ SymbolOf[o] = s
    BY <1>5, <2>1
  <2>3. Taken = Places
    BY <2>2 DEF EntrySignal, Answered
  <2>4. Cardinality(Taken) < MaxPositions
    BY <2>1, <2>2, <2>3 DEF EntrySignal, RiskCheckPasses, PortfolioLimitPasses, Places
  <2>5. Next1 \subseteq Taken \cup {s}
    <3> SUFFICES ASSUME NEW t \in Symbols, t \in Next1, t \notin Taken PROVE t = s
      BY <1>3
    <3>1. PICK r \in Orders, m \in 1..Cap : EntrySignal(r, m) /\ SymbolOf[r] = t
      BY <1>5
    <3>2. r = o
      BY <2>2, <3>1 DEF EntrySignal
    <3> QED BY <2>2, <3>1, <3>2
  <2>6. s \notin Taken
    BY <2>1
  <2> HIDE DEF Taken, Next1
  <2>7. /\ IsFiniteSet(Taken \cup {s})
        /\ Cardinality(Taken \cup {s}) = Cardinality(Taken) + 1
    BY <1>4, <2>6, FS_AddElement
  <2>8. Cardinality(Next1) <= Cardinality(Taken) + 1
    BY <2>5, <2>7, FS_Subset
  <2> QED BY <1>1, <1>4, <2>4, <2>8
<1> QED BY <1>6, <1>7

\* A pair at stake has a place, until the switch; after it nothing is added.
LEMMA PositionsBoundedStep ==
    ASSUME IInv, ReservedByUuid, IInv', ReservedByUuid', BookCovers', PlacesBounded',
           GateAssumption, [Next]_vars, PositionsBounded
    PROVE  PositionsBounded'
<1> DEFINE E == {s \in Symbols : Exposure(s) > 0}
           F == {s \in Symbols : Exposure(s)' > 0}
<1> SUFFICES ASSUME Tracked' = Symbols PROVE Cardinality(F) <= MaxPositions
  BY DEF PositionsBounded
<1>1. IsFiniteSet(Symbols) /\ MaxPositions \in Nat /\ Tracked = Symbols
  BY TrackedStep DEF GateAssumption, Tracked
<1>2. IsFiniteSet(E) /\ IsFiniteSet(F) /\ Cardinality(E) \in Nat /\ Cardinality(F) \in Nat
  <2>1. E \subseteq Symbols /\ F \subseteq Symbols
    OBVIOUS
  <2> HIDE DEF E, F
  <2> QED BY <1>1, <2>1, FS_Subset, FS_CardinalityType
<1>3. CASE killed'
  <2>1. ~ \E o \in Orders, n \in 1..Cap : EntrySignal(o, n)
    BY <1>3 DEF EntrySignal
  <2>2. \A s \in Symbols : Exposure(s)' <= Exposure(s)
    BY <2>1, ExposureStep
  <2>3. F \subseteq E
    BY <2>2, ExposureType, ExposureTypeNext
  <2>4. Cardinality(E) <= MaxPositions
    BY <1>1 DEF PositionsBounded
  <2> HIDE DEF E, F
  <2>5. Cardinality(F) <= Cardinality(E)
    BY <1>2, <2>3, FS_Subset
  <2> QED BY <1>1, <1>2, <2>4, <2>5
<1>4. CASE ~killed'
  <2>1. Cardinality(Places') <= MaxPositions /\ IsFiniteSet(Places') /\ Cardinality(Places') \in Nat
    <3>1. Places' \subseteq Symbols /\ Answered' \subseteq Symbols
      BY PlacesTypeNext DEF Answered
    <3>2. Cardinality(Places' \cup Answered') <= MaxPositions
      BY <1>1, <1>4 DEF PlacesBounded
    <3>3. /\ IsFiniteSet(Places') /\ IsFiniteSet(Places' \cup Answered')
          /\ Cardinality(Places') \in Nat /\ Cardinality(Places' \cup Answered') \in Nat
      BY <1>1, <3>1, FS_Subset, FS_CardinalityType
    <3>4. Cardinality(Places') <= Cardinality(Places' \cup Answered')
      BY <3>3, FS_Subset
    <3> QED BY <1>1, <3>2, <3>3, <3>4
  <2>2. \A s \in Symbols : pos'[s] + PendingFor(s)' >= Exposure(s)'
    BY <1>4, SeenNext DEF ExposureSeen
  <2>3. \A s \in Symbols : pos'[s] \in Int /\ PendingFor(s)' \in Nat /\ Exposure(s)' \in Nat
    BY ExposureTypeNext, PendingTypeNext DEF IInv, TypeOK
  <2>4. F \subseteq Places'
    <3> SUFFICES ASSUME NEW s \in Symbols, Exposure(s)' > 0 PROVE s \in Places'
      OBVIOUS
    <3>1. pos'[s] > 0 \/ PendingFor(s)' > 0
      BY <2>2, <2>3
    <3> QED BY <3>1 DEF Places, Held
  <2> HIDE DEF F
  <2>5. Cardinality(F) <= Cardinality(Places')
    BY <2>1, <2>4, FS_Subset
  <2> QED BY <1>1, <1>2, <2>1, <2>5
<1> QED BY <1>3, <1>4

-----------------------------------------------------------------------------
(***************************************************************************)
(* The theorems.                                                           *)
(***************************************************************************)

\* A session starts flat, with nothing reserved.
LEMMA InitLemma ==
    ASSUME Init
    PROVE  IInv
<1>1. TypeOK
  <2>1. 0 \in 0..Cap
    BY GateAssumption DEF GateAssumption
  <2>2. /\ pos \in [Symbols -> Int] /\ snap \in [Symbols -> Nat] /\ exPos \in [Symbols -> Nat]
        /\ counted \in [Exits -> Nat]
    BY DEF Init, NoAnswer, NothingCounted
  <2>3. /\ reserved \in [Ids -> 0..Cap] /\ size \in [Orders -> Nat]
        /\ \A o \in Buys : size[o] <= Cap
        /\ booked \in [Orders -> Nat] /\ filled \in [Orders -> Nat]
    BY <2>1, GateAssumption DEF Init, Buys, GateAssumption
  <2> QED BY <2>2, <2>3 DEF Init, TypeOK
<1>2. FillsInOrder /\ StatusFitsFills /\ UntrackedIsUnbooked /\ SubmitIsReserved
      /\ CountedIsFilled
  BY GateAssumption DEF Init, FillsInOrder, StatusFitsFills, UntrackedIsUnbooked,
     SubmitIsReserved, CountedIsFilled, NothingCounted, GateAssumption
<1>3. ReservationCovers
  BY KeyLemma DEF Init, ReservationCovers, Potential
<1> QED BY <1>1, <1>2, <1>3 DEF IInv

\* The inductive invariant holds in every reachable state: what the session
\* knows of an order trails the exchange, and nothing but its own outcome, an
\* alerted sweep or the switch takes a reservation.
THEOREM InductiveInvariant == Spec => []IInv
<1>1. Init => IInv
  BY InitLemma
<1>2. IInv /\ [Next]_vars => IInv'
  <2> SUFFICES ASSUME IInv, [Next]_vars PROVE IInv'
    OBVIOUS
  <2>1. CASE \E o \in Orders, n \in 1..Cap : EntrySignal(o, n)
    BY <2>1, EntryLemma, GateAssumption
  <2>2. CASE (\E n \in Nat : SubmitReturns(n)) \/ SubmitFails
    BY <2>2, SubmitReturnsLemma, SubmitFailsLemma, GateAssumption
  <2>3. CASE \E x \in Orders : ExitSignal(x)
    BY <2>3, ExitLemma, GateAssumption
  <2>4. CASE \E o \in Orders, n \in Nat : PushFills(o, n)
    BY <2>4, PushFillsLemma, GateAssumption
  <2>5. CASE \E o \in Orders : PushCanceled(o) \/ TimeOut(o)
    BY <2>5, EndsLemma, GateAssumption
  <2>6. CASE (\E ok \in BOOLEAN : CancelReturns(ok)) \/ QueryAnswered
    BY <2>6, AskLemma, GateAssumption
  <2>7. CASE SyncReturns \/ SyncFails
    BY <2>7, SyncLemma, GateAssumption
  <2>8. CASE (\E o \in Orders : Sweep(o)) \/ ReleaseAll
    BY <2>8, ReleasingLemma, GateAssumption
  <2>9. CASE \E o \in Orders : ExAccept(o) \/ ExRefuse(o) \/ ExFill(o) \/ ExCancel(o)
    BY <2>9, ExchangeLemma, GateAssumption
  <2>10. CASE UNCHANGED vars
    BY <2>10 DEF vars, IInv, TypeOK, FillsInOrder, StatusFitsFills, UntrackedIsUnbooked,
       SubmitIsReserved, CountedIsFilled, ReservationCovers, Potential
  <2> QED BY <2>1, <2>2, <2>3, <2>4, <2>5, <2>6, <2>7, <2>8, <2>9, <2>10 DEF Next
<1> QED BY <1>1, <1>2, PTL DEF Spec

\* Every variable keeps its type: no ledger entry goes negative or above the
\* cap, whatever cumulative quantity a response, a release or a sweep brings.
THEOREM TypeCorrect == Spec => []TypeOK
<1>1. IInv => TypeOK
  BY DEF IInv
<1> QED BY <1>1, InductiveInvariant, PTL

\* Until the stop, what an order may still add to the book is reserved, unless
\* it was reported REJECTED or its reservation was swept with an alert.
THEOREM Covered == Spec => []ReservationCovers
<1>1. IInv => ReservationCovers
  BY DEF IInv
<1> QED BY <1>1, InductiveInvariant, PTL

\* The inductive invariant of the exposure.  Of a tracked pair the reservations
\* that stand cover, until the stop, what book and snapshot lack of the
\* exchange's position and what the book has still to subtract for its exits;
\* and the places taken stay within max_positions.
THEOREM ExposureInvariant == Spec => []EInv
<1>1. Init => EInv
  <2> SUFFICES ASSUME Init PROVE EInv
    OBVIOUS
  <2>1. IInv
    BY InitLemma
  <2>2. ReservedByUuid
    BY KeyLemma DEF Init, ReservedByUuid
  <2>3. \A s \in Symbols : exPos[s] = 0 /\ pos[s] = 0 /\ SymbolTrail(s) = 0
    <3> SUFFICES ASSUME NEW s \in Symbols PROVE SymbolTrail(s) = 0
      BY DEF Init, NoAnswer
    <3> DEFINE l == [o \in Orders |-> Trail(o)]
    <3>1. OnSymbol(s) \subseteq Orders /\ IsFiniteSet(OnSymbol(s))
      BY OnSymbolLemma, GateAssumption
    <3>2. \A o \in Orders : filled[o] = 0 /\ size[o] = 0 /\ booked[o] = 0 /\ reserved[Uuid(o)] = 0
      BY KeyLemma DEF Init
    <3>3. \A o \in OnSymbol(s) : l[o] = 0 /\ l[o] \in Int
      BY <3>1, <3>2 DEF Trail, Cover, Owed
    <3>4. SymbolTrail(s) = SumFunctionOnSet(l, OnSymbol(s))
      BY DEF SymbolTrail
    <3> HIDE DEF l
    <3> QED BY <3>1, <3>3, <3>4, SumType
  <2>4. BookCovers
    BY <2>3 DEF BookCovers, Tracked
  <2>5. AnswerCovers /\ Answered = {}
    BY DEF Init, AnswerCovers, Answered
  <2>6. \A o \in Orders : Uuid(o) \in Ids /\ reserved[Uuid(o)] = 0 /\ OpenLots(o) = 0
    BY KeyLemma DEF Init, OpenLots
  <2>7. Places = {}
    BY <2>1, <2>2, <2>3, <2>6, PlacesType, OnSymbolLemma, GateAssumption
  <2>8. PlacesBounded
    BY <2>5, <2>7, FS_EmptySet, GateAssumption DEF PlacesBounded, GateAssumption
  <2>9. \A s \in Symbols : Exposure(s) = 0
    <3> SUFFICES ASSUME NEW s \in Symbols PROVE Exposure(s) = 0
      OBVIOUS
    <3> DEFINE l == [o \in Orders |-> OpenLots(o)]
    <3>1. OnSymbol(s) \subseteq Orders /\ IsFiniteSet(OnSymbol(s))
      BY OnSymbolLemma, GateAssumption
    <3>2. \A o \in OnSymbol(s) : l[o] = 0 /\ l[o] \in Int
      BY <2>6, <3>1
    <3>3. Exposure(s) = exPos[s] + SumFunctionOnSet(l, OnSymbol(s))
      BY DEF Exposure
    <3> HIDE DEF l
    <3>4. SumFunctionOnSet(l, OnSymbol(s)) = 0
      BY <3>1, <3>2, SumType
    <3> QED BY <2>3, <3>3, <3>4
  <2>10. ExposureBounded
    <3> DEFINE e == [s \in Symbols |-> Exposure(s)]
    <3>1. IsFiniteSet(Symbols) /\ \A s \in Symbols : e[s] = 0 /\ e[s] \in Int
      BY <2>9, GateAssumption DEF GateAssumption
    <3>2. SumFunction(e) = SumFunctionOnSet(e, Symbols)
      BY DEF SumFunction
    <3>3. \A s \in Tracked : Exposure(s) < PositionLimit + Cap
      BY <2>9, GateAssumption DEF Tracked, GateAssumption
    <3>4. SumFunction(e) = 0
      <4> HIDE DEF e
      <4> QED BY <3>1, <3>2, SumType
    <3>5. 0 <= BookLimit + Cap
      BY GateAssumption DEF GateAssumption
    <3> QED BY <3>3, <3>4, <3>5 DEF ExposureBounded
  <2>11. PositionsBounded
    <3>1. {s \in Symbols : Exposure(s) > 0} = {}
      BY <2>9
    <3> QED BY <3>1, FS_EmptySet, GateAssumption DEF PositionsBounded, GateAssumption
  <2> QED BY <2>2, <2>4, <2>5, <2>8, <2>10, <2>11 DEF EInv
<1>2. IInv /\ IInv' /\ EInv /\ [Next]_vars => EInv'
  <2> SUFFICES ASSUME IInv, IInv', EInv, [Next]_vars PROVE EInv'
    OBVIOUS
  <2>1. ReservedByUuid'
    BY ReservedStep, GateAssumption DEF EInv
  <2>2. BookCovers' /\ AnswerCovers'
    BY <2>1, CoveredStep, GateAssumption DEF EInv
  <2>3. ExposureBounded'
    BY <2>1, ExposureBoundedStep, GateAssumption DEF EInv
  <2>4. PlacesBounded'
    BY <2>1, <2>2, PlacesBoundedStep, GateAssumption DEF EInv
  <2>5. PositionsBounded'
    BY <2>1, <2>2, <2>4, PositionsBoundedStep, GateAssumption DEF EInv
  <2> QED BY <2>1, <2>2, <2>3, <2>4, <2>5 DEF EInv
<1> QED BY <1>1, <1>2, InductiveInvariant, PTL DEF Spec

\* Until the stop, position and pending of a tracked pair are never less than
\* what the exchange holds or may still fill: the fills of entries may reach the
\* book late or never and the snapshot that overwrites it may be old.  The fills
\* of exits are steps like those of entries; a pair whose book was overwritten
\* with an exit still to be subtracted again is not tracked.
THEOREM Seen == Spec => []ExposureSeen
<1>1. IInv /\ EInv => ExposureSeen
  BY SeenType DEF EInv
<1> QED BY <1>1, InductiveInvariant, ExposureInvariant, PTL

\* Hence no interleaving of entries, exits, their fills and timeouts takes a
\* tracked pair more than one order past its limit, nor a book of tracked pairs
\* past its own; the switch does not add anything either.
THEOREM Bounded == Spec => []ExposureBounded
<1>1. EInv => ExposureBounded
  BY DEF EInv
<1> QED BY <1>1, ExposureInvariant, PTL

\* Nor are more pairs at stake than max_positions allows, of a book of tracked
\* pairs.
THEOREM PlacesSuffice == Spec => []PositionsBounded
<1>1. EInv => PositionsBounded
  BY DEF EInv
<1> QED BY <1>1, ExposureInvariant, PTL

\* No outcome, response or sync brings a reservation back that has ended.
THEOREM EndedIsOver == Spec => EndedStaysEnded
<1>1. IInv /\ IInv' /\ ReservedByUuid /\ [Next]_vars =>
        [\A o \in Orders : size[o] > 0 /\ reserved[Uuid(o)] = 0 => reserved'[Uuid(o)] = 0]_vars
  <2> SUFFICES ASSUME IInv, IInv', ReservedByUuid, [Next]_vars, NEW o \in Orders,
                      size[o] > 0, reserved[Uuid(o)] = 0
               PROVE  reserved'[Uuid(o)] = 0
    OBVIOUS
  <2>1. reserved'[Uuid(o)] \in Nat /\ Uuid(o) \in Ids
    BY KeyLemma, GateAssumption DEF IInv, TypeOK
  <2>2. CASE ~ \E r \in Orders, n \in 1..Cap : EntrySignal(r, n)
    <3>1. reserved'[Uuid(o)] <= reserved[Uuid(o)]
      BY <2>2, ReservationShrinks, GateAssumption
    <3> QED BY <2>1, <3>1
  <2>3. ASSUME NEW r \in Orders, NEW n \in 1..Cap, EntrySignal(r, n)
        PROVE  reserved'[Uuid(o)] = 0
    <3>1. Uuid(r) # Uuid(o)
      BY <2>3 DEF EntrySignal, Uuid
    <3> QED BY <2>1, <2>3, <3>1 DEF EntrySignal, Reserve, IInv, TypeOK
  <2> QED BY <2>2, <2>3
<1>2. EInv => ReservedByUuid
  BY DEF EInv
<1> QED BY <1>1, <1>2, InductiveInvariant, ExposureInvariant, PTL DEF Spec, EndedStaysEnded

\* Nothing is ever reserved under the id the exchange gave an order, which is
\* the id the timeout loop releases by: none of its releases frees anything.
THEOREM NothingByExchangeId == Spec => [](\A o \in Orders : reserved[ExchangeId(o)] = 0)
<1>1. EInv => \A o \in Orders : reserved[ExchangeId(o)] = 0
  BY DEF EInv, ReservedByUuid
<1> QED BY <1>1, ExposureInvariant, PTL
=============================================================================
