------------------------ MODULE OrderLifecycle_proofs -----------------------
(***************************************************************************)
(* Proofs about OrderLifecycle, for every set of orders and symbols, every *)
(* quantity and both kinds of stream.                                      *)
(***************************************************************************)
EXTENDS OrderLifecycle, SequenceTheorems, TLAPS

-----------------------------------------------------------------------------
(***************************************************************************)
(* The inductive invariant, in named parts.                                *)
(***************************************************************************)

\* An order is open on the exchange only while it has a lot left to fill.
OpenHasRoom == \A o \in Orders : ex[o].status = "open" => ex[o].filled < Qty

\* A push reports no more than the exchange has filled since; it says closed
\* exactly when it reports the whole quantity, and canceled only of an order
\* that is canceled for good.
StreamSound ==
    \A i \in 1 .. Len(stream) :
        LET p == stream[i]
        IN  /\ p.filled <= ex[p.order].filled
            /\ p.status = "closed" => p.filled = Qty
            /\ p.status = "open" => p.filled < Qty
            /\ p.status = "canceled" => ex[p.order].status = "canceled"

\* An order is tracked and filled only once the exchange has taken it.
TrackedIsAccepted ==
    \A o \in Orders :
        ex[o].status \in {"none", "sent", "refused"}
            => tracked[o].status = "untracked" /\ ex[o].filled = 0

\* Nothing has been booked for an order that is not tracked, and it is not timed.
UntrackedIsBlank ==
    \A o \in Orders : tracked[o].status = "untracked"
        => booked[o] = 0 /\ fillEvents[o] = 0 /\ o \notin pending

\* The order the data loop is submitting has gone out and is not tracked yet.
RoutedIsSent ==
    pc = "route" => tracked[cur].status = "untracked" /\ ex[cur].status # "none"

\* An open order has something left to book.
OpenIsIncomplete ==
    \A o \in Orders : tracked[o].status \in Open => booked[o] < Qty

\* The list of timed-out orders is empty outside the timeout loop.
WorkIsDone == pc \in {"idle", "route"} => work = {}

IInv ==
    /\ TypeOK
    /\ OpenHasRoom
    /\ StreamSound
    /\ TrackedIsAccepted
    /\ UntrackedIsBlank
    /\ RoutedIsSent
    /\ OpenIsIncomplete
    /\ WorkIsDone
    /\ FillsBookedOnce
    /\ FillEventExact
    /\ OpenIsTimed
    /\ AbandonedIsAsked

-----------------------------------------------------------------------------
(***************************************************************************)
(* Lemmas about the operators of OrderManager and _handle_fill.            *)
(***************************************************************************)

\* A push in the stream is a well-formed push.
LEMMA PushLemma ==
    ASSUME TypeOK, NEW i \in 1 .. Len(stream)
    PROVE  /\ stream[i] \in Push
           /\ stream[i].order \in Orders
           /\ stream[i].filled \in 0..Qty
  <1>1. stream \in Seq(Push)
    BY DEF TypeOK
  <1>2. stream[i] \in Push
    BY <1>1
  <1>. QED
    BY <1>2 DEF Push

\* The status send_order stamps says FILLED exactly for the whole quantity, and
\* is one of the three a live order can have.
LEMMA RestStatusLemma ==
    ASSUME NEW n \in 0..Qty
    PROVE  /\ RestStatus(n) \in Statuses
           /\ RestStatus(n) \in {"SUBMITTED", "PARTIAL", "FILLED"}
           /\ RestStatus(n) = "FILLED" <=> n = Qty
           /\ IsPartial(n) => RestStatus(n) = "PARTIAL"
  BY OrderAssumption DEF RestStatus, Statuses, Open, Terminal, IsPartial

\* What update() returns: it leaves an ignored record alone and otherwise
\* gives it one of two statuses.
LEMMA UpdateLemma ==
    ASSUME NEW rec \in TrackedOrder, NEW status \in Statuses, NEW n \in 0..Qty
    PROVE  /\ Update(rec, status, n) \in TrackedOrder
           /\ Update(rec, status, n).applied = rec.applied
           /\ Ignored(rec) => Update(rec, status, n) = rec
           /\ ~Ignored(rec) =>
                Update(rec, status, n).status = IF IsPartial(n) THEN "PARTIAL" ELSE status
  BY OrderAssumption DEF TrackedOrder, Update, Ignored, IsPartial, Statuses, Open, Terminal

\* _handle_fill brings the applied quantity up to the reported one, never down.
LEMMA DeltaLemma ==
    ASSUME NEW order \in TrackedOrder
    PROVE  /\ Delta(order) \in 0..Qty
           /\ AppliedAfter(order) \in 0..Qty
           /\ AppliedAfter(order) = order.applied + Delta(order)
           /\ AppliedAfter(order) >= order.applied
           /\ AppliedAfter(order) \in {order.applied, order.filled}
           /\ AppliedAfter(order) >= order.filled
  BY OrderAssumption DEF TrackedOrder, Delta, AppliedAfter

\* Handing a delta over moves the booked quantity by that delta and publishes
\* EVENT_FILL exactly for an order object that says FILLED.
LEMMA HandleFillLemma ==
    ASSUME TypeOK, NEW o \in Orders, NEW order \in TrackedOrder, HandleFill(o, order)
    PROVE  /\ booked' = [booked EXCEPT ![o] = booked[o] + Delta(order)]
           /\ fillEvents' = [fillEvents EXCEPT ![o] =
                                fillEvents[o] + IF order.status = "FILLED" THEN 1 ELSE 0]
           /\ booked' \in [Orders -> Nat]
           /\ fillEvents' \in [Orders -> Nat]
           /\ fees' \in [Orders -> Nat]
           /\ book' \in [Symbols -> Int]
  <1>1. Delta(order) \in Nat /\ order.filled \in Nat
    BY DeltaLemma, OrderAssumption DEF TrackedOrder
  <1>2. SymbolOf[o] \in Symbols /\ SideOf[o] * Delta(order) \in Int
    <2>1. SideOf[o] \in {-1, 1} /\ SymbolOf[o] \in Symbols
      BY OrderAssumption
    <2>. QED
      BY <1>1, <2>1
  <1>3. /\ book \in [Symbols -> Int] /\ booked \in [Orders -> Nat]
        /\ fees \in [Orders -> Nat] /\ fillEvents \in [Orders -> Nat]
    BY DEF TypeOK
  <1>4. book' \in [Symbols -> Int]
    <2>1. book' = [book EXCEPT ![SymbolOf[o]] = book[SymbolOf[o]] + SideOf[o] * Delta(order)]
      BY DEF HandleFill
    <2>. DEFINE d == SideOf[o] * Delta(order)
    <2>2. d \in Int
      BY <1>2
    <2>3. book' = [book EXCEPT ![SymbolOf[o]] = book[SymbolOf[o]] + d]
      BY <2>1
    <2>. HIDE DEF d
    <2>. QED
      BY <1>2, <1>3, <2>2, <2>3
  <1>5. fees' \in [Orders -> Nat]
    <2>1. fees' = [fees EXCEPT ![o] = fees[o] + IF Delta(order) > 0 THEN order.filled ELSE 0]
      BY DEF HandleFill
    <2>. QED
      BY <1>1, <1>3, <2>1
  <1>6. /\ booked' = [booked EXCEPT ![o] = booked[o] + Delta(order)]
        /\ fillEvents' = [fillEvents EXCEPT ![o] =
                             fillEvents[o] + IF order.status = "FILLED" THEN 1 ELSE 0]
    BY DEF HandleFill
  <1>7. booked' \in [Orders -> Nat] /\ fillEvents' \in [Orders -> Nat]
    BY <1>1, <1>3, <1>6
  <1>. QED
    BY <1>4, <1>5, <1>6, <1>7

\* The session starts in the invariant: nothing tracked, nothing sent.
THEOREM InitInvariant == Init => IInv
  <1>. SUFFICES ASSUME Init PROVE IInv
    OBVIOUS
  <1>. USE OrderAssumption DEF Init
  <1>1. TypeOK
    BY DEF TypeOK, TrackedOrder, ExOrder, Statuses, ExStatuses, NoAnswer, Push
  <1>2. OpenHasRoom /\ StreamSound /\ TrackedIsAccepted /\ UntrackedIsBlank
    BY DEF OpenHasRoom, StreamSound, TrackedIsAccepted, UntrackedIsBlank
  <1>3. RoutedIsSent /\ OpenIsIncomplete /\ WorkIsDone
    BY DEF RoutedIsSent, OpenIsIncomplete, WorkIsDone, Open
  <1>4. FillsBookedOnce /\ FillEventExact /\ OpenIsTimed /\ AbandonedIsAsked
    BY DEF FillsBookedOnce, FillEventExact, OpenIsTimed, AbandonedIsAsked, Open
  <1>. QED
    BY <1>1, <1>2, <1>3, <1>4 DEF IInv

-----------------------------------------------------------------------------
(***************************************************************************)
(* The data loop's own steps: they do not touch the exchange.              *)
(***************************************************************************)

\* An order that goes out has no record, no fill and no push yet.
LEMMA SubmitStep ==
    ASSUME IInv, NEW o \in Orders, Submit(o)
    PROVE  IInv'
  <1>. DEFINE sent == [status |-> "sent", filled |-> 0]
  <1>1. /\ pc = "idle" /\ ex[o].status = "none"
        /\ pc' = "route" /\ cur' = o
        /\ ex' = [ex EXCEPT ![o] = sent]
        /\ UNCHANGED <<tracked, pending, aged, work, asked, snap, book, booked, fees,
                       fillEvents, exPos, stream>>
    BY DEF Submit, local, l4
  <1>2. sent \in ExOrder /\ sent.status = "sent" /\ sent.filled = 0
    BY OrderAssumption DEF ExOrder, ExStatuses
  <1>. HIDE DEF sent
  <1>3. /\ ex \in [Orders -> ExOrder]
        /\ tracked[o].status = "untracked" /\ booked[o] = 0 /\ ex[o].filled = 0
    BY <1>1 DEF IInv, TypeOK, TrackedIsAccepted, UntrackedIsBlank
  <1>4. TypeOK'
    BY <1>1, <1>2, <1>3 DEF IInv, TypeOK
  <1>5. OpenHasRoom' /\ TrackedIsAccepted'
    BY <1>1, <1>2, <1>3 DEF IInv, OpenHasRoom, TrackedIsAccepted
  <1>6. StreamSound'
    <2>1. ASSUME NEW i \in 1 .. Len(stream)
          PROVE  LET p == stream[i]
                 IN  /\ p.filled <= ex'[p.order].filled
                     /\ p.status = "closed" => p.filled = Qty
                     /\ p.status = "open" => p.filled < Qty
                     /\ p.status = "canceled" => ex'[p.order].status = "canceled"
      <3>1. stream[i].order \in Orders
        BY PushLemma DEF IInv
      <3>2. ex'[stream[i].order].filled = ex[stream[i].order].filled
        BY <1>1, <1>2, <1>3, <3>1
      <3>3. ex[stream[i].order].status = "canceled" => ex'[stream[i].order].status = "canceled"
        BY <1>1, <1>3, <3>1
      <3>. QED
        BY <3>2, <3>3 DEF IInv, StreamSound
    <2>. QED
      BY <1>1, <2>1 DEF StreamSound
  <1>7. RoutedIsSent' /\ WorkIsDone'
    BY <1>1, <1>2, <1>3 DEF IInv, RoutedIsSent, WorkIsDone
  <1>8. FillsBookedOnce' /\ AbandonedIsAsked'
    <2>1. ASSUME NEW x \in Orders
          PROVE  /\ ex'[x].filled = ex[x].filled
                 /\ ex'[x].status = "open" => ex[x].status = "open"
      BY <1>1, <1>2, <1>3
    <2>2. FillsBookedOnce'
      BY <1>1, <2>1 DEF IInv, FillsBookedOnce
    <2>3. ASSUME NEW x \in Orders, tracked[x].status = "CANCELLED", ex'[x].status = "open"
          PROVE  x \in asked \cup work
      BY <2>1, <2>3 DEF IInv, AbandonedIsAsked
    <2>. QED
      BY <1>1, <2>2, <2>3 DEF AbandonedIsAsked
  <1>9. UntrackedIsBlank' /\ OpenIsIncomplete' /\ FillEventExact' /\ OpenIsTimed'
    BY <1>1 DEF IInv, UntrackedIsBlank, OpenIsIncomplete, FillEventExact, OpenIsTimed
  <1>. QED
    BY <1>4, <1>5, <1>6, <1>7, <1>8, <1>9 DEF IInv

\* A failed send_order leaves the records as they were: the order is not tracked,
\* whatever the exchange makes of it.
LEMMA RouteFailsStep ==
    ASSUME IInv, RouteFails
    PROVE  IInv'
  <1>. USE DEF RouteFails, local, l4, exch
  <1>1. TypeOK'
    BY DEF IInv, TypeOK
  <1>2. RoutedIsSent' /\ WorkIsDone' /\ AbandonedIsAsked'
    BY DEF IInv, RoutedIsSent, WorkIsDone, AbandonedIsAsked
  <1>3. /\ OpenHasRoom' /\ StreamSound' /\ TrackedIsAccepted' /\ UntrackedIsBlank'
        /\ OpenIsIncomplete' /\ FillsBookedOnce' /\ FillEventExact' /\ OpenIsTimed'
    BY DEF IInv, OpenHasRoom, StreamSound, TrackedIsAccepted, UntrackedIsBlank,
           OpenIsIncomplete, FillsBookedOnce, FillEventExact, OpenIsTimed
  <1>. QED
    BY <1>1, <1>2, <1>3 DEF IInv

\* Time passing moves nothing but the age of an order.
LEMMA AgeStep ==
    ASSUME IInv, NEW o \in Orders, Age(o)
    PROVE  IInv'
  <1>. USE DEF Age, loop, l4, exch
  <1>1. TypeOK'
    BY DEF IInv, TypeOK
  <1>2. /\ OpenHasRoom' /\ StreamSound' /\ TrackedIsAccepted' /\ UntrackedIsBlank'
        /\ RoutedIsSent' /\ OpenIsIncomplete' /\ WorkIsDone' /\ FillsBookedOnce'
        /\ FillEventExact' /\ OpenIsTimed' /\ AbandonedIsAsked'
    BY DEF IInv, OpenHasRoom, StreamSound, TrackedIsAccepted, UntrackedIsBlank,
           RoutedIsSent, OpenIsIncomplete, WorkIsDone, FillsBookedOnce,
           FillEventExact, OpenIsTimed, AbandonedIsAsked
  <1>. QED
    BY <1>1, <1>2 DEF IInv

-----------------------------------------------------------------------------
(***************************************************************************)
(* Steps of FillLedger, as the order path takes them.                      *)
(***************************************************************************)

LedgerStep == [Ledger!Next]_(Ledger!vars)

\* Booking lots of an order that is not dead, up to what the exchange has
\* filled, is a Book step of the ledger or none at all.
LEMMA BookStep ==
    ASSUME IInv, NEW o \in Orders, NEW n \in Nat,
           booked[o] <= n, n <= ex[o].filled,
           booked' = [booked EXCEPT ![o] = n],
           tracked[o].status \notin {"CANCELLED", "REJECTED"},
           Dead' = Dead, ex' = ex
    PROVE  LedgerStep
  <1>. USE DEF LedgerStep
  <1>1. /\ booked \in [Orders -> Nat] /\ ex[o].filled \in Nat /\ o \notin Dead
    <2>1. ex[o] \in ExOrder /\ booked \in [Orders -> Nat]
      BY DEF IInv, TypeOK
    <2>. QED
      BY <2>1, OrderAssumption DEF ExOrder, Dead
  <1>2. CASE n = booked[o]
    BY <1>1, <1>2 DEF Ledger!vars
  <1>3. CASE n # booked[o]
    <2>1. n \in booked[o] + 1 .. ex[o].filled
      BY <1>1, <1>3
    <2>. QED
      BY <1>1, <2>1 DEF Ledger!Next, Ledger!Book
  <1>. QED
    BY <1>2, <1>3

\* Declaring orders dead is a Bury step.
LEMMA BuryStep ==
    ASSUME NEW S \in SUBSET Orders, Dead' = Dead \cup S, UNCHANGED <<booked, ex>>
    PROVE  LedgerStep
  BY DEF LedgerStep, Ledger!Next, Ledger!Bury

\* A step that moves neither the fills nor the records is none of the ledger's.
LEMMA LedgerStutter ==
    ASSUME UNCHANGED <<tracked, booked>>,
           \A x \in Orders : ex'[x].filled = ex[x].filled
    PROVE  LedgerStep
  BY DEF LedgerStep, Ledger!vars, Dead

-----------------------------------------------------------------------------
(***************************************************************************)
(* The steps that move one order: create_order returning, a push, a cancel.*)
(***************************************************************************)

\* One tracked order moves to a sound record and the book follows its applied
\* quantity: everything the invariant says of the engine's own state survives.
LEMMA OneOrderStep ==
    ASSUME IInv,
           NEW o \in Orders,
           NEW rec \in TrackedOrder,
           tracked' = [tracked EXCEPT ![o] = rec],
           booked' = [booked EXCEPT ![o] = rec.applied],
           fillEvents' = [fillEvents EXCEPT ![o] = IF rec.applied = Qty THEN 1 ELSE 0],
           pending' \subseteq pending \cup {o},
           pending \subseteq pending' \cup {o},
           UNCHANGED <<ex, work, asked>>,
           rec.status # "untracked",
           ex[o].status \notin {"none", "sent", "refused"},
           rec.applied <= ex[o].filled,
           rec.status \in Open => rec.applied < Qty /\ o \in pending',
           rec.status = "CANCELLED" => ex[o].status # "open"
    PROVE  /\ tracked' \in [Orders -> TrackedOrder] /\ pending' \subseteq Orders
           /\ TrackedIsAccepted' /\ UntrackedIsBlank' /\ OpenIsIncomplete'
           /\ FillsBookedOnce' /\ FillEventExact' /\ OpenIsTimed' /\ AbandonedIsAsked'
  <1>1. /\ tracked \in [Orders -> TrackedOrder]
        /\ booked \in [Orders -> Nat] /\ fillEvents \in [Orders -> Nat]
        /\ pending \subseteq Orders
    BY DEF IInv, TypeOK
  <1>2. ASSUME NEW x \in Orders, x # o
        PROVE  /\ tracked'[x] = tracked[x] /\ booked'[x] = booked[x]
               /\ fillEvents'[x] = fillEvents[x] /\ (x \in pending' <=> x \in pending)
    BY <1>1, <1>2
  <1>3. /\ tracked'[o] = rec /\ booked'[o] = rec.applied
        /\ fillEvents'[o] = IF rec.applied = Qty THEN 1 ELSE 0
    BY <1>1
  <1>4. tracked' \in [Orders -> TrackedOrder] /\ pending' \subseteq Orders
    BY <1>1
  <1>5. TrackedIsAccepted'
    BY <1>2, <1>3 DEF IInv, TrackedIsAccepted
  <1>6. UntrackedIsBlank'
    BY <1>2, <1>3 DEF IInv, UntrackedIsBlank
  <1>7. OpenIsIncomplete'
    BY <1>2, <1>3 DEF IInv, OpenIsIncomplete
  <1>8. FillsBookedOnce'
    BY <1>2, <1>3 DEF IInv, FillsBookedOnce
  <1>9. FillEventExact'
    BY <1>2, <1>3 DEF IInv, FillEventExact
  <1>10. OpenIsTimed'
    BY <1>2, <1>3 DEF IInv, OpenIsTimed
  <1>11. AbandonedIsAsked'
    BY <1>2, <1>3 DEF IInv, AbandonedIsAsked
  <1>. QED
    BY <1>4, <1>5, <1>6, <1>7, <1>8, <1>9, <1>10, <1>11

\* create_order returns with n lots filled: the tracked copy carries n as both
\* filled and applied.
LEMMA RouteReturnsStep ==
    ASSUME IInv, NEW n \in 0..Qty, RouteReturns(n)
    PROVE  IInv' /\ LedgerStep
  <1>. DEFINE rec == [status |-> RestStatus(n), filled |-> n, applied |-> n]
  <1>1. /\ cur \in Orders /\ pc = "route"
        /\ tracked[cur].status = "untracked"
        /\ booked[cur] = 0 /\ fillEvents[cur] = 0
    BY DEF IInv, TypeOK, RoutedIsSent, UntrackedIsBlank, RouteReturns
  <1>2. /\ tracked' = [tracked EXCEPT ![cur] = rec]
        /\ rec \in TrackedOrder
    <2>. DEFINE order == [status |-> RestStatus(n), filled |-> n, applied |-> 0]
                copy  == IF n > 0 THEN Update(order, order.status, n) ELSE order
    <2>1. tracked' = [tracked EXCEPT ![cur] = Mirror(copy, order)]
      BY DEF RouteReturns
    <2>2. order \in TrackedOrder /\ order.status = RestStatus(n) /\ order.filled = n
      BY RestStatusLemma, OrderAssumption DEF TrackedOrder
    <2>3. AppliedAfter(order) = n
      BY DEF AppliedAfter, Delta
    <2>4. copy.status = RestStatus(n) /\ copy.filled = n
      BY <2>2, RestStatusLemma DEF Update
    <2>5. Mirror(copy, order) = rec
      BY <2>3, <2>4 DEF Mirror
    <2>. QED
      BY <2>1, <2>5, RestStatusLemma DEF TrackedOrder
  <1>3. /\ booked' = [booked EXCEPT ![cur] = n]
        /\ fillEvents' = [fillEvents EXCEPT ![cur] = IF n = Qty THEN 1 ELSE 0]
        /\ fees' \in [Orders -> Nat]
        /\ book' \in [Symbols -> Int]
    <2>. DEFINE order == [status |-> RestStatus(n), filled |-> n, applied |-> 0]
    <2>1. CASE n = 0
      <3>1. UNCHANGED l4
        BY <2>1 DEF RouteReturns
      <3>. QED
        BY <3>1, <2>1, <1>1, OrderAssumption DEF l4, IInv, TypeOK
    <2>2. CASE n > 0
      <3>1. HandleFill(cur, order)
        BY <2>2 DEF RouteReturns
      <3>2. Delta(order) = n /\ order \in TrackedOrder /\ (order.status = "FILLED" <=> n = Qty)
        BY <2>2, OrderAssumption
        DEF Delta, RestStatus, TrackedOrder, Statuses, Open, Terminal
      <3>. HIDE DEF order
      <3>3. TypeOK
        BY DEF IInv
      <3>. QED
        BY <3>1, <3>2, <3>3, <1>1, HandleFillLemma
    <2>. QED
      BY <2>1, <2>2
  <1>4. pending' = IF n = Qty THEN pending ELSE pending \cup {cur}
    BY OrderAssumption, <1>1 DEF RouteReturns, TrackPending, RestStatus, Terminal
  <1>5. /\ ex[cur].status \notin {"none", "sent", "refused"}
        /\ n <= ex[cur].filled
    <2>1. /\ ex[cur].status \notin {"sent", "refused"} /\ n \in 0 .. ex[cur].filled
          /\ cur \in Orders /\ pc = "route" /\ ex[cur] \in ExOrder
      BY <1>1 DEF RouteReturns, IInv, TypeOK
    <2>2. ex[cur].filled \in Nat
      BY <2>1, OrderAssumption DEF ExOrder
    <2>3. ex[cur].status # "none"
      BY <2>1 DEF IInv, RoutedIsSent
    <2>. QED
      BY <2>1, <2>2, <2>3
  <1>6. /\ pc' = "idle" /\ UNCHANGED <<aged, cur, work, asked, snap, ex, exPos, stream>>
    BY DEF RouteReturns, exch
  <1>7. /\ tracked' \in [Orders -> TrackedOrder] /\ pending' \subseteq Orders
        /\ TrackedIsAccepted' /\ UntrackedIsBlank' /\ OpenIsIncomplete'
        /\ FillsBookedOnce' /\ FillEventExact' /\ OpenIsTimed' /\ AbandonedIsAsked'
    <2>1. /\ rec.applied = n /\ rec.status # "untracked" /\ rec.status # "CANCELLED"
          /\ rec.status \in Open => rec.applied < Qty
          /\ rec.applied = Qty <=> n = Qty
      BY RestStatusLemma, OrderAssumption DEF Open
    <2>2. /\ pending' \subseteq pending \cup {cur}
          /\ pending \subseteq pending' \cup {cur}
          /\ rec.status \in Open => rec.applied < Qty /\ cur \in pending'
      BY <1>4, <2>1
    <2>3. /\ booked' = [booked EXCEPT ![cur] = rec.applied]
          /\ fillEvents' = [fillEvents EXCEPT ![cur] = IF rec.applied = Qty THEN 1 ELSE 0]
      BY <1>3, <2>1
    <2>. HIDE DEF rec
    <2>. QED
      BY <1>1, <1>2, <1>5, <1>6, <2>1, <2>2, <2>3, OneOrderStep
  <1>8. booked' \in [Orders -> Nat] /\ fillEvents' \in [Orders -> Nat]
    BY <1>1, <1>3 DEF IInv, TypeOK
  <1>9. TypeOK'
    BY <1>1, <1>3, <1>6, <1>7, <1>8 DEF IInv, TypeOK
  <1>10. OpenHasRoom' /\ StreamSound' /\ RoutedIsSent' /\ WorkIsDone'
    BY <1>1, <1>6 DEF IInv, OpenHasRoom, StreamSound, RoutedIsSent, WorkIsDone
  <1>11. LedgerStep
    <2>1. Dead' = Dead
      <3>1. rec.status \notin {"CANCELLED", "REJECTED"}
        BY RestStatusLemma
      <3>2. tracked \in [Orders -> TrackedOrder]
        BY DEF IInv, TypeOK
      <3>. HIDE DEF rec
      <3>. QED
        BY <1>1, <1>2, <3>1, <3>2 DEF Dead
    <2>2. n \in Nat /\ booked[cur] <= n /\ tracked[cur].status \notin {"CANCELLED", "REJECTED"}
      BY <1>1, OrderAssumption
    <2>. HIDE DEF rec
    <2>. QED
      BY <1>1, <1>3, <1>5, <1>6, <2>1, <2>2, BookStep
  <1>. QED
    BY <1>7, <1>9, <1>10, <1>11 DEF IInv

\* An order that is cancelled or rejected keeps what was booked for it; one that
\* had already finished does not move at all.
LEMMA EndOrderStep ==
    ASSUME IInv,
           NEW o \in Orders,
           NEW status \in {"CANCELLED", "REJECTED"},
           status = "CANCELLED" => ex[o].status # "open",
           EndOrder(o, status),
           UNCHANGED <<ex, work, asked>>
    PROVE  /\ tracked' \in [Orders -> TrackedOrder] /\ pending' \subseteq Orders
           /\ booked' \in [Orders -> Nat] /\ fillEvents' \in [Orders -> Nat]
           /\ fees' \in [Orders -> Nat] /\ book' \in [Symbols -> Int]
           /\ TrackedIsAccepted' /\ UntrackedIsBlank' /\ OpenIsIncomplete'
           /\ FillsBookedOnce' /\ FillEventExact' /\ OpenIsTimed' /\ AbandonedIsAsked'
           /\ LedgerStep
  <1>. DEFINE old == tracked[o]
              rec == Update(old, status, 0)
  <1>1. /\ old \in TrackedOrder /\ tracked \in [Orders -> TrackedOrder]
        /\ booked \in [Orders -> Nat] /\ fillEvents \in [Orders -> Nat]
        /\ fees \in [Orders -> Nat] /\ book \in [Symbols -> Int]
        /\ pending \subseteq Orders
    BY DEF IInv, TypeOK
  <1>2. /\ tracked' = [tracked EXCEPT ![o] = rec]
        /\ pending' = PendingAfter(o, old, status, 0)
        /\ UNCHANGED <<book, booked, fees, fillEvents>>
    BY DEF EndOrder, l4
  <1>3. CASE Ignored(old)
    <2>1. rec = old /\ pending' = pending
      BY <1>2, <1>3 DEF Update, PendingAfter
    <2>2. tracked' = tracked
      BY <1>1, <1>2, <2>1
    <2>3. LedgerStep
      BY <1>2, <2>2, LedgerStutter
    <2>. QED
      BY <1>1, <1>2, <2>1, <2>2, <2>3
      DEF IInv, TrackedIsAccepted, UntrackedIsBlank, OpenIsIncomplete, FillsBookedOnce,
          FillEventExact, OpenIsTimed, AbandonedIsAsked
  <1>4. CASE ~Ignored(old)
    <2>1. /\ rec \in TrackedOrder /\ rec.applied = old.applied /\ rec.status = status
          /\ rec.status # "untracked" /\ rec.status \notin Open
      <3>1. 0 \in 0..Qty /\ status \in Statuses /\ ~IsPartial(0)
        BY OrderAssumption DEF Statuses, Terminal, IsPartial
      <3>2. /\ rec \in TrackedOrder /\ rec.applied = old.applied
            /\ rec.status = IF IsPartial(0) THEN "PARTIAL" ELSE status
        BY <1>1, <1>4, <3>1, UpdateLemma
      <3>. QED
        BY <3>1, <3>2 DEF Open
    <2>2. /\ booked[o] = old.applied /\ booked[o] <= ex[o].filled
          /\ fillEvents[o] = IF booked[o] = Qty THEN 1 ELSE 0
          /\ ex[o].status \notin {"none", "sent", "refused"}
      BY <1>4 DEF IInv, FillsBookedOnce, FillEventExact, TrackedIsAccepted, Ignored
    <2>3. /\ booked' = [booked EXCEPT ![o] = rec.applied]
          /\ fillEvents' = [fillEvents EXCEPT ![o] = IF rec.applied = Qty THEN 1 ELSE 0]
      BY <1>1, <1>2, <2>1, <2>2
    <2>4. pending' \subseteq pending \cup {o} /\ pending \subseteq pending' \cup {o}
      BY <1>2 DEF PendingAfter
    <2>. HIDE DEF rec
    <2>5. /\ tracked' \in [Orders -> TrackedOrder] /\ pending' \subseteq Orders
          /\ TrackedIsAccepted' /\ UntrackedIsBlank' /\ OpenIsIncomplete'
          /\ FillsBookedOnce' /\ FillEventExact' /\ OpenIsTimed' /\ AbandonedIsAsked'
      BY <1>2, <2>1, <2>2, <2>3, <2>4, OneOrderStep
    <2>6. LedgerStep
      <3>1. Dead' = Dead \cup {o}
        BY <1>1, <1>2, <2>1 DEF Dead
      <3>. QED
        BY <1>2, <3>1, BuryStep
    <2>. QED
      BY <1>1, <1>2, <2>5, <2>6
  <1>. QED
    BY <1>3, <1>4

\* An open or closed push brings a live order's applied quantity up to what the
\* push reports, and completes it exactly when the push says closed.
LEMMA StampFillStep ==
    ASSUME IInv,
           NEW p \in Push,
           p.status \in {"open", "closed"},
           p.filled > 0,
           p.filled <= ex[p.order].filled,
           p.status = "closed" => p.filled = Qty,
           p.status = "open" => p.filled < Qty,
           ~Ignored(tracked[p.order]),
           StampFill(p.order, p),
           UNCHANGED <<ex, work, asked>>
    PROVE  /\ tracked' \in [Orders -> TrackedOrder] /\ pending' \subseteq Orders
           /\ booked' \in [Orders -> Nat] /\ fillEvents' \in [Orders -> Nat]
           /\ fees' \in [Orders -> Nat] /\ book' \in [Symbols -> Int]
           /\ TrackedIsAccepted' /\ UntrackedIsBlank' /\ OpenIsIncomplete'
           /\ FillsBookedOnce' /\ FillEventExact' /\ OpenIsTimed' /\ AbandonedIsAsked'
           /\ LedgerStep
  <1>. DEFINE o == p.order
              old == tracked[o]
              order == [status  |-> IF p.status = "closed" THEN "FILLED" ELSE "PARTIAL",
                        filled  |-> p.filled,
                        applied |-> old.applied]
              copy == Update(order, order.status, order.filled)
              rec == [status  |-> copy.status,
                      filled  |-> copy.filled,
                      applied |-> AppliedAfter(order)]
  <1>1. /\ o \in Orders /\ p.filled \in 0..Qty
        /\ old \in TrackedOrder /\ TypeOK /\ ex[o].filled \in Nat
    <2>1. o \in Orders /\ p.filled \in 0..Qty
      BY DEF Push
    <2>2. old \in TrackedOrder /\ TypeOK /\ ex[o] \in ExOrder
      BY <2>1 DEF IInv, TypeOK
    <2>. QED
      BY <2>1, <2>2, OrderAssumption DEF ExOrder
  <1>2. /\ booked[o] = old.applied /\ booked[o] <= ex[o].filled
        /\ fillEvents[o] = 0 /\ booked[o] < Qty /\ o \in pending
        /\ ex[o].status \notin {"none", "sent", "refused"}
        /\ old.applied \in 0..Qty
    <2>1. old.status \in Open /\ old.applied \in 0..Qty
      BY <1>1 DEF Ignored, TrackedOrder, Statuses
    <2>2. old.status # "untracked"
      BY DEF Ignored
    <2>3. /\ booked[o] = old.applied /\ booked[o] <= ex[o].filled
          /\ booked[o] < Qty /\ o \in pending
          /\ ex[o].status \notin {"none", "sent", "refused"}
      BY <1>1, <2>1, <2>2
      DEF IInv, FillsBookedOnce, OpenIsIncomplete, OpenIsTimed, TrackedIsAccepted
    <2>4. fillEvents[o] = IF booked[o] = Qty THEN 1 ELSE 0
      BY <1>1 DEF IInv, FillEventExact
    <2>. QED
      BY <2>1, <2>3, <2>4, OrderAssumption
  <1>3. /\ order \in TrackedOrder /\ order.filled = p.filled /\ order.applied = old.applied
        /\ order.status = IF p.status = "closed" THEN "FILLED" ELSE "PARTIAL"
    BY <1>1, <1>2 DEF TrackedOrder, Statuses, Open, Terminal
  <1>4. /\ tracked' = [tracked EXCEPT ![o] = rec]
        /\ pending' = PendingAfter(o, order, order.status, order.filled)
        /\ HandleFill(o, order)
    BY DEF StampFill
  <1>. HIDE DEF order
  <1>5. /\ copy \in TrackedOrder
        /\ copy.status = order.status
    <2>1. CASE p.status = "closed"
      BY <1>3, <2>1 DEF Update, Ignored, Terminal
    <2>2. CASE p.status = "open"
      <3>1. IsPartial(order.filled) /\ ~Ignored(order) /\ order.status = "PARTIAL"
        BY <1>1, <1>3, <2>2 DEF IsPartial, Ignored, Terminal
      <3>. QED
        BY <1>1, <1>3, <3>1, UpdateLemma DEF Statuses, Open
    <2>. QED
      BY <2>1, <2>2
  <1>6. /\ Delta(order) \in 0..Qty
        /\ AppliedAfter(order) \in 0..Qty
        /\ AppliedAfter(order) = old.applied + Delta(order)
        /\ AppliedAfter(order) <= ex[o].filled
        /\ AppliedAfter(order) = Qty <=> p.status = "closed"
    <2>1. /\ Delta(order) \in 0..Qty
          /\ AppliedAfter(order) \in 0..Qty
          /\ AppliedAfter(order) = order.applied + Delta(order)
          /\ AppliedAfter(order) >= order.filled
          /\ AppliedAfter(order) \in {order.applied, order.filled}
      BY <1>3, DeltaLemma
    <2>. QED
      BY <1>1, <1>2, <1>3, <2>1, OrderAssumption
  <1>7. /\ rec \in TrackedOrder /\ rec.applied = AppliedAfter(order)
        /\ rec.status = IF p.status = "closed" THEN "FILLED" ELSE "PARTIAL"
    BY <1>3, <1>5, <1>6 DEF TrackedOrder
  <1>. HIDE DEF rec, copy
  <1>8. /\ booked' = [booked EXCEPT ![o] = booked[o] + Delta(order)]
        /\ fillEvents' = [fillEvents EXCEPT ![o] =
                             fillEvents[o] + IF order.status = "FILLED" THEN 1 ELSE 0]
        /\ booked' \in [Orders -> Nat] /\ fillEvents' \in [Orders -> Nat]
        /\ fees' \in [Orders -> Nat] /\ book' \in [Symbols -> Int]
    BY <1>1, <1>3, <1>4, HandleFillLemma
  <1>9. /\ booked' = [booked EXCEPT ![o] = rec.applied]
        /\ fillEvents' = [fillEvents EXCEPT ![o] = IF rec.applied = Qty THEN 1 ELSE 0]
    <2>1. booked[o] + Delta(order) = rec.applied
      BY <1>2, <1>6, <1>7
    <2>2. fillEvents[o] + (IF order.status = "FILLED" THEN 1 ELSE 0)
            = IF rec.applied = Qty THEN 1 ELSE 0
      BY <1>2, <1>3, <1>6, <1>7
    <2>. QED
      BY <1>8, <2>1, <2>2
  <1>10. /\ pending' \subseteq pending \cup {o} /\ pending \subseteq pending' \cup {o}
         /\ p.status = "open" => pending' = pending
    BY <1>1, <1>3, <1>4 DEF PendingAfter, IsPartial
  <1>11. /\ rec.status # "untracked" /\ rec.status # "CANCELLED"
         /\ rec.applied <= ex[o].filled
         /\ rec.status \in Open => rec.applied < Qty /\ o \in pending'
    BY <1>2, <1>6, <1>7, <1>10, OrderAssumption DEF Open
  <1>12. /\ tracked' \in [Orders -> TrackedOrder] /\ pending' \subseteq Orders
         /\ TrackedIsAccepted' /\ UntrackedIsBlank' /\ OpenIsIncomplete'
         /\ FillsBookedOnce' /\ FillEventExact' /\ OpenIsTimed' /\ AbandonedIsAsked'
    BY <1>1, <1>2, <1>4, <1>7, <1>9, <1>10, <1>11, OneOrderStep
  <1>13. LedgerStep
    <2>1. old.status \notin {"CANCELLED", "REJECTED"}
      BY DEF Ignored, Terminal
    <2>2. Dead' = Dead
      <3>1. rec.status \notin {"CANCELLED", "REJECTED"} /\ tracked \in [Orders -> TrackedOrder]
        BY <1>1, <1>7 DEF TypeOK
      <3>. QED
        BY <1>1, <1>4, <2>1, <3>1 DEF Dead
    <2>3. rec.applied \in Nat /\ booked[o] <= rec.applied
      BY <1>2, <1>6, <1>7, OrderAssumption
    <2>. QED
      BY <1>1, <1>9, <1>11, <2>1, <2>2, <2>3, BookStep
  <1>. QED
    BY <1>8, <1>12, <1>13

\* A push ends the order it is about, brings its booked quantity up, or changes
\* nothing of the engine's state.
LEMMA ApplyOrderUpdateStep ==
    ASSUME IInv,
           NEW i \in 1 .. Len(stream),
           ApplyOrderUpdate(stream[i]),
           UNCHANGED <<aged, ex, exPos, pc, cur, work, asked, snap>>
    PROVE  /\ tracked' \in [Orders -> TrackedOrder] /\ pending' \subseteq Orders
           /\ booked' \in [Orders -> Nat] /\ fillEvents' \in [Orders -> Nat]
           /\ fees' \in [Orders -> Nat] /\ book' \in [Symbols -> Int]
           /\ TrackedIsAccepted' /\ UntrackedIsBlank' /\ OpenIsIncomplete'
           /\ FillsBookedOnce' /\ FillEventExact' /\ OpenIsTimed' /\ AbandonedIsAsked'
           /\ RoutedIsSent' /\ LedgerStep
  <1>. DEFINE p == stream[i]
              o == p.order
              old == tracked[o]
  <1>1. /\ p \in Push /\ o \in Orders /\ p.filled \in 0..Qty
        /\ old \in TrackedOrder /\ ex[o] \in ExOrder /\ TypeOK
    BY PushLemma DEF IInv, TypeOK
  <1>2. /\ p.filled <= ex[o].filled
        /\ p.status = "closed" => p.filled = Qty
        /\ p.status = "open" => p.filled < Qty
        /\ p.status = "canceled" => ex[o].status = "canceled"
    BY DEF IInv, StreamSound
  <1>3. /\ booked[o] = old.applied /\ booked[o] <= ex[o].filled
        /\ fillEvents[o] = IF booked[o] = Qty THEN 1 ELSE 0
        /\ old.status \in Open => booked[o] < Qty /\ o \in pending
        /\ old.status # "untracked" => ex[o].status \notin {"none", "sent", "refused"}
    BY <1>1 DEF IInv, FillsBookedOnce, FillEventExact, OpenIsIncomplete, OpenIsTimed,
                TrackedIsAccepted
  <1>4. CASE UNCHANGED <<tracked, pending, l4>>
    <2>1. UNCHANGED <<tracked, pending, book, booked, fees, fillEvents>>
      BY <1>4 DEF l4
    <2>2. LedgerStep
      BY <2>1, LedgerStutter
    <2>. QED
      BY <2>1, <2>2 DEF IInv, TypeOK, TrackedIsAccepted, UntrackedIsBlank, OpenIsIncomplete,
                  FillsBookedOnce, FillEventExact, OpenIsTimed, AbandonedIsAsked, RoutedIsSent
  <1>5. ASSUME NEW status \in {"CANCELLED", "REJECTED"}, ~Ignored(old), EndOrder(o, status),
               status = "CANCELLED" => p.status = "canceled"
        PROVE  /\ tracked' \in [Orders -> TrackedOrder] /\ pending' \subseteq Orders
               /\ booked' \in [Orders -> Nat] /\ fillEvents' \in [Orders -> Nat]
               /\ fees' \in [Orders -> Nat] /\ book' \in [Symbols -> Int]
               /\ TrackedIsAccepted' /\ UntrackedIsBlank' /\ OpenIsIncomplete'
               /\ FillsBookedOnce' /\ FillEventExact' /\ OpenIsTimed' /\ AbandonedIsAsked'
               /\ RoutedIsSent' /\ LedgerStep
    <2>1. status = "CANCELLED" => ex[o].status # "open"
      BY <1>2, <1>5
    <2>2. RoutedIsSent'
      BY <1>1, <1>5 DEF EndOrder, Ignored, IInv, TypeOK, RoutedIsSent
    <2>. HIDE DEF p, o
    <2>. QED
      BY <1>1, <1>5, <2>1, <2>2, EndOrderStep
  <1>6. CASE /\ ~Ignored(old) /\ StampFill(o, p)
             /\ p.status = "closed" \/ (p.status = "open" /\ p.filled > 0)
    <2>1. p.filled > 0 /\ p.status \in {"open", "closed"}
      BY <1>1, <1>2, <1>6, OrderAssumption
    <2>2. /\ StampFill(o, p)
          /\ ~Ignored(tracked[o])
      BY <1>6
    <2>3. /\ pc' = pc /\ cur' = cur /\ UNCHANGED <<ex, work, asked>>
      OBVIOUS
    <2>4. RoutedIsSent'
      <3>1. \E rec : tracked' = [tracked EXCEPT ![o] = rec]
        BY <2>2 DEF StampFill
      <3>2. tracked[o].status # "untracked"
        BY <2>2 DEF Ignored
      <3>3. tracked \in [Orders -> TrackedOrder] /\ (pc # "idle" => cur \in Orders)
        BY <1>1 DEF TypeOK
      <3>4. RoutedIsSent
        BY DEF IInv
      <3>. HIDE DEF o
      <3>. QED
        BY <2>3, <3>1, <3>2, <3>3, <3>4 DEF RoutedIsSent
    <2>. HIDE DEF p
    <2>. QED
      BY <1>1, <1>2, <2>1, <2>2, <2>3, <2>4, StampFillStep
  <1>. QED
    BY <1>4, <1>5, <1>6 DEF ApplyOrderUpdate, PushIgnored

\* The consumer takes the next push off the stream and applies it.
LEMMA OnOrderUpdateStep ==
    ASSUME IInv, OnOrderUpdate
    PROVE  IInv' /\ LedgerStep
  <1>1. /\ stream # <<>> /\ stream \in Seq(Push)
        /\ ApplyOrderUpdate(Head(stream)) /\ stream' = Tail(stream)
        /\ UNCHANGED <<aged, ex, exPos, pc, cur, work, asked, snap>>
    BY DEF OnOrderUpdate, loop, IInv, TypeOK
  <1>2. 1 \in 1 .. Len(stream) /\ Head(stream) = stream[1]
    BY <1>1
  <1>3. /\ tracked' \in [Orders -> TrackedOrder] /\ pending' \subseteq Orders
        /\ booked' \in [Orders -> Nat] /\ fillEvents' \in [Orders -> Nat]
        /\ fees' \in [Orders -> Nat] /\ book' \in [Symbols -> Int]
        /\ TrackedIsAccepted' /\ UntrackedIsBlank' /\ OpenIsIncomplete'
        /\ FillsBookedOnce' /\ FillEventExact' /\ OpenIsTimed' /\ AbandonedIsAsked'
        /\ RoutedIsSent' /\ LedgerStep
    BY <1>1, <1>2, ApplyOrderUpdateStep
  <1>4. stream' \in Seq(Push)
    BY <1>1
  <1>5. TypeOK'
    BY <1>1, <1>3, <1>4 DEF IInv, TypeOK
  <1>6. StreamSound'
    <2>1. /\ Len(stream') = Len(stream) - 1 /\ Len(stream) \in Nat
          /\ \A i \in 1 .. Len(stream') : stream'[i] = stream[i + 1] /\ i + 1 \in 1 .. Len(stream)
      BY <1>1
    <2>. QED
      BY <1>1, <2>1 DEF IInv, StreamSound
  <1>7. OpenHasRoom' /\ WorkIsDone'
    BY <1>1 DEF IInv, OpenHasRoom, WorkIsDone
  <1>. QED
    BY <1>3, <1>5, <1>6, <1>7 DEF IInv

\* Losing the buffered pushes harms no record: nothing rests on a push arriving.
LEMMA StreamReconnectsStep ==
    ASSUME IInv, StreamReconnects
    PROVE  IInv'
  <1>. USE DEF StreamReconnects, local, loop, l4
  <1>1. stream' \in Seq(Push) /\ Len(stream') = 0
    OBVIOUS
  <1>2. TypeOK'
    BY <1>1 DEF IInv, TypeOK
  <1>3. StreamSound'
    BY <1>1 DEF StreamSound
  <1>4. /\ OpenHasRoom' /\ TrackedIsAccepted' /\ UntrackedIsBlank' /\ RoutedIsSent'
        /\ OpenIsIncomplete' /\ WorkIsDone' /\ FillsBookedOnce' /\ FillEventExact'
        /\ OpenIsTimed' /\ AbandonedIsAsked'
    BY DEF IInv, OpenHasRoom, TrackedIsAccepted, UntrackedIsBlank, RoutedIsSent,
           OpenIsIncomplete, WorkIsDone, FillsBookedOnce, FillEventExact, OpenIsTimed,
           AbandonedIsAsked
  <1>. QED
    BY <1>2, <1>3, <1>4 DEF IInv

\* The answer to a cancel ends the order or, failing that, moves nothing.
LEMMA CancelReturnsStep ==
    ASSUME IInv, CancelReturns
    PROVE  IInv' /\ LedgerStep
  <1>1. /\ pc = "cancel" /\ pc' = "query" /\ cur \in Orders
        /\ UNCHANGED <<aged, cur, work, asked, snap, ex, exPos, stream>>
    BY DEF CancelReturns, exch, IInv, TypeOK
  <1>2. /\ tracked' \in [Orders -> TrackedOrder] /\ pending' \subseteq Orders
        /\ booked' \in [Orders -> Nat] /\ fillEvents' \in [Orders -> Nat]
        /\ fees' \in [Orders -> Nat] /\ book' \in [Symbols -> Int]
        /\ TrackedIsAccepted' /\ UntrackedIsBlank' /\ OpenIsIncomplete'
        /\ FillsBookedOnce' /\ FillEventExact' /\ OpenIsTimed' /\ AbandonedIsAsked'
        /\ LedgerStep
    <2>1. CASE ex[cur].status = "canceled" /\ EndOrder(cur, "CANCELLED")
      BY <1>1, <2>1, EndOrderStep
    <2>2. CASE UNCHANGED <<tracked, pending, l4>>
      <3>1. UNCHANGED <<tracked, pending, book, booked, fees, fillEvents>>
        BY <2>2 DEF l4
      <3>2. LedgerStep
        BY <1>1, <3>1, LedgerStutter
      <3>. QED
        BY <1>1, <3>1, <3>2
        DEF IInv, TypeOK, TrackedIsAccepted, UntrackedIsBlank, OpenIsIncomplete,
            FillsBookedOnce, FillEventExact, OpenIsTimed, AbandonedIsAsked
    <2>. QED
      BY <2>1, <2>2 DEF CancelReturns
  <1>3. TypeOK'
    BY <1>1, <1>2 DEF IInv, TypeOK
  <1>4. OpenHasRoom' /\ StreamSound' /\ RoutedIsSent' /\ WorkIsDone'
    BY <1>1 DEF IInv, OpenHasRoom, StreamSound, RoutedIsSent, WorkIsDone
  <1>. QED
    BY <1>2, <1>3, <1>4 DEF IInv
-----------------------------------------------------------------------------
(***************************************************************************)
(* The timeout loop.                                                       *)
(***************************************************************************)

\* Whatever was on the list has been asked for or stays on it.
LEMMA NextTimedOutLemma ==
    ASSUME TypeOK, NEW w \in SUBSET Orders, NextTimedOut(w)
    PROVE  /\ pc' \in {"idle", "cancel"} /\ (pc' = "idle" => w = {} /\ work' = work)
           /\ w # {} => pc' = "cancel"
           /\ cur' \in Orders \cup {"nobody"} /\ (pc' # "idle" => cur' \in Orders)
           /\ work' \subseteq Orders /\ asked' \subseteq Orders
           /\ asked \cup w \subseteq asked' \cup work'
           /\ snap' \in [Symbols -> Int]
  <1>1. /\ cur \in Orders \cup {"nobody"} /\ work \subseteq Orders /\ asked \subseteq Orders
    BY DEF TypeOK
  <1>2. snap' \in [Symbols -> Int]
    BY DEF NextTimedOut, NoAnswer
  <1>3. CASE w = {}
    BY <1>1, <1>2, <1>3 DEF NextTimedOut
  <1>4. CASE w # {}
    <2>1. PICK o \in w : pc' = "cancel" /\ cur' = o /\ work' = w \ {o} /\ asked' = asked \cup {o}
      BY <1>4 DEF NextTimedOut
    <2>. QED
      BY <1>1, <1>2, <1>4, <2>1
  <1>. QED
    BY <1>3, <1>4

\* check_timeouts gives up on the overdue orders and the loop has them all to
\* cancel; nothing is booked or unbooked.
LEMMA CheckTimeoutsStep ==
    ASSUME IInv, CheckTimeouts
    PROVE  IInv' /\ LedgerStep
  <1>1. /\ TypeOK /\ tracked \in [Orders -> TrackedOrder] /\ pending \subseteq Orders
        /\ work = {} /\ TimedOut \subseteq pending /\ TimedOut # {}
    BY DEF IInv, TypeOK, CheckTimeouts, WorkIsDone, TimedOut
  <1>2. /\ pending' = pending \ TimedOut
        /\ UNCHANGED <<aged, book, booked, fees, fillEvents, ex, exPos, stream>>
        /\ NextTimedOut(TimedOut)
    BY DEF CheckTimeouts, l4, exch
  <1>3. /\ pc' = "cancel"
        /\ cur' \in Orders
        /\ work' \subseteq Orders /\ asked' \subseteq Orders
        /\ asked \cup TimedOut \subseteq asked' \cup work'
        /\ snap' \in [Symbols -> Int]
    BY <1>1, <1>2, NextTimedOutLemma
  <1>4. ASSUME NEW x \in Orders
        PROVE  /\ tracked'[x] \in TrackedOrder
               /\ tracked'[x].applied = tracked[x].applied
               /\ tracked'[x].status = IF x \in TimedOut THEN "CANCELLED"
                                       ELSE tracked[x].status
               /\ x \in TimedOut => tracked[x].status # "untracked"
    <2>1. tracked'[x] = IF x \in TimedOut THEN GivenUp(tracked[x]) ELSE tracked[x]
      BY DEF CheckTimeouts
    <2>2. tracked[x] \in TrackedOrder
      BY <1>1
    <2>3. x \in TimedOut => tracked[x].status # "untracked"
      BY <1>1 DEF IInv, UntrackedIsBlank
    <2>. QED
      BY <2>1, <2>2, <2>3 DEF GivenUp, TrackedOrder, Statuses, Terminal
  <1>5. TypeOK'
    <2>1. DOMAIN tracked' = Orders /\ tracked' = [x \in Orders |-> tracked'[x]]
      BY DEF CheckTimeouts
    <2>2. tracked' \in [Orders -> TrackedOrder]
      BY <1>4, <2>1
    <2>. QED
      BY <1>1, <1>2, <1>3, <2>2 DEF IInv, TypeOK
  <1>6. OpenHasRoom' /\ StreamSound' /\ RoutedIsSent' /\ WorkIsDone'
    BY <1>2, <1>3 DEF IInv, OpenHasRoom, StreamSound, RoutedIsSent, WorkIsDone
  <1>7. TrackedIsAccepted' /\ UntrackedIsBlank'
    BY <1>2, <1>4 DEF IInv, TrackedIsAccepted, UntrackedIsBlank
  <1>8. OpenIsIncomplete' /\ OpenIsTimed'
    BY <1>2, <1>4 DEF IInv, OpenIsIncomplete, OpenIsTimed, Open
  <1>9. FillsBookedOnce' /\ FillEventExact'
    BY <1>2, <1>4 DEF IInv, FillsBookedOnce, FillEventExact
  <1>10. AbandonedIsAsked'
    BY <1>1, <1>2, <1>3, <1>4 DEF IInv, AbandonedIsAsked
  <1>11. LedgerStep
    <2>1. Dead' = Dead \cup TimedOut
      BY <1>1, <1>4 DEF Dead
    <2>. QED
      BY <1>1, <1>2, <2>1, BuryStep
  <1>. QED
    BY <1>5, <1>6, <1>7, <1>8, <1>9, <1>10, <1>11 DEF IInv

\* The positions are on their way; no record moves.
LEMMA QueryAnsweredStep ==
    ASSUME IInv, QueryAnswered
    PROVE  IInv'
  <1>1. /\ pc' = "answered" /\ snap' = exPos /\ cur \in Orders
        /\ UNCHANGED <<tracked, pending, aged, cur, work, asked, book, booked, fees,
                       fillEvents, ex, exPos, stream>>
    BY DEF QueryAnswered, local, l4, exch, IInv, TypeOK
  <1>2. TypeOK'
    BY <1>1 DEF IInv, TypeOK
  <1>3. RoutedIsSent' /\ WorkIsDone' /\ AbandonedIsAsked'
    BY <1>1 DEF IInv, RoutedIsSent, WorkIsDone, AbandonedIsAsked
  <1>4. /\ OpenHasRoom' /\ StreamSound' /\ TrackedIsAccepted' /\ UntrackedIsBlank'
        /\ OpenIsIncomplete' /\ FillsBookedOnce' /\ FillEventExact' /\ OpenIsTimed'
    BY <1>1 DEF IInv, OpenHasRoom, StreamSound, TrackedIsAccepted, UntrackedIsBlank,
                OpenIsIncomplete, FillsBookedOnce, FillEventExact, OpenIsTimed
  <1>. QED
    BY <1>2, <1>3, <1>4 DEF IInv

\* sync_positions replaces the book, fails, or keeps it; no order moves.
LEMMA SyncEndsStep ==
    ASSUME IInv, SyncEnds
    PROVE  IInv'
  <1>1. /\ NextTimedOut(work)
        /\ UNCHANGED <<tracked, pending, aged, booked, fees, fillEvents, ex, exPos, stream>>
    BY DEF SyncEnds, SyncReturns, SyncFails, local, l4, exch
  <1>2. TypeOK /\ work \in SUBSET Orders
    BY DEF IInv, TypeOK
  <1>3. book' \in [Symbols -> Int]
    <2>1. book \in [Symbols -> Int] /\ snap \in [Symbols -> Int]
      BY <1>2 DEF TypeOK
    <2>2. CASE SyncReturns
      <3>1. \A s \in Symbols : Magnitude(snap[s]) \in Int
        BY <2>1 DEF Magnitude
      <3>. QED
        BY <2>1, <2>2, <3>1 DEF SyncReturns
    <2>3. CASE SyncFails
      BY <2>1, <2>3 DEF SyncFails, l4
    <2>. QED
      BY <2>2, <2>3 DEF SyncEnds
  <1>4. /\ pc' \in {"idle", "cancel"} /\ (pc' = "idle" => work' = {})
        /\ cur' \in Orders \cup {"nobody"} /\ (pc' # "idle" => cur' \in Orders)
        /\ work' \subseteq Orders /\ asked' \subseteq Orders
        /\ asked \cup work \subseteq asked' \cup work'
        /\ snap' \in [Symbols -> Int]
    BY <1>1, <1>2, NextTimedOutLemma
  <1>5. TypeOK'
    BY <1>1, <1>2, <1>3, <1>4 DEF TypeOK
  <1>6. RoutedIsSent' /\ WorkIsDone' /\ AbandonedIsAsked'
    BY <1>1, <1>4 DEF IInv, RoutedIsSent, WorkIsDone, AbandonedIsAsked
  <1>7. /\ OpenHasRoom' /\ StreamSound' /\ TrackedIsAccepted' /\ UntrackedIsBlank'
        /\ OpenIsIncomplete' /\ FillsBookedOnce' /\ FillEventExact' /\ OpenIsTimed'
    BY <1>1 DEF IInv, OpenHasRoom, StreamSound, TrackedIsAccepted, UntrackedIsBlank,
                OpenIsIncomplete, FillsBookedOnce, FillEventExact, OpenIsTimed
  <1>. QED
    BY <1>5, <1>6, <1>7 DEF IInv

-----------------------------------------------------------------------------
(***************************************************************************)
(* The exchange's steps.                                                   *)
(***************************************************************************)

\* Any order event that keeps or raises the filled quantity of a live order is
\* harmless to the engine's records.
LEMMA ExEventStep ==
    ASSUME IInv,
           NEW o \in Orders,
           NEW status \in {"open", "closed", "canceled", "rejected"},
           NEW n \in 0..Qty,
           ex[o].status \in {"sent", "open"},
           ex[o].filled <= n,
           status = "closed" <=> n = Qty,
           ExEvent(o, status, n),
           exPos' \in [Symbols -> Int]
    PROVE  IInv'
  <1>. DEFINE view == [status |-> status, filled |-> n]
              push == [order |-> o, status |-> status, filled |-> n]
  <1>1. /\ ex' = [ex EXCEPT ![o] = view] /\ stream' = Append(stream, push)
        /\ UNCHANGED <<tracked, pending, aged, pc, cur, work, asked, snap, book, booked,
                       fees, fillEvents>>
    BY DEF ExEvent, local, loop, l4
  <1>2. /\ ex \in [Orders -> ExOrder] /\ stream \in Seq(Push)
        /\ booked \in [Orders -> Nat] /\ (pc # "idle" => cur \in Orders)
    BY DEF IInv, TypeOK
  <1>3. /\ view \in ExOrder /\ view.status = status /\ view.filled = n /\ n \in Nat
        /\ push \in Push /\ push.order = o /\ push.status = status /\ push.filled = n
    BY OrderAssumption DEF ExOrder, ExStatuses, Push
  <1>. HIDE DEF view, push
  <1>4. ASSUME NEW x \in Orders
        PROVE  /\ x # o => ex'[x] = ex[x]
               /\ x = o => ex'[x].status = status /\ ex'[x].filled = n
               /\ ex[x].filled \in Nat /\ ex'[x].filled \in Nat
               /\ ex[x].filled <= ex'[x].filled
               /\ ex[x].status = "canceled" => ex'[x].status = "canceled"
    <2>1. ex[x] \in ExOrder
      BY <1>2
    <2>2. ex[x].filled \in Nat
      BY <2>1, OrderAssumption DEF ExOrder
    <2>. QED
      BY <1>1, <1>2, <1>3, <2>2
  <1>5. TypeOK'
    <2>1. ex' \in [Orders -> ExOrder] /\ stream' \in Seq(Push)
      BY <1>1, <1>2, <1>3
    <2>. QED
      BY <1>1, <2>1 DEF IInv, TypeOK
  <1>6. OpenHasRoom'
    BY <1>3, <1>4, OrderAssumption DEF IInv, OpenHasRoom
  <1>7. StreamSound'
    <2>1. ASSUME NEW i \in 1 .. Len(stream')
          PROVE  LET p == stream'[i]
                 IN  /\ p.filled <= ex'[p.order].filled
                     /\ p.status = "closed" => p.filled = Qty
                     /\ p.status = "open" => p.filled < Qty
                     /\ p.status = "canceled" => ex'[p.order].status = "canceled"
      <3>1. CASE i = Len(stream) + 1
        <4>1. stream'[i] = push
          BY <1>1, <1>2, <3>1
        <4>. QED
          BY <1>3, <1>4, <4>1, OrderAssumption
      <3>2. CASE i \in 1 .. Len(stream)
        <4>1. stream'[i] = stream[i]
          BY <1>1, <1>2, <3>2
        <4>2. stream[i].order \in Orders /\ stream[i].filled \in Nat
          BY <3>2, PushLemma, OrderAssumption DEF IInv
        <4>3. /\ stream[i].filled <= ex[stream[i].order].filled
              /\ stream[i].status = "closed" => stream[i].filled = Qty
              /\ stream[i].status = "open" => stream[i].filled < Qty
              /\ stream[i].status = "canceled" => ex[stream[i].order].status = "canceled"
          BY <3>2 DEF IInv, StreamSound
        <4>4. /\ ex[stream[i].order].filled \in Nat /\ ex'[stream[i].order].filled \in Nat
              /\ ex[stream[i].order].filled <= ex'[stream[i].order].filled
              /\ ex[stream[i].order].status = "canceled"
                    => ex'[stream[i].order].status = "canceled"
          BY <1>4, <4>2
        <4>. QED
          BY <4>1, <4>2, <4>3, <4>4
      <3>. QED
        BY <1>1, <1>2, <3>1, <3>2
    <2>. QED
      BY <2>1 DEF StreamSound
  <1>8. FillsBookedOnce'
    <2>1. ASSUME NEW x \in Orders
          PROVE  booked[x] = tracked[x].applied /\ booked[x] <= ex'[x].filled
      <3>1. booked[x] = tracked[x].applied /\ booked[x] <= ex[x].filled /\ booked[x] \in Nat
        BY <1>2 DEF IInv, FillsBookedOnce
      <3>. QED
        BY <1>4, <3>1
    <2>. QED
      BY <1>1, <2>1 DEF FillsBookedOnce
  <1>9. TrackedIsAccepted'
    BY <1>1, <1>4 DEF IInv, TrackedIsAccepted
  <1>10. RoutedIsSent'
    BY <1>1, <1>2, <1>4 DEF IInv, RoutedIsSent
  <1>11. AbandonedIsAsked'
    <2>1. ASSUME NEW x \in Orders, tracked[x].status = "CANCELLED", ex'[x].status = "open"
          PROVE  x \in asked \cup work
      <3>1. ex[x].status = "open"
        BY <1>4, <2>1 DEF IInv, TrackedIsAccepted
      <3>. QED
        BY <2>1, <3>1 DEF IInv, AbandonedIsAsked
    <2>. QED
      BY <1>1, <2>1 DEF AbandonedIsAsked
  <1>12. UntrackedIsBlank' /\ OpenIsIncomplete' /\ WorkIsDone' /\ FillEventExact' /\ OpenIsTimed'
    BY <1>1 DEF IInv, UntrackedIsBlank, OpenIsIncomplete, WorkIsDone, FillEventExact, OpenIsTimed
  <1>. QED
    BY <1>5, <1>6, <1>7, <1>8, <1>9, <1>10, <1>11, <1>12 DEF IInv
\* A refused order was never accepted, tracked or filled.
LEMMA ExRefuseStep ==
    ASSUME IInv, NEW o \in Orders, ExRefuse(o)
    PROVE  IInv'
  <1>. DEFINE view == [status |-> "refused", filled |-> 0]
  <1>1. /\ ex[o].status = "sent" /\ ex' = [ex EXCEPT ![o] = view]
        /\ UNCHANGED <<tracked, pending, aged, pc, cur, work, asked, snap, book, booked,
                       fees, fillEvents, exPos, stream>>
    BY DEF ExRefuse, local, loop, l4
  <1>2. view \in ExOrder /\ view.status = "refused" /\ view.filled = 0
    BY OrderAssumption DEF ExOrder, ExStatuses
  <1>. HIDE DEF view
  <1>3. ex \in [Orders -> ExOrder] /\ (pc # "idle" => cur \in Orders)
    BY DEF IInv, TypeOK
  <1>4. ex[o].filled = 0 /\ tracked[o].status = "untracked"
    BY <1>1 DEF IInv, TrackedIsAccepted
  <1>5. ASSUME NEW x \in Orders
        PROVE  /\ ex'[x].filled = ex[x].filled
               /\ ex'[x].status = IF x = o THEN "refused" ELSE ex[x].status
    BY <1>1, <1>2, <1>3, <1>4
  <1>6. TypeOK'
    BY <1>1, <1>2, <1>3 DEF IInv, TypeOK
  <1>7. OpenHasRoom' /\ TrackedIsAccepted' /\ RoutedIsSent'
    BY <1>1, <1>3, <1>4, <1>5 DEF IInv, OpenHasRoom, TrackedIsAccepted, RoutedIsSent
  <1>8. StreamSound'
    <2>1. ASSUME NEW i \in 1 .. Len(stream)
          PROVE  LET p == stream[i]
                 IN  /\ p.filled <= ex'[p.order].filled
                     /\ p.status = "closed" => p.filled = Qty
                     /\ p.status = "open" => p.filled < Qty
                     /\ p.status = "canceled" => ex'[p.order].status = "canceled"
      <3>1. stream[i].order \in Orders
        BY PushLemma DEF IInv
      <3>2. /\ ex'[stream[i].order].filled = ex[stream[i].order].filled
            /\ ex[stream[i].order].status = "canceled" => ex'[stream[i].order].status = "canceled"
        BY <1>1, <1>5, <3>1
      <3>. QED
        BY <3>2 DEF IInv, StreamSound
    <2>. QED
      BY <1>1, <2>1 DEF StreamSound
  <1>9. FillsBookedOnce'
    BY <1>1, <1>5 DEF IInv, FillsBookedOnce
  <1>10. AbandonedIsAsked'
    BY <1>1, <1>5 DEF IInv, AbandonedIsAsked
  <1>11. UntrackedIsBlank' /\ OpenIsIncomplete' /\ WorkIsDone' /\ FillEventExact' /\ OpenIsTimed'
    BY <1>1 DEF IInv, UntrackedIsBlank, OpenIsIncomplete, WorkIsDone, FillEventExact, OpenIsTimed
  <1>. QED
    BY <1>6, <1>7, <1>8, <1>9, <1>10, <1>11 DEF IInv

\* What a step of the exchange other than a refusal does to one order.
LEMMA ExchangeStep ==
    ASSUME IInv, NEW o \in Orders,
           ExAccept(o) \/ ExFill(o) \/ ExCancel(o) \/ ExReject(o)
    PROVE  IInv'
  <1>1. /\ ex[o] \in ExOrder /\ ex[o].filled \in 0..Qty /\ exPos \in [Symbols -> Int]
        /\ ex[o].status = "open" => ex[o].filled < Qty
        /\ ex[o].status = "sent" => ex[o].filled = 0
    BY DEF IInv, TypeOK, OpenHasRoom, TrackedIsAccepted, ExOrder
  <1>2. CASE ExAccept(o)
    BY <1>1, <1>2, OrderAssumption, ExEventStep DEF ExAccept
  <1>3. CASE ExFill(o)
    <2>. DEFINE n == ex[o].filled + 1
                status == IF n = Qty THEN "closed" ELSE "open"
    <2>1. /\ ex[o].status = "open" /\ ExEvent(o, status, n)
          /\ exPos' = [exPos EXCEPT ![SymbolOf[o]] = @ + SideOf[o]]
      BY <1>3 DEF ExFill
    <2>2. /\ n \in 0..Qty /\ ex[o].filled <= n
          /\ status \in {"open", "closed", "canceled", "rejected"}
          /\ status = "closed" <=> n = Qty
      BY <1>1, <2>1, OrderAssumption
    <2>3. exPos' \in [Symbols -> Int]
      <3>1. SideOf[o] \in Int /\ SymbolOf[o] \in Symbols
        BY OrderAssumption
      <3>. QED
        BY <1>1, <2>1, <3>1
    <2>. HIDE DEF n, status
    <2>. QED
      BY <2>1, <2>2, <2>3, ExEventStep
  <1>4. CASE ExCancel(o)
    BY <1>1, <1>4, OrderAssumption, ExEventStep DEF ExCancel
  <1>5. CASE ExReject(o)
    BY <1>1, <1>5, OrderAssumption, ExEventStep DEF ExReject
  <1>. QED
    BY <1>2, <1>3, <1>4, <1>5

-----------------------------------------------------------------------------
(***************************************************************************)
(* The theorems.                                                           *)
(***************************************************************************)

\* A step that changes nothing preserves the invariant.
LEMMA StutterStep == IInv /\ UNCHANGED vars => IInv'
  BY DEF vars, IInv, TypeOK, OpenHasRoom, StreamSound, TrackedIsAccepted, UntrackedIsBlank,
         RoutedIsSent, OpenIsIncomplete, WorkIsDone, FillsBookedOnce, FillEventExact,
         OpenIsTimed, AbandonedIsAsked

\* Every step of the order path, the exchange or the clock preserves IInv.
THEOREM NextInvariant == IInv /\ [Next]_vars => IInv'
  <1>. SUFFICES ASSUME IInv, [Next]_vars PROVE IInv'
    OBVIOUS
  <1>1. ASSUME NEW o \in Orders, Submit(o) PROVE IInv'
    BY <1>1, SubmitStep
  <1>2. ASSUME NEW n \in 0..Qty, RouteReturns(n) PROVE IInv'
    BY <1>2, RouteReturnsStep
  <1>3. CASE RouteFails
    BY <1>3, RouteFailsStep
  <1>4. CASE OnOrderUpdate
    BY <1>4, OnOrderUpdateStep
  <1>5. CASE StreamReconnects
    BY <1>5, StreamReconnectsStep
  <1>6. ASSUME NEW o \in Orders, Age(o) PROVE IInv'
    BY <1>6, AgeStep
  <1>7. CASE CheckTimeouts
    BY <1>7, CheckTimeoutsStep
  <1>8. CASE CancelReturns
    BY <1>8, CancelReturnsStep
  <1>9. CASE QueryAnswered
    BY <1>9, QueryAnsweredStep
  <1>10. CASE SyncReturns \/ SyncFails
    BY <1>10, SyncEndsStep DEF SyncEnds
  <1>11. ASSUME NEW o \in Orders, ExRefuse(o) PROVE IInv'
    BY <1>11, ExRefuseStep
  <1>12. ASSUME NEW o \in Orders, ExAccept(o) \/ ExFill(o) \/ ExCancel(o) \/ ExReject(o)
         PROVE  IInv'
    BY <1>12, ExchangeStep
  <1>13. CASE UNCHANGED vars
    BY <1>13, StutterStep
  <1>. QED
    BY <1>1, <1>2, <1>3, <1>4, <1>5, <1>6, <1>7, <1>8, <1>9, <1>10, <1>11, <1>12, <1>13 DEF Next

\* The inductive invariant holds in every reachable state.
THEOREM InductiveInvariant == Spec => []IInv
  BY InitInvariant, NextInvariant, PTL DEF Spec

\* Every variable keeps its type.
THEOREM TypeCorrect == Spec => []TypeOK
  <1>1. IInv => TypeOK
    BY DEF IInv
  <1>. QED
    BY <1>1, InductiveInvariant, PTL

\* Reports of a fill, however they interleave, repeat or go missing, are booked
\* at most once and never ahead of the exchange (_handle_fill's delta and the
\* mirrored applied_filled_qty).
THEOREM BookedOnce == Spec => []FillsBookedOnce
  <1>1. IInv => FillsBookedOnce
    BY DEF IInv
  <1>. QED
    BY <1>1, InductiveInvariant, PTL

\* EVENT_FILL is published exactly once for an order booked in full and never
\* for another.
THEOREM OneFillEvent == Spec => []FillEventExact
  <1>1. IInv => FillEventExact
    BY DEF IInv
  <1>. QED
    BY <1>1, InductiveInvariant, PTL

\* An order believed open is on the timer.
THEOREM OpenOrdersAreTimed == Spec => []OpenIsTimed
  <1>1. IInv => OpenIsTimed
    BY DEF IInv
  <1>. QED
    BY <1>1, InductiveInvariant, PTL

\* No order is given up locally and forgotten on the exchange.
THEOREM AbandonedOrdersAreAsked == Spec => []AbandonedIsAsked
  <1>1. IInv => AbandonedIsAsked
    BY DEF IInv
  <1>. QED
    BY <1>1, InductiveInvariant, PTL

-----------------------------------------------------------------------------
(***************************************************************************)
(* The order path implements FillLedger.                                   *)
(***************************************************************************)

\* A session that has sent nothing is an empty ledger.
THEOREM LedgerInit == Init => Ledger!Init
  BY DEF Init, Ledger!Init, Dead

\* Every step of the order path is a step of the ledger, or none.
THEOREM LedgerNext == IInv /\ [Next]_vars => LedgerStep
  <1>. SUFFICES ASSUME IInv, [Next]_vars PROVE LedgerStep
    OBVIOUS
  <1>1. CASE UNCHANGED <<tracked, booked, ex>>
    BY <1>1, LedgerStutter
  <1>2. ASSUME NEW o \in Orders, Submit(o) \/ ExRefuse(o) PROVE LedgerStep
    <2>1. ex[o].filled = 0 /\ ex \in [Orders -> ExOrder]
      BY <1>2 DEF IInv, TypeOK, TrackedIsAccepted, Submit, ExRefuse
    <2>2. UNCHANGED <<tracked, booked>>
      BY <1>2 DEF Submit, ExRefuse, local, l4
    <2>3. \E s : ex' = [ex EXCEPT ![o] = [status |-> s, filled |-> 0]]
      BY <1>2 DEF Submit, ExRefuse
    <2>4. \A x \in Orders : ex'[x].filled = ex[x].filled
      BY <2>1, <2>3
    <2>. QED
      BY <2>2, <2>4, LedgerStutter
  <1>3. ASSUME NEW n \in 0..Qty, RouteReturns(n) PROVE LedgerStep
    BY <1>3, RouteReturnsStep
  <1>4. CASE OnOrderUpdate
    BY <1>4, OnOrderUpdateStep
  <1>5. CASE CheckTimeouts
    BY <1>5, CheckTimeoutsStep
  <1>6. CASE CancelReturns
    BY <1>6, CancelReturnsStep
  <1>7. ASSUME NEW o \in Orders, ExAccept(o) \/ ExCancel(o) \/ ExReject(o) PROVE LedgerStep
    <2>1. ex \in [Orders -> ExOrder] /\ (ex[o].status = "sent" => ex[o].filled = 0)
      BY DEF IInv, TypeOK, TrackedIsAccepted
    <2>2. UNCHANGED <<tracked, booked>>
      BY <1>7 DEF ExAccept, ExCancel, ExReject, ExEvent, local, l4
    <2>3. \E s : ex' = [ex EXCEPT ![o] = [status |-> s, filled |-> ex[o].filled]]
      BY <1>7, <2>1 DEF ExAccept, ExCancel, ExReject, ExEvent
    <2>4. \A x \in Orders : ex'[x].filled = ex[x].filled
      BY <2>1, <2>3
    <2>. QED
      BY <2>2, <2>4, LedgerStutter
  <1>8. ASSUME NEW o \in Orders, ExFill(o) PROVE LedgerStep
    <2>1. ex \in [Orders -> ExOrder] /\ ex[o].filled < Qty
      BY <1>8 DEF IInv, TypeOK, OpenHasRoom, ExFill
    <2>2. UNCHANGED <<tracked, booked>>
      BY <1>8 DEF ExFill, ExEvent, local, l4
    <2>3. \E s : ex' = [ex EXCEPT ![o] = [status |-> s, filled |-> ex[o].filled + 1]]
      BY <1>8 DEF ExFill, ExEvent
    <2>. DEFINE before == [x \in Orders |-> ex[x].filled]
                after  == [x \in Orders |-> ex'[x].filled]
    <2>4. after = [before EXCEPT ![o] = before[o] + 1]
      <3>1. ASSUME NEW x \in Orders
            PROVE  ex'[x].filled = IF x = o THEN ex[o].filled + 1 ELSE ex[x].filled
        BY <2>1, <2>3
      <3>2. after = [x \in Orders |-> IF x = o THEN before[o] + 1 ELSE before[x]]
        BY <3>1
      <3>. QED
        BY <3>2
    <2>5. Dead' = Dead /\ before[o] < Qty
      BY <2>1, <2>2 DEF Dead
    <2>6. Ledger!Fill(o)
      BY <2>2, <2>4, <2>5 DEF Ledger!Fill
    <2>. QED
      BY <2>6 DEF LedgerStep, Ledger!Next
  <1>9. CASE RouteFails \/ StreamReconnects \/ QueryAnswered \/ SyncReturns \/ SyncFails
             \/ UNCHANGED vars \/ \E o \in Orders : Age(o)
    <2>1. UNCHANGED <<tracked, booked, ex>>
      BY <1>9 DEF RouteFails, StreamReconnects, QueryAnswered, SyncReturns, SyncFails, vars,
                  Age, local, l4, exch
    <2>. QED
      BY <1>1, <2>1
  <1>. QED
    BY <1>2, <1>3, <1>4, <1>5, <1>6, <1>7, <1>8, <1>9 DEF Next

\* REL-H5 and the idempotent booking of fills, as one specification: the order
\* path implements FillLedger.
THEOREM Implementation == Spec => ImplementsFillLedger
  BY LedgerInit, LedgerNext, InductiveInvariant, PTL
     DEF Spec, ImplementsFillLedger, Ledger!Spec, LedgerStep

-----------------------------------------------------------------------------
(***************************************************************************)
(* A finished order stays finished.                                        *)
(***************************************************************************)

\* Nothing about order o changes but the name of its end.
Settled(o) ==
    /\ tracked'[o].status \in Terminal
    /\ tracked'[o].filled = tracked[o].filled
    /\ tracked'[o].applied = tracked[o].applied
    /\ booked'[o] = booked[o]
    /\ fees'[o] = fees[o]
    /\ fillEvents'[o] = fillEvents[o]

\* A step that writes the record and the ledger of another order.
LEMMA OtherOrder ==
    ASSUME TypeOK, NEW o \in Orders, NEW x \in Orders, tracked[o].status \in Terminal, x # o,
           NEW rec, tracked' = [tracked EXCEPT ![x] = rec],
           UNCHANGED l4 \/ \E order : HandleFill(x, order)
    PROVE  Settled(o)
  <1>1. tracked'[o] = tracked[o]
    BY DEF TypeOK
  <1>2. CASE UNCHANGED l4
    BY <1>1, <1>2 DEF l4, Settled
  <1>3. ASSUME NEW order, HandleFill(x, order)
        PROVE  Settled(o)
    <2>1. booked'[o] = booked[o] /\ fees'[o] = fees[o] /\ fillEvents'[o] = fillEvents[o]
      BY <1>3 DEF HandleFill, TypeOK
    <2>. QED
      BY <1>1, <2>1 DEF Settled
  <1>. QED
    BY <1>2, <1>3

\* update() leaves a finished record alone.
LEMMA EndOrderSettles ==
    ASSUME TypeOK, NEW o \in Orders, NEW x \in Orders, tracked[o].status \in Terminal,
           NEW status, EndOrder(x, status)
    PROVE  Settled(o)
  <1>1. CASE x = o
    BY <1>1 DEF EndOrder, Update, Ignored, TypeOK, l4, Settled
  <1>2. CASE x # o
    BY <1>2, OtherOrder DEF EndOrder
  <1>. QED
    BY <1>1, <1>2

LEMMA PushSettles ==
    ASSUME TypeOK, NEW o \in Orders, tracked[o].status \in Terminal, OnOrderUpdate
    PROVE  Settled(o)
  <1>. DEFINE p == Head(stream)
  <1>1. p.order \in Orders
    <2>1. stream \in Seq(Push) /\ stream # <<>>
      BY DEF OnOrderUpdate, TypeOK
    <2>2. p \in Push
      BY <2>1
    <2>. QED
      BY <2>2 DEF Push
  <1>. HIDE DEF p
  <1>2. ApplyOrderUpdate(p)
    BY DEF OnOrderUpdate, p
  <1>3. CASE UNCHANGED <<tracked, pending, l4>>
    BY <1>3 DEF l4, Settled
  <1>4. ASSUME NEW status, EndOrder(p.order, status)
        PROVE  Settled(o)
    BY <1>1, <1>4, EndOrderSettles
  <1>5. CASE ~PushIgnored(tracked[p.order]) /\ StampFill(p.order, p)
    <2>1. p.order # o
      BY <1>5 DEF PushIgnored, Ignored
    <2>2. \E rec : tracked' = [tracked EXCEPT ![p.order] = rec]
      BY <1>5 DEF StampFill
    <2>3. \E order : HandleFill(p.order, order)
      BY <1>5 DEF StampFill
    <2>. QED
      BY <1>1, <2>1, <2>2, <2>3, OtherOrder
  <1>. QED
    BY <1>2, <1>3, <1>4, <1>5 DEF ApplyOrderUpdate

LEMMA RouteReturnsSettles ==
    ASSUME IInv, NEW o \in Orders, tracked[o].status \in Terminal, NEW n \in 0..Qty,
           RouteReturns(n)
    PROVE  Settled(o)
  <1>1. cur \in Orders /\ cur # o
    BY DEF RouteReturns, IInv, TypeOK, RoutedIsSent, Terminal
  <1>2. \E rec : tracked' = [tracked EXCEPT ![cur] = rec]
    BY DEF RouteReturns
  <1>3. UNCHANGED l4 \/ \E order : HandleFill(cur, order)
    BY DEF RouteReturns
  <1>. QED
    BY <1>1, <1>2, <1>3, OtherOrder DEF IInv

LEMMA StepSettles ==
    ASSUME IInv, [Next]_vars, NEW o \in Orders, tracked[o].status \in Terminal
    PROVE  Settled(o)
  <1>1. ASSUME NEW n \in 0..Qty, RouteReturns(n) PROVE Settled(o)
    BY <1>1, RouteReturnsSettles
  <1>2. CASE OnOrderUpdate
    BY <1>2, PushSettles DEF IInv
  <1>3. CASE CheckTimeouts
    BY <1>3 DEF CheckTimeouts, GivenUp, IInv, TypeOK, l4, Settled, Terminal
  <1>4. CASE CancelReturns
    <2>1. CASE UNCHANGED <<tracked, pending, l4>>
      BY <2>1 DEF l4, Settled
    <2>2. CASE EndOrder(cur, "CANCELLED")
      BY <1>4, <2>2, EndOrderSettles DEF CancelReturns, IInv, TypeOK
    <2>. QED
      BY <1>4, <2>1, <2>2 DEF CancelReturns
  <1>5. CASE SyncReturns
    BY <1>5 DEF SyncReturns, local, Settled
  <1>6. CASE UNCHANGED <<local, l4>>
    BY <1>6 DEF local, l4, Settled
  <1>7. CASE RouteFails \/ StreamReconnects \/ QueryAnswered \/ SyncFails \/ UNCHANGED vars
             \/ \E x \in Orders : Submit(x) \/ ExAccept(x) \/ ExRefuse(x) \/ ExFill(x)
                                  \/ ExCancel(x) \/ ExReject(x)
    <2>1. UNCHANGED <<local, l4>>
      BY <1>7 DEF RouteFails, StreamReconnects, QueryAnswered, SyncFails, vars, Submit,
                  ExAccept, ExRefuse, ExFill, ExCancel, ExReject, ExEvent, local, l4
    <2>. QED
      BY <1>6, <2>1
  <1>8. ASSUME NEW x \in Orders, Age(x) PROVE Settled(o)
    BY <1>8 DEF Age, l4, Settled
  <1>. QED
    BY <1>1, <1>2, <1>3, <1>4, <1>5, <1>7, <1>8 DEF Next

\* Once an order is FILLED, CANCELLED or REJECTED no response, push, timeout or
\* cancel makes it live again, books a lot or a fee of it or publishes its fill.
\* Only the status may still change to another end, as a finished order that
\* was left on the timer is given up when it times out.
THEOREM FinishedStaysFinished ==
    Spec => [][\A o \in Orders : tracked[o].status \in Terminal => Settled(o)]_vars
  <1>1. IInv /\ [Next]_vars
          => [\A o \in Orders : tracked[o].status \in Terminal => Settled(o)]_vars
    BY StepSettles
  <1>. QED
    BY <1>1, InductiveInvariant, PTL DEF Spec
=============================================================================
