--------------------------- MODULE OrderLifecycle ---------------------------
(***************************************************************************)
(* The live order path of one trading session: ExecutionEngine,            *)
(* OrderManager and the part of TradingSession.run_data_loop that times    *)
(* orders out, against an exchange reached over REST (create_order,        *)
(* cancel_order, query_positions) and over the watch_orders push stream.   *)
(*                                                                         *)
(* Everything runs on one asyncio event loop, so an action is the code     *)
(* between two awaits.  Two tasks matter here: the data loop, which        *)
(* submits, times out, cancels and syncs one call after the other (pc says *)
(* which call it is awaiting), and the stream consumer, whose handler      *)
(* _apply_order_update runs to completion for every push.                  *)
(*                                                                         *)
(* Quantities are lots; the fee of an order is one unit per lot.  The kill *)
(* switch is not active and fewer than MAX_TRACKED_ORDERS orders exist.    *)
(***************************************************************************)
EXTENDS Integers, Sequences, FiniteSets

CONSTANTS
    Orders,     \* exchange order ids of the session
    Symbols,    \* trading pairs
    Qty,        \* requested quantity of every order, in lots
    SymbolOf,   \* SymbolOf[o]: the pair order o trades
    SideOf,     \* SideOf[o]: 1 for BUY, -1 for SELL
    Lossy       \* TRUE: the push stream may lose what is buffered in it

ASSUME OrderAssumption ==
    /\ Qty \in Nat \ {0}
    /\ SymbolOf \in [Orders -> Symbols]
    /\ SideOf \in [Orders -> {-1, 1}]
    /\ Lossy \in BOOLEAN

VARIABLES
    tracked,    \* OrderManager._orders: the tracked copy of each order
    pending,    \* OrderManager._pending: orders still timed
    aged,       \* orders whose age exceeds the timeout
    pc,         \* the call the data loop is awaiting
    cur,        \* the order that call is about
    work,       \* timed-out orders the data loop has still to cancel
    asked,      \* orders the exchange was asked to cancel
    snap,       \* the answer to query_positions on its way back
    book,       \* L4 position quantity per symbol
    booked,     \* lots of each order handed to update_position
    fees,       \* fees of each order debited from L4 cash
    fillEvents, \* EVENT_FILL events published for each order
    ex,         \* the exchange's view of each order
    exPos,      \* the exchange's position per symbol
    stream      \* pushes on their way to the consumer

local == <<tracked, pending, aged>>
loop  == <<pc, cur, work, asked, snap>>
l4    == <<book, booked, fees, fillEvents>>
exch  == <<ex, exPos, stream>>
vars  == <<tracked, pending, aged, pc, cur, work, asked, snap,
           book, booked, fees, fillEvents, ex, exPos, stream>>

Terminal == {"FILLED", "CANCELLED", "REJECTED"}
Open     == {"SUBMITTED", "PARTIAL"}
Statuses == {"untracked"} \cup Open \cup Terminal

ExStatuses == {"none", "sent", "refused", "open", "closed", "canceled", "rejected"}

Push == [order : Orders, status : {"open", "closed", "canceled", "rejected"},
         filled : 0..Qty]

TrackedOrder == [status : Statuses, filled : 0..Qty, applied : 0..Qty]

ExOrder == [status : ExStatuses, filled : 0..Qty]

TypeOK ==
    /\ tracked \in [Orders -> TrackedOrder]
    /\ pending \subseteq Orders
    /\ aged \subseteq Orders
    /\ pc \in {"idle", "route", "cancel", "query", "answered"}
    /\ cur \in Orders \cup {"nobody"}
    /\ pc # "idle" => cur \in Orders
    /\ work \subseteq Orders
    /\ asked \subseteq Orders
    /\ snap \in [Symbols -> Int]
    /\ book \in [Symbols -> Int]
    /\ booked \in [Orders -> Nat]
    /\ fees \in [Orders -> Nat]
    /\ fillEvents \in [Orders -> Nat]
    /\ ex \in [Orders -> ExOrder]
    /\ exPos \in [Symbols -> Int]
    /\ stream \in Seq(Push)

NoAnswer == [s \in Symbols |-> 0]

Init ==
    /\ tracked = [o \in Orders |-> [status |-> "untracked", filled |-> 0, applied |-> 0]]
    /\ pending = {}
    /\ aged = {}
    /\ pc = "idle"
    /\ cur = "nobody"
    /\ work = {}
    /\ asked = {}
    /\ snap = NoAnswer
    /\ book = [s \in Symbols |-> 0]
    /\ booked = [o \in Orders |-> 0]
    /\ fees = [o \in Orders |-> 0]
    /\ fillEvents = [o \in Orders |-> 0]
    /\ ex = [o \in Orders |-> [status |-> "none", filled |-> 0]]
    /\ exPos = [s \in Symbols |-> 0]
    /\ stream = <<>>

-----------------------------------------------------------------------------
(***************************************************************************)
(* OrderManager on one tracked order.                                      *)
(***************************************************************************)

\* 0 < filled < quantity: the report is a partial fill whatever status it carries.
IsPartial(n) == 0 < n /\ n < Qty

\* The early returns of update(), shared by _apply_order_update: no such order,
\* or one that is already terminal.
Ignored(rec) == rec.status = "untracked" \/ rec.status \in Terminal

\* update(): a finished order is left alone, a partial fill stays PARTIAL.
Update(rec, status, n) ==
    IF Ignored(rec) THEN rec
    ELSE [status  |-> IF IsPartial(n) THEN "PARTIAL" ELSE status,
          filled  |-> IF n > 0 THEN n ELSE rec.filled,
          applied |-> rec.applied]

\* Mutant: a partial fill is taken off the timer as well.
PendingAfter_PopsPartial(o, rec, status, n) ==
    IF ~Ignored(rec) THEN pending \ {o} ELSE pending

\* update() on _pending: popped when this very call makes the order terminal.
PendingAfter(o, rec, status, n) ==
    IF ~Ignored(rec) /\ ~IsPartial(n) /\ status \in Terminal
    THEN pending \ {o}
    ELSE pending

\* track(): only an order that is not terminal yet is put on the timer.
TrackPending(o, status) == IF status \in Terminal THEN pending ELSE pending \cup {o}

\* Mutant: only orders without any fill are timed out.
TimedOut_NoPartial == {o \in pending \cap aged : tracked[o].status = "SUBMITTED"}

\* check_timeouts(): the orders on the timer for longer than the timeout.
TimedOut == pending \cap aged

-----------------------------------------------------------------------------
(***************************************************************************)
(* ExecutionEngine._handle_fill: the delta between the cumulative quantity *)
(* reported and the quantity already applied goes to the L4 portfolio.     *)
(***************************************************************************)

Delta(order) == IF order.filled > order.applied THEN order.filled - order.applied ELSE 0

\* Mutant: the cumulative quantity is added as if it were a delta.
AppliedAfter_Accumulates(order) ==
    IF Delta(order) > 0 THEN order.applied + order.filled ELSE order.applied

\* applied_filled_qty of the order object after _handle_fill
AppliedAfter(order) == IF Delta(order) > 0 THEN order.filled ELSE order.applied

\* The L4 half of _handle_fill.  The cumulative fee goes with every delta.
HandleFill(o, order) ==
    /\ booked' = [booked EXCEPT ![o] = @ + Delta(order)]
    /\ book' = [book EXCEPT ![SymbolOf[o]] = @ + SideOf[o] * Delta(order)]
    /\ fees' = [fees EXCEPT ![o] = @ + IF Delta(order) > 0 THEN order.filled ELSE 0]
    /\ fillEvents' = [fillEvents EXCEPT ![o] =
                        @ + IF order.status = "FILLED" THEN 1 ELSE 0]

-----------------------------------------------------------------------------
(***************************************************************************)
(* Submitting: submit -> router.route -> gateway.send_order -> create_order*)
(***************************************************************************)

\* The data loop starts to await create_order.
Submit(o) ==
    /\ pc = "idle"
    /\ ex[o].status = "none"
    /\ pc' = "route"
    /\ cur' = o
    /\ ex' = [ex EXCEPT ![o] = [status |-> "sent", filled |-> 0]]
    /\ UNCHANGED <<work, asked, snap, exPos, stream>>
    /\ UNCHANGED local
    /\ UNCHANGED l4

\* send_order: the status it stamps for the filled quantity of the response.
\* Without a fill submit downgrades to SUBMITTED.
RestStatus(n) ==
    IF n >= Qty THEN "FILLED" ELSE IF n > 0 THEN "PARTIAL" ELSE "SUBMITTED"

\* Mutant: submit leaves the tracked copy without the applied quantity.
Mirror_Missing(copy, order) == copy

\* The applied quantity is mirrored onto the tracked copy.
Mirror(copy, order) ==
    [status |-> copy.status, filled |-> copy.filled, applied |-> AppliedAfter(order)]

\* create_order returns: track, then book what the response carries.  The
\* response is a snapshot the exchange took at some earlier moment.
RouteReturns(n) ==
    LET order == [status |-> RestStatus(n), filled |-> n, applied |-> 0]
        copy  == IF n > 0 THEN Update(order, order.status, n) ELSE order
    IN  /\ pc = "route"
        /\ ex[cur].status \notin {"sent", "refused"}
        /\ n \in 0 .. ex[cur].filled
        /\ tracked' = [tracked EXCEPT ![cur] = Mirror(copy, order)]
        /\ pending' = TrackPending(cur, order.status)
        /\ IF n > 0 THEN HandleFill(cur, order) ELSE UNCHANGED l4
        /\ pc' = "idle"
        /\ UNCHANGED <<aged, cur, work, asked, snap>>
        /\ UNCHANGED exch

\* send_order raises: refused, not connected, or timed out with the fate of the
\* request unknown.  The order is REJECTED to the caller and never tracked.
RouteFails ==
    /\ pc = "route"
    /\ pc' = "idle"
    /\ UNCHANGED <<cur, work, asked, snap>>
    /\ UNCHANGED local
    /\ UNCHANGED l4
    /\ UNCHANGED exch

-----------------------------------------------------------------------------
(***************************************************************************)
(* The push stream: _watch_orders_loop and _apply_order_update.            *)
(***************************************************************************)

\* Mutants: no guard for finished orders; only a FILLED order is guarded.
PushIgnored_Untracked(rec) == rec.status = "untracked"
PushIgnored_NotCancelled(rec) == rec.status \in {"untracked", "FILLED"}

\* The handler's own guard, before anything is stamped.
PushIgnored(rec) == Ignored(rec)

\* A canceled or rejected push, and a cancel that succeeds, end the order with
\* a bare update(): whatever fill the report carries is not looked at.
EndOrder(o, status) ==
    /\ tracked' = [tracked EXCEPT ![o] = Update(tracked[o], status, 0)]
    /\ pending' = PendingAfter(o, tracked[o], status, 0)
    /\ UNCHANGED l4

\* An open or closed push: stamp the tracked order, then _handle_fill on it.
StampFill(o, p) ==
    LET order == [status  |-> IF p.status = "closed" THEN "FILLED" ELSE "PARTIAL",
                  filled  |-> p.filled,
                  applied |-> tracked[o].applied]
        copy  == Update(order, order.status, order.filled)
    IN  /\ tracked' = [tracked EXCEPT ![o] = [status  |-> copy.status,
                                             filled  |-> copy.filled,
                                             applied |-> AppliedAfter(order)]]
        /\ pending' = PendingAfter(o, order, order.status, order.filled)
        /\ HandleFill(o, order)

ApplyOrderUpdate(p) ==
    \/ /\ PushIgnored(tracked[p.order])
       /\ UNCHANGED <<tracked, pending, l4>>
    \/ /\ ~PushIgnored(tracked[p.order])
       /\ \/ p.status = "canceled" /\ EndOrder(p.order, "CANCELLED")
          \/ p.status = "rejected" /\ EndOrder(p.order, "REJECTED")
          \/ /\ p.status = "closed" \/ (p.status = "open" /\ p.filled > 0)
             /\ StampFill(p.order, p)
          \/ /\ p.status = "open" /\ p.filled = 0
             /\ UNCHANGED <<tracked, pending, l4>>

\* The consumer task gets the next push.
OnOrderUpdate ==
    /\ stream # <<>>
    /\ ApplyOrderUpdate(Head(stream))
    /\ stream' = Tail(stream)
    /\ UNCHANGED <<aged, ex, exPos>>
    /\ UNCHANGED loop

\* watch_orders raises, the loop backs off and reconnects: what was buffered
\* is gone.  Without ws_order_stream every push is lost this way.
StreamReconnects ==
    /\ Lossy
    /\ stream # <<>>
    /\ stream' = <<>>
    /\ UNCHANGED <<ex, exPos>>
    /\ UNCHANGED local
    /\ UNCHANGED loop
    /\ UNCHANGED l4

-----------------------------------------------------------------------------
(***************************************************************************)
(* Timeouts: check_timeouts, and for each timed-out order one cancel and   *)
(* one sync_positions, each awaited before the next begins.                *)
(***************************************************************************)

\* Wall-clock time passes: an order on the timer outlives the timeout.
Age(o) ==
    /\ o \in pending \ aged
    /\ aged' = aged \cup {o}
    /\ UNCHANGED <<tracked, pending>>
    /\ UNCHANGED loop
    /\ UNCHANGED l4
    /\ UNCHANGED exch

\* Mutant: the list of timed-out orders is discarded.
NextTimedOut_Discards(w) ==
    /\ snap' = NoAnswer
    /\ pc' = "idle"
    /\ UNCHANGED <<cur, work, asked>>

\* The next timed-out order is cancelled on the exchange, or the list is done.
NextTimedOut(w) ==
    /\ snap' = NoAnswer
    /\ IF w = {}
       THEN pc' = "idle" /\ UNCHANGED <<cur, work, asked>>
       ELSE \E o \in w : /\ pc' = "cancel"
                         /\ cur' = o
                         /\ work' = w \ {o}
                         /\ asked' = asked \cup {o}

GivenUp(rec) == [status |-> "CANCELLED", filled |-> rec.filled, applied |-> rec.applied]

\* check_timeouts marks the order CANCELLED before the exchange is asked.
CheckTimeouts ==
    /\ pc = "idle"
    /\ TimedOut # {}
    /\ tracked' = [o \in Orders |-> IF o \in TimedOut THEN GivenUp(tracked[o]) ELSE tracked[o]]
    /\ pending' = pending \ TimedOut
    /\ NextTimedOut(TimedOut)
    /\ UNCHANGED aged
    /\ UNCHANGED l4
    /\ UNCHANGED exch

\* cancel returns; TRUE only if the exchange cancelled, FALSE (or an exception,
\* caught by the loop) whatever became of the request.
CancelReturns ==
    /\ pc = "cancel"
    /\ pc' = "query"
    /\ \/ ex[cur].status = "canceled" /\ EndOrder(cur, "CANCELLED")
       \/ UNCHANGED <<tracked, pending, l4>>
    /\ UNCHANGED <<aged, cur, work, asked, snap>>
    /\ UNCHANGED exch

\* The exchange answers query_positions; the answer is now on its way.
QueryAnswered ==
    /\ pc = "query"
    /\ pc' = "answered"
    /\ snap' = exPos
    /\ UNCHANGED <<cur, work, asked>>
    /\ UNCHANGED local
    /\ UNCHANGED l4
    /\ UNCHANGED exch

Magnitude(n) == IF n < 0 THEN -n ELSE n

\* sync_positions overwrites the book with every position in the answer.  A
\* flat symbol has no row in it, and a row carries the magnitude only.
SyncReturns ==
    /\ pc = "answered"
    /\ book' = [s \in Symbols |-> IF snap[s] # 0 THEN Magnitude(snap[s]) ELSE book[s]]
    /\ NextTimedOut(work)
    /\ UNCHANGED <<booked, fees, fillEvents>>
    /\ UNCHANGED local
    /\ UNCHANGED exch

\* query_positions fails: the last known book is kept.
SyncFails ==
    /\ pc \in {"query", "answered"}
    /\ NextTimedOut(work)
    /\ UNCHANGED local
    /\ UNCHANGED l4
    /\ UNCHANGED exch

-----------------------------------------------------------------------------
(***************************************************************************)
(* The exchange, external to the program: what it may do to an order.      *)
(***************************************************************************)

\* An order event of the exchange: new view of the order, one push for it.
ExEvent(o, status, n) ==
    /\ ex' = [ex EXCEPT ![o] = [status |-> status, filled |-> n]]
    /\ stream' = Append(stream, [order |-> o, status |-> status, filled |-> n])
    /\ UNCHANGED local
    /\ UNCHANGED loop
    /\ UNCHANGED l4

ExAccept(o) ==
    /\ ex[o].status = "sent"
    /\ ExEvent(o, "open", 0)
    /\ UNCHANGED exPos

ExRefuse(o) ==
    /\ ex[o].status = "sent"
    /\ ex' = [ex EXCEPT ![o] = [status |-> "refused", filled |-> 0]]
    /\ UNCHANGED <<exPos, stream>>
    /\ UNCHANGED local
    /\ UNCHANGED loop
    /\ UNCHANGED l4

ExFill(o) ==
    LET n == ex[o].filled + 1
    IN  /\ ex[o].status = "open"
        /\ ExEvent(o, IF n = Qty THEN "closed" ELSE "open", n)
        /\ exPos' = [exPos EXCEPT ![SymbolOf[o]] = @ + SideOf[o]]

\* On the session's request, by expiry or by another hand.
ExCancel(o) ==
    /\ ex[o].status = "open"
    /\ ExEvent(o, "canceled", ex[o].filled)
    /\ UNCHANGED exPos

ExReject(o) ==
    /\ ex[o].status = "open"
    /\ ex[o].filled = 0
    /\ ExEvent(o, "rejected", 0)
    /\ UNCHANGED exPos

-----------------------------------------------------------------------------
RouteEnds == (\E n \in 0..Qty : RouteReturns(n)) \/ RouteFails

SyncEnds == SyncReturns \/ SyncFails

Next ==
    \/ \E o \in Orders : Submit(o)
    \/ \E n \in 0..Qty : RouteReturns(n)
    \/ RouteFails
    \/ OnOrderUpdate
    \/ StreamReconnects
    \/ \E o \in Orders : Age(o)
    \/ CheckTimeouts
    \/ CancelReturns
    \/ QueryAnswered
    \/ SyncReturns
    \/ SyncFails
    \/ \E o \in Orders : ExAccept(o) \/ ExRefuse(o) \/ ExFill(o) \/ ExCancel(o) \/ ExReject(o)

Spec == Init /\ [][Next]_vars

(***************************************************************************)
(* Fairness.  Every gateway call is bounded by CALL_TIMEOUT, so an awaited *)
(* call returns or raises; the data loop keeps polling, so a timed-out     *)
(* order is picked up; time passes.  Nothing is assumed of the exchange or *)
(* of the push stream.                                                     *)
(***************************************************************************)
Fairness ==
    /\ WF_vars(RouteEnds)
    /\ WF_vars(CheckTimeouts)
    /\ WF_vars(CancelReturns)
    /\ WF_vars(SyncEnds)
    /\ \A o \in Orders : WF_vars(Age(o))

FairSpec == Spec /\ Fairness

-----------------------------------------------------------------------------
(***************************************************************************)
(* Properties                                                              *)
(***************************************************************************)

\* However the REST response and the pushes of one order interleave, repeat or
\* arrive stale, the book has taken exactly what the tracked order records as
\* applied, and never more than the exchange filled (cumulative-fill contract
\* of _handle_fill and the applied_filled_qty mirror in submit).
FillsBookedOnce ==
    \A o \in Orders : /\ booked[o] = tracked[o].applied
                      /\ booked[o] <= ex[o].filled

\* EVENT_FILL is published exactly once for an order that was booked in full,
\* by whichever of the two paths completes it, and never for any other order.
FillEventExact ==
    \A o \in Orders : fillEvents[o] = IF booked[o] = Qty THEN 1 ELSE 0

\* An order the manager believes open is on the timer, so that one day
\* check_timeouts gives up on it: no push or response takes it off early.
OpenIsTimed ==
    \A o \in Orders : tracked[o].status \in Open => o \in pending

\* An order the session gave up on while the exchange still works it has been
\* cancelled on the exchange or is on the loop's list (REL-H4 in
\* run_data_loop: the timed-out ids are not discarded).
AbandonedIsAsked ==
    \A o \in Orders :
        tracked[o].status = "CANCELLED" /\ ex[o].status = "open"
            => o \in asked \cup work

\* Every open order ends, whatever the exchange and the stream do: the timeout
\* loop runs on its own fairness only.
OpenOrderEnds ==
    \A o \in Orders : tracked[o].status \in Open ~> tracked[o].status \in Terminal

\* Orders whose late reports the terminal-state guard rejects.
Dead == {o \in Orders : tracked[o].status \in {"CANCELLED", "REJECTED"}}

Ledger == INSTANCE FillLedger
    WITH filled <- [o \in Orders |-> ex[o].filled], booked <- booked, dead <- Dead

\* The order path implements FillLedger: at most once, never ahead of the
\* exchange, and never on behalf of an order declared dead (REL-H5: a late fill
\* cannot resurrect a dead order).
ImplementsFillLedger == Ledger!Spec

(***************************************************************************)
(* Statements of the program's own comments that its steps do not keep.    *)
(***************************************************************************)

\* order_manager.py: "_pending only holds non-terminal ids".
PendingIsNonTerminal ==
    \A o \in pending : tracked[o].status \notin Terminal

\* engine.py drops only pushes of "an order this engine [did not] submit": with
\* nothing in flight, an order that is not dead is booked as the exchange has it.
SubmittedFillsBooked ==
    pc = "idle" /\ stream = <<>> =>
        \A o \in Orders : tracked[o].status \in Open \cup {"FILLED"}
            => booked[o] = ex[o].filled

\* engine.py: two reports of one fill are "idempotent (no double-booking)".  A
\* session that only buys never believes it holds more than the exchange says.
BookWithinPosition ==
    \A s \in Symbols : book[s] <= exPos[s]

\* engine.py: only the delta is applied "so repeated partial fills do not
\* double-count": the fees debited are at most the fees charged, one per lot.
FeesWithinCharge ==
    \A o \in Orders : fees[o] <= ex[o].filled
=============================================================================
