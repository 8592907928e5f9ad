----------------------------- MODULE SignalGate -----------------------------
(***************************************************************************)
(* The pre-trade gate of a trading session: an entry signal passes the     *)
(* risk checks on the L4 book plus the pending ledger, is sized, reserves  *)
(* its notional and is submitted; the reservation is confirmed, reduced or *)
(* released by the outcome.  A FLAT signal passes no check and submits a   *)
(* reduce-only exit over the position held.  Around both run the push      *)
(* stream, the timeout loop (cancel, sync, release), the sweeper of stale  *)
(* reservations and the kill switch, which releases everything.            *)
(*                                                                         *)
(* An action is the code between two awaits of the one event loop.  Only   *)
(* the data loop submits (pc says which call it awaits).  Notional is in   *)
(* lots at one price, and the exchange's positions are long; the book can  *)
(* go below zero.  The equity the limits are fractions of is fixed, and    *)
(* the checks that only look at returns and P&L (daily, weekly, drawdown,  *)
(* VaR, strategy budget) are a signal that is not taken.                   *)
(***************************************************************************)
EXTENDS Integers, FiniteSets, Functions

CONSTANTS
    Orders,         \* signals of the session that get as far as an order
    Exits,          \* those of them that are FLAT: exits
    Symbols,        \* trading pairs
    SymbolOf,       \* SymbolOf[o]: the pair of order o
    Cap,            \* max_position_pct of the equity, in lots
    PositionLimit,  \* position_limit_pct of the equity, in lots
    BookLimit,      \* exchange_exposure_limit_pct of the equity, in lots
    MaxPositions,   \* max_positions
    Entries         \* bound: entry signals taken

ASSUME GateAssumption ==
    /\ IsFiniteSet(Orders) /\ IsFiniteSet(Symbols)
    /\ Exits \subseteq Orders
    /\ SymbolOf \in [Orders -> Symbols]
    /\ Cap \in Nat \ {0}
    /\ PositionLimit \in Nat \ {0}
    /\ BookLimit \in Nat
    /\ MaxPositions \in Nat \ {0}
    /\ Entries \in Nat

VARIABLES
    reserved,   \* PortfolioManager._pending: notional per key, 0 without an entry
    swept,      \* orders whose reservation the sweeper alerted about
    size,       \* quantity submitted, 0 before the order exists
    local,      \* OrderManager's view of the order
    booked,     \* lots of the order booked into, or out of, the position
    lost,       \* orders reported REJECTED that the exchange may have
    pos,        \* L4 position per symbol
    pc,         \* the call the data loop is awaiting
    cur,        \* the order that call is about
    cancelOk,   \* what the cancel of a timed-out order returned
    snap,       \* the answer to query_positions on its way back
    counted,    \* history: lots of each exit that answer takes into account
    blurred,    \* history: pairs whose book was overwritten with such an answer
                \* before those lots were subtracted from it
    killed,     \* the kill switch is active and has released the ledger
    ex,         \* the exchange's view of the order
    filled,     \* lots of the order filled on the exchange
    exPos       \* the exchange's position per symbol

ledger == <<reserved, swept>>
engine == <<local, booked, pos>>
answer == <<snap, counted>>
loop   == <<pc, cur, cancelOk, snap, counted, blurred>>
exch   == <<ex, filled, exPos>>
vars   == <<reserved, swept, size, local, booked, lost, pos, pc, cur,
            cancelOk, snap, counted, blurred, killed, ex, filled, exPos>>

Buys == Orders \ Exits

\* The ledger is keyed by whatever id the caller passes: _process_signal_inner
\* uses a fresh uuid, the timeout loop the id the exchange gave the order.
Ids == Orders \X {"uuid", "exchange"}
Uuid(o) == <<o, "uuid">>
ExchangeId(o) == <<o, "exchange">>

TypeOK ==
    /\ reserved \in [Ids -> 0..Cap]
    /\ swept \subseteq Orders
    /\ size \in [Orders -> Nat] /\ \A o \in Buys : size[o] <= Cap
    /\ local \in [Orders -> {"untracked", "open", "ended"}]
    /\ booked \in [Orders -> Nat]
    /\ lost \subseteq Buys
    /\ pos \in [Symbols -> Int]
    /\ pc \in {"idle", "submit", "cancel", "query", "answered"}
    /\ cur \in Orders \cup {"nobody"}
    /\ cancelOk \in BOOLEAN
    /\ snap \in [Symbols -> Nat]
    /\ counted \in [Exits -> Nat]
    /\ blurred \subseteq Symbols
    /\ killed \in BOOLEAN
    /\ ex \in [Orders -> {"none", "sent", "refused", "open", "done"}]
    /\ filled \in [Orders -> Nat]
    /\ exPos \in [Symbols -> Nat]

NoAnswer == [s \in Symbols |-> 0]
NothingCounted == [x \in Exits |-> 0]

Init ==
    /\ reserved = [i \in Ids |-> 0]
    /\ swept = {}
    /\ size = [o \in Orders |-> 0]
    /\ local = [o \in Orders |-> "untracked"]
    /\ booked = [o \in Orders |-> 0]
    /\ lost = {}
    /\ pos = NoAnswer
    /\ pc = "idle"
    /\ cur = "nobody"
    /\ cancelOk = FALSE
    /\ snap = NoAnswer
    /\ counted = NothingCounted
    /\ blurred = {}
    /\ killed = FALSE
    /\ ex = [o \in Orders |-> "none"]
    /\ filled = [o \in Orders |-> 0]
    /\ exPos = NoAnswer

-----------------------------------------------------------------------------
(***************************************************************************)
(* The pending ledger of PortfolioManager.                                 *)
(***************************************************************************)

Reserve(id, notional) == [reserved EXCEPT ![id] = notional]

\* confirm and release pop the key; an unknown key is not an error.
Release(id) == [reserved EXCEPT ![id] = 0]

\* Mutant: the early return for a missing entry is gone.
PartialConfirm_Unguarded(id, cumulative) == [reserved EXCEPT ![id] = @ - cumulative]

\* partial_confirm: without an entry nothing happens, at zero it is dropped.
PartialConfirm(id, cumulative) ==
    [reserved EXCEPT ![id] = IF @ > cumulative THEN @ - cumulative ELSE 0]

OnSymbol(s) == {o \in Orders : SymbolOf[o] = s}

\* Mutant: only the book is looked at.
PendingFor_None(s) == 0

\* pending_view().by_symbol: the ids of one order are of one symbol.
PendingFor(s) ==
    SumFunctionOnSet([o \in Orders |-> reserved[Uuid(o)] + reserved[ExchangeId(o)]], OnSymbol(s))

-----------------------------------------------------------------------------
(***************************************************************************)
(* RiskEngine.check and PositionSizer.size, as far as they depend on the   *)
(* book and the ledger.                                                    *)
(***************************************************************************)

Magnitude(n) == IF n < 0 THEN -n ELSE n

Held == {s \in Symbols : pos[s] # 0}

\* _check_position_limit: position and pending of the symbol below the limit.
PositionLimitPasses(s) == Magnitude(pos[s]) + PendingFor(s) < PositionLimit

\* Mutant: pending symbols are not counted.
PortfolioLimitPasses_HeldOnly(s) == s \in Held \/ Cardinality(Held) < MaxPositions

\* _check_portfolio_limit: a symbol not held needs a free place, and a pending
\* symbol takes one.
PortfolioLimitPasses(s) ==
    \/ s \in Held
    \/ Cardinality(Held \cup {t \in Symbols : PendingFor(t) > 0}) < MaxPositions

\* _check_exchange_exposure: the whole book must not exceed the cap already.
ExchangeExposurePasses ==
    SumFunction([s \in Symbols |-> Magnitude(pos[s]) + PendingFor(s)]) <= BookLimit

RiskCheckPasses(s) ==
    /\ ExchangeExposurePasses
    /\ PositionLimitPasses(s)
    /\ PortfolioLimitPasses(s)

\* size(): at most the cap, less the position already held; strength,
\* allocation, fees and the minimum order make it any smaller size.
Sizes(s) == 1 .. (Cap - Magnitude(pos[s]))

-----------------------------------------------------------------------------
(***************************************************************************)
(* _process_signal_inner under _signal_lock: check, size, reserve, submit. *)
(***************************************************************************)

\* From the risk check to the await of create_order nothing suspends.  With the
\* switch active on_bar returns early, and submit rejects what is past on_bar.
EntrySignal(o, n) ==
    /\ pc = "idle"
    /\ ~killed
    /\ o \in Buys
    /\ size[o] = 0
    /\ Cardinality({p \in Buys : size[p] > 0}) < Entries
    /\ RiskCheckPasses(SymbolOf[o])
    /\ n \in Sizes(SymbolOf[o])
    /\ reserved' = Reserve(Uuid(o), n)
    /\ size' = [size EXCEPT ![o] = n]
    /\ ex' = [ex EXCEPT ![o] = "sent"]
    /\ pc' = "submit"
    /\ cur' = o
    /\ UNCHANGED <<swept, lost, cancelOk, blurred, filled, exPos>>
    /\ UNCHANGED answer
    /\ UNCHANGED engine
    /\ UNCHANGED killed

\* A FLAT signal passes no check and reserves nothing: a reduce-only order over
\* the position held.  (Of a book below zero it is a BUY, which the exchange,
\* where nothing is short, refuses: nothing changes.)
ExitSignal(x) ==
    /\ pc = "idle"
    /\ ~killed
    /\ x \in Exits
    /\ size[x] = 0
    /\ pos[SymbolOf[x]] > 0
    /\ size' = [size EXCEPT ![x] = pos[SymbolOf[x]]]
    /\ ex' = [ex EXCEPT ![x] = "sent"]
    /\ pc' = "submit"
    /\ cur' = x
    /\ UNCHANGED <<lost, cancelOk, blurred, filled, exPos>>
    /\ UNCHANGED ledger
    /\ UNCHANGED answer
    /\ UNCHANGED engine
    /\ UNCHANGED killed

\* Mutant: a push books the cumulative quantity, not what it adds.
Booking_Cumulative(o, n) == IF o \in Exits THEN -n ELSE n

\* What the book gains when the order's n-th lot is reported: the lots not yet
\* booked, of an exit with a minus.
Booking(o, n) == IF o \in Exits THEN booked[o] - n ELSE n - booked[o]

\* Mutant: a partial fill is taken for a full one.
Settle_ConfirmsPartial(o, n) ==
    IF n > 0 THEN Release(Uuid(o)) ELSE reserved

\* FILLED confirms, PARTIAL reduces by what is filled, SUBMITTED waits; of an
\* exit there is nothing to settle.
Settle(o, n) ==
    IF o \in Exits THEN reserved
    ELSE IF n = size[o] THEN Release(Uuid(o))
    ELSE IF n > 0 THEN PartialConfirm(Uuid(o), n)
    ELSE reserved

\* submit returns with the n lots the response carries already booked.
SubmitReturns(n) ==
    /\ pc = "submit"
    /\ ex[cur] \in {"open", "done"}
    /\ n \in 0 .. filled[cur]
    /\ local' = [local EXCEPT ![cur] = IF n = size[cur] THEN "ended" ELSE "open"]
    /\ booked' = [booked EXCEPT ![cur] = n]
    /\ pos' = [pos EXCEPT ![SymbolOf[cur]] = @ + Booking(cur, n)]
    /\ reserved' = Settle(cur, n)
    /\ pc' = "idle"
    /\ cur' = "nobody"
    /\ UNCHANGED <<swept, size, lost, cancelOk, blurred>>
    /\ UNCHANGED answer
    /\ UNCHANGED killed
    /\ UNCHANGED exch

\* What the order may still add to the position beyond what is booked.
Potential(o) ==
    IF o \in Exits THEN 0
    ELSE IF ex[o] \in {"sent", "open"} THEN size[o] - booked[o] ELSE filled[o] - booked[o]

\* create_order was refused, or failed with its fate unknown: REJECTED, release.
SubmitFails ==
    /\ pc = "submit"
    /\ reserved' = Release(Uuid(cur))
    /\ lost' = IF Potential(cur) > 0 THEN lost \cup {cur} ELSE lost
    /\ pc' = "idle"
    /\ cur' = "nobody"
    /\ UNCHANGED <<swept, size, cancelOk, blurred>>
    /\ UNCHANGED answer
    /\ UNCHANGED engine
    /\ UNCHANGED killed
    /\ UNCHANGED exch

-----------------------------------------------------------------------------
(***************************************************************************)
(* What happens to a submitted order: the push stream (any delay, any      *)
(* loss) and the timeout loop.  Neither knows the key of the reservation.  *)
(***************************************************************************)

PushFills(o, n) ==
    /\ local[o] = "open"
    /\ n \in booked[o] + 1 .. filled[o]
    /\ booked' = [booked EXCEPT ![o] = n]
    /\ pos' = [pos EXCEPT ![SymbolOf[o]] = @ + Booking(o, n)]
    /\ local' = [local EXCEPT ![o] = IF n = size[o] THEN "ended" ELSE "open"]
    /\ UNCHANGED <<size, lost>>
    /\ UNCHANGED ledger
    /\ UNCHANGED loop
    /\ UNCHANGED killed
    /\ UNCHANGED exch

PushCanceled(o) ==
    /\ local[o] = "open"
    /\ ex[o] = "done"
    /\ local' = [local EXCEPT ![o] = "ended"]
    /\ UNCHANGED <<size, lost, booked, pos>>
    /\ UNCHANGED ledger
    /\ UNCHANGED loop
    /\ UNCHANGED killed
    /\ UNCHANGED exch

\* check_timeouts gives the order up, the loop asks the exchange to cancel it.
TimeOut(o) ==
    /\ pc = "idle"
    /\ local[o] = "open"
    /\ local' = [local EXCEPT ![o] = "ended"]
    /\ pc' = "cancel"
    /\ cur' = o
    /\ UNCHANGED <<size, lost, booked, pos, cancelOk, blurred>>
    /\ UNCHANGED answer
    /\ UNCHANGED ledger
    /\ UNCHANGED killed
    /\ UNCHANGED exch

CancelReturns(ok) ==
    /\ pc = "cancel"
    /\ ok => ex[cur] = "done"
    /\ cancelOk' = ok
    /\ pc' = "query"
    /\ UNCHANGED <<size, lost, cur, blurred>>
    /\ UNCHANGED answer
    /\ UNCHANGED ledger
    /\ UNCHANGED engine
    /\ UNCHANGED killed
    /\ UNCHANGED exch

QueryAnswered ==
    /\ pc = "query"
    /\ snap' = exPos
    /\ counted' = [x \in Exits |-> filled[x]]
    /\ pc' = "answered"
    /\ UNCHANGED <<size, lost, cur, cancelOk, blurred>>
    /\ UNCHANGED ledger
    /\ UNCHANGED engine
    /\ UNCHANGED killed
    /\ UNCHANGED exch

\* The exit is still tracked, so the lots of it that the answer takes into
\* account and the book does not will be subtracted when they are pushed.
StillToSubtract(x) == local[x] = "open" /\ booked[x] < counted[x]

\* Quadrants A to C: one source confirmed the state, release by exchange id.
SyncReturns ==
    /\ pc = "answered"
    /\ blurred' = blurred \cup
           {s \in Symbols : snap[s] > 0 /\ \E x \in OnSymbol(s) \cap Exits : StillToSubtract(x)}
    /\ pos' = [s \in Symbols |-> IF snap[s] > 0 THEN snap[s] ELSE pos[s]]
    /\ reserved' = Release(ExchangeId(cur))
    /\ pc' = "idle"
    /\ cur' = "nobody"
    /\ snap' = NoAnswer
    /\ counted' = NothingCounted
    /\ cancelOk' = FALSE
    /\ UNCHANGED <<swept, size, lost, local, booked>>
    /\ UNCHANGED killed
    /\ UNCHANGED exch

\* The query failed: release on the word of the cancel, or hold (quadrant D).
SyncFails ==
    /\ pc \in {"query", "answered"}
    /\ reserved' = IF cancelOk THEN Release(ExchangeId(cur)) ELSE reserved
    /\ pc' = "idle"
    /\ cur' = "nobody"
    /\ snap' = NoAnswer
    /\ counted' = NothingCounted
    /\ cancelOk' = FALSE
    /\ UNCHANGED <<swept, size, lost, blurred>>
    /\ UNCHANGED engine
    /\ UNCHANGED killed
    /\ UNCHANGED exch

-----------------------------------------------------------------------------
(***************************************************************************)
(* The last-resort sweeper and the kill switch.                            *)
(***************************************************************************)

\* Any reservation may have outlived max_age_ms.  One that is swept raises a
\* critical alert: manual position review needed.
Sweep(o) ==
    /\ pc = "idle"
    /\ reserved[Uuid(o)] > 0
    /\ reserved' = Release(Uuid(o))
    /\ swept' = swept \cup {o}
    /\ UNCHANGED <<size, lost>>
    /\ UNCHANGED engine
    /\ UNCHANGED loop
    /\ UNCHANGED killed
    /\ UNCHANGED exch

\* When activate has returned, its caller releases every reservation, which may
\* be while the data loop awaits create_order.  From the activation on no entry
\* passes; until the release, that is a time in which none happens to come.
ReleaseAll ==
    /\ ~killed
    /\ killed' = TRUE
    /\ reserved' = [i \in Ids |-> 0]
    /\ UNCHANGED <<swept, size, lost>>
    /\ UNCHANGED engine
    /\ UNCHANGED loop
    /\ UNCHANGED exch

-----------------------------------------------------------------------------
(***************************************************************************)
(* The exchange, external to the program.                                  *)
(***************************************************************************)

ExMoves(o, status) ==
    /\ ex' = [ex EXCEPT ![o] = status]
    /\ UNCHANGED <<size, lost>>
    /\ UNCHANGED ledger
    /\ UNCHANGED engine
    /\ UNCHANGED loop
    /\ UNCHANGED killed

ExAccept(o) == ex[o] = "sent" /\ ExMoves(o, "open") /\ UNCHANGED <<filled, exPos>>

ExRefuse(o) == ex[o] = "sent" /\ ExMoves(o, "refused") /\ UNCHANGED <<filled, exPos>>

ExCancel(o) == ex[o] = "open" /\ ExMoves(o, "done") /\ UNCHANGED <<filled, exPos>>

\* An exit is reduce-only: it fills against a position there is.
ExFill(o) ==
    /\ ex[o] = "open"
    /\ o \in Exits => exPos[SymbolOf[o]] > 0
    /\ filled' = [filled EXCEPT ![o] = @ + 1]
    /\ exPos' = [exPos EXCEPT ![SymbolOf[o]] = IF o \in Exits THEN @ - 1 ELSE @ + 1]
    /\ ExMoves(o, IF filled[o] + 1 = size[o] THEN "done" ELSE "open")

-----------------------------------------------------------------------------
SubmitEnds == (pc = "submit" /\ \E n \in 0..filled[cur] : SubmitReturns(n)) \/ SubmitFails

SyncEnds == SyncReturns \/ SyncFails

Next ==
    \/ \E o \in Orders, n \in 1..Cap : EntrySignal(o, n)
    \/ \E x \in Orders : ExitSignal(x)
    \/ pc = "submit" /\ \E n \in 0..filled[cur] : SubmitReturns(n)
    \/ SubmitFails
    \/ \E o \in Orders : \E n \in 1..filled[o] : PushFills(o, n)
    \/ \E o \in Orders : PushCanceled(o) \/ TimeOut(o) \/ Sweep(o)
    \/ \E ok \in BOOLEAN : CancelReturns(ok)
    \/ QueryAnswered
    \/ SyncReturns
    \/ SyncFails
    \/ ReleaseAll
    \/ \E o \in Orders : ExAccept(o) \/ ExRefuse(o) \/ ExFill(o) \/ ExCancel(o)

Spec == Init /\ [][Next]_vars

(***************************************************************************)
(* Fairness: gateway calls are bounded by CALL_TIMEOUT, so an awaited call *)
(* returns or raises; time passes and the data loop sweeps in every cycle. *)
(* Nothing is assumed of the exchange, the stream or the kill switch.      *)
(***************************************************************************)
Fairness ==
    /\ WF_vars(SubmitEnds)
    /\ WF_vars(\E ok \in BOOLEAN : CancelReturns(ok))
    /\ WF_vars(SyncEnds)
    /\ \A o \in Orders : WF_vars(Sweep(o))

FairSpec == Spec /\ Fairness

-----------------------------------------------------------------------------
(***************************************************************************)
(* Properties                                                              *)
(***************************************************************************)

\* Until the session is stopped, whatever an order may still add to the book
\* is reserved: however responses, pushes, cancels and syncs interleave, only
\* a REJECTED that the exchange accepted and an alerted sweep lose track of an
\* exposure (M4-5.6: reserve before submit, so that later signals see it).
ReservationCovers ==
    \A o \in Orders :
        ~killed /\ o \notin lost \cup swept => reserved[Uuid(o)] >= Potential(o)

\* Lots of a symbol the exchange holds or may still fill.
OpenLots(o) == IF o \in Buys /\ ex[o] \in {"sent", "open"} THEN size[o] - filled[o] ELSE 0
Exposure(s) == exPos[s] + SumFunctionOnSet([o \in Orders |-> OpenLots(o)], OnSymbol(s))

\* Symbols none of whose orders was lost or swept, and whose book no sync left
\* with an exit to subtract a second time.
Tracked == {s \in Symbols \ blurred : OnSymbol(s) \cap (lost \cup swept) = {}}

\* What the risk checks see of such a symbol is never less than what is at stake
\* on the exchange, although entries and exits reach the book late or never, in
\* any order, and a sync overwrites it with a snapshot that lacks some fills of
\* entries and exits, and has others that the book does not have.
ExposureSeen ==
    ~killed => \A s \in Tracked : pos[s] + PendingFor(s) >= Exposure(s)

\* So no sequence of entries, exits, fills and timeouts takes such a symbol more
\* than one order past its limit, or a book of them more than one past its own.
ExposureBounded ==
    /\ \A s \in Tracked : Exposure(s) < PositionLimit + Cap
    /\ Tracked = Symbols => SumFunction([s \in Symbols |-> Exposure(s)]) <= BookLimit + Cap

\* Nor are there more symbols at stake than max_positions allows, although two
\* entries may both be unfilled and an exit only take its symbol off the book.
PositionsBounded ==
    Tracked = Symbols => Cardinality({s \in Symbols : Exposure(s) > 0}) <= MaxPositions

\* A reservation that has ended does not come back, nor goes below zero: the
\* outcome of a submit that finds its entry released by the switch leaves it so.
EndedStaysEnded ==
    [][\A o \in Orders :
           size[o] > 0 /\ reserved[Uuid(o)] = 0 => reserved'[Uuid(o)] = 0]_vars

\* No reservation freezes budget for good, whatever becomes of its order.
ReservationEnds ==
    \A o \in Orders : size[o] > 0 ~> [](reserved[Uuid(o)] = 0)

(***************************************************************************)
(* Statements of the program's own comments that its steps do not keep.    *)
(***************************************************************************)

\* _handle_fill: "apply only the incremental delta ... so repeated partial
\* fills do not double-count".  The delta is to what the order booked, not to
\* what a sync has meanwhile written into the book.
ExitsCountedOnce ==
    ~killed => \A s \in Symbols :
        OnSymbol(s) \cap (lost \cup swept) = {} => pos[s] + PendingFor(s) >= Exposure(s)

\* run_data_loop, quadrants A/B/C: a timed-out order whose state a cancel or a
\* sync confirmed has its reservation released.
TimeoutReleases ==
    [][SyncReturns \/ (SyncFails /\ cancelOk) => reserved'[Uuid(cur)] = 0]_vars
=============================================================================
