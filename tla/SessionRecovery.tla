--------------------------- MODULE SessionRecovery ---------------------------
(***************************************************************************)
(* Crash and restart of a trading session: the checkpoint of the L4 book,  *)
(* its restore by start(), the reconciliation with the exchange that must  *)
(* succeed before entries are allowed, and the orders of a dead run, which *)
(* the exchange may still fill.                                            *)
(*                                                                         *)
(* One session runs at a time.  Orders are of one lot and buy; exits are   *)
(* reduce-only.  How responses and pushes of a live session race is        *)
(* OrderLifecycle: here a fill of a tracked order is pushed once.  The     *)
(* drift threshold is below one lot.                                       *)
(***************************************************************************)
EXTENDS Integers, FiniteSets

CONSTANTS
    Orders,     \* entries sent over all runs
    Symbols,    \* trading pairs
    SymbolOf,   \* SymbolOf[o]: the pair of order o
    Staleness,  \* order_staleness_seconds
    Epoch,      \* wall clock, in seconds since the epoch
    Starts      \* bound: starts of a session

ASSUME RecoveryAssumption ==
    /\ SymbolOf \in [Orders -> Symbols]
    /\ Staleness \in Nat
    /\ Epoch \in Nat /\ Epoch > 2 * Staleness + 2
    /\ Starts \in Nat

VARIABLES
    phase,      \* how far the session is
    starts,     \* how often one was started
    origin,     \* where the running session has its book from
    verified,   \* _recovery_verified
    book,       \* L4 position per symbol
    tracked,    \* orders the running session tracks
    unbooked,   \* lots of tracked orders filled but not yet pushed
    found,      \* the reconciliation of start() has found a discrepancy
    todo,       \* symbols whose open orders it has yet to ask for
    file,       \* the checkpoint file
    temp,       \* its temporary sibling while it is written
    ex,         \* the exchange's view of the orders
    old,        \* orders older than the staleness threshold
    exPos,      \* the exchange's position per symbol
    strays      \* history: lots filled that no running session tracks, since
                \* the exchange was last asked for the positions

check == <<found, todo>>
disk  == <<file, temp>>
exch  == <<ex, old, exPos, strays>>
vars  == <<phase, starts, origin, verified, book, tracked, unbooked, found, todo,
           file, temp, ex, old, exPos, strays>>

Books == [Symbols -> Nat]
NoLots == [s \in Symbols |-> 0]

\* A file is absent, cut short by a crash in the middle of a write, unreadable
\* for any other reason (another schema version too), or holds a book.
NoFile   == [kind |-> "absent"]
TornFile == [kind |-> "torn"]
BadFile  == [kind |-> "unreadable"]
Checkpoint(b) == [kind |-> "book", book |-> b]

Files == {NoFile, TornFile, BadFile} \cup [kind : {"book"}, book : Books]

TypeOK ==
    /\ phase \in {"down", "ask", "orders", "up", "saving"}
    /\ starts \in Nat
    /\ origin \in {"nothing", "fresh", "checkpoint", "bad file"}
    /\ verified \in BOOLEAN
    /\ book \in Books
    /\ tracked \subseteq Orders
    /\ unbooked \in [Symbols -> Nat]
    /\ found \in BOOLEAN
    /\ todo \subseteq Symbols
    /\ file \in Files
    /\ temp \in Files
    /\ ex \in [Orders -> {"none", "open", "done"}]
    /\ old \subseteq Orders
    /\ exPos \in [Symbols -> Nat]
    /\ strays \in [Symbols -> Nat]

Init ==
    /\ phase = "down"
    /\ starts = 0
    /\ origin = "nothing"
    /\ verified = FALSE
    /\ book = NoLots
    /\ tracked = {}
    /\ unbooked = NoLots
    /\ found = FALSE
    /\ todo = {}
    /\ file = NoFile
    /\ temp = NoFile
    /\ ex = [o \in Orders |-> "none"]
    /\ old = {}
    /\ exPos = NoLots
    /\ strays = NoLots

-----------------------------------------------------------------------------
(***************************************************************************)
(* start(): load the checkpoint, restore it, reconcile.                    *)
(***************************************************************************)

\* No file, or one that cannot be read: the first leaves the session verified,
\* with an empty book, the second blocks its entries.
StartWithout(from, allowed) ==
    /\ origin' = from
    /\ verified' = allowed
    /\ book' = NoLots
    /\ phase' = "up"

StartFrom(saved) ==
    /\ origin' = "checkpoint"
    /\ verified' = FALSE
    /\ book' = saved
    /\ phase' = "ask"

Start ==
    /\ phase = "down"
    /\ starts < Starts
    /\ starts' = starts + 1
    /\ \/ file.kind = "absent" /\ StartWithout("fresh", TRUE)
       \/ file.kind \in {"torn", "unreadable"} /\ StartWithout("bad file", FALSE)
       \/ file.kind = "book" /\ StartFrom(file.book)
    /\ strays' = NoLots
    /\ UNCHANGED <<tracked, unbooked, ex, old, exPos>>
    /\ UNCHANGED check
    /\ UNCHANGED disk

Held == {s \in Symbols : book[s] > 0}

\* Mutant: only the local side is walked, so a position the exchange alone has
\* goes unseen.
Drifted_LocalOnly(s) == book[s] > 0 /\ book[s] # exPos[s]

\* Mutant: any two amounts are reported, equal ones too.
Drifted_Always(s) == book[s] > 0 \/ exPos[s] > 0

\* _compare_snapshots: both sides hold the symbol and differ, or one side alone
\* holds it.
Drifted(s) == book[s] # exPos[s]

\* query_positions answers and the snapshots are compared; nothing runs in this
\* process between the answer and its arrival.
PositionsAnswered ==
    /\ phase = "ask"
    /\ found' = (\E s \in Symbols : Drifted(s))
    /\ todo' = Held
    /\ phase' = "orders"
    /\ strays' = NoLots
    /\ UNCHANGED <<starts, origin, verified, book, tracked, unbooked, ex, old, exPos>>
    /\ UNCHANGED disk

\* It fails: the report is a failed one, and the session starts blocked.
PositionsFail ==
    /\ phase = "ask"
    /\ phase' = "up"
    /\ UNCHANGED <<starts, origin, verified, book, tracked, unbooked>>
    /\ UNCHANGED check
    /\ UNCHANGED disk
    /\ UNCHANGED exch

\* query_open_orders hands on the milliseconds of the exchange, and the age is
\* taken from a clock in seconds.
Timestamp(o) == 1000 * (Epoch - (IF o \in old THEN Staleness + 1 ELSE 0))
AgeSeconds(o) == Epoch - Timestamp(o)

Orphan(o) ==
    /\ ex[o] = "open"
    /\ o \notin tracked
    /\ AgeSeconds(o) > Staleness

OrdersAnswered(s) ==
    /\ phase = "orders"
    /\ s \in todo
    /\ todo' = todo \ {s}
    /\ found' = (found \/ \E o \in Orders : SymbolOf[o] = s /\ Orphan(o))
    /\ UNCHANGED <<phase, starts, origin, verified, book, tracked, unbooked>>
    /\ UNCHANGED disk
    /\ UNCHANGED exch

\* Mutant: the search starts over.
LeftAfterFailure_All == Held

LeftAfterFailure == {}

\* A failing query ends the search for orphans, not the reconciliation.
OrdersFail ==
    /\ phase = "orders"
    /\ todo # {}
    /\ todo' = LeftAfterFailure
    /\ UNCHANGED <<phase, starts, origin, verified, book, tracked, unbooked, found>>
    /\ UNCHANGED disk
    /\ UNCHANGED exch

VerifyEnds ==
    /\ phase = "orders"
    /\ todo = {}
    /\ verified' = ~found
    /\ phase' = "up"
    /\ UNCHANGED <<starts, origin, book, tracked, unbooked>>
    /\ UNCHANGED check
    /\ UNCHANGED disk
    /\ UNCHANGED exch

-----------------------------------------------------------------------------
(***************************************************************************)
(* The running session.                                                    *)
(***************************************************************************)

\* An unverified session refuses entries.  The order is tracked once submit has
\* its answer; if the answer does not come, by a timeout or by a crash, it is not.
Enter(o, answered) ==
    /\ phase = "up"
    /\ verified
    /\ ex[o] = "none"
    /\ ex' = [ex EXCEPT ![o] = "open"]
    /\ tracked' = IF answered THEN tracked \cup {o} ELSE tracked
    /\ UNCHANGED <<phase, starts, origin, verified, book, unbooked, old, exPos, strays>>
    /\ UNCHANGED check
    /\ UNCHANGED disk

\* The push of a fill is booked.
Push(s) ==
    /\ phase = "up"
    /\ unbooked[s] > 0
    /\ unbooked' = [unbooked EXCEPT ![s] = @ - 1]
    /\ book' = [book EXCEPT ![s] = @ + 1]
    /\ UNCHANGED <<phase, starts, origin, verified, tracked>>
    /\ UNCHANGED check
    /\ UNCHANGED disk
    /\ UNCHANGED exch

\* Mutant: the order is sent without reduceOnly.
Reduction_Unbounded(s) == book[s]

\* What a reduce-only order over the book takes off the exchange's position.
Reduction(s) == IF book[s] < exPos[s] THEN book[s] ELSE exPos[s]

\* A FLAT signal, also of an unverified session; the response reports what the
\* exchange could reduce.
Flatten(s) ==
    /\ phase = "up"
    /\ book[s] > 0
    /\ exPos' = [exPos EXCEPT ![s] = @ - Reduction(s)]
    /\ book' = [book EXCEPT ![s] = @ - Reduction(s)]
    /\ UNCHANGED <<phase, starts, origin, verified, tracked, unbooked, ex, old, strays>>
    /\ UNCHANGED check
    /\ UNCHANGED disk

\* Mutant: the checkpoint itself is opened and written.
WriteTemp_InPlace == file' = TornFile /\ temp' = Checkpoint(book)

\* save_checkpoint writes a sibling ...
WriteTemp == file' = file /\ temp' = Checkpoint(book)

\* _periodic_maintenance, verified or not.
SaveBegins ==
    /\ phase = "up"
    /\ phase' = "saving"
    /\ WriteTemp
    /\ UNCHANGED <<starts, origin, verified, book, tracked, unbooked>>
    /\ UNCHANGED check
    /\ UNCHANGED exch

\* ... and replaces the checkpoint by it.  A failure leaves the old one.
SaveEnds(replaced) ==
    /\ phase = "saving"
    /\ file' = IF replaced THEN temp ELSE file
    /\ temp' = NoFile
    /\ phase' = "up"
    /\ UNCHANGED <<starts, origin, verified, book, tracked, unbooked>>
    /\ UNCHANGED check
    /\ UNCHANGED exch

\* The process ends, at any point: killed, or by stop(), which neither cancels
\* orders nor saves.  What it held in memory is gone.
Crash ==
    /\ phase # "down"
    /\ phase' = "down"
    /\ origin' = "nothing"
    /\ verified' = FALSE
    /\ book' = NoLots
    /\ tracked' = {}
    /\ unbooked' = NoLots
    /\ found' = FALSE
    /\ todo' = {}
    /\ temp' = NoFile
    /\ UNCHANGED <<starts, file, ex, old, exPos, strays>>

-----------------------------------------------------------------------------
(***************************************************************************)
(* The world outside: the exchange, the disk, the operator.                *)
(***************************************************************************)

Outside == <<phase, starts, origin, verified, book, tracked>>

\* The fill of an order is pushed to the session that tracks it, if any.
ExFill(o) ==
    /\ ex[o] = "open"
    /\ ex' = [ex EXCEPT ![o] = "done"]
    /\ exPos' = [exPos EXCEPT ![SymbolOf[o]] = @ + 1]
    /\ IF o \in tracked
       THEN /\ unbooked' = [unbooked EXCEPT ![SymbolOf[o]] = @ + 1]
            /\ strays' = strays
       ELSE /\ strays' = [strays EXCEPT ![SymbolOf[o]] = @ + 1]
            /\ unbooked' = unbooked
    /\ UNCHANGED old
    /\ UNCHANGED Outside
    /\ UNCHANGED check
    /\ UNCHANGED disk

ExDrop(o) ==
    /\ ex[o] = "open"
    /\ ex' = [ex EXCEPT ![o] = "done"]
    /\ UNCHANGED <<old, exPos, strays, unbooked>>
    /\ UNCHANGED Outside
    /\ UNCHANGED check
    /\ UNCHANGED disk

Age(o) ==
    /\ ex[o] = "open"
    /\ o \notin old
    /\ old' = old \cup {o}
    /\ UNCHANGED <<ex, exPos, strays, unbooked>>
    /\ UNCHANGED Outside
    /\ UNCHANGED check
    /\ UNCHANGED disk

\* Between two runs the file is damaged, or an operator removes it.
FileChanges(f) ==
    /\ phase = "down"
    /\ file # NoFile
    /\ file' = f
    /\ UNCHANGED temp
    /\ UNCHANGED unbooked
    /\ UNCHANGED Outside
    /\ UNCHANGED check
    /\ UNCHANGED exch

-----------------------------------------------------------------------------
VerifySteps ==
    \/ PositionsAnswered
    \/ PositionsFail
    \/ \E s \in Symbols : OrdersAnswered(s)
    \/ OrdersFail
    \/ VerifyEnds

Next ==
    \/ Start
    \/ PositionsAnswered
    \/ PositionsFail
    \/ \E s \in Symbols : OrdersAnswered(s)
    \/ OrdersFail
    \/ VerifyEnds
    \/ \E o \in Orders, answered \in BOOLEAN : Enter(o, answered)
    \/ \E s \in Symbols : Push(s) \/ Flatten(s)
    \/ SaveBegins
    \/ \E replaced \in BOOLEAN : SaveEnds(replaced)
    \/ Crash
    \/ \E o \in Orders : ExFill(o) \/ ExDrop(o) \/ Age(o)
    \/ \E f \in {NoFile, BadFile} : FileChanges(f)

Spec == Init /\ [][Next]_vars

(***************************************************************************)
(* Fairness: every query of the gateway is bounded by CALL_TIMEOUT, so the *)
(* reconciliation of start() moves on.  Nothing is assumed of the session, *)
(* the exchange or the disk.                                               *)
(***************************************************************************)
FairSpec == Spec /\ WF_vars(VerifySteps)

-----------------------------------------------------------------------------
(***************************************************************************)
(* Properties                                                              *)
(***************************************************************************)

\* A session that was restored from a checkpoint and may enter knows what it
\* holds, wherever between two fills, pushes, checkpoints or queries the run
\* before it died: but for what untracked orders filled since the exchange was
\* asked, its book and the fills on their way are the exchange's position.
RestoredBookIsTrue ==
    origin = "checkpoint" /\ verified =>
        \A s \in Symbols : exPos[s] = book[s] + unbooked[s] + strays[s]

\* No crash, of the program or in the middle of a save, leaves a checkpoint
\* that the next start cannot read.
CheckpointIsWhole == file # TornFile

\* Fail-closed is not fail-stuck: a restart that finds what the checkpoint says
\* and no open order of the dead run may trade.
CleanRestart ==
    /\ \A s \in Symbols : exPos[s] = book[s]
    /\ strays = NoLots
    /\ \A o \in Orders : ex[o] # "open"

CleanRestartTrades == [][VerifyEnds /\ CleanRestart => verified']_vars

\* Every start comes through its reconciliation, or dies.
StartEnds == phase \in {"ask", "orders"} ~> phase \notin {"ask", "orders"}

(***************************************************************************)
(* A statement of the program's own text that its steps do not keep.       *)
(***************************************************************************)

\* ReconciliationEngine: an order the exchange has and the session does not
\* track, older than the staleness threshold, is a discrepancy.  No query has
\* failed: the orders of every held symbol were answered one by one.
OrphansFound ==
    [][\A s \in Symbols :
        OrdersAnswered(s) /\ (\E o \in old : SymbolOf[o] = s /\ ex[o] = "open" /\ o \notin tracked)
            => found']_vars
=============================================================================
