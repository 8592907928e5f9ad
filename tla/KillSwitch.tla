------------------------------ MODULE KillSwitch ------------------------------
(***************************************************************************)
(* The emergency stop of a live session: KillSwitch.activate, the gate it  *)
(* closes in ExecutionEngine.submit, everybody who activates it (the data  *)
(* loop on a drawdown breach, background tasks on risk and funding events, *)
(* the operator through StationSessionManager) and the stop of the session,*)
(* against an exchange that goes on accepting and filling orders.          *)
(*                                                                         *)
(* One asyncio event loop: an action is the code between two awaits.       *)
(* Every order is one lot.  deactivate has no caller in the program.       *)
(***************************************************************************)
EXTENDS Integers, FiniteSets

CONSTANTS
    Orders,     \* orders the session may submit
    Symbols,    \* trading pairs
    Tasks,      \* background activations
    SymbolOf,   \* SymbolOf[o]: the pair order o trades
    SideOf      \* SideOf[o]: 1 for BUY, -1 for SELL

ASSUME KillSwitchAssumption ==
    /\ SymbolOf \in [Orders -> Symbols]
    /\ SideOf \in [Orders -> {-1, 1}]
    /\ {"loop", "web", "nobody"} \cap Tasks = {}
    /\ {"cancel", "query", "nothing"} \cap Symbols = {}

VARIABLES
    running,    \* TradingSession._running
    stopping,   \* how far the operator's stop has come
    loop,       \* what the data loop is doing
    calls,      \* the activations of the tasks and of the operator
    active,     \* KillSwitch._active
    who,        \* the caller whose activation carries out the stop
    step,       \* the gateway call that activation awaits
    errors,     \* the steps that failed, results["errors"]
    status,     \* results["status"]
    todo,       \* positions it has still to close
    cur,        \* the position it is closing
    snap,       \* the answer to query_positions: quantities, unsigned
    ex,         \* the exchange's view of each order
    pos,        \* the exchange's position per symbol
    close,      \* the exchange's view of the closing order of each symbol
    cancelled,  \* history: the exchange has carried out cancel_all_orders
    late,       \* history: it accepted an order when that was over
    slipped     \* history: orders sent when the switch was active

session == <<running, stopping, loop, calls>>
switch  == <<active, who, step, errors, status, todo, cur, snap>>
exch    == <<ex, pos, close, cancelled, late, slipped>>
vars    == <<running, stopping, loop, calls,
             active, who, step, errors, status, todo, cur, snap,
             ex, pos, close, cancelled, late, slipped>>

Callers == Tasks \cup {"loop", "web"}

TypeOK ==
    /\ running \in BOOLEAN
    /\ stopping \in {"no", "draining", "stopped"}
    /\ loop \in {"idle", "bar", "connect", "route", "activate", "ended"}
    /\ calls \in [Callers \ {"loop"} -> {"none", "created", "activate", "ended"}]
    /\ active \in BOOLEAN
    /\ who \in Callers \cup {"nobody"}
    /\ step \in {"off", "cancel", "query", "answered", "close"}
    /\ errors \subseteq Symbols \cup {"cancel", "query"}
    /\ status \in {"none", "activated", "partial", "failed", "interrupted"}
    /\ todo \subseteq Symbols
    /\ cur \in Symbols \cup {"nothing"}
    /\ step = "close" => cur \in Symbols
    /\ snap \in [Symbols -> Nat]
    /\ ex \in [Orders -> {"none", "sent", "open", "gone"}]
    /\ pos \in [Symbols -> Int]
    /\ close \in [Symbols -> {"none", "sent", "open", "refused", "done"}]
    /\ cancelled \in BOOLEAN
    /\ late \in BOOLEAN
    /\ slipped \subseteq Orders

Init ==
    /\ running = TRUE
    /\ stopping = "no"
    /\ loop = "idle"
    /\ calls = [c \in Callers \ {"loop"} |-> "none"]
    /\ active = FALSE
    /\ who = "nobody"
    /\ step = "off"
    /\ errors = {}
    /\ status = "none"
    /\ todo = {}
    /\ cur = "nothing"
    /\ snap = [s \in Symbols |-> 0]
    /\ ex = [o \in Orders |-> "none"]
    /\ pos = [s \in Symbols |-> 0]
    /\ close = [s \in Symbols |-> "none"]
    /\ cancelled = FALSE
    /\ late = FALSE
    /\ slipped = {}

-----------------------------------------------------------------------------
(***************************************************************************)
(* The switch.  The flag is tested and set before the first await, so one  *)
(* caller carries out the stop and the others return at once.              *)
(***************************************************************************)

\* Mutant: the flag is not set before the first await.
Arm_Unset(c) ==
    /\ who' = c
    /\ step' = "cancel"
    /\ UNCHANGED <<active, errors, status, todo, cur, snap>>

\* activate() up to its first await, by the caller that finds the switch off.
Arm(c) ==
    /\ active' = TRUE
    /\ who' = c
    /\ step' = "cancel"
    /\ UNCHANGED <<errors, status, todo, cur, snap>>

\* activate() by a task or by the operator; "already_active" changes nothing.
Activate(c) ==
    \/ /\ active
       /\ calls' = [calls EXCEPT ![c] = "ended"]
       /\ UNCHANGED switch
    \/ /\ ~active
       /\ calls' = [calls EXCEPT ![c] = "activate"]
       /\ Arm(c)

\* activate() returns r to its caller.  The data loop, which activated on a
\* drawdown breach, then clears _running and ends.
Finish(r) ==
    /\ status' = r
    /\ step' = "off"
    /\ who' = "nobody"
    /\ IF who = "loop"
       THEN running' = FALSE /\ loop' = "ended" /\ UNCHANGED calls
       ELSE calls' = [calls EXCEPT ![who] = "ended"] /\ UNCHANGED <<running, loop>>

\* cancel_all_orders returns.  Any exception but a timeout is swallowed by the
\* gateway, which then answers with an empty list.
CancelReturns ==
    /\ step = "cancel"
    /\ step' = "query"
    /\ UNCHANGED <<active, who, errors, status, todo, cur, snap>>
    /\ UNCHANGED session
    /\ UNCHANGED exch

\* It times out, with the fate of the request unknown; the stop goes on.
CancelFails ==
    /\ step = "cancel"
    /\ step' = "query"
    /\ errors' = errors \cup {"cancel"}
    /\ UNCHANGED <<active, who, status, todo, cur, snap>>
    /\ UNCHANGED session
    /\ UNCHANGED exch

Magnitude(n) == IF n < 0 THEN -n ELSE n

\* Mutant: the row of a short has a negative quantity.
RowQuantity_Signed(n) == n

\* A row of query_positions carries the magnitude of the position only.
RowQuantity(n) == Magnitude(n)

\* The exchange answers query_positions.
QueryAnswered ==
    /\ step = "query"
    /\ step' = "answered"
    /\ snap' = [s \in Symbols |-> RowQuantity(pos[s])]
    /\ UNCHANGED <<active, who, errors, status, todo, cur>>
    /\ UNCHANGED session
    /\ UNCHANGED exch

\* The next row: its position is closed with a market order, or w is empty and
\* the stop is over.
NextClose(w, failed) ==
    /\ errors' = failed
    /\ IF w = {}
       THEN /\ Finish(IF failed = {} THEN "activated" ELSE "partial")
            /\ UNCHANGED <<todo, cur, close>>
       ELSE \E s \in w : /\ step' = "close"
                         /\ cur' = s
                         /\ todo' = w \ {s}
                         /\ close' = [close EXCEPT ![s] = "sent"]
                         /\ UNCHANGED <<running, loop, calls, who, status>>

QueryReturns ==
    /\ step = "answered"
    /\ NextClose({s \in Symbols : snap[s] > 0}, errors)
    /\ UNCHANGED <<stopping, active, snap, ex, pos, cancelled, late, slipped>>

\* query_positions raises: nothing can be closed.
QueryFails ==
    /\ step \in {"query", "answered"}
    /\ errors' = errors \cup {"query"}
    /\ Finish("failed")
    /\ UNCHANGED <<stopping, active, todo, cur, snap>>
    /\ UNCHANGED exch

\* send_order of a closing order returns: the exchange has taken it.
CloseReturns ==
    /\ step = "close"
    /\ close[cur] \in {"open", "done"}
    /\ NextClose(todo, errors)
    /\ UNCHANGED <<stopping, active, snap, ex, pos, cancelled, late, slipped>>

\* Mutant: the first close that fails ends the stop.
AfterFailure_Aborts(w) == {}

\* The rows still to close when one close has failed.
AfterFailure(w) == w

\* It raises: refused, or timed out with the fate of the order unknown.
CloseFails ==
    /\ step = "close"
    /\ NextClose(AfterFailure(todo), errors \cup {cur})
    /\ UNCHANGED <<stopping, active, snap, ex, pos, cancelled, late, slipped>>

-----------------------------------------------------------------------------
(***************************************************************************)
(* The session: the data loop, the background tasks, the operator.         *)
(***************************************************************************)

\* on_bar enters; on a drawdown breach it activates the switch itself.
OnBar ==
    /\ loop = "idle"
    /\ running
    /\ ~active
    /\ \/ loop' = "bar" /\ UNCHANGED switch
       \/ loop' = "activate" /\ Arm("loop")
    /\ UNCHANGED <<running, stopping, calls>>
    /\ UNCHANGED exch

\* Mutant: only on_bar looks at the switch.
GateOpen_Unchecked == TRUE

\* submit: a signal that on_bar let in may find the switch active by now.
GateOpen == ~active

\* submit passes the gate and awaits ensure_connected, which may reconnect and
\* sleep.  Which order it is matters from SendOrder on.
Submit ==
    /\ loop = "bar"
    /\ GateOpen
    /\ loop' = "connect"
    /\ UNCHANGED <<running, stopping, calls>>
    /\ UNCHANGED switch
    /\ UNCHANGED exch

\* There is a connection: send_order calls create_order and awaits it, without
\* another look at the switch.
SendOrder(o) ==
    /\ loop = "connect"
    /\ ex[o] = "none"
    /\ loop' = "route"
    /\ ex' = [ex EXCEPT ![o] = "sent"]
    /\ slipped' = IF active THEN slipped \cup {o} ELSE slipped
    /\ UNCHANGED <<running, stopping, calls, pos, close, cancelled, late>>
    /\ UNCHANGED switch

\* Every attempt to reconnect fails: submit answers REJECTED.
ConnectFails ==
    /\ loop = "connect"
    /\ loop' = "bar"
    /\ UNCHANGED <<running, stopping, calls>>
    /\ UNCHANGED switch
    /\ UNCHANGED exch

\* create_order returns or raises; the data loop goes on with the bar.
RouteEnds ==
    /\ loop = "route"
    /\ loop' = "bar"
    /\ UNCHANGED <<running, stopping, calls>>
    /\ UNCHANGED switch
    /\ UNCHANGED exch

EndBar ==
    /\ loop = "bar"
    /\ loop' = "idle"
    /\ UNCHANGED <<running, stopping, calls>>
    /\ UNCHANGED switch
    /\ UNCHANGED exch

\* _on_risk_event and the funding gate: create a task if the switch is off.
OnRiskEvent(t) ==
    /\ stopping # "stopped"
    /\ ~active
    /\ calls[t] = "none"
    /\ calls' = [calls EXCEPT ![t] = "created"]
    /\ UNCHANGED <<running, stopping, loop>>
    /\ UNCHANGED switch
    /\ UNCHANGED exch

\* By the time the task runs another caller may have been first.
TaskStarts(t) ==
    /\ calls[t] = "created"
    /\ Activate(t)
    /\ UNCHANGED <<running, stopping, loop>>
    /\ UNCHANGED exch

\* trigger_kill_switch, under the session manager's lock.
TriggerKillSwitch ==
    /\ stopping = "no"
    /\ calls["web"] = "none"
    /\ Activate("web")
    /\ UNCHANGED <<running, stopping, loop>>
    /\ UNCHANGED exch

\* A cancelled activation ends without a result, wherever it was.
Interrupt(cs) ==
    IF who \in cs
    THEN status' = "interrupted" /\ step' = "off" /\ who' = "nobody"
    ELSE UNCHANGED <<status, step, who>>

\* stop() of the session manager, under the same lock: first the data loop.
StopLoop ==
    /\ stopping = "no"
    /\ calls["web"] # "activate"
    /\ stopping' = "draining"
    /\ loop' = "ended"
    /\ Interrupt({"loop"})
    /\ UNCHANGED <<running, calls, active, errors, todo, cur, snap>>
    /\ UNCHANGED exch

\* Then TradingSession.stop, which cancels the background tasks.
StopSession ==
    /\ stopping = "draining"
    /\ stopping' = "stopped"
    /\ running' = FALSE
    /\ calls' = [c \in DOMAIN calls |-> IF c \in Tasks /\ calls[c] # "none"
                                        THEN "ended" ELSE calls[c]]
    /\ Interrupt(Tasks)
    /\ UNCHANGED <<loop, active, errors, todo, cur, snap>>
    /\ UNCHANGED exch

-----------------------------------------------------------------------------
(***************************************************************************)
(* The exchange, external to the program.                                  *)
(***************************************************************************)

\* Too late to be cancelled by cancel_all_orders.
TooLate == cancelled \/ (active /\ step # "cancel")

ExAccept(o) ==
    /\ ex[o] = "sent"
    /\ ex' = [ex EXCEPT ![o] = "open"]
    /\ late' = (late \/ TooLate)
    /\ UNCHANGED <<pos, close, cancelled, slipped>>
    /\ UNCHANGED session
    /\ UNCHANGED switch

ExFill(o) ==
    /\ ex[o] = "open"
    /\ ex' = [ex EXCEPT ![o] = "gone"]
    /\ pos' = [pos EXCEPT ![SymbolOf[o]] = @ + SideOf[o]]
    /\ UNCHANGED <<close, cancelled, late, slipped>>
    /\ UNCHANGED session
    /\ UNCHANGED switch

\* Refused, cancelled on request, expired.
ExDrop(o) ==
    /\ ex[o] \in {"sent", "open"}
    /\ ex' = [ex EXCEPT ![o] = "gone"]
    /\ UNCHANGED <<pos, close, cancelled, late, slipped>>
    /\ UNCHANGED session
    /\ UNCHANGED switch

\* cancel_all_orders is carried out while the switch awaits it, if at all.
ExCancelAll ==
    /\ step = "cancel"
    /\ ~cancelled
    /\ cancelled' = TRUE
    /\ ex' = [o \in Orders |-> IF ex[o] = "open" THEN "gone" ELSE ex[o]]
    /\ UNCHANGED <<pos, close, late, slipped>>
    /\ UNCHANGED session
    /\ UNCHANGED switch

\* Mutant: the closing order does not say reduceOnly.
ReduceOnly_Missing == FALSE

\* Every closing order carries reduceOnly.
ReduceOnly == TRUE

\* A closing order sells what the snapshot said; reduceOnly needs a long.
ExCloseTaken(s) ==
    /\ close[s] = "sent"
    /\ close' = [close EXCEPT ![s] =
                    IF ReduceOnly /\ pos[s] <= 0 THEN "refused" ELSE "open"]
    /\ UNCHANGED <<ex, pos, cancelled, late, slipped>>
    /\ UNCHANGED session
    /\ UNCHANGED switch

\* What is left of position p when a closing order of n lots is filled.
Reduced(p, n) ==
    IF ~ReduceOnly \/ n <= p THEN p - n ELSE IF p > 0 THEN 0 ELSE p

ExCloseFilled(s) ==
    /\ close[s] = "open"
    /\ close' = [close EXCEPT ![s] = "done"]
    /\ pos' = [pos EXCEPT ![s] = Reduced(@, snap[s])]
    /\ UNCHANGED <<ex, cancelled, late, slipped>>
    /\ UNCHANGED session
    /\ UNCHANGED switch

-----------------------------------------------------------------------------
SwitchStep ==
    \/ CancelReturns
    \/ CancelFails
    \/ QueryAnswered
    \/ QueryReturns
    \/ QueryFails
    \/ CloseReturns
    \/ CloseFails

Next ==
    \/ SwitchStep
    \/ OnBar
    \/ Submit
    \/ \E o \in Orders : SendOrder(o)
    \/ ConnectFails
    \/ RouteEnds
    \/ EndBar
    \/ \E t \in Tasks : OnRiskEvent(t) \/ TaskStarts(t)
    \/ TriggerKillSwitch
    \/ StopLoop
    \/ StopSession
    \/ \E o \in Orders : ExAccept(o) \/ ExFill(o) \/ ExDrop(o)
    \/ ExCancelAll
    \/ \E s \in Symbols : ExCloseTaken(s) \/ ExCloseFilled(s)

Spec == Init /\ [][Next]_vars

(***************************************************************************)
(* Fairness: every gateway call is bounded by CALL_TIMEOUT, so the await   *)
(* of an activation ends; a task that was created runs; a stop that was    *)
(* begun goes on.  Nothing is assumed of the exchange.                     *)
(***************************************************************************)
Fairness ==
    /\ WF_vars(SwitchStep)
    /\ \A t \in Tasks : WF_vars(TaskStarts(t))
    /\ WF_vars(StopSession)

FairSpec == Spec /\ Fairness

-----------------------------------------------------------------------------
(***************************************************************************)
(* Properties                                                              *)
(***************************************************************************)

\* Of the whole session at most one order is sent after the switch has been
\* activated, however long a reconnection takes: the one that had passed the
\* gate of submit (SEC-H4) and was waiting for a connection.  When the data
\* loop itself activates the switch there is none.
OneSlipsPast ==
    /\ \A o, p \in slipped : o = p
    /\ loop = "activate" => slipped = {}

\* A step that fills a closing order leaves a position smaller, on its side.
ReducingStep ==
    \A s \in Symbols :
        close[s] = "open" /\ close'[s] = "done"
            => /\ Magnitude(pos'[s]) <= Magnitude(pos[s])
               /\ pos'[s] > 0 => pos[s] > 0
               /\ pos'[s] < 0 => pos[s] < 0

\* A closing order never enlarges or turns a position, however stale the
\* quantity it was sized to (SEC-H2).
ClosingOnlyReduces == [][ReducingStep]_vars

\* The closing orders are done with, and no order of the session is under way.
Settled ==
    /\ \A s \in Symbols : close[s] \notin {"sent", "open"}
    /\ \A o \in Orders : ex[o] # "sent"

\* When the exchange carried out cancel_all_orders and accepted nothing later,
\* a stop that enumerated the positions leaves no order open, and no position
\* but those it reports an error for: one step that fails does not spoil the
\* others.
StopIsThorough ==
    status \in {"activated", "partial"} /\ cancelled /\ ~late /\ Settled =>
        /\ \A o \in Orders : ex[o] # "open"
        /\ \A s \in Symbols \ errors : pos[s] = 0

\* Whoever activates the switch gets an answer, unless the session is stopped
\* under it: the second caller at once, the first when every step has ended.
ActivationEnds ==
    \A c \in Callers \ {"loop"} : calls[c] \in {"created", "activate"} ~> calls[c] = "ended"

(***************************************************************************)
(* Statements of the program's own documentation that do not hold.         *)
(***************************************************************************)

\* "activated" without errors, and nothing slipped in late: all orders are
\* cancelled and all positions are closed.
ActivatedIsFlat ==
    status = "activated" /\ ~late /\ Settled =>
        /\ \A o \in Orders : ex[o] # "open"
        /\ \A s \in Symbols : pos[s] = 0

\* New submissions are blocked the moment the switch is active, those of a
\* signal in flight included (the comment at the gate of submit).
NothingSentWhileActive == slipped = {}

\* The same of a stop whose cancel_all_orders was carried out, when an order
\* may have been on its way as the switch was activated.
InFlightIsStopped ==
    status = "activated" /\ cancelled /\ Settled =>
        /\ \A o \in Orders : ex[o] # "open"
        /\ \A s \in Symbols : pos[s] = 0
=============================================================================
