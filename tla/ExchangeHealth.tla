--------------------------- MODULE ExchangeHealth ---------------------------
(***************************************************************************)
(* The circuit breaker of one exchange, composed with those who feed it    *)
(* and those who obey it: the OKX gateway, which records the outcome of    *)
(* some of its calls and reconnects before an order; the trading session,  *)
(* whose entries pass the risk engine and whose exits do not; and the kill *)
(* switch, which an opening breaker arms and which closes the positions    *)
(* through the same gateway.                                               *)
(*                                                                         *)
(* An action is the code between two awaits.  Time is in ticks, longer     *)
(* than a turn of the event loop.  A sample older than the window is never *)
(* read (every reader purges first) and is dropped when it gets that old.  *)
(***************************************************************************)
EXTENDS Integers, FiniteSetsExt

CONSTANTS
    Window,         \* window_seconds, in ticks
    Cooldown,       \* cooldown_seconds, in ticks
    RateNum,        \* error_rate_threshold is RateNum / RateDen
    RateDen,
    RateLimits,     \* rate_limit_streak_threshold
    MaxPositions,   \* bound: positions held at a time
    MaxSamples      \* bound: samples in the window

ASSUME HealthAssumption ==
    /\ Window \in Nat
    /\ Cooldown \in Nat \ {0}
    /\ RateNum \in Nat
    /\ RateDen \in Nat \ {0}
    /\ RateLimits \in Nat \ {0}
    /\ MaxPositions \in Nat
    /\ MaxSamples \in Nat

RECOVERY_SUCCESS_STREAK == 3

VARIABLES
    samples,    \* _events: samples[ok][age], the outcomes in the window
    limited,    \* _rate_limit_streak, up to its threshold
    open,       \* _open
    since,      \* ticks since _opened_at, up to Cooldown
    streak,     \* _recovery_streak
    connected,  \* the gateway's _connected
    call,       \* the send_order each caller is in, if any
    entering,   \* the session's order is an entry
    positions,  \* positions held
    kill,       \* the kill switch: armed, task scheduled, querying, closing
    toClose,    \* positions it has yet to close
    outage,     \* environment: calls of the exchange may fail
    tripped,    \* history: the breaker has opened in this session
    slipped     \* history: entries placed since then, up to two

breaker == <<samples, limited, open, since, streak, tripped>>
trading == <<entering, positions, toClose, slipped>>
vars == <<samples, limited, open, since, streak, connected, call, entering,
          positions, kill, toClose, outage, tripped, slipped>>

Callers == {"session", "kill"}

TypeOK ==
    /\ samples \in [BOOLEAN -> [0..Window -> Nat]]
    /\ limited \in 0..RateLimits
    /\ open \in BOOLEAN
    /\ since \in 0..Cooldown
    /\ streak \in 0 .. RECOVERY_SUCCESS_STREAK - 1
    /\ connected \in BOOLEAN
    /\ call \in [Callers -> {"idle", "connecting", "sent"}]
    /\ entering \in BOOLEAN
    /\ positions \in Nat
    /\ kill \in {"armed", "scheduled", "query", "closing"}
    /\ toClose \in Nat
    /\ outage \in BOOLEAN
    /\ tripped \in BOOLEAN
    /\ slipped \in 0..2

NoSamples == [ok \in BOOLEAN |-> [a \in 0..Window |-> 0]]

Init ==
    /\ samples = NoSamples
    /\ limited = 0
    /\ open = FALSE
    /\ since = 0
    /\ streak = 0
    /\ connected = TRUE
    /\ call = [c \in Callers |-> "idle"]
    /\ entering = FALSE
    /\ positions \in 0..MaxPositions
    /\ kill = "armed"
    /\ toClose = 0
    /\ outage = FALSE
    /\ tripped = FALSE
    /\ slipped = 0

\* is_active of the kill switch.
Active == kill \in {"query", "closing"}

-----------------------------------------------------------------------------
(***************************************************************************)
(* The monitor.  Its record_* methods run inside the steps of the gateway. *)
(***************************************************************************)

Count(s, ok) == MapThenSumSet(LAMBDA a : s[ok][a], 0..Window)
Total(s) == Count(s, TRUE) + Count(s, FALSE)

Appended(ok) == [samples EXCEPT ![ok][0] = @ + 1]

\* Bound: the window has room.
Room == Total(samples) < MaxSamples

ShouldTrip ==
    \/ limited' >= RateLimits
    \/ RateDen * Count(samples', FALSE) > RateNum * Total(samples')

Trip ==
    /\ open' = TRUE
    /\ since' = 0
    /\ streak' = 0
    /\ tripped' = TRUE

\* Mutant: the successes before the failure keep counting.
Reanchor_KeepsStreak == since' = 0 /\ streak' = streak

Reanchor == since' = 0 /\ streak' = 0

RecordFailure(rateLimited) ==
    /\ Room
    /\ samples' = Appended(FALSE)
    /\ limited' = IF rateLimited /\ limited < RateLimits THEN limited + 1 ELSE limited
    /\ \/ open /\ Reanchor /\ UNCHANGED <<open, tripped>>
       \/ ~open /\ ShouldTrip /\ Trip
       \/ ~open /\ ~ShouldTrip /\ UNCHANGED <<open, since, streak, tripped>>

\* Mutant: the risk event is only a warning, which the session logs.
Publish_Warning == kill' = kill

\* An opening breaker publishes EVENT_RISK of severity emergency, which
\* _on_risk_event turns into a task that activates the kill switch.
Publish == kill' = IF open' /\ ~open /\ kill = "armed" THEN "scheduled" ELSE kill

CloseCircuit ==
    /\ open' = FALSE
    /\ streak' = 0
    /\ limited' = 0
    /\ samples' = NoSamples

Probing == open /\ since >= Cooldown

\* Mutant: one success too many is waited for.
Recovered_OneMore == Probing /\ streak + 1 > RECOVERY_SUCCESS_STREAK

Recovered == Probing /\ streak + 1 >= RECOVERY_SUCCESS_STREAK

RecordSuccess ==
    /\ Room
    /\ IF Recovered
       THEN CloseCircuit
       ELSE /\ samples' = Appended(TRUE)
            /\ limited' = 0
            /\ streak' = IF Probing THEN streak + 1 ELSE streak
            /\ UNCHANGED open
    /\ UNCHANGED <<since, tripped>>

-----------------------------------------------------------------------------
(***************************************************************************)
(* The gateway.                                                            *)
(***************************************************************************)

\* send_order up to its first await: the reconnect, if one is needed.
SendBegins(c) ==
    /\ call[c] = "idle"
    /\ call' = [call EXCEPT ![c] = IF connected THEN "sent" ELSE "connecting"]

Reconnected(c) ==
    /\ call[c] = "connecting"
    /\ connected' = TRUE
    /\ call' = [call EXCEPT ![c] = "sent"]
    /\ RecordSuccess
    /\ UNCHANGED trading
    /\ UNCHANGED <<kill, outage>>

\* Every attempt failed: a GatewayError, and no sample.
ReconnectFails(c) ==
    /\ outage
    /\ call[c] = "connecting"
    /\ call' = [call EXCEPT ![c] = "idle"]
    /\ UNCHANGED breaker
    /\ UNCHANGED trading
    /\ UNCHANGED <<connected, kill, outage>>

\* The order is placed (and filled): an entry opens a position, an exit or a
\* close of the kill switch, both reduce-only, closes one.
OrderPlaced(c) ==
    /\ call[c] = "sent"
    /\ call' = [call EXCEPT ![c] = "idle"]
    /\ IF c = "session" /\ entering
       THEN /\ positions' = positions + 1
            /\ slipped' = IF tripped /\ slipped < 2 THEN slipped + 1 ELSE slipped
       ELSE /\ positions' = IF positions > 0 THEN positions - 1 ELSE 0
            /\ UNCHANGED slipped
    /\ RecordSuccess
    /\ UNCHANGED <<connected, entering, kill, toClose, outage>>

\* A timeout, an error, or error 50011.
OrderFails(c, rateLimited) ==
    /\ outage
    /\ call[c] = "sent"
    /\ call' = [call EXCEPT ![c] = "idle"]
    /\ connected' = FALSE
    /\ RecordFailure(rateLimited)
    /\ Publish
    /\ UNCHANGED trading
    /\ UNCHANGED outage

\* A query of the session fails (reconciliation, sync).  One that succeeds
\* records nothing.
QueryFails ==
    /\ outage
    /\ connected' = FALSE
    /\ RecordFailure(FALSE)
    /\ Publish
    /\ UNCHANGED trading
    /\ UNCHANGED <<call, outage>>

\* A watch loop loses its stream.
StreamFails ==
    /\ outage
    /\ RecordFailure(FALSE)
    /\ Publish
    /\ UNCHANGED trading
    /\ UNCHANGED <<connected, call, outage>>

-----------------------------------------------------------------------------
(***************************************************************************)
(* The session and the kill switch.                                        *)
(***************************************************************************)

\* Mutant: the risk engine was not given the monitor.
Admits_Always == ~Active

\* on_bar refuses a bar, and submit an order, once the switch is active; the
\* risk engine refuses entries while the breaker is open.
Admits == ~Active /\ ~open

\* The risk check of an entry, the gate of submit, and send_order up to its
\* first await; the order is on its way when there is a connection.
Enter ==
    /\ Admits
    /\ positions < MaxPositions
    /\ SendBegins("session")
    /\ entering' = TRUE
    /\ UNCHANGED breaker
    /\ UNCHANGED <<connected, positions, kill, toClose, outage, slipped>>

\* A FLAT signal passes by the risk engine.
Exit ==
    /\ ~Active
    /\ positions > 0
    /\ SendBegins("session")
    /\ entering' = FALSE
    /\ UNCHANGED breaker
    /\ UNCHANGED <<connected, positions, kill, toClose, outage, slipped>>

\* The task of _on_risk_event starts.
Activate ==
    /\ kill = "scheduled"
    /\ kill' = "query"
    /\ UNCHANGED breaker
    /\ UNCHANGED trading
    /\ UNCHANGED <<connected, call, outage>>

KillQueryAnswered ==
    /\ kill = "query"
    /\ kill' = "closing"
    /\ toClose' = positions
    /\ UNCHANGED breaker
    /\ UNCHANGED <<connected, call, entering, positions, outage, slipped>>

\* The switch stays active and closes nothing.
KillQueryFails ==
    /\ outage
    /\ kill = "query"
    /\ connected' = FALSE
    /\ RecordFailure(FALSE)
    /\ kill' = "closing"
    /\ UNCHANGED <<call, outage>>
    /\ UNCHANGED trading

KillCloses ==
    /\ kill = "closing"
    /\ toClose > 0
    /\ toClose' = toClose - 1
    /\ SendBegins("kill")
    /\ UNCHANGED breaker
    /\ UNCHANGED <<connected, entering, positions, kill, outage, slipped>>

-----------------------------------------------------------------------------
(***************************************************************************)
(* Time and the exchange.                                                  *)
(***************************************************************************)

Aged(s) == [ok \in BOOLEAN |-> [a \in 0..Window |-> IF a = 0 THEN 0 ELSE s[ok][a - 1]]]

\* A task that is ready runs before a tick is over.
Tick ==
    /\ kill # "scheduled"
    /\ samples' = Aged(samples)
    /\ since' = IF open /\ since < Cooldown THEN since + 1 ELSE since
    /\ UNCHANGED <<limited, open, streak, connected, call, kill, outage, tripped>>
    /\ UNCHANGED trading

OutageChanges ==
    /\ outage' = ~outage
    /\ UNCHANGED breaker
    /\ UNCHANGED trading
    /\ UNCHANGED <<connected, call, kill>>

-----------------------------------------------------------------------------
Next ==
    \/ \E c \in Callers : Reconnected(c) \/ ReconnectFails(c) \/ OrderPlaced(c)
    \/ \E c \in Callers, rateLimited \in BOOLEAN : OrderFails(c, rateLimited)
    \/ QueryFails
    \/ StreamFails
    \/ Enter
    \/ Exit
    \/ Activate
    \/ KillQueryAnswered
    \/ KillQueryFails
    \/ KillCloses
    \/ Tick
    \/ OutageChanges

Spec == Init /\ [][Next]_vars

(***************************************************************************)
(* Fairness: time passes, calls end (CALL_TIMEOUT), the task of the kill   *)
(* switch runs, and the strategies keep signalling: an entry or an exit    *)
(* that could be sent is sent one day.  Nothing is assumed of outages.     *)
(***************************************************************************)
Fairness ==
    /\ WF_vars(Tick)
    /\ WF_vars(Activate)
    /\ WF_vars(KillQueryAnswered \/ KillQueryFails)
    /\ WF_vars(KillCloses)
    /\ WF_vars(Enter)
    /\ WF_vars(Exit)
    /\ \A c \in Callers :
        WF_vars(\/ Reconnected(c) \/ ReconnectFails(c) \/ OrderPlaced(c)
                \/ \E rateLimited \in BOOLEAN : OrderFails(c, rateLimited))

FairSpec == Spec /\ Fairness

-----------------------------------------------------------------------------
(***************************************************************************)
(* Properties                                                              *)
(***************************************************************************)

BreakerState == IF ~open THEN "closed" ELSE IF since < Cooldown THEN "open" ELSE "probing"

Breaker == INSTANCE CircuitBreaker
    WITH Streak <- RECOVERY_SUCCESS_STREAK, state <- BreakerState, streak <- streak

\* Through every mixture of outcomes, of callers and of outages the monitor is
\* a breaker with hysteresis: no success of before the cooldown, and none of
\* before the last failure, helps to close it.
ImplementsBreaker == Breaker!Spec

\* Of the whole session at most one entry is placed after the breaker has
\* opened: the one that was on its way, or waiting for a connection, when it
\* did.  There is no gap for another between the breaker, which refuses entries
\* from then on, and the kill switch it arms, which refuses them for good, not
\* even after the closes of the switch have healed the breaker.
OneEntryAfterTrip == slipped <= 1

\* An opening breaker ends in an active kill switch.
TripStops == open ~> Active

(***************************************************************************)
(* A statement of the module's own text that the program does not keep.    *)
(***************************************************************************)

\* exchange_health.py: after the cooldown and three successes the breaker
\* closes.  The exchange has recovered for good.
BreakerRecovers == <>[]~outage => (open ~> ~open)
=============================================================================
