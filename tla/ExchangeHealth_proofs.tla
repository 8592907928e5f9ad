------------------------ MODULE ExchangeHealth_proofs ------------------------
(***************************************************************************)
(* Proofs about ExchangeHealth, for every window, cooldown and threshold.  *)
(***************************************************************************)
EXTENDS ExchangeHealth, TLAPS

-----------------------------------------------------------------------------
(***************************************************************************)
(* The inductive invariant, in named parts.                                *)
(***************************************************************************)

\* Successes are counted in the half-open state only.
StreakIsProbing == ~Probing => streak = 0

\* A breaker that is or was open has armed the kill switch, and until its task
\* runs no time passes, so the breaker is still open.
TripArms ==
    /\ open => tripped
    /\ tripped => kill # "armed"
    /\ kill = "scheduled" => open /\ since = 0

IInv == TypeOK /\ StreakIsProbing /\ TripArms

\* When an entry has slipped past an open breaker the session has no other
\* under way, and as the breaker has tripped it begins none.  Inductive with
\* the help of IInv.
SlipInv ==
    slipped = 0 \/ (slipped = 1 /\ tripped /\ (call["session"] = "idle" \/ ~entering))

-----------------------------------------------------------------------------
(***************************************************************************)
(* What recording does.                                                    *)
(***************************************************************************)

\* One sample more is still a window of samples.
LEMMA AppendedLemma ==
    ASSUME HealthAssumption, TypeOK, NEW ok \in BOOLEAN
    PROVE  Appended(ok) \in [BOOLEAN -> [0..Window -> Nat]]
<1>1. 0 \in 0..Window /\ samples[ok] \in [0..Window -> Nat]
  BY DEF HealthAssumption, TypeOK
<1>2. samples[ok][0] + 1 \in Nat
  BY <1>1
<1>3. [samples[ok] EXCEPT ![0] = samples[ok][0] + 1] \in [0..Window -> Nat]
  BY <1>1, <1>2
<1> QED BY <1>3 DEF Appended, TypeOK

LEMMA NoSamplesLemma == NoSamples \in [BOOLEAN -> [0..Window -> Nat]]
BY DEF NoSamples

\* A failure keeps the breaker closed, opens it, or sends it back to the start
\* of its cooldown; in each case no success counts.
LEMMA FailureLemma ==
    ASSUME HealthAssumption, IInv, NEW rateLimited \in BOOLEAN, RecordFailure(rateLimited)
    PROVE  /\ samples' \in [BOOLEAN -> [0..Window -> Nat]]
           /\ limited' \in 0..RateLimits
           /\ \/ ~open /\ UNCHANGED <<open, since, streak, tripped>>
              \/ open' = TRUE /\ since' = 0 /\ streak' = 0 /\ tripped' = TRUE
<1>1. samples' \in [BOOLEAN -> [0..Window -> Nat]]
  BY AppendedLemma DEF RecordFailure, IInv
<1>2. limited' \in 0..RateLimits
  <2>1. limited \in 0..RateLimits /\ RateLimits \in Nat
    BY DEF IInv, TypeOK, HealthAssumption
  <2>2. limited' = IF rateLimited /\ limited < RateLimits THEN limited + 1 ELSE limited
    BY DEF RecordFailure
  <2> QED BY <2>1, <2>2
<1>3. CASE open
  BY <1>1, <1>2, <1>3 DEF RecordFailure, Reanchor, IInv, TypeOK, TripArms
<1>4. CASE ~open
  BY <1>1, <1>2, <1>4 DEF RecordFailure, Trip
<1> QED BY <1>3, <1>4

\* A success counts in the half-open state only, and the third closes.
LEMMA SuccessLemma ==
    ASSUME HealthAssumption, IInv, RecordSuccess
    PROVE  /\ samples' \in [BOOLEAN -> [0..Window -> Nat]]
           /\ limited' \in 0..RateLimits
           /\ UNCHANGED <<since, tripped>>
           /\ \/ Probing /\ streak + 1 = RECOVERY_SUCCESS_STREAK
                 /\ open' = FALSE /\ streak' = 0
              \/ Probing /\ streak + 1 < RECOVERY_SUCCESS_STREAK
                 /\ UNCHANGED open /\ streak' = streak + 1
              \/ ~Probing /\ UNCHANGED <<open, streak>>
<1>1. streak \in 0..2 /\ RECOVERY_SUCCESS_STREAK = 3
  BY DEF IInv, TypeOK, RECOVERY_SUCCESS_STREAK
<1>2. 0 \in 0..RateLimits
  BY DEF HealthAssumption
<1>3. CASE Recovered
  <2>1. samples' = NoSamples /\ limited' = 0 /\ open' = FALSE /\ streak' = 0
        /\ UNCHANGED <<since, tripped>>
    BY <1>3 DEF RecordSuccess, CloseCircuit
  <2>2. Probing /\ streak + 1 = RECOVERY_SUCCESS_STREAK
    BY <1>1, <1>3 DEF Recovered
  <2> QED BY <1>2, <2>1, <2>2, NoSamplesLemma
<1>4. CASE ~Recovered
  <2>1. /\ samples' = Appended(TRUE) /\ limited' = 0 /\ UNCHANGED <<open, since, tripped>>
        /\ streak' = IF Probing THEN streak + 1 ELSE streak
    BY <1>4 DEF RecordSuccess
  <2>2. Probing => streak + 1 < RECOVERY_SUCCESS_STREAK
    BY <1>1, <1>4 DEF Recovered
  <2>3. samples' \in [BOOLEAN -> [0..Window -> Nat]]
    BY <2>1, AppendedLemma DEF IInv
  <2> QED BY <1>2, <2>1, <2>2, <2>3
<1> QED BY <1>3, <1>4

-----------------------------------------------------------------------------
(***************************************************************************)
(* Each kind of step keeps the invariant and is a step of the abstract     *)
(* breaker or leaves it alone.                                             *)
(***************************************************************************)

Kept == IInv' /\ [Breaker!Next]_Breaker!vars

\* The variables that are neither the breaker's nor the kill switch's.
RestOK ==
    /\ connected \in BOOLEAN
    /\ call \in [Callers -> {"idle", "connecting", "sent"}]
    /\ entering \in BOOLEAN
    /\ positions \in Nat
    /\ toClose \in Nat
    /\ outage \in BOOLEAN
    /\ slipped \in 0..2

\* A recorded failure, after which the risk event has been published or the
\* kill switch was active already.
LEMMA FailureStep ==
    ASSUME HealthAssumption, IInv, NEW rateLimited \in BOOLEAN, RecordFailure(rateLimited),
           Publish \/ (kill = "query" /\ kill' = "closing"), RestOK'
    PROVE  Kept
<1> DEFINE Stays == ~open /\ UNCHANGED <<open, since, streak, tripped>>
           Falls == open' = TRUE /\ since' = 0 /\ streak' = 0 /\ tripped' = TRUE
<1>1. /\ samples' \in [BOOLEAN -> [0..Window -> Nat]] /\ limited' \in 0..RateLimits
      /\ Stays \/ Falls
  BY FailureLemma
<1>2. Cooldown \in Nat \ {0} /\ since \in 0..Cooldown /\ open \in BOOLEAN
      /\ streak \in 0..2 /\ tripped \in BOOLEAN /\ RECOVERY_SUCCESS_STREAK = 3
      /\ kill \in {"armed", "scheduled", "query", "closing"}
  BY DEF HealthAssumption, IInv, TypeOK, RECOVERY_SUCCESS_STREAK
<1>3. CASE Stays
  <2>1. kill' = kill \/ (kill = "query" /\ kill' = "closing")
    BY <1>3 DEF Publish
  <2>2. TypeOK'
    BY <1>1, <1>2, <1>3, <2>1 DEF TypeOK, RestOK
  <2>3. StreakIsProbing' /\ TripArms'
    BY <1>3, <2>1 DEF IInv, StreakIsProbing, Probing, TripArms
  <2>4. UNCHANGED Breaker!vars
    BY <1>3 DEF Breaker!vars, BreakerState
  <2> QED BY <2>2, <2>3, <2>4 DEF Kept, IInv
<1>4. CASE Falls
  <2>1. /\ kill' \in {"armed", "scheduled", "query", "closing"}
        /\ kill' # "armed"
    BY <1>2, <1>4 DEF Publish, IInv, TripArms
  <2>2. TypeOK'
    BY <1>1, <1>2, <1>4, <2>1 DEF TypeOK, RestOK
  <2>3. StreakIsProbing' /\ TripArms'
    BY <1>2, <1>4, <2>1 DEF StreakIsProbing, Probing, TripArms
  <2>4. BreakerState' = "open" /\ streak' = 0
    BY <1>2, <1>4 DEF BreakerState
  <2>5. [Breaker!Next]_Breaker!vars
    <3>1. CASE ~open
      <4>1. BreakerState = "closed"
        BY <3>1 DEF BreakerState
      <4> QED BY <2>4, <4>1 DEF Breaker!Next, Breaker!Trip
    <3>2. CASE open /\ since < Cooldown
      <4>1. streak = 0 /\ BreakerState = "open"
        BY <1>2, <3>2 DEF IInv, StreakIsProbing, Probing, BreakerState
      <4> QED BY <2>4, <4>1 DEF Breaker!vars
    <3>3. CASE open /\ ~(since < Cooldown)
      <4>1. BreakerState = "probing"
        BY <3>3 DEF BreakerState
      <4> QED BY <2>4, <4>1 DEF Breaker!Next, Breaker!Relapse
    <3> QED BY <3>1, <3>2, <3>3
  <2> QED BY <2>2, <2>3, <2>5 DEF Kept, IInv
<1> QED BY <1>1, <1>3, <1>4

\* A recorded success.  While the kill switch waits to run the breaker is in
\* the first tick of its cooldown, so it stays open.
LEMMA SuccessStep ==
    ASSUME HealthAssumption, IInv, RecordSuccess, UNCHANGED kill, RestOK'
    PROVE  Kept
<1> DEFINE Closes == Probing /\ streak + 1 = RECOVERY_SUCCESS_STREAK
                     /\ open' = FALSE /\ streak' = 0
           Counts == Probing /\ streak + 1 < RECOVERY_SUCCESS_STREAK
                     /\ UNCHANGED open /\ streak' = streak + 1
           Ignored == ~Probing /\ UNCHANGED <<open, streak>>
<1>1. /\ samples' \in [BOOLEAN -> [0..Window -> Nat]] /\ limited' \in 0..RateLimits
      /\ UNCHANGED <<since, tripped>>
      /\ Closes \/ Counts \/ Ignored
  BY SuccessLemma
<1>2. Cooldown \in Nat \ {0} /\ since \in 0..Cooldown /\ open \in BOOLEAN
      /\ streak \in 0..2 /\ tripped \in BOOLEAN /\ RECOVERY_SUCCESS_STREAK = 3
      /\ kill \in {"armed", "scheduled", "query", "closing"}
  BY DEF HealthAssumption, IInv, TypeOK, RECOVERY_SUCCESS_STREAK
<1>3. TypeOK'
  <2>1. open' \in BOOLEAN /\ streak' \in 0 .. RECOVERY_SUCCESS_STREAK - 1
    <3>1. CASE Closes
      <4>1. open' = FALSE /\ streak' = 0
        BY <3>1
      <4>2. 0 \in 0 .. RECOVERY_SUCCESS_STREAK - 1
        BY DEF RECOVERY_SUCCESS_STREAK
      <4> QED BY <4>1, <4>2
    <3>2. CASE Counts
      <4>1. open' = open /\ streak' = streak + 1 /\ streak + 1 < 3
        BY <1>2, <3>2
      <4> QED BY <1>2, <4>1
    <3>3. CASE Ignored
      BY <1>2, <3>3
    <3> QED BY <1>1, <3>1, <3>2, <3>3
  <2> QED BY <1>1, <1>2, <2>1 DEF TypeOK, RestOK
<1>4. StreakIsProbing'
  BY <1>1, <1>2 DEF IInv, StreakIsProbing, Probing
<1>5. TripArms'
  <2>1. Probing => kill # "scheduled"
    BY <1>2 DEF IInv, TripArms, Probing
  <2> QED BY <1>1, <2>1 DEF IInv, TripArms
<1>6. [Breaker!Next]_Breaker!vars
  <2>1. Probing => BreakerState = "probing"
    BY <1>2 DEF Probing, BreakerState
  <2>2. CASE Closes
    BY <2>1, <2>2 DEF Breaker!Next, Breaker!Close, BreakerState
  <2>3. CASE Counts
    <3>1. BreakerState' = BreakerState
      BY <1>1, <2>3 DEF BreakerState
    <3> QED BY <2>1, <2>3, <3>1 DEF Breaker!Next, Breaker!Probe
  <2>4. CASE Ignored
    BY <1>1, <2>4 DEF Breaker!vars, BreakerState
  <2> QED BY <1>1, <2>2, <2>3, <2>4
<1> QED BY <1>3, <1>4, <1>5, <1>6 DEF Kept, IInv

\* A step that records nothing, apart from time.
LEMMA SilentStep ==
    ASSUME HealthAssumption, IInv, UNCHANGED breaker, RestOK',
           \/ UNCHANGED kill
           \/ kill = "scheduled" /\ kill' = "query"
           \/ kill = "query" /\ kill' = "closing"
    PROVE  Kept
<1>1. UNCHANGED <<samples, limited, open, since, streak, tripped>>
  BY DEF breaker
<1>2. TypeOK'
  BY <1>1 DEF IInv, TypeOK, RestOK
<1>3. StreakIsProbing' /\ TripArms'
  BY <1>1 DEF IInv, StreakIsProbing, Probing, TripArms
<1>4. UNCHANGED Breaker!vars
  BY <1>1 DEF Breaker!vars, BreakerState
<1> QED BY <1>2, <1>3, <1>4 DEF Kept, IInv

\* Time passes: the cooldown of an open breaker may end.
LEMMA TickStep ==
    ASSUME HealthAssumption, IInv, Tick
    PROVE  Kept
<1>1. Cooldown \in Nat \ {0} /\ since \in 0..Cooldown /\ open \in BOOLEAN /\ Window \in Nat
  BY DEF HealthAssumption, IInv, TypeOK
<1>2. /\ UNCHANGED <<limited, open, streak, connected, call, kill, outage, tripped,
                     entering, positions, toClose, slipped>>
      /\ since' = IF open /\ since < Cooldown THEN since + 1 ELSE since
      /\ samples' = Aged(samples) /\ kill # "scheduled"
  BY DEF Tick, trading
<1>3. since' \in 0..Cooldown
  BY <1>1, <1>2
<1>4. samples' \in [BOOLEAN -> [0..Window -> Nat]]
  <2> SUFFICES ASSUME NEW ok \in BOOLEAN, NEW a \in 0..Window
               PROVE  (IF a = 0 THEN 0 ELSE samples[ok][a - 1]) \in Nat
    BY <1>2 DEF Aged
  <2>1. samples[ok] \in [0..Window -> Nat]
    BY DEF IInv, TypeOK
  <2>2. a # 0 => a - 1 \in 0..Window
    BY <1>1
  <2> QED BY <2>1, <2>2
<1>5. TypeOK'
  BY <1>2, <1>3, <1>4 DEF IInv, TypeOK
<1>6. StreakIsProbing' /\ TripArms'
  BY <1>1, <1>2 DEF IInv, StreakIsProbing, Probing, TripArms
<1>7. [Breaker!Next]_Breaker!vars
  <2>1. CASE open /\ since < Cooldown /\ ~(since' < Cooldown)
    BY <1>2, <2>1 DEF Breaker!Next, Breaker!CoolDown, BreakerState
  <2>2. CASE ~(open /\ since < Cooldown /\ ~(since' < Cooldown))
    BY <1>1, <1>2, <2>2 DEF Breaker!vars, BreakerState
  <2> QED BY <2>1, <2>2
<1> QED BY <1>5, <1>6, <1>7 DEF Kept, IInv

-----------------------------------------------------------------------------
(***************************************************************************)
(* Every step is of one of those kinds.                                    *)
(***************************************************************************)

\* What a call does to the callers stays within their states.
LEMMA CallLemma ==
    ASSUME IInv, NEW c \in Callers, NEW v \in {"idle", "connecting", "sent"}
    PROVE  [call EXCEPT ![c] = v] \in [Callers -> {"idle", "connecting", "sent"}]
BY DEF IInv, TypeOK

LEMMA SendLemma ==
    ASSUME IInv, NEW c \in Callers, SendBegins(c)
    PROVE  call' \in [Callers -> {"idle", "connecting", "sent"}]
BY DEF IInv, TypeOK, SendBegins

LEMMA RestLemma == IInv => RestOK
BY DEF IInv, TypeOK, RestOK

LEMMA GatewayLemma ==
    ASSUME HealthAssumption, IInv, NEW c \in Callers,
           \/ Reconnected(c) \/ ReconnectFails(c) \/ OrderPlaced(c)
           \/ \E rateLimited \in BOOLEAN : OrderFails(c, rateLimited)
    PROVE  Kept
<1> USE RestLemma, CallLemma
<1>1. CASE Reconnected(c)
  <2>1. RestOK'
    BY <1>1 DEF Reconnected, trading, RestOK
  <2> QED BY <1>1, <2>1, SuccessStep DEF Reconnected
<1>2. CASE ReconnectFails(c)
  <2>1. RestOK'
    BY <1>2 DEF ReconnectFails, trading, RestOK
  <2> QED BY <1>2, <2>1, SilentStep DEF ReconnectFails
<1>3. CASE OrderPlaced(c)
  <2>1. positions' \in Nat /\ slipped' \in 0..2
    <3>1. CASE c = "session" /\ entering
      BY <1>3, <3>1 DEF OrderPlaced, RestOK
    <3>2. CASE ~(c = "session" /\ entering)
      BY <1>3, <3>2 DEF OrderPlaced, RestOK
    <3> QED BY <3>1, <3>2
  <2>2. RestOK'
    BY <1>3, <2>1 DEF OrderPlaced, RestOK
  <2> QED BY <1>3, <2>2, SuccessStep DEF OrderPlaced
<1>4. ASSUME NEW rateLimited \in BOOLEAN, OrderFails(c, rateLimited)
      PROVE  Kept
  <2>1. RestOK'
    BY <1>4 DEF OrderFails, trading, RestOK
  <2> QED BY <1>4, <2>1, FailureStep DEF OrderFails
<1> QED BY <1>1, <1>2, <1>3, <1>4

LEMMA SessionLemma ==
    ASSUME HealthAssumption, IInv,
           QueryFails \/ StreamFails \/ Enter \/ Exit \/ OutageChanges
    PROVE  Kept
<1> USE RestLemma
<1>1. CASE QueryFails \/ StreamFails
  <2>1. RestOK'
    BY <1>1 DEF QueryFails, StreamFails, trading, RestOK
  <2> QED BY <1>1, <2>1, FailureStep DEF QueryFails, StreamFails
<1>2. CASE Enter \/ Exit
  <2>1. call' \in [Callers -> {"idle", "connecting", "sent"}]
    BY <1>2, SendLemma DEF Enter, Exit, Callers
  <2>2. RestOK'
    BY <1>2, <2>1 DEF Enter, Exit, RestOK
  <2> QED BY <1>2, <2>2, SilentStep DEF Enter, Exit
<1>3. CASE OutageChanges
  <2>1. RestOK'
    BY <1>3 DEF OutageChanges, trading, RestOK
  <2> QED BY <1>3, <2>1, SilentStep DEF OutageChanges
<1> QED BY <1>1, <1>2, <1>3

LEMMA KillLemma ==
    ASSUME HealthAssumption, IInv,
           Activate \/ KillQueryAnswered \/ KillQueryFails \/ KillCloses
    PROVE  Kept
<1> USE RestLemma
<1>1. CASE Activate
  <2>1. RestOK'
    BY <1>1 DEF Activate, trading, RestOK
  <2> QED BY <1>1, <2>1, SilentStep DEF Activate
<1>2. CASE KillQueryAnswered
  <2>1. RestOK'
    BY <1>2 DEF KillQueryAnswered, RestOK
  <2> QED BY <1>2, <2>1, SilentStep DEF KillQueryAnswered
<1>3. CASE KillQueryFails
  <2>1. RestOK'
    BY <1>3 DEF KillQueryFails, trading, RestOK
  <2> QED BY <1>3, <2>1, FailureStep DEF KillQueryFails
<1>4. CASE KillCloses
  <2>1. call' \in [Callers -> {"idle", "connecting", "sent"}] /\ toClose' \in Nat
    BY <1>4, SendLemma DEF KillCloses, Callers, RestOK
  <2>2. RestOK'
    BY <1>4, <2>1 DEF KillCloses, RestOK
  <2> QED BY <1>4, <2>2, SilentStep DEF KillCloses
<1> QED BY <1>1, <1>2, <1>3, <1>4

\* The induction step, and with it the step simulation.
LEMMA StepLemma ==
    ASSUME HealthAssumption, IInv, [Next]_vars
    PROVE  Kept
<1>1. CASE \E c \in Callers : Reconnected(c) \/ ReconnectFails(c) \/ OrderPlaced(c)
  BY <1>1, GatewayLemma
<1>2. CASE \E c \in Callers, rateLimited \in BOOLEAN : OrderFails(c, rateLimited)
  BY <1>2, GatewayLemma
<1>3. CASE QueryFails \/ StreamFails \/ Enter \/ Exit \/ OutageChanges
  BY <1>3, SessionLemma
<1>4. CASE Activate \/ KillQueryAnswered \/ KillQueryFails \/ KillCloses
  BY <1>4, KillLemma
<1>5. CASE Tick
  BY <1>5, TickStep
<1>6. CASE UNCHANGED vars
  <2>1. UNCHANGED breaker /\ UNCHANGED kill
    BY <1>6 DEF vars, breaker
  <2>2. RestOK'
    BY <1>6, RestLemma DEF vars, RestOK
  <2> QED BY <2>1, <2>2, SilentStep
<1> QED BY <1>1, <1>2, <1>3, <1>4, <1>5, <1>6 DEF Next

LEMMA InitLemma ==
    ASSUME HealthAssumption, Init
    PROVE  IInv /\ Breaker!Init
<1>1. TypeOK
  <2>1. /\ 0 \in 0..RateLimits /\ 0 \in 0..Cooldown
        /\ 0 \in 0 .. RECOVERY_SUCCESS_STREAK - 1 /\ positions \in Nat
        /\ slipped \in 0..2
    BY DEF HealthAssumption, RECOVERY_SUCCESS_STREAK, Init
  <2> QED BY <2>1, NoSamplesLemma DEF Init, TypeOK
<1>2. StreakIsProbing /\ TripArms
  BY DEF Init, StreakIsProbing, TripArms
<1>3. Breaker!Init
  BY DEF Init, Breaker!Init, BreakerState
<1> QED BY <1>1, <1>2, <1>3 DEF IInv

-----------------------------------------------------------------------------
(***************************************************************************)
(* The theorems.                                                           *)
(***************************************************************************)

\* The inductive invariant holds in every reachable state.
THEOREM InductiveInvariant == Spec => []IInv
<1>1. Init => IInv
  BY InitLemma, HealthAssumption
<1>2. IInv /\ [Next]_vars => IInv'
  BY StepLemma, HealthAssumption DEF Kept
<1> QED BY <1>1, <1>2, PTL DEF Spec

\* Every variable keeps its type: the recovery streak stays below the number
\* that closes the breaker.
THEOREM TypeCorrect == Spec => []TypeOK
<1>1. IInv => TypeOK
  BY DEF IInv
<1> QED BY <1>1, InductiveInvariant, PTL

\* The monitor, fed by all its callers, implements the abstract breaker with
\* hysteresis.
THEOREM Refinement == Spec => ImplementsBreaker
<1>1. Init => Breaker!Init
  BY InitLemma, HealthAssumption
<1>2. IInv /\ [Next]_vars => [Breaker!Next]_Breaker!vars
  BY StepLemma, HealthAssumption DEF Kept
<1> QED BY <1>1, <1>2, InductiveInvariant, PTL DEF Spec, ImplementsBreaker, Breaker!Spec

\* What every step but a placed order and the beginning of an order of the
\* session has in common.
LEMMA OtherSteps ==
    ASSUME HealthAssumption, IInv, [Next]_vars,
           ~Enter, ~Exit, ~OrderPlaced("session")
    PROVE  /\ slipped' = slipped /\ entering' = entering
           /\ call["session"] = "idle" => call'["session"] = "idle"
<1> USE DEF Callers
<1>1. ASSUME NEW c \in Callers, NEW v, call' = [call EXCEPT ![c] = v],
             v = "idle" \/ c = "kill" \/ call[c] # "idle"
      PROVE  call["session"] = "idle" => call'["session"] = "idle"
  BY <1>1 DEF IInv, TypeOK
<1>2. ASSUME NEW c \in Callers, Reconnected(c) \/ ReconnectFails(c) \/ OrderPlaced(c)
      PROVE  /\ slipped' = slipped /\ entering' = entering
             /\ call["session"] = "idle" => call'["session"] = "idle"
  BY <1>1, <1>2 DEF Reconnected, ReconnectFails, OrderPlaced, trading
<1>3. ASSUME NEW c \in Callers, NEW rateLimited \in BOOLEAN, OrderFails(c, rateLimited)
      PROVE  /\ slipped' = slipped /\ entering' = entering
             /\ call["session"] = "idle" => call'["session"] = "idle"
  BY <1>1, <1>3 DEF OrderFails, trading
<1>4. CASE QueryFails \/ StreamFails \/ OutageChanges \/ Tick
  BY <1>4 DEF QueryFails, StreamFails, OutageChanges, Tick, trading
<1>5. CASE Activate \/ KillQueryAnswered \/ KillQueryFails
  BY <1>5 DEF Activate, KillQueryAnswered, KillQueryFails, trading
<1>6. CASE KillCloses
  BY <1>1, <1>6 DEF KillCloses, SendBegins
<1>7. CASE UNCHANGED vars
  BY <1>7 DEF vars
<1> QED BY <1>2, <1>3, <1>4, <1>5, <1>6, <1>7 DEF Next

\* A breaker that has tripped has done so for good in the history.
LEMMA TripStays == ASSUME HealthAssumption, IInv, [Next]_vars, tripped PROVE tripped'
<1>1. ASSUME NEW rateLimited \in BOOLEAN, RecordFailure(rateLimited) PROVE tripped'
  BY <1>1, FailureLemma
<1>2. ASSUME RecordSuccess PROVE tripped'
  BY <1>2 DEF RecordSuccess
<1>3. ASSUME UNCHANGED breaker PROVE tripped'
  BY <1>3 DEF breaker
<1> QED BY <1>1, <1>2, <1>3 DEF Next, Reconnected, ReconnectFails, OrderPlaced, OrderFails,
       QueryFails, StreamFails, Enter, Exit, Activate, KillQueryAnswered, KillQueryFails,
       KillCloses, Tick, OutageChanges, vars

\* No entry begins once the breaker has opened: first the breaker refuses it,
\* then the kill switch.
LEMMA NoneBegins == IInv /\ Enter => ~tripped
<1> SUFFICES ASSUME IInv, Enter PROVE ~tripped
  OBVIOUS
<1>1. ~open /\ kill \in {"armed", "scheduled"}
  BY DEF Enter, Admits, Active, IInv, TypeOK
<1> QED BY <1>1 DEF IInv, TripArms

\* So the session places one entry at most after the breaker has opened: the
\* one that was under way.
THEOREM OneAfterTrip == Spec => []OneEntryAfterTrip
<1>1. Init => SlipInv
  BY DEF Init, SlipInv
<1>2. IInv /\ SlipInv /\ [Next]_vars => SlipInv'
  <2> SUFFICES ASSUME IInv, SlipInv, [Next]_vars PROVE SlipInv'
    OBVIOUS
  <2> USE HealthAssumption
  <2>1. CASE Enter
    <3>1. slipped = 0 /\ slipped' = slipped
      BY <2>1, NoneBegins DEF SlipInv, Enter
    <3> QED BY <3>1 DEF SlipInv
  <2>2. CASE Exit
    <3>1. slipped' = slipped /\ entering' = FALSE /\ (tripped => tripped')
      BY <2>2, TripStays DEF Exit
    <3> QED BY <3>1 DEF SlipInv
  <2>3. CASE OrderPlaced("session")
    <3>1. call'["session"] = "idle"
      BY <2>3 DEF OrderPlaced, IInv, TypeOK, Callers
    <3>2. CASE entering
      <4>1. slipped = 0 /\ slipped' = (IF tripped THEN 1 ELSE 0)
        BY <2>3, <3>2 DEF OrderPlaced, SlipInv
      <4> QED BY <3>1, <4>1, TripStays DEF SlipInv
    <3>3. CASE ~entering
      <4>1. slipped' = slipped
        BY <2>3, <3>3 DEF OrderPlaced
      <4> QED BY <3>1, <4>1, TripStays DEF SlipInv
    <3> QED BY <3>2, <3>3
  <2>4. CASE ~Enter /\ ~Exit /\ ~OrderPlaced("session")
    <3>1. /\ slipped' = slipped /\ entering' = entering
          /\ call["session"] = "idle" => call'["session"] = "idle"
      BY <2>4, OtherSteps
    <3> QED BY <3>1, TripStays DEF SlipInv
  <2> QED BY <2>1, <2>2, <2>3, <2>4
<1>3. SlipInv => OneEntryAfterTrip
  BY DEF SlipInv, OneEntryAfterTrip
<1> QED BY <1>1, <1>2, <1>3, InductiveInvariant, PTL DEF Spec

-----------------------------------------------------------------------------
(***************************************************************************)
(* The breaker that never closes.                                          *)
(***************************************************************************)

\* The breaker is open, the kill switch is done with its closes and no call of
\* a caller is under way.
Stuck ==
    /\ open
    /\ kill = "closing"
    /\ toClose = 0
    /\ \A c \in Callers : call[c] = "idle"

\* Nothing that is still enabled records a success: queries that succeed
\* record nothing, and the session sends no order under an active switch.
LEMMA StuckLemma ==
    ASSUME HealthAssumption, IInv, Stuck, [Next]_vars
    PROVE  Stuck'
<1>1. kill = "closing" /\ open /\ toClose = 0 /\ \A c \in Callers : call[c] = "idle"
  BY DEF Stuck
<1>2. ASSUME NEW c \in Callers  PROVE ~(Reconnected(c) \/ ReconnectFails(c) \/ OrderPlaced(c))
  BY <1>1 DEF Reconnected, ReconnectFails, OrderPlaced
<1>3. ASSUME NEW c \in Callers, NEW rateLimited \in BOOLEAN  PROVE ~OrderFails(c, rateLimited)
  BY <1>1 DEF OrderFails
<1>4. CASE QueryFails \/ StreamFails
  <2>1. open'
    BY <1>1, <1>4 DEF QueryFails, StreamFails, RecordFailure
  <2>2. kill' = kill /\ UNCHANGED <<call, toClose>>
    BY <1>1, <1>4 DEF QueryFails, StreamFails, Publish, trading
  <2> QED BY <1>1, <2>1, <2>2 DEF Stuck
<1>5. ~(Enter \/ Exit)
  BY <1>1 DEF Enter, Exit, Admits, Active
<1>6. ~(Activate \/ KillQueryAnswered \/ KillQueryFails \/ KillCloses)
  BY <1>1 DEF Activate, KillQueryAnswered, KillQueryFails, KillCloses
<1>7. CASE Tick \/ OutageChanges
  BY <1>1, <1>7 DEF Tick, OutageChanges, breaker, trading, Stuck
<1>8. CASE UNCHANGED vars
  BY <1>1, <1>8 DEF vars, Stuck
<1> QED BY <1>2, <1>3, <1>4, <1>5, <1>6, <1>7, <1>8 DEF Next

\* A breaker that is still open when the kill switch has sent its last close
\* is open for ever, however long the exchange has been well again (a run
\* reaches such a state; the code's recovery streak has nobody to feed it).
THEOREM StuckForEver == Spec => [](Stuck => []Stuck)
<1>1. IInv /\ Stuck /\ [Next]_vars => Stuck'
  BY StuckLemma, HealthAssumption
<1> QED BY <1>1, InductiveInvariant, PTL DEF Spec
=============================================================================
