-------------------------- MODULE KillSwitch_proofs --------------------------
(***************************************************************************)
(* Proofs about KillSwitch, for every set of orders, pairs and tasks.      *)
(***************************************************************************)
EXTENDS KillSwitch, TLAPS

-----------------------------------------------------------------------------
(***************************************************************************)
(* The inductive invariant, in named parts.                                *)
(***************************************************************************)

\* Until it is activated the switch has done nothing.
IdleIsBlank ==
    ~active => step = "off" /\ status = "none" /\ who = "nobody" /\ ~cancelled

\* While the stop is carried out somebody awaits it, and it has no result.
BusyIsAwaited == step # "off" => status = "none" /\ who \in Callers

\* No closing order goes out before the positions are known.
NothingClosedYet ==
    ~active \/ step \in {"cancel", "query", "answered"}
        => todo = {} /\ \A s \in Symbols : close[s] = "none"

\* A stop that is through has left no position aside.
NothingLeftAside == status \in {"activated", "partial"} => todo = {}

\* What the exchange cancelled stays cancelled, and nothing came later.
Quiet == cancelled /\ ~late

NoOrderOpen == Quiet => \A o \in Orders : ex[o] # "open"

\* The answer on its way still says what the exchange has.
SnapshotIsTrue ==
    step = "answered" /\ Quiet => \A s \in Symbols : snap[s] = Magnitude(pos[s])

Closing == step = "close" \/ status \in {"activated", "partial"}

\* Where the closing of the position of s stands, when the positions of w are
\* still to be closed and the closes in known may have failed.
Accounted(s, w, known) ==
    /\ s \in w => close[s] = "none"
    /\ close[s] \in {"none", "sent", "open"} => snap[s] = Magnitude(pos[s])
    /\ close[s] = "none" => snap[s] = 0 \/ s \in w
    /\ close[s] = "open" => pos[s] > 0
    /\ close[s] = "done" => pos[s] = 0
    /\ close[s] \in {"sent", "refused"} => s \in known

\* The close that is awaited may have failed already.
MayHaveFailed == errors \cup (IF step = "close" THEN {cur} ELSE {})

RowsAccounted ==
    Closing /\ Quiet => \A s \in Symbols : Accounted(s, todo, MayHaveFailed)

IInv ==
    /\ TypeOK
    /\ IdleIsBlank
    /\ BusyIsAwaited
    /\ NothingClosedYet
    /\ NothingLeftAside
    /\ NoOrderOpen
    /\ SnapshotIsTrue
    /\ RowsAccounted

(***************************************************************************)
(* The order that slips past: inductive by itself.                         *)
(***************************************************************************)

\* Nothing has slipped past a switch that is off, or while the order that could
\* still waits for a connection; nor when the data loop activates it.
NothingSlippedYet ==
    ~active \/ loop \in {"connect", "activate"} => slipped = {}

AtMostOne == \A o, p \in slipped : o = p

SlipInv == NothingSlippedYet /\ AtMostOne

-----------------------------------------------------------------------------
(***************************************************************************)
(* The steps of the switch.                                                *)
(***************************************************************************)

\* Activation by one caller, up to the first await: the switch was blank, and
\* the stop awaits cancel_all_orders next.
LEMMA ArmLemma ==
    ASSUME IInv, NEW c \in Callers, ~active, Arm(c), UNCHANGED exch, TypeOK'
    PROVE  IInv'
<1>1. step = "off" /\ status = "none" /\ ~cancelled
  BY DEF IInv, IdleIsBlank
<1>2. active' /\ step' = "cancel" /\ status' = "none" /\ who' = c /\ ~cancelled'
  BY <1>1 DEF Arm, exch
<1>3. (IdleIsBlank /\ BusyIsAwaited /\ NothingLeftAside)'
  BY <1>2 DEF IdleIsBlank, BusyIsAwaited, NothingLeftAside
<1>4. NothingClosedYet'
  BY DEF IInv, NothingClosedYet, Arm, exch
<1>5. (NoOrderOpen /\ SnapshotIsTrue /\ RowsAccounted)'
  BY <1>2 DEF NoOrderOpen, SnapshotIsTrue, RowsAccounted, Quiet
<1> QED BY <1>3, <1>4, <1>5 DEF IInv

\* The next row of the stop, or its end: what is accounted for before the row
\* is taken, with the closes that failed known, is accounted for after it.
LEMMA NextCloseLemma ==
    ASSUME IInv, step \in {"answered", "close"},
           NEW w \in SUBSET Symbols,
           NEW failed \in SUBSET (Symbols \cup {"cancel", "query"}),
           NextClose(w, failed),
           UNCHANGED <<stopping, active, snap, ex, pos, cancelled, late, slipped>>,
           w = {} => todo = {},
           Quiet => \A s \in Symbols : Accounted(s, w, failed)
    PROVE  IInv'
<1>1. active /\ status = "none" /\ who \in Callers
  BY DEF IInv, IdleIsBlank, BusyIsAwaited
<1>2. CASE w = {}
  <2>1. Finish(IF failed = {} THEN "activated" ELSE "partial")
        /\ UNCHANGED <<todo, cur, close>> /\ errors' = failed
    BY <1>2 DEF NextClose
  <2>2. step' = "off" /\ status' \in {"activated", "partial"} /\ who' = "nobody"
    BY <2>1 DEF Finish
  <2>3. TypeOK'
    <3>1. running' \in BOOLEAN
          /\ loop' \in {"idle", "bar", "connect", "route", "activate", "ended"}
          /\ calls' \in [Callers \ {"loop"} -> {"none", "created", "activate", "ended"}]
      BY <2>1 DEF Finish, IInv, TypeOK
    <3> QED BY <2>1, <2>2, <3>1 DEF IInv, TypeOK
  <2>4. (IdleIsBlank /\ BusyIsAwaited /\ NothingClosedYet)'
    BY <1>1, <2>2 DEF IdleIsBlank, BusyIsAwaited, NothingClosedYet
  <2>5. NothingLeftAside'
    BY <1>2, <2>1 DEF NothingLeftAside
  <2>6. (NoOrderOpen /\ SnapshotIsTrue)'
    BY <2>2 DEF IInv, NoOrderOpen, SnapshotIsTrue, Quiet
  <2>7. RowsAccounted'
    BY <1>2, <2>1, <2>2 DEF RowsAccounted, Quiet, Accounted, MayHaveFailed
  <2> QED BY <2>3, <2>4, <2>5, <2>6, <2>7 DEF IInv
<1>3. CASE w # {}
  <2>1. PICK s \in w : /\ step' = "close"
                       /\ cur' = s
                       /\ todo' = w \ {s}
                       /\ close' = [close EXCEPT ![s] = "sent"]
                       /\ UNCHANGED <<running, loop, calls, who, status>>
    BY <1>3 DEF NextClose
  <2>2. errors' = failed
    BY DEF NextClose
  <2>3. TypeOK'
    BY <2>1, <2>2 DEF IInv, TypeOK
  <2>4. (IdleIsBlank /\ BusyIsAwaited /\ NothingClosedYet /\ NothingLeftAside)'
    BY <1>1, <2>1 DEF IdleIsBlank, BusyIsAwaited, NothingClosedYet, NothingLeftAside
  <2>5. (NoOrderOpen /\ SnapshotIsTrue)'
    BY <2>1 DEF IInv, NoOrderOpen, SnapshotIsTrue, Quiet
  <2>6. RowsAccounted'
    <3>1. SUFFICES ASSUME Quiet, NEW r \in Symbols
                   PROVE  Accounted(r, todo, MayHaveFailed)'
      BY DEF RowsAccounted, Quiet
    <3>2. Accounted(r, w, failed)
      BY <3>1
    <3>3. close[r] \in {"none", "sent", "open", "refused", "done"}
      BY DEF IInv, TypeOK
    <3>4. CASE r = s
      <4>1. close'[s] = "sent" /\ s \notin todo' /\ s \in MayHaveFailed'
        BY <2>1 DEF IInv, TypeOK, MayHaveFailed
      <4> QED BY <3>2, <3>4, <4>1 DEF Accounted
    <3>5. CASE r # s
      <4>1. close'[r] = close[r] /\ (r \in todo' <=> r \in w)
        BY <2>1, <3>5 DEF IInv, TypeOK
      <4>2. failed \subseteq MayHaveFailed'
        BY <2>2 DEF MayHaveFailed
      <4> QED BY <3>2, <4>1, <4>2 DEF Accounted
    <3> QED BY <3>4, <3>5
  <2> QED BY <2>3, <2>4, <2>5, <2>6 DEF IInv
<1> QED BY <1>2, <1>3

\* cancel_all_orders is over, one way or the other.
LEMMA CancelEndsStep == IInv /\ (CancelReturns \/ CancelFails) => IInv'
<1> SUFFICES ASSUME IInv, CancelReturns \/ CancelFails PROVE IInv'
  OBVIOUS
<1>1. step = "cancel" /\ step' = "query" /\ errors' \in {errors, errors \cup {"cancel"}}
      /\ UNCHANGED <<active, who, status, todo, cur, snap>>
      /\ UNCHANGED session /\ UNCHANGED exch
  BY DEF CancelReturns, CancelFails
<1>2. TypeOK'
  BY <1>1 DEF IInv, TypeOK, session, exch
<1>3. active /\ status = "none"
  BY <1>1 DEF IInv, IdleIsBlank, BusyIsAwaited
<1>4. (IdleIsBlank /\ BusyIsAwaited /\ NothingLeftAside)'
  BY <1>1, <1>3 DEF IInv, IdleIsBlank, BusyIsAwaited, NothingLeftAside
<1>5. NothingClosedYet'
  BY <1>1 DEF IInv, NothingClosedYet, exch
<1>6. (NoOrderOpen /\ SnapshotIsTrue)'
  BY <1>1 DEF IInv, NoOrderOpen, SnapshotIsTrue, Quiet, exch
<1>7. RowsAccounted'
  BY <1>1, <1>3 DEF RowsAccounted, Closing
<1> QED BY <1>2, <1>4, <1>5, <1>6, <1>7 DEF IInv

\* The positions are read at one moment and are on their way.
LEMMA QueryAnsweredStep == IInv /\ QueryAnswered => IInv'
<1> SUFFICES ASSUME IInv, QueryAnswered PROVE IInv'
  OBVIOUS
<1> USE DEF QueryAnswered
<1>1. active /\ status = "none"
  BY DEF IInv, IdleIsBlank, BusyIsAwaited
<1>2. \A s \in Symbols : Magnitude(pos[s]) \in Nat
  BY DEF IInv, TypeOK, Magnitude
<1>3. TypeOK'
  BY <1>2 DEF IInv, TypeOK, session, exch, RowQuantity
<1>4. (IdleIsBlank /\ BusyIsAwaited /\ NothingLeftAside)'
  BY <1>1 DEF IInv, IdleIsBlank, BusyIsAwaited, NothingLeftAside
<1>5. NothingClosedYet'
  BY DEF IInv, NothingClosedYet, exch
<1>6. (NoOrderOpen /\ SnapshotIsTrue)'
  BY DEF IInv, NoOrderOpen, SnapshotIsTrue, Quiet, exch, RowQuantity
<1>7. RowsAccounted'
  BY <1>1 DEF RowsAccounted, Closing
<1> QED BY <1>3, <1>4, <1>5, <1>6, <1>7 DEF IInv

\* The rows of the answer are the positions the exchange has.
LEMMA QueryReturnsStep == IInv /\ QueryReturns => IInv'
<1> SUFFICES ASSUME IInv, QueryReturns PROVE IInv'
  OBVIOUS
<1> DEFINE w == {s \in Symbols : snap[s] > 0}
<1>1. todo = {} /\ \A s \in Symbols : close[s] = "none"
  BY DEF QueryReturns, IInv, NothingClosedYet
<1>2. Quiet => \A s \in Symbols : Accounted(s, w, errors)
  <2> SUFFICES ASSUME Quiet, NEW s \in Symbols PROVE Accounted(s, w, errors)
    OBVIOUS
  <2>1. snap[s] = Magnitude(pos[s])
    BY DEF QueryReturns, IInv, SnapshotIsTrue
  <2>2. snap[s] \in Nat
    BY DEF IInv, TypeOK
  <2> QED BY <1>1, <2>1, <2>2 DEF Accounted
<1>3. NextClose(w, errors)
      /\ UNCHANGED <<stopping, active, snap, ex, pos, cancelled, late, slipped>> /\ step = "answered"
  BY DEF QueryReturns
<1>4. errors \in SUBSET (Symbols \cup {"cancel", "query"})
  BY DEF IInv, TypeOK
<1>5. w \in SUBSET Symbols
  OBVIOUS
<1> HIDE DEF w
<1> QED BY <1>1, <1>2, <1>3, <1>4, <1>5, NextCloseLemma

\* The positions cannot be read and the stop fails.
LEMMA QueryFailsStep == IInv /\ QueryFails => IInv'
<1> SUFFICES ASSUME IInv, QueryFails PROVE IInv'
  OBVIOUS
<1>1. active /\ who \in Callers /\ step \in {"query", "answered"}
  BY DEF IInv, IdleIsBlank, BusyIsAwaited, QueryFails
<1>2. step' = "off" /\ status' = "failed" /\ who' = "nobody" /\ active'
  BY <1>1 DEF QueryFails, Finish
<1>3. TypeOK'
  <2>1. running' \in BOOLEAN
        /\ loop' \in {"idle", "bar", "connect", "route", "activate", "ended"}
        /\ calls' \in [Callers \ {"loop"} -> {"none", "created", "activate", "ended"}]
    BY <1>1 DEF QueryFails, Finish, IInv, TypeOK
  <2> QED BY <1>2, <2>1 DEF QueryFails, IInv, TypeOK, exch
<1>4. (IdleIsBlank /\ BusyIsAwaited /\ NothingClosedYet /\ NothingLeftAside)'
  BY <1>2 DEF IdleIsBlank, BusyIsAwaited, NothingClosedYet, NothingLeftAside
<1>5. (NoOrderOpen /\ SnapshotIsTrue /\ RowsAccounted)'
  BY <1>2 DEF QueryFails, IInv, NoOrderOpen, SnapshotIsTrue, RowsAccounted, Closing, Quiet, exch
<1> QED BY <1>3, <1>4, <1>5 DEF IInv

\* One closing order has been sent, or has failed; the next follows.
LEMMA CloseEndsStep == IInv /\ (CloseReturns \/ CloseFails) => IInv'
<1> SUFFICES ASSUME IInv, CloseReturns \/ CloseFails PROVE IInv'
  OBVIOUS
<1>1. step = "close" /\ UNCHANGED <<stopping, active, snap, ex, pos, cancelled, late, slipped>>
  BY DEF CloseReturns, CloseFails
<1>2. todo \in SUBSET Symbols /\ errors \in SUBSET (Symbols \cup {"cancel", "query"})
      /\ cur \in Symbols
  BY <1>1 DEF IInv, TypeOK
<1>3. Quiet => \A s \in Symbols : Accounted(s, todo, errors \cup {cur})
  BY <1>1 DEF IInv, RowsAccounted, Closing, MayHaveFailed
<1>4. CASE CloseReturns
  <2>1. NextClose(todo, errors) /\ close[cur] \in {"open", "done"}
    BY <1>4 DEF CloseReturns
  <2>2. Quiet => \A s \in Symbols : Accounted(s, todo, errors)
    BY <1>2, <1>3, <2>1 DEF Accounted
  <2> QED BY <1>1, <1>2, <2>1, <2>2, NextCloseLemma
<1>5. CASE CloseFails
  <2>1. NextClose(todo, errors \cup {cur})
    BY <1>5 DEF CloseFails, AfterFailure
  <2>2. errors \cup {cur} \in SUBSET (Symbols \cup {"cancel", "query"})
    BY <1>2
  <2> QED BY <1>1, <1>2, <1>3, <2>1, <2>2, NextCloseLemma
<1> QED BY <1>4, <1>5

-----------------------------------------------------------------------------
(***************************************************************************)
(* The steps of the session.                                               *)
(***************************************************************************)

\* Steps that leave the switch and the exchange alone.
LEMMA SessionStep ==
    ASSUME IInv, UNCHANGED switch, UNCHANGED exch, TypeOK'
    PROVE  IInv'
<1>1. (IdleIsBlank /\ BusyIsAwaited /\ NothingClosedYet /\ NothingLeftAside)'
  BY DEF IInv, IdleIsBlank, BusyIsAwaited, NothingClosedYet, NothingLeftAside, switch, exch
<1>2. (NoOrderOpen /\ SnapshotIsTrue)'
  BY DEF IInv, NoOrderOpen, SnapshotIsTrue, Quiet, switch, exch
<1>3. RowsAccounted'
  BY DEF IInv, RowsAccounted, Closing, Quiet, Accounted, MayHaveFailed, switch, exch
<1> QED BY <1>1, <1>2, <1>3 DEF IInv

\* activate(), called by a task or by the operator.
LEMMA ActivateStep ==
    ASSUME IInv, NEW c \in Callers \ {"loop"}, Activate(c),
           UNCHANGED <<running, loop>>, stopping' = stopping, UNCHANGED exch
    PROVE  IInv'
<1>1. CASE active
  <2>1. UNCHANGED switch /\ calls' = [calls EXCEPT ![c] = "ended"]
    BY <1>1 DEF Activate
  <2>2. TypeOK'
    BY <2>1 DEF IInv, TypeOK, switch, exch
  <2> QED BY <2>1, <2>2, SessionStep
<1>2. CASE ~active
  <2>1. Arm(c) /\ calls' = [calls EXCEPT ![c] = "activate"]
    BY <1>2 DEF Activate
  <2>2. TypeOK'
    BY <2>1 DEF IInv, TypeOK, Arm, exch
  <2> QED BY <1>2, <2>1, <2>2, ArmLemma
<1> QED BY <1>1, <1>2

\* The bar enters, and activates the switch on a drawdown breach.
LEMMA OnBarStep == IInv /\ OnBar => IInv'
<1> SUFFICES ASSUME IInv, OnBar PROVE IInv'
  OBVIOUS
<1>1. CASE loop' = "bar" /\ UNCHANGED switch
  <2>1. TypeOK'
    BY <1>1 DEF OnBar, IInv, TypeOK, switch, exch
  <2> QED BY <1>1, <2>1, SessionStep DEF OnBar
<1>2. CASE loop' = "activate" /\ Arm("loop")
  <2>1. TypeOK'
    BY <1>2 DEF OnBar, IInv, TypeOK, Arm, exch, Callers
  <2> QED BY <1>2, <2>1, ArmLemma DEF OnBar, Callers
<1> QED BY <1>1, <1>2 DEF OnBar

\* A new order is not open yet.
LEMMA SendOrderStep == ASSUME NEW o \in Orders PROVE IInv /\ SendOrder(o) => IInv'
<1> SUFFICES ASSUME IInv, SendOrder(o) PROVE IInv'
  OBVIOUS
<1> USE DEF SendOrder
<1>1. TypeOK'
  BY DEF IInv, TypeOK, switch
<1>2. (IdleIsBlank /\ BusyIsAwaited /\ NothingClosedYet /\ NothingLeftAside)'
  BY DEF IInv, IdleIsBlank, BusyIsAwaited, NothingClosedYet, NothingLeftAside, switch
<1>3. NoOrderOpen'
  BY DEF IInv, TypeOK, NoOrderOpen, Quiet
<1>4. (SnapshotIsTrue /\ RowsAccounted)'
  BY DEF IInv, SnapshotIsTrue, RowsAccounted, Closing, Quiet, Accounted, MayHaveFailed, switch
<1> QED BY <1>1, <1>2, <1>3, <1>4 DEF IInv

\* A risk event creates a task, and changes nothing the invariant speaks of.
LEMMA OnRiskEventStep == ASSUME NEW t \in Tasks PROVE IInv /\ OnRiskEvent(t) => IInv'
<1> SUFFICES ASSUME IInv, OnRiskEvent(t) PROVE IInv'
  OBVIOUS
<1>1. calls' \in [Callers \ {"loop"} -> {"none", "created", "activate", "ended"}]
  BY DEF OnRiskEvent, IInv, TypeOK
<1>2. TypeOK'
  BY <1>1 DEF OnRiskEvent, IInv, TypeOK, switch, exch
<1> QED BY <1>2, SessionStep DEF OnRiskEvent

\* Nor do the gate, a connection that fails, the end of an order's submission
\* and of a bar.
LEMMA BarStep == IInv /\ (Submit \/ ConnectFails \/ RouteEnds \/ EndBar) => IInv'
<1> SUFFICES ASSUME IInv, Submit \/ ConnectFails \/ RouteEnds \/ EndBar PROVE IInv'
  OBVIOUS
<1>1. UNCHANGED switch /\ UNCHANGED exch
  BY DEF Submit, ConnectFails, RouteEnds, EndBar
<1>2. TypeOK'
  BY <1>1 DEF Submit, ConnectFails, RouteEnds, EndBar, IInv, TypeOK, switch, exch
<1> QED BY <1>1, <1>2, SessionStep

\* A stop of the session that cuts an activation off leaves it without a
\* result.
LEMMA InterruptLemma ==
    ASSUME IInv, NEW cs \in SUBSET Callers, Interrupt(cs), UNCHANGED <<active, errors, todo, cur, snap>>,
           UNCHANGED exch, TypeOK'
    PROVE  IInv'
<1>1. CASE who \in cs
  <2>1. status' = "interrupted" /\ step' = "off" /\ who' = "nobody"
    BY <1>1 DEF Interrupt
  <2>2. (BusyIsAwaited /\ NothingLeftAside /\ SnapshotIsTrue /\ RowsAccounted)'
    BY <2>1 DEF BusyIsAwaited, NothingLeftAside, SnapshotIsTrue, RowsAccounted, Closing
  <2>3. (NothingClosedYet /\ NoOrderOpen)'
    BY <2>1 DEF IInv, NothingClosedYet, NoOrderOpen, Quiet, exch
  <2>4. active
    BY <1>1, KillSwitchAssumption DEF IInv, IdleIsBlank, Callers
  <2> QED BY <2>2, <2>3, <2>4 DEF IInv, IdleIsBlank
<1>2. CASE who \notin cs
  <2>1. UNCHANGED switch
    BY <1>2 DEF Interrupt, switch
  <2> QED BY <2>1, SessionStep
<1> QED BY <1>1, <1>2

\* The operator's stop, in its two halves.
LEMMA StopStep == IInv /\ (StopLoop \/ StopSession) => IInv'
<1> SUFFICES ASSUME IInv, StopLoop \/ StopSession PROVE IInv'
  OBVIOUS
<1>1. CASE StopLoop
  <2>1. Interrupt({"loop"}) /\ UNCHANGED <<active, errors, todo, cur, snap>> /\ UNCHANGED exch
    BY <1>1 DEF StopLoop
  <2>2. TypeOK'
    BY <1>1, <2>1 DEF StopLoop, Interrupt, IInv, TypeOK, exch
  <2>3. {"loop"} \in SUBSET Callers
    BY DEF Callers
  <2> QED BY <2>1, <2>2, <2>3, InterruptLemma
<1>2. CASE StopSession
  <2>1. Interrupt(Tasks) /\ UNCHANGED <<active, errors, todo, cur, snap>> /\ UNCHANGED exch
    BY <1>2 DEF StopSession
  <2>2. calls' \in [Callers \ {"loop"} -> {"none", "created", "activate", "ended"}]
    BY <1>2 DEF StopSession, IInv, TypeOK
  <2>3. TypeOK'
    <3>1. running' \in BOOLEAN /\ stopping' = "stopped" /\ loop' = loop
      BY <1>2 DEF StopSession
    <3>2. status' \in {status, "interrupted"} /\ step' \in {step, "off"} /\ who' \in {who, "nobody"}
      BY <2>1 DEF Interrupt
    <3> QED BY <2>1, <2>2, <3>1, <3>2 DEF IInv, TypeOK, exch
  <2>4. Tasks \in SUBSET Callers
    BY DEF Callers
  <2> QED BY <2>1, <2>3, <2>4, InterruptLemma
<1> QED BY <1>1, <1>2

\* A background task activates the switch.
LEMMA TaskStartsStep == ASSUME NEW t \in Tasks PROVE IInv /\ TaskStarts(t) => IInv'
<1>1. t \in Callers \ {"loop"}
  BY KillSwitchAssumption DEF Callers
<1> QED BY <1>1, ActivateStep DEF TaskStarts

\* The operator activates the switch.
LEMMA TriggerStep == IInv /\ TriggerKillSwitch => IInv'
<1>1. "web" \in Callers \ {"loop"}
  BY DEF Callers
<1> QED BY <1>1, ActivateStep DEF TriggerKillSwitch

-----------------------------------------------------------------------------
(***************************************************************************)
(* The steps of the exchange.                                              *)
(***************************************************************************)

\* The exchange accepts, fills or drops an order of the session: after
\* cancel_all_orders it has none to fill but late ones.
LEMMA ExOrderStep ==
    ASSUME NEW o \in Orders
    PROVE  IInv /\ (ExAccept(o) \/ ExFill(o) \/ ExDrop(o)) => IInv'
<1> SUFFICES ASSUME IInv, ExAccept(o) \/ ExFill(o) \/ ExDrop(o) PROVE IInv'
  OBVIOUS
<1>1. UNCHANGED switch /\ UNCHANGED session /\ UNCHANGED <<close, cancelled>>
  BY DEF ExAccept, ExFill, ExDrop
<1>2. TypeOK'
  <2>1. SymbolOf[o] \in Symbols /\ SideOf[o] \in Int
    BY KillSwitchAssumption
  <2>2. late' \in BOOLEAN /\ slipped' = slipped
    BY DEF ExAccept, ExFill, ExDrop, IInv, TypeOK
  <2>3. ex' \in [Orders -> {"none", "sent", "open", "gone"}]
    BY DEF ExAccept, ExFill, ExDrop, IInv, TypeOK
  <2>4. pos' \in [Symbols -> Int]
    BY <2>1 DEF ExAccept, ExFill, ExDrop, IInv, TypeOK
  <2> QED BY <1>1, <2>2, <2>3, <2>4 DEF IInv, TypeOK, switch, session
<1>3. (IdleIsBlank /\ BusyIsAwaited /\ NothingClosedYet /\ NothingLeftAside)'
  BY <1>1 DEF IInv, IdleIsBlank, BusyIsAwaited, NothingClosedYet, NothingLeftAside, switch
<1>4. CASE Quiet'
  <2>1. Quiet
    <3>1. late => late'
      BY DEF ExAccept, ExFill, ExDrop
    <3> QED BY <1>1, <1>4, <3>1 DEF Quiet
  <2>2. ExDrop(o)
    <3>1. ~ExFill(o)
      BY <2>1 DEF ExFill, IInv, NoOrderOpen
    <3>2. ~ExAccept(o)
      BY <1>4, <2>1 DEF ExAccept, TooLate, Quiet
    <3> QED BY <3>1, <3>2
  <2>3. NoOrderOpen'
    BY <2>1, <2>2 DEF ExDrop, IInv, TypeOK, NoOrderOpen
  <2>4. (SnapshotIsTrue /\ RowsAccounted)'
    BY <1>1, <2>1, <2>2
       DEF ExDrop, IInv, SnapshotIsTrue, RowsAccounted, Closing, Accounted, MayHaveFailed, switch
  <2> QED BY <1>2, <1>3, <2>3, <2>4 DEF IInv
<1>5. CASE ~Quiet'
  <2>1. (NoOrderOpen /\ SnapshotIsTrue /\ RowsAccounted)'
    BY <1>5 DEF NoOrderOpen, SnapshotIsTrue, RowsAccounted
  <2> QED BY <1>2, <1>3, <2>1 DEF IInv
<1> QED BY <1>4, <1>5

\* The exchange carries out cancel_all_orders: no order is open any more.
LEMMA ExCancelAllStep == IInv /\ ExCancelAll => IInv'
<1> SUFFICES ASSUME IInv, ExCancelAll PROVE IInv'
  OBVIOUS
<1> USE DEF ExCancelAll
<1>1. TypeOK'
  BY DEF IInv, TypeOK, session, switch
<1>2. active /\ status = "none"
  BY DEF IInv, IdleIsBlank, BusyIsAwaited
<1>3. (IdleIsBlank /\ BusyIsAwaited /\ NothingClosedYet /\ NothingLeftAside)'
  BY <1>2 DEF IInv, IdleIsBlank, BusyIsAwaited, NothingClosedYet, NothingLeftAside, switch
<1>4. NoOrderOpen'
  BY DEF NoOrderOpen
<1>5. (SnapshotIsTrue /\ RowsAccounted)'
  BY <1>2 DEF SnapshotIsTrue, RowsAccounted, Closing, switch
<1> QED BY <1>1, <1>3, <1>4, <1>5 DEF IInv

\* A filled closing order leaves less, on the same side.
LEMMA ReducedLemma ==
    ASSUME NEW p \in Int, NEW n \in Nat
    PROVE  /\ Reduced(p, n) \in Int
           /\ Magnitude(Reduced(p, n)) <= Magnitude(p)
           /\ Reduced(p, n) > 0 => p > 0
           /\ Reduced(p, n) < 0 => p < 0
           /\ p > 0 /\ n = p => Reduced(p, n) = 0
<1>1. CASE n <= p
  BY <1>1 DEF Reduced, ReduceOnly, Magnitude
<1>2. CASE n > p
  BY <1>2 DEF Reduced, ReduceOnly, Magnitude
<1> QED BY <1>1, <1>2

\* The exchange takes or fills a closing order of pair s.
LEMMA ExCloseStep ==
    ASSUME NEW s \in Symbols
    PROVE  IInv /\ (ExCloseTaken(s) \/ ExCloseFilled(s)) => IInv'
<1> SUFFICES ASSUME IInv, ExCloseTaken(s) \/ ExCloseFilled(s) PROVE IInv'
  OBVIOUS
<1>1. UNCHANGED switch /\ UNCHANGED session /\ UNCHANGED <<ex, cancelled, late, slipped>>
      /\ close[s] \in {"sent", "open"}
  BY DEF ExCloseTaken, ExCloseFilled
<1>2. pos[s] \in Int /\ snap[s] \in Nat
  BY DEF IInv, TypeOK
<1>3. TypeOK'
  <2>1. CASE ExCloseTaken(s)
    BY <1>1, <2>1 DEF ExCloseTaken, IInv, TypeOK, switch, session
  <2>2. CASE ExCloseFilled(s)
    <3>1. Reduced(pos[s], snap[s]) \in Int
      BY <1>2, ReducedLemma
    <3> QED BY <1>1, <2>2, <3>1 DEF ExCloseFilled, IInv, TypeOK, switch, session
  <2> QED BY <2>1, <2>2
<1>4. active /\ step \in {"off", "close"}
  BY <1>1 DEF IInv, TypeOK, NothingClosedYet
<1>5. (IdleIsBlank /\ BusyIsAwaited /\ NothingClosedYet /\ NothingLeftAside)'
  BY <1>1, <1>4 DEF IInv, IdleIsBlank, BusyIsAwaited, NothingClosedYet, NothingLeftAside, switch
<1>6. (NoOrderOpen /\ SnapshotIsTrue)'
  BY <1>1, <1>4 DEF IInv, NoOrderOpen, SnapshotIsTrue, Quiet, switch
<1>7. RowsAccounted'
  <2>1. SUFFICES ASSUME Closing, Quiet, NEW r \in Symbols
                 PROVE  Accounted(r, todo, MayHaveFailed)'
    BY <1>1 DEF RowsAccounted, Closing, Quiet, switch
  <2>2. Accounted(r, todo, MayHaveFailed) /\ Accounted(s, todo, MayHaveFailed)
    BY <2>1 DEF IInv, RowsAccounted
  <2>3. todo' = todo /\ snap' = snap /\ MayHaveFailed' = MayHaveFailed
    BY <1>1 DEF MayHaveFailed, switch
  <2>4. CASE r # s
    <3>1. close'[r] = close[r] /\ pos'[r] = pos[r]
      BY <2>4 DEF ExCloseTaken, ExCloseFilled, IInv, TypeOK
    <3> QED BY <2>2, <2>3, <3>1 DEF Accounted
  <2>5. CASE r = s /\ ExCloseTaken(s)
    <3>1. CASE pos[s] > 0
      <4>1. close'[s] = "open" /\ pos' = pos
        BY <1>2, <2>5, <3>1 DEF ExCloseTaken, IInv, TypeOK
      <4>2. close[s] = "sent"
        BY <2>5 DEF ExCloseTaken
      <4> QED BY <2>2, <2>3, <2>5, <3>1, <4>1, <4>2 DEF Accounted
    <3>2. CASE pos[s] <= 0
      <4>1. close'[s] = "refused" /\ close[s] = "sent"
        BY <2>5, <3>2 DEF ExCloseTaken, ReduceOnly, IInv, TypeOK
      <4>2. s \in MayHaveFailed
        BY <2>2, <4>1 DEF Accounted
      <4> QED BY <2>2, <2>3, <2>5, <4>1, <4>2 DEF Accounted
    <3> QED BY <1>2, <3>1, <3>2
  <2>6. CASE r = s /\ ExCloseFilled(s)
    <3>1. pos[s] > 0 /\ snap[s] = pos[s] /\ close[s] = "open"
      BY <1>2, <2>2, <2>6 DEF ExCloseFilled, Accounted, Magnitude
    <3>2. pos'[s] = 0 /\ close'[s] = "done"
      BY <1>2, <2>6, <3>1, ReducedLemma DEF ExCloseFilled, IInv, TypeOK
    <3> QED BY <2>2, <2>3, <2>6, <3>1, <3>2 DEF Accounted
  <2> QED BY <1>1, <2>4, <2>5, <2>6
<1> QED BY <1>3, <1>5, <1>6, <1>7 DEF IInv

-----------------------------------------------------------------------------
(***************************************************************************)
(* The theorems.                                                           *)
(***************************************************************************)

\* A step that changes nothing preserves the invariant.
LEMMA StutterStep == IInv /\ UNCHANGED vars => IInv'
<1> SUFFICES ASSUME IInv, UNCHANGED vars PROVE IInv'
  OBVIOUS
<1>1. UNCHANGED switch /\ UNCHANGED session /\ UNCHANGED exch
  BY DEF vars, switch, session, exch
<1>2. TypeOK'
  BY <1>1 DEF IInv, TypeOK, switch, session, exch
<1> QED BY <1>1, <1>2, SessionStep

\* The program starts with the switch off and nothing sent.
THEOREM InitInvariant == Init => IInv
<1> SUFFICES ASSUME Init PROVE IInv
  OBVIOUS
<1>1. TypeOK
  <2>1. calls \in [Callers \ {"loop"} -> {"none", "created", "activate", "ended"}]
    BY DEF Init
  <2>2. running \in BOOLEAN /\ active \in BOOLEAN /\ cancelled \in BOOLEAN /\ late \in BOOLEAN
    BY DEF Init
  <2> QED BY <2>1, <2>2 DEF Init, TypeOK
<1>2. IdleIsBlank /\ BusyIsAwaited /\ NothingClosedYet /\ NothingLeftAside
  BY DEF Init, IdleIsBlank, BusyIsAwaited, NothingClosedYet, NothingLeftAside
<1>3. NoOrderOpen /\ SnapshotIsTrue /\ RowsAccounted
  BY DEF Init, NoOrderOpen, SnapshotIsTrue, RowsAccounted, Quiet
<1> QED BY <1>1, <1>2, <1>3 DEF IInv

\* Every step of the switch, the session and the exchange keeps it.
THEOREM NextInvariant == IInv /\ [Next]_vars => IInv'
<1> SUFFICES ASSUME IInv, [Next]_vars PROVE IInv'
  OBVIOUS
<1>1. CASE SwitchStep
  BY <1>1, CancelEndsStep, QueryAnsweredStep, QueryReturnsStep, QueryFailsStep, CloseEndsStep
     DEF SwitchStep
<1>2. CASE OnBar
  BY <1>2, OnBarStep
<1>3. CASE \E o \in Orders : SendOrder(o)
  BY <1>3, SendOrderStep
<1>4. CASE Submit \/ ConnectFails \/ RouteEnds \/ EndBar
  BY <1>4, BarStep
<1>5. CASE \E t \in Tasks : OnRiskEvent(t) \/ TaskStarts(t)
  BY <1>5, OnRiskEventStep, TaskStartsStep
<1>6. CASE TriggerKillSwitch
  BY <1>6, TriggerStep
<1>7. CASE StopLoop \/ StopSession
  BY <1>7, StopStep
<1>8. CASE \E o \in Orders : ExAccept(o) \/ ExFill(o) \/ ExDrop(o)
  BY <1>8, ExOrderStep
<1>9. CASE ExCancelAll
  BY <1>9, ExCancelAllStep
<1>10. CASE \E s \in Symbols : ExCloseTaken(s) \/ ExCloseFilled(s)
  BY <1>10, ExCloseStep
<1>11. CASE UNCHANGED vars
  BY <1>11, StutterStep
<1> QED BY <1>1, <1>2, <1>3, <1>4, <1>5, <1>6, <1>7, <1>8, <1>9, <1>10, <1>11 DEF Next

\* The inductive invariant holds in every state the program reaches.
THEOREM InductiveInvariant == Spec => []IInv
<1> QED BY InitInvariant, NextInvariant, PTL DEF Spec

\* Every variable keeps its type.
THEOREM TypeCorrect == Spec => []TypeOK
<1>1. IInv => TypeOK
  BY DEF IInv
<1> QED BY <1>1, InductiveInvariant, PTL

\* A stop whose cancel_all_orders was carried out and that nothing slipped past
\* leaves no open order, and no position it does not report an error for.
THEOREM Thorough == Spec => []StopIsThorough
<1>1. IInv => StopIsThorough
  <2> SUFFICES ASSUME IInv, status \in {"activated", "partial"}, cancelled, ~late, Settled
               PROVE  /\ \A o \in Orders : ex[o] # "open"
                      /\ \A s \in Symbols \ errors : pos[s] = 0
    BY DEF StopIsThorough
  <2>1. Quiet /\ Closing /\ step = "off" /\ todo = {}
    BY DEF Quiet, Closing, IInv, BusyIsAwaited, NothingLeftAside
  <2>2. \A o \in Orders : ex[o] # "open"
    BY <2>1 DEF IInv, NoOrderOpen
  <2>3. ASSUME NEW s \in Symbols, s \notin errors PROVE pos[s] = 0
    <3>1. Accounted(s, {}, errors)
      <4>1. MayHaveFailed = errors
        BY <2>1 DEF MayHaveFailed
      <4> QED BY <2>1, <4>1 DEF IInv, RowsAccounted
    <3>2. close[s] \in {"none", "done"}
      BY <2>3, <3>1 DEF Settled, Accounted, IInv, TypeOK
    <3>3. pos[s] \in Int
      BY DEF IInv, TypeOK
    <3> QED BY <3>1, <3>2, <3>3 DEF Accounted, Magnitude
  <2> QED BY <2>2, <2>3
<1> QED BY <1>1, InductiveInvariant, PTL

\* What every step but the sending of an order has in common: nothing slips
\* past, the switch is not switched off again, and only while it is off does
\* the data loop reach the await of a connection, or activate it.
LEMMA OtherSteps ==
    ASSUME IInv, Next, \A o \in Orders : ~SendOrder(o)
    PROVE  /\ slipped' = slipped
           /\ active => active'
           /\ loop' \in {"connect", "activate"} => loop' = loop \/ ~active
<1> DEFINE Goal == /\ slipped' = slipped
                   /\ active => active'
                   /\ loop' \in {"connect", "activate"} => loop' = loop \/ ~active
<1>1. CASE SwitchStep
  <2>1. ASSUME NEW r, Finish(r) PROVE loop' \in {loop, "ended"}
    BY <2>1 DEF Finish
  <2>2. ASSUME NEW w, NEW failed, NextClose(w, failed) PROVE loop' \in {loop, "ended"}
    BY <2>1, <2>2 DEF NextClose
  <2>3. CASE CancelReturns \/ CancelFails \/ QueryAnswered
    BY <2>3 DEF CancelReturns, CancelFails, QueryAnswered, session, exch
  <2>4. CASE QueryFails
    BY <2>1, <2>4 DEF QueryFails, exch
  <2>5. CASE QueryReturns \/ CloseReturns \/ CloseFails
    BY <2>2, <2>5 DEF QueryReturns, CloseReturns, CloseFails
  <2> QED BY <1>1, <2>3, <2>4, <2>5 DEF SwitchStep
<1>2. CASE OnBar
  BY <1>2 DEF OnBar, exch
<1>3. CASE Submit
  BY <1>3 DEF Submit, GateOpen, switch, exch
<1>4. CASE ConnectFails \/ RouteEnds \/ EndBar
  BY <1>4 DEF ConnectFails, RouteEnds, EndBar, switch, exch
<1>5. CASE \E t \in Tasks : OnRiskEvent(t) \/ TaskStarts(t)
  BY <1>5 DEF OnRiskEvent, TaskStarts, Activate, Arm, switch, exch
<1>6. CASE TriggerKillSwitch
  BY <1>6 DEF TriggerKillSwitch, Activate, Arm, switch, exch
<1>7. CASE StopLoop \/ StopSession
  BY <1>7 DEF StopLoop, StopSession, exch
<1>8. CASE \E o \in Orders : ExAccept(o) \/ ExFill(o) \/ ExDrop(o)
  BY <1>8 DEF ExAccept, ExFill, ExDrop, switch, session
<1>9. CASE ExCancelAll
  BY <1>9 DEF ExCancelAll, switch, session
<1>10. CASE \E s \in Symbols : ExCloseTaken(s) \/ ExCloseFilled(s)
  BY <1>10 DEF ExCloseTaken, ExCloseFilled, switch, session
<1> QED BY <1>1, <1>2, <1>3, <1>4, <1>5, <1>6, <1>7, <1>8, <1>9, <1>10 DEF Next

\* Past an active switch goes one order of the session at most: the one that was
\* waiting for a connection.  It can go out after every step of the stop.
THEOREM OnePasses == Spec => []OneSlipsPast
<1>1. Init => SlipInv
  BY DEF Init, SlipInv, NothingSlippedYet, AtMostOne
<1>2. IInv /\ SlipInv /\ [Next]_vars => SlipInv'
  <2> SUFFICES ASSUME IInv, SlipInv, [Next]_vars PROVE SlipInv'
    OBVIOUS
  <2>1. CASE UNCHANGED vars
    BY <2>1 DEF vars, SlipInv, NothingSlippedYet, AtMostOne
  <2>2. ASSUME NEW o \in Orders, SendOrder(o) PROVE SlipInv'
    <3>1. slipped = {}
      BY <2>2 DEF SendOrder, SlipInv, NothingSlippedYet
    <3>2. slipped' = (IF active THEN {o} ELSE {}) /\ active' = active /\ loop' = "route"
      BY <2>2, <3>1 DEF SendOrder, switch
    <3> QED BY <3>2 DEF SlipInv, NothingSlippedYet, AtMostOne
  <2>3. ASSUME Next, \A o \in Orders : ~SendOrder(o) PROVE SlipInv'
    BY <2>3, OtherSteps DEF SlipInv, NothingSlippedYet, AtMostOne
  <2> QED BY <2>1, <2>2, <2>3
<1>3. SlipInv /\ IInv => OneSlipsPast
  BY DEF SlipInv, NothingSlippedYet, AtMostOne, OneSlipsPast
<1> QED BY <1>1, <1>2, <1>3, InductiveInvariant, PTL DEF Spec

\* No step that fills a closing order enlarges or turns the position.
THEOREM OnlyReduces == Spec => ClosingOnlyReduces
<1>1. IInv /\ [Next]_vars => [ReducingStep]_vars
  <2> SUFFICES ASSUME IInv, [Next]_vars, NEW s \in Symbols,
                      close[s] = "open", close'[s] = "done"
               PROVE  /\ Magnitude(pos'[s]) <= Magnitude(pos[s])
                      /\ pos'[s] > 0 => pos[s] > 0
                      /\ pos'[s] < 0 => pos[s] < 0
    BY DEF ReducingStep
  <2>1. ~SwitchStep
    <3>1. ~(CancelReturns \/ CancelFails \/ QueryAnswered \/ QueryFails)
      BY DEF CancelReturns, CancelFails, QueryAnswered, QueryFails, exch
    <3>2. ASSUME NEW w, NEW failed, NextClose(w, failed) PROVE FALSE
      BY <3>2 DEF NextClose, IInv, TypeOK
    <3> QED BY <3>1, <3>2 DEF SwitchStep, QueryReturns, CloseReturns, CloseFails
  <2>2. ~(OnBar \/ Submit \/ ConnectFails \/ RouteEnds \/ EndBar)
      /\ ~(TriggerKillSwitch \/ StopLoop \/ StopSession)
    BY DEF OnBar, Submit, ConnectFails, RouteEnds, EndBar, TriggerKillSwitch, StopLoop, StopSession, exch
  <2>3. ~\E t \in Tasks : OnRiskEvent(t) \/ TaskStarts(t)
    BY DEF OnRiskEvent, TaskStarts, exch
  <2>4. ~\E o \in Orders : SendOrder(o) \/ ExAccept(o) \/ ExFill(o) \/ ExDrop(o)
    BY DEF SendOrder, ExAccept, ExFill, ExDrop
  <2>5. ~ExCancelAll /\ ~UNCHANGED vars
    BY DEF ExCancelAll, vars
  <2>6. PICK r \in Symbols : ExCloseTaken(r) \/ ExCloseFilled(r)
    BY <2>1, <2>2, <2>3, <2>4, <2>5 DEF Next
  <2>7. r = s /\ ExCloseFilled(s)
    BY <2>6 DEF ExCloseTaken, ExCloseFilled, IInv, TypeOK
  <2>8. pos'[s] = Reduced(pos[s], snap[s]) /\ pos[s] \in Int /\ snap[s] \in Nat
    BY <2>7 DEF ExCloseFilled, IInv, TypeOK
  <2>9. /\ Magnitude(Reduced(pos[s], snap[s])) <= Magnitude(pos[s])
        /\ Reduced(pos[s], snap[s]) > 0 => pos[s] > 0
        /\ Reduced(pos[s], snap[s]) < 0 => pos[s] < 0
    BY <2>8, ReducedLemma
  <2> QED BY <2>8, <2>9
<1> QED BY <1>1, InductiveInvariant, PTL DEF Spec, ClosingOnlyReduces
=============================================================================
