--------------------------- MODULE StationSession ---------------------------
(***************************************************************************)
(* StationSessionManager: the operator's start, stop and kill-switch       *)
(* requests, served one at a time under an asyncio lock; the data loop of  *)
(* a session, which may crash or finish; and the events of the session,    *)
(* buffered by bus handlers and written to the history by a flush task, by *)
(* polls and by stop().  Every write to the history may fail.              *)
(*                                                                         *)
(* An action is the code between two awaits.  asyncio.Lock serves its      *)
(* waiters first come first served: a request is its place in that order,  *)
(* what it asks for is chosen when it is served, a session has the number  *)
(* of the request that started it, and its i-th event is i.                *)
(***************************************************************************)
EXTENDS Integers, FiniteSets

CONSTANTS
    Asks,       \* bound: requests of the operator
    Events      \* bound: events of one session

ASSUME StationAssumption == Asks \in Nat /\ Events \in Nat

VARIABLES
    asked,      \* requests made
    served,     \* of them those that got the lock; the last one may hold it
    pc,         \* what the holder of the lock is awaiting
    owned,      \* _runtime, 0 for None
    session,    \* the TradingSession each start made
    loop,       \* its loop_task
    attached,   \* sessions with bus handlers
    flusher,    \* sessions with a live flush task
    published,  \* events published to the handlers of each session
    buffer,     \* pending_events
    copies,     \* how often the history has each event
    dropped,    \* events a failed write lost
    confirmed,  \* history: sessions a start was answered with
    closed      \* history: sessions a stop was completed for

requests == <<asked, served, pc>>
runtime  == <<session, loop>>
events   == <<published, buffer, copies, dropped>>
watch    == <<attached, flusher>>
history  == <<confirmed, closed>>
vars == <<requests, owned, runtime, watch, events, history>>

Requests == 1..Asks
EventIds == 1..Events

TypeOK ==
    /\ asked \in 0..Asks
    /\ served \in 0..asked
    /\ pc \in {"free", "starting", "cancelling", "stopping", "flushing", "killing"}
    /\ owned \in 0..served
    /\ session \in [Requests -> {"none", "starting", "up", "stopped", "failed"}]
    /\ loop \in [Requests -> {"none", "running", "cancelled", "ended"}]
    /\ attached \subseteq Requests
    /\ flusher \subseteq Requests
    /\ published \in [Requests -> 0..Events]
    /\ buffer \in [Requests -> SUBSET EventIds]
    /\ copies \in [Requests -> [EventIds -> 0..1]]
    /\ dropped \in [Requests -> SUBSET EventIds]
    /\ confirmed \cup closed \subseteq Requests

Init ==
    /\ asked = 0
    /\ served = 0
    /\ pc = "free"
    /\ owned = 0
    /\ session = [r \in Requests |-> "none"]
    /\ loop = [r \in Requests |-> "none"]
    /\ attached = {}
    /\ flusher = {}
    /\ published = [r \in Requests |-> 0]
    /\ buffer = [r \in Requests |-> {}]
    /\ copies = [r \in Requests |-> [i \in EventIds |-> 0]]
    /\ dropped = [r \in Requests |-> {}]
    /\ confirmed = {}
    /\ closed = {}

Done(s) == loop[s] = "ended"

-----------------------------------------------------------------------------
(***************************************************************************)
(* _flush_pending_events takes the buffer away and appends event by event; *)
(* an append that raises loses the rest of what was taken.                 *)
(***************************************************************************)

Stored(s, S) ==
    [copies EXCEPT ![s] = [i \in EventIds |-> copies[s][i] + IF i \in S THEN 1 ELSE 0]]

\* Mutant: the buffer is emptied after the appends, and so not if one raises.
Take_AfterWrites(s, S) ==
    /\ buffer' = IF S = buffer[s] THEN [buffer EXCEPT ![s] = {}] ELSE buffer
    /\ dropped' = dropped

\* The buffer as the appends of S leave it, an append of another event having
\* raised if S is not all of it.
Take(s, S) ==
    /\ buffer' = [buffer EXCEPT ![s] = {}]
    /\ dropped' = [dropped EXCEPT ![s] = @ \cup (buffer[s] \ S)]

Write(s, S) ==
    /\ copies' = Stored(s, S)
    /\ Take(s, S)
    /\ UNCHANGED published

Flushes(s) == Write(s, buffer[s])

\* The append of event e raised.
FlushRaises(s) == \E e \in buffer[s] : Write(s, {i \in buffer[s] : i < e})

-----------------------------------------------------------------------------
(***************************************************************************)
(* Requests.                                                               *)
(***************************************************************************)

Ask ==
    /\ asked < Asks
    /\ asked' = asked + 1
    /\ UNCHANGED <<served, pc, owned, runtime, watch, events, history>>

\* The next waiter gets the lock and keeps it over an await ...
Acquires(await) ==
    /\ pc = "free"
    /\ served < asked
    /\ served' = served + 1
    /\ pc' = await
    /\ UNCHANGED asked

\* ... or is answered at once ...
AnsweredAtOnce == Acquires("free")

\* Mutant: the lock is not given back.
Answers_KeepsLock ==
    /\ pc' = "locked"
    /\ UNCHANGED <<asked, served>>

\* ... or gives the lock back with its answer.
Answers ==
    /\ pc' = "free"
    /\ UNCHANGED <<asked, served>>

-----------------------------------------------------------------------------
(***************************************************************************)
(* start().                                                                *)
(***************************************************************************)

\* Mutant: a session that is being started or stopped is not looked for.
MayStart_Always == TRUE

MayStart == owned # 0 => Done(owned)

StartBegins ==
    /\ MayStart
    /\ Acquires("starting")
    /\ session' = [session EXCEPT ![served + 1] = "starting"]
    /\ UNCHANGED <<owned, loop, watch, events, history>>

\* Running already, or a request, a configuration or a strategy that is refused.
StartRefused ==
    /\ AnsweredAtOnce
    /\ UNCHANGED <<owned, runtime, watch, events, history>>

\* session.start raises; what it opened stays open.
StartFails ==
    /\ pc = "starting"
    /\ session' = [session EXCEPT ![served] = "failed"]
    /\ Answers
    /\ UNCHANGED <<owned, loop, watch, events, history>>

\* session.start returns: the loop runs and the handlers are attached before
\* session_started is written, the runtime is kept after that, and then the
\* snapshot is written.
SessionUp(keeps, confirms) ==
    /\ pc = "starting"
    /\ session' = [session EXCEPT ![served] = "up"]
    /\ loop' = [loop EXCEPT ![served] = "running"]
    /\ attached' = attached \cup {served}
    /\ flusher' = flusher \cup {served}
    /\ owned' = IF keeps THEN served ELSE owned
    /\ confirmed' = IF confirms THEN confirmed \cup {served} ELSE confirmed
    /\ Answers
    /\ UNCHANGED <<closed, events>>

SessionStarts  == SessionUp(TRUE, TRUE)
SnapshotRaises == SessionUp(TRUE, FALSE)
StartedRaises  == SessionUp(FALSE, FALSE)

-----------------------------------------------------------------------------
(***************************************************************************)
(* stop().                                                                 *)
(***************************************************************************)

\* Without a runtime the answer is the empty snapshot.
StopsNothing ==
    /\ owned = 0
    /\ AnsweredAtOnce
    /\ UNCHANGED <<owned, runtime, watch, events, history>>

StopBegins ==
    /\ owned # 0
    /\ Acquires(IF Done(owned) THEN "stopping" ELSE "cancelling")
    /\ loop' = IF Done(owned) THEN loop ELSE [loop EXCEPT ![owned] = "cancelled"]
    /\ UNCHANGED <<owned, session, watch, events, history>>

\* The loop ends: cancelled, or with an exception of its own, which stop()
\* raises in turn.
LoopCancelled ==
    /\ pc = "cancelling"
    /\ loop' = [loop EXCEPT ![owned] = "ended"]
    /\ pc' = "stopping"
    /\ UNCHANGED <<asked, served, owned, session, watch, events, history>>

LoopRaises ==
    /\ pc = "cancelling"
    /\ loop' = [loop EXCEPT ![owned] = "ended"]
    /\ Answers
    /\ UNCHANGED <<owned, session, watch, events, history>>

\* Mutant: the handlers stay until the flush task is gone.
Detach_Not == attached' = attached

Detach == attached' = attached \ {owned}

\* session.stop returns; session_stopped, the buffer and the snapshot are
\* written, the handlers detached, and a live flush task cancelled.
SessionStops ==
    /\ pc = "stopping"
    /\ session' = [session EXCEPT ![owned] = "stopped"]
    /\ Flushes(owned)
    /\ Detach
    /\ \/ /\ owned \in flusher
          /\ pc' = "flushing"
          /\ UNCHANGED <<asked, served, owned, closed>>
       \/ /\ owned \notin flusher
          /\ closed' = closed \cup {owned}
          /\ owned' = 0
          /\ Answers
    /\ UNCHANGED <<loop, flusher, confirmed>>

\* One of the writes raises: the runtime stays, with its handlers.
SessionStopRaises ==
    /\ pc = "stopping"
    /\ session' = [session EXCEPT ![owned] = "stopped"]
    /\ UNCHANGED events \/ FlushRaises(owned) \/ Flushes(owned)
    /\ Answers
    /\ UNCHANGED <<owned, loop, watch, history>>

\* The cancelled flush task flushes once more and ends.
FlusherEnds ==
    /\ pc = "flushing"
    /\ Flushes(owned)
    /\ flusher' = flusher \ {owned}
    /\ closed' = closed \cup {owned}
    /\ owned' = 0
    /\ Answers
    /\ UNCHANGED <<runtime, attached, confirmed>>

-----------------------------------------------------------------------------
(***************************************************************************)
(* trigger_kill_switch().                                                  *)
(***************************************************************************)

KillRefused ==
    /\ owned = 0
    /\ AnsweredAtOnce
    /\ UNCHANGED <<owned, runtime, watch, events, history>>

KillBegins ==
    /\ owned # 0
    /\ Acquires("killing")
    /\ UNCHANGED <<owned, runtime, watch, events, history>>

\* The activation returns; its lifecycle event is written, or raises.
KillEnds ==
    /\ pc = "killing"
    /\ Answers
    /\ UNCHANGED <<owned, runtime, watch, events, history>>

-----------------------------------------------------------------------------
(***************************************************************************)
(* What runs beside the requests.                                          *)
(***************************************************************************)

\* A bar, an order or a push publishes an event.
Publish(s) ==
    /\ session[s] = "up"
    /\ s \in attached
    /\ published[s] < Events
    /\ published' = [published EXCEPT ![s] = @ + 1]
    /\ buffer' = [buffer EXCEPT ![s] = @ \cup {published[s] + 1}]
    /\ UNCHANGED <<copies, dropped, requests, owned, runtime, watch, history>>

\* The loop ends by itself: a paper replay that is over, or a crash.
LoopEnds(s) ==
    /\ loop[s] = "running"
    /\ loop' = [loop EXCEPT ![s] = "ended"]
    /\ UNCHANGED <<requests, owned, session, watch, events, history>>

\* The flush task; an append that raises is its end.
FlushTask(s) ==
    /\ s \in flusher
    /\ buffer[s] # {}
    /\ \/ Flushes(s) /\ UNCHANGED flusher
       \/ FlushRaises(s) /\ flusher' = flusher \ {s}
    /\ UNCHANGED <<requests, owned, runtime, attached, history>>

\* events() and snapshot() flush under the lock.
Poll ==
    /\ pc = "free"
    /\ owned # 0
    /\ buffer[owned] # {}
    /\ Flushes(owned) \/ FlushRaises(owned)
    /\ UNCHANGED <<requests, owned, runtime, watch, history>>

-----------------------------------------------------------------------------
Serve ==
    \/ StartBegins \/ StartRefused \/ StartFails
    \/ SessionStarts \/ SnapshotRaises \/ StartedRaises
    \/ StopsNothing \/ StopBegins \/ LoopCancelled \/ LoopRaises
    \/ SessionStops \/ SessionStopRaises \/ FlusherEnds
    \/ KillRefused \/ KillBegins \/ KillEnds

Beside(s) ==
    \/ Publish(s)
    \/ LoopEnds(s)
    \/ FlushTask(s)

Next ==
    \/ Ask
    \/ Serve
    \/ \E s \in Requests : Beside(s)
    \/ Poll

Spec == Init /\ [][Next]_vars

(***************************************************************************)
(* Fairness: what the holder of the lock awaits ends (a cancelled loop,    *)
(* gateway calls bounded by timeouts), and the lock then wakes its first   *)
(* waiter; the flush task runs again after its sleep.                      *)
(***************************************************************************)
FairSpec ==
    /\ Spec
    /\ WF_vars(Serve)
    /\ \A s \in Requests : WF_vars(FlushTask(s))

-----------------------------------------------------------------------------
(***************************************************************************)
(* Properties                                                              *)
(***************************************************************************)

\* However the flush task, the polls and a stop take turns, and wherever a
\* write fails, an event is in the history once, or waits in the buffer behind
\* all that are, or was lost to a failed write.
EventsPersistedOnce ==
    \A s \in Requests : \A i \in EventIds :
        /\ i \in buffer[s] \cup dropped[s] => copies[s][i] = 0
        /\ i <= published[s] => i \in buffer[s] \cup dropped[s] \/ copies[s][i] = 1
        /\ i \in buffer[s] => \A j \in i + 1 .. Events : copies[s][j] = 0

\* A session the operator was told is started stays the one his stop and kill
\* switch reach for as long as its loop runs, whatever other starts and stops
\* fail in between.
ConfirmedIsOwned == \A s \in confirmed : Done(s) \/ owned = s

\* A completed stop leaves nothing of the session behind: no loop, no handler,
\* no flush task, no event that is not written.
StopIsComplete ==
    \A s \in closed :
        /\ Done(s) /\ session[s] = "stopped"
        /\ s \notin attached \cup flusher
        /\ buffer[s] = {}

\* Every request is answered: none is starved or kept from the lock.
RequestsServed ==
    \A r \in Requests : r <= asked ~> r < served \/ (r = served /\ pc = "free")

(***************************************************************************)
(* A statement of the program's own text that its steps do not keep.       *)
(***************************************************************************)

\* StationSessionManager: "Own the single active web-managed trading session."
SingleSession == Cardinality({s \in Requests : loop[s] = "running"}) <= 1
=============================================================================
