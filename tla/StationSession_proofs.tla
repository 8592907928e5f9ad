----------------------- MODULE StationSession_proofs -----------------------
(***************************************************************************)
(* Proofs about StationSession, for any number of requests and events.     *)
(***************************************************************************)
EXTENDS StationSession, TLAPS

-----------------------------------------------------------------------------
(***************************************************************************)
(* The inductive invariant, in named parts.                                *)
(***************************************************************************)

\* A session that is being started is new, and takes the place of none that runs.
StartingIsNew ==
    pc = "starting" =>
        /\ served \in Requests
        /\ served \notin confirmed \cup closed
        /\ owned # 0 => Done(owned)

\* What a stop or a kill switch awaits is the runtime's.
HeldIsOwned ==
    /\ pc \in {"cancelling", "stopping", "flushing", "killing"} => owned # 0
    /\ pc \in {"stopping", "flushing"} => Done(owned)
    /\ pc = "flushing" => session[owned] = "stopped" /\ owned \notin attached

\* Sessions are numbered by requests that were served.
NumberedByRequest == confirmed \cup closed \subseteq 1..served

\* An event that was not published is nowhere.
NothingBeyondPublished ==
    \A s \in Requests : \A i \in EventIds :
        i > published[s] => i \notin buffer[s] \cup dropped[s] /\ copies[s][i] = 0

\* A lost event does not wait in the buffer.
LostIsGone == \A s \in Requests : buffer[s] \cap dropped[s] = {}

Sessions ==
    /\ StartingIsNew
    /\ HeldIsOwned
    /\ NumberedByRequest
    /\ ConfirmedIsOwned
    /\ StopIsComplete

Persistence ==
    /\ NothingBeyondPublished
    /\ LostIsGone
    /\ EventsPersistedOnce

IInv == TypeOK /\ Sessions /\ Persistence

\* The types of the events, and of all the rest.
EventTypes ==
    /\ published \in [Requests -> 0..Events]
    /\ buffer \in [Requests -> SUBSET EventIds]
    /\ copies \in [Requests -> [EventIds -> 0..1]]
    /\ dropped \in [Requests -> SUBSET EventIds]

SessionTypes ==
    /\ asked \in 0..Asks
    /\ served \in 0..asked
    /\ pc \in {"free", "starting", "cancelling", "stopping", "flushing", "killing"}
    /\ owned \in 0..served
    /\ session \in [Requests -> {"none", "starting", "up", "stopped", "failed"}]
    /\ loop \in [Requests -> {"none", "running", "cancelled", "ended"}]
    /\ attached \subseteq Requests
    /\ flusher \subseteq Requests
    /\ confirmed \cup closed \subseteq Requests

LEMMA TypesLemma == TypeOK <=> EventTypes /\ SessionTypes
BY DEF TypeOK, EventTypes, SessionTypes

-----------------------------------------------------------------------------
(***************************************************************************)
(* The events: a write, of all or of a prefix, and a publication.          *)
(***************************************************************************)

EInv == EventTypes /\ Persistence

\* An appended prefix of the buffer keeps the books of the events.
LEMMA WriteLemma ==
    ASSUME EInv, NEW s \in Requests, NEW S \in SUBSET buffer[s], Write(s, S)
    PROVE  EInv' /\ buffer' = [buffer EXCEPT ![s] = {}]
<1>1. /\ buffer' = [buffer EXCEPT ![s] = {}]
      /\ dropped' = [dropped EXCEPT ![s] = @ \cup (buffer[s] \ S)]
      /\ copies' = Stored(s, S)
      /\ published' = published
  BY DEF Write, Take
<1>2. /\ buffer[s] \subseteq EventIds /\ S \subseteq EventIds
      /\ \A i \in buffer[s] : copies[s][i] = 0
  BY DEF EInv, EventTypes, Persistence, EventsPersistedOnce
<1>3. \A i \in EventIds : copies'[s][i] = IF i \in S THEN 1 ELSE copies[s][i]
  <2> SUFFICES ASSUME NEW i \in EventIds
               PROVE  copies'[s][i] = IF i \in S THEN 1 ELSE copies[s][i]
    OBVIOUS
  <2>1. copies[s][i] \in 0..1
    BY DEF EInv, EventTypes
  <2>2. copies'[s][i] = copies[s][i] + IF i \in S THEN 1 ELSE 0
    BY <1>1 DEF EInv, EventTypes, Stored
  <2> QED BY <1>2, <2>1, <2>2
<1>4. EventTypes'
  <2>1. buffer' \in [Requests -> SUBSET EventIds] /\ dropped' \in [Requests -> SUBSET EventIds]
    BY <1>1, <1>2 DEF EInv, EventTypes
  <2>2. copies' \in [Requests -> [EventIds -> 0..1]]
    <3>1. \A i \in EventIds : copies[s][i] + (IF i \in S THEN 1 ELSE 0) \in 0..1
      BY <1>2 DEF EInv, EventTypes
    <3>2. [i \in EventIds |-> copies[s][i] + IF i \in S THEN 1 ELSE 0] \in [EventIds -> 0..1]
      BY <3>1
    <3> QED BY <1>1, <3>2 DEF EInv, EventTypes, Stored
  <2> QED BY <1>1, <2>1, <2>2 DEF EInv, EventTypes
<1>5. \A t \in Requests : t # s =>
        buffer'[t] = buffer[t] /\ dropped'[t] = dropped[t] /\ copies'[t] = copies[t]
  BY <1>1 DEF EInv, EventTypes, Stored
<1>6. buffer'[s] = {} /\ dropped'[s] = dropped[s] \cup (buffer[s] \ S)
  BY <1>1 DEF EInv, EventTypes
<1>7. ASSUME NEW t \in Requests, NEW i \in EventIds
      PROVE  /\ i > published'[t] =>
                  i \notin buffer'[t] \cup dropped'[t] /\ copies'[t][i] = 0
             /\ i \in buffer'[t] \cup dropped'[t] => copies'[t][i] = 0
             /\ i <= published'[t] =>
                  i \in buffer'[t] \cup dropped'[t] \/ copies'[t][i] = 1
             /\ i \in buffer'[t] => \A j \in i + 1 .. Events : copies'[t][j] = 0
  <2>1. /\ i > published[t] => i \notin buffer[t] \cup dropped[t] /\ copies[t][i] = 0
        /\ i \in buffer[t] \cup dropped[t] => copies[t][i] = 0
        /\ i <= published[t] => i \in buffer[t] \cup dropped[t] \/ copies[t][i] = 1
        /\ i \in buffer[t] => \A j \in i + 1 .. Events : copies[t][j] = 0
    BY DEF EInv, Persistence, NothingBeyondPublished, EventsPersistedOnce
  <2>2. CASE t # s
    BY <1>1, <1>5, <2>1, <2>2
  <2>3. CASE t = s
    <3>1. copies'[t][i] = IF i \in S THEN 1 ELSE copies[t][i]
      BY <1>3, <2>3
    <3>2. i \in dropped[t] => i \notin S
      BY <2>3 DEF EInv, Persistence, LostIsGone
    <3> QED BY <1>1, <1>6, <2>1, <2>3, <3>1, <3>2
  <2> QED BY <2>2, <2>3
<1>8. LostIsGone'
  BY <1>5, <1>6 DEF EInv, Persistence, LostIsGone
<1>9. NothingBeyondPublished' /\ EventsPersistedOnce'
  BY <1>7 DEF NothingBeyondPublished, EventsPersistedOnce
<1> QED BY <1>1, <1>4, <1>8, <1>9 DEF EInv, Persistence

\* So do a flush that succeeds and one that raises.
LEMMA FlushLemma ==
    ASSUME EInv, NEW s \in Requests, Flushes(s) \/ FlushRaises(s)
    PROVE  EInv' /\ buffer' = [buffer EXCEPT ![s] = {}]
<1>1. CASE Flushes(s)
  BY <1>1, WriteLemma DEF Flushes
<1>2. CASE FlushRaises(s)
  <2>1. PICK e \in buffer[s] : Write(s, {i \in buffer[s] : i < e})
    BY <1>2 DEF FlushRaises
  <2> QED BY <2>1, WriteLemma
<1> QED BY <1>1, <1>2

LEMMA NoEventLemma == EInv /\ UNCHANGED events => EInv'
BY DEF EInv, EventTypes, Persistence, NothingBeyondPublished, LostIsGone,
   EventsPersistedOnce, events

\* A published event is the latest of its session, and waits.
LEMMA PublishLemma ==
    ASSUME EInv, StationAssumption, NEW s \in Requests, Publish(s)
    PROVE  EInv'
<1> DEFINE e == published[s] + 1
<1>1. /\ published' = [published EXCEPT ![s] = e]
      /\ buffer' = [buffer EXCEPT ![s] = @ \cup {e}]
      /\ copies' = copies /\ dropped' = dropped
  BY DEF Publish
<1>2. /\ published[s] \in 0..Events /\ published[s] < Events
      /\ e \in EventIds /\ e > published[s]
  BY DEF EInv, EventTypes, Publish, StationAssumption, EventIds
<1>3. e \notin dropped[s] /\ copies[s][e] = 0
  BY <1>2 DEF EInv, Persistence, NothingBeyondPublished
<1>4. EventTypes'
  BY <1>1, <1>2 DEF EInv, EventTypes, EventIds
<1>5. \A t \in Requests :
        /\ t # s => buffer'[t] = buffer[t] /\ published'[t] = published[t]
        /\ t = s => buffer'[t] = buffer[s] \cup {e} /\ published'[t] = e
  BY <1>1 DEF EInv, EventTypes
<1>6. LostIsGone'
  BY <1>1, <1>3, <1>5 DEF EInv, Persistence, LostIsGone
<1>7. ASSUME NEW t \in Requests, NEW i \in EventIds
      PROVE  /\ i > published'[t] =>
                  i \notin buffer'[t] \cup dropped'[t] /\ copies'[t][i] = 0
             /\ i \in buffer'[t] \cup dropped'[t] => copies'[t][i] = 0
             /\ i <= published'[t] =>
                  i \in buffer'[t] \cup dropped'[t] \/ copies'[t][i] = 1
             /\ i \in buffer'[t] => \A j \in i + 1 .. Events : copies'[t][j] = 0
  <2>1. /\ i > published[t] => i \notin buffer[t] \cup dropped[t] /\ copies[t][i] = 0
        /\ i \in buffer[t] \cup dropped[t] => copies[t][i] = 0
        /\ i <= published[t] => i \in buffer[t] \cup dropped[t] \/ copies[t][i] = 1
        /\ i \in buffer[t] => \A j \in i + 1 .. Events : copies[t][j] = 0
    BY DEF EInv, Persistence, NothingBeyondPublished, EventsPersistedOnce
  <2>2. CASE t # s
    BY <1>1, <1>5, <2>1, <2>2
  <2>3. CASE t = s
    <3>1. buffer'[t] = buffer[s] \cup {e} /\ published'[t] = published[s] + 1
      BY <1>5, <2>3
    <3>2. i \in Int /\ published[s] \in Int
      BY <1>2 DEF EventIds
    <3>3. i = e \/ i > e \/ i <= published[s]
      BY <3>2
    <3>4. \A j \in e + 1 .. Events : copies[s][j] = 0
      <4> SUFFICES ASSUME NEW j \in e + 1 .. Events PROVE copies[s][j] = 0
        OBVIOUS
      <4>1. j \in EventIds /\ j > published[s]
        BY <3>2, StationAssumption, <1>2 DEF EventIds, StationAssumption
      <4> QED BY <4>1 DEF EInv, Persistence, NothingBeyondPublished
    <3>5. CASE i = e
      BY <1>1, <1>3, <2>3, <3>1, <3>2, <3>4, <3>5
    <3>6. CASE i # e
      BY <1>1, <2>1, <2>3, <3>1, <3>2, <3>3, <3>6
    <3> QED BY <3>5, <3>6
  <2> QED BY <2>2, <2>3
<1>8. NothingBeyondPublished' /\ EventsPersistedOnce'
  BY <1>7 DEF NothingBeyondPublished, EventsPersistedOnce
<1> QED BY <1>4, <1>6, <1>8 DEF EInv, Persistence

-----------------------------------------------------------------------------
(***************************************************************************)
(* The requests and the sessions.                                          *)
(***************************************************************************)

SInv == SessionTypes /\ Sessions

\* What is owned, or is being started, is the number of a request.
LEMMA NumbersLemma ==
    ASSUME SInv, StationAssumption
    PROVE  /\ asked \in Nat /\ served \in Nat /\ served <= asked /\ asked <= Asks
           /\ owned \in Nat /\ owned <= served
           /\ owned # 0 => owned \in Requests
           /\ served < asked => served + 1 \in Requests
           /\ served + 1 \notin confirmed \cup closed
           /\ 0..served \subseteq 0..(served + 1)
           /\ 1..served \subseteq 1..(served + 1)
BY DEF SInv, SessionTypes, Sessions, NumberedByRequest, StationAssumption, Requests

\* Nothing is left in the buffer of a closed session if buffers only empty.
LEMMA BufferLemma ==
    ASSUME EInv, SInv, NEW s \in Requests,
           buffer' = buffer \/ buffer' = [buffer EXCEPT ![s] = {}]
    PROVE  \A t \in closed : buffer'[t] = {}
BY DEF EInv, EventTypes, SInv, SessionTypes, Sessions, StopIsComplete

\* Asking touches no session.
LEMMA AskLemma ==
    ASSUME SInv, StationAssumption, Ask
    PROVE  SInv'
<1>1. SessionTypes'
  BY NumbersLemma DEF SInv, SessionTypes, Ask, requests, runtime, watch, events, history
<1>2. Sessions'
  BY NumbersLemma DEF SInv, SessionTypes, Sessions, StartingIsNew, HeldIsOwned,
     NumberedByRequest, ConfirmedIsOwned, StopIsComplete, Done,
     Ask, requests, runtime, watch, events, history
<1> QED BY <1>1, <1>2 DEF SInv

\* Nor does what is answered at once.
LEMMA RefusedLemma ==
    ASSUME SInv, StationAssumption, StartRefused \/ StopsNothing \/ KillRefused
    PROVE  SInv'
<1>1. SessionTypes'
  BY NumbersLemma DEF SInv, SessionTypes, StartRefused, StopsNothing, KillRefused, AnsweredAtOnce, Acquires, requests, runtime, watch, events, history
<1>2. Sessions'
  BY NumbersLemma DEF SInv, SessionTypes, Sessions, StartingIsNew, HeldIsOwned,
     NumberedByRequest, ConfirmedIsOwned, StopIsComplete, Done,
     StartRefused, StopsNothing, KillRefused, AnsweredAtOnce, Acquires, requests, runtime, watch, events, history
<1> QED BY <1>1, <1>2 DEF SInv

\* A start takes a number of its own, and waits for a runtime that is done.
LEMMA StartLemma ==
    ASSUME SInv, StationAssumption, StartBegins
    PROVE  SInv'
<1>1. SessionTypes'
  BY NumbersLemma DEF SInv, SessionTypes, StartBegins, MayStart, Acquires, requests, runtime, watch, events, history
<1>2. Sessions'
  BY NumbersLemma DEF SInv, SessionTypes, Sessions, StartingIsNew, HeldIsOwned,
     NumberedByRequest, ConfirmedIsOwned, StopIsComplete, Done,
     StartBegins, MayStart, Acquires, requests, runtime, watch, events, history
<1> QED BY <1>1, <1>2 DEF SInv

\* A start that fails leaves the sessions that were confirmed and closed.
LEMMA StartFailsLemma ==
    ASSUME SInv, StationAssumption, StartFails
    PROVE  SInv'
<1>1. SessionTypes'
  BY NumbersLemma DEF SInv, SessionTypes, StartFails, Answers, requests, runtime, watch, events, history
<1>2. Sessions'
  BY NumbersLemma DEF SInv, SessionTypes, Sessions, StartingIsNew, HeldIsOwned,
     NumberedByRequest, ConfirmedIsOwned, StopIsComplete, Done,
     StartFails, Answers, requests, runtime, watch, events, history
<1> QED BY <1>1, <1>2 DEF SInv

\* A session that comes up replaces none that runs, even if it is not kept.
LEMMA SessionUpLemma ==
    ASSUME SInv, StationAssumption, NEW keeps \in BOOLEAN, NEW confirms \in BOOLEAN,
           confirms => keeps, SessionUp(keeps, confirms)
    PROVE  SInv'
<1>1. /\ served \in Requests /\ served \notin confirmed \cup closed
      /\ owned # 0 => Done(owned)
  BY DEF SInv, Sessions, StartingIsNew, SessionUp
<1>2. /\ served \in Nat /\ served \in 0..served /\ served \in 1..served
  BY <1>1, NumbersLemma DEF Requests
<1>3. /\ session' = [session EXCEPT ![served] = "up"]
      /\ loop' = [loop EXCEPT ![served] = "running"]
      /\ attached' = attached \cup {served} /\ flusher' = flusher \cup {served}
      /\ owned' = IF keeps THEN served ELSE owned
      /\ confirmed' = IF confirms THEN confirmed \cup {served} ELSE confirmed
      /\ pc' = "free"
      /\ UNCHANGED <<asked, served, closed, published, buffer, copies, dropped>>
  BY DEF SessionUp, Answers, events
<1>4. SessionTypes'
  <2>1. owned' \in 0..served
    BY <1>2, <1>3 DEF SInv, SessionTypes
  <2>2. (confirmed \cup closed)' \subseteq Requests
    BY <1>1, <1>3 DEF SInv, SessionTypes
  <2> QED BY <1>1, <1>3, <2>1, <2>2 DEF SInv, SessionTypes
<1>5. StartingIsNew' /\ HeldIsOwned'
  BY <1>3 DEF StartingIsNew, HeldIsOwned
<1>6. NumberedByRequest'
  BY <1>2, <1>3 DEF SInv, Sessions, NumberedByRequest
<1>7. \A s \in Requests : s # served => loop'[s] = loop[s] /\ session'[s] = session[s]
  BY <1>3 DEF SInv, SessionTypes
<1>8. ConfirmedIsOwned'
  <2> SUFFICES ASSUME NEW s \in confirmed' PROVE Done(s)' \/ owned' = s
    BY DEF ConfirmedIsOwned
  <2>1. CASE s = served
    BY <1>1, <1>3, <2>1
  <2>2. CASE s # served
    <3>1. s \in confirmed /\ s \in Requests
      BY <1>3, <2>2 DEF SInv, SessionTypes
    <3>2. Done(s) \/ owned = s
      BY <3>1 DEF SInv, Sessions, ConfirmedIsOwned
    <3>3. s # 0
      BY <3>1 DEF Requests
    <3> QED BY <1>1, <1>7, <2>2, <3>1, <3>2, <3>3 DEF Done
  <2> QED BY <2>1, <2>2
<1>9. StopIsComplete'
  <2> SUFFICES ASSUME NEW s \in closed
               PROVE  /\ Done(s)' /\ session'[s] = "stopped"
                      /\ s \notin attached' \cup flusher'
                      /\ buffer'[s] = {}
    BY <1>3 DEF StopIsComplete
  <2>1. s # served /\ s \in Requests
    BY <1>1 DEF SInv, SessionTypes
  <2> QED BY <1>3, <1>7, <2>1 DEF SInv, Sessions, StopIsComplete, Done
<1> QED BY <1>4, <1>5, <1>6, <1>8, <1>9 DEF SInv, Sessions

\* The kill switch holds the lock, and no session changes hands.
LEMMA KillLemma ==
    ASSUME SInv, StationAssumption, KillBegins \/ KillEnds
    PROVE  SInv'
<1>1. SessionTypes'
  BY NumbersLemma DEF SInv, SessionTypes, KillBegins, KillEnds, Acquires, Answers, requests, runtime, watch, events, history
<1>2. Sessions'
  BY NumbersLemma DEF SInv, SessionTypes, Sessions, StartingIsNew, HeldIsOwned,
     NumberedByRequest, ConfirmedIsOwned, StopIsComplete, Done,
     KillBegins, KillEnds, Acquires, Answers, requests, runtime, watch, events, history
<1> QED BY <1>1, <1>2 DEF SInv

\* A stop waits for the loop, unless it is done.
LEMMA StopBeginsLemma ==
    ASSUME SInv, StationAssumption, StopBegins
    PROVE  SInv'
<1>1. SessionTypes'
  BY NumbersLemma DEF SInv, SessionTypes, StopBegins, Acquires, requests, runtime, watch, events, history
<1>2. Sessions'
  BY NumbersLemma DEF SInv, SessionTypes, Sessions, StartingIsNew, HeldIsOwned,
     NumberedByRequest, ConfirmedIsOwned, StopIsComplete, Done,
     StopBegins, Acquires, requests, runtime, watch, events, history
<1> QED BY <1>1, <1>2 DEF SInv

\* A loop ends.
LEMMA LoopLemma ==
    ASSUME SInv, StationAssumption, LoopCancelled \/ LoopRaises
    PROVE  SInv'
<1>1. SessionTypes'
  BY NumbersLemma DEF SInv, SessionTypes, LoopCancelled, LoopRaises, Answers, requests, runtime, watch, events, history
<1>2. Sessions'
  BY NumbersLemma DEF SInv, SessionTypes, Sessions, StartingIsNew, HeldIsOwned,
     NumberedByRequest, ConfirmedIsOwned, StopIsComplete, Done,
     LoopCancelled, LoopRaises, Answers, requests, runtime, watch, events, history
<1> QED BY <1>1, <1>2 DEF SInv

\* A stop that completes, or one of whose writes raises, empties the buffer or
\* leaves it, and the last of its steps gives the lock and the runtime back.
LEMMA SessionStopLemma ==
    ASSUME SInv, EInv, StationAssumption,
           SessionStops \/ SessionStopRaises \/ FlusherEnds
    PROVE  SInv' /\ EInv'
<1>0. owned \in Requests /\ owned # 0 /\ Done(owned)
  BY NumbersLemma DEF SInv, Sessions, HeldIsOwned, SessionStops, SessionStopRaises, FlusherEnds
<1>1. CASE SessionStops
  <2>1. EInv' /\ buffer' = [buffer EXCEPT ![owned] = {}]
    BY <1>0, <1>1, FlushLemma DEF SessionStops
  <2>2. /\ \A t \in closed : buffer'[t] = {}
        /\ buffer'[owned] = {}
    BY <1>0, <2>1, BufferLemma DEF EInv, EventTypes
  <2>3. SessionTypes'
    BY <1>0, <1>1, NumbersLemma DEF SInv, SessionTypes, SessionStops, Detach, Answers
  <2>4. Sessions'
    BY <1>0, <1>1, <2>2, NumbersLemma DEF SInv, SessionTypes, Sessions, StartingIsNew,
       HeldIsOwned, NumberedByRequest, ConfirmedIsOwned, StopIsComplete, Done,
       SessionStops, Detach, Answers
  <2> QED BY <2>1, <2>3, <2>4 DEF SInv
<1>2. CASE SessionStopRaises
  <2>1. EInv' /\ (buffer' = buffer \/ buffer' = [buffer EXCEPT ![owned] = {}])
    BY <1>0, <1>2, FlushLemma, NoEventLemma DEF SessionStopRaises, events
  <2>2. \A t \in closed : buffer'[t] = {}
    BY <1>0, <2>1, BufferLemma
  <2>3. SessionTypes'
    BY <1>0, <1>2 DEF SInv, SessionTypes, SessionStopRaises, Answers, watch, history
  <2>4. Sessions'
    BY <1>0, <1>2, <2>2 DEF SInv, SessionTypes, Sessions, StartingIsNew,
       HeldIsOwned, NumberedByRequest, ConfirmedIsOwned, StopIsComplete, Done,
       SessionStopRaises, Answers, watch, history
  <2> QED BY <2>1, <2>3, <2>4 DEF SInv
<1>3. CASE FlusherEnds
  <2>1. EInv' /\ buffer' = [buffer EXCEPT ![owned] = {}]
    BY <1>0, <1>3, FlushLemma DEF FlusherEnds
  <2>2. /\ \A t \in closed : buffer'[t] = {}
        /\ buffer'[owned] = {}
    BY <1>0, <2>1, BufferLemma DEF EInv, EventTypes
  <2>3. SessionTypes'
    BY <1>0, <1>3, NumbersLemma DEF SInv, SessionTypes, FlusherEnds, Answers, runtime
  <2>4. Sessions'
    BY <1>0, <1>3, <2>2, NumbersLemma DEF SInv, SessionTypes, Sessions, StartingIsNew,
       HeldIsOwned, NumberedByRequest, ConfirmedIsOwned, StopIsComplete, Done,
       FlusherEnds, Answers, runtime
  <2> QED BY <2>1, <2>3, <2>4 DEF SInv
<1> QED BY <1>1, <1>2, <1>3

\* What runs beside the requests moves no session from one owner to another.
LEMMA BesideLemma ==
    ASSUME SInv, EInv, StationAssumption, NEW s \in Requests, Beside(s)
    PROVE  SInv' /\ EInv'
<1>1. CASE Publish(s)
  <2>1. EInv'
    BY <1>1, PublishLemma
  <2>2. \A t \in closed : buffer'[t] = {}
    <3>1. \A t \in closed : t # s /\ t \in Requests /\ buffer[t] = {}
      BY <1>1 DEF SInv, SessionTypes, Sessions, StopIsComplete, Publish
    <3> QED BY <1>1, <3>1 DEF EInv, EventTypes, Publish
  <2>3. UNCHANGED <<requests, owned, runtime, watch, history>>
    BY <1>1 DEF Publish
  <2>4. SessionTypes'
    BY <2>3 DEF SInv, SessionTypes, requests, runtime, watch, history
  <2>5. Sessions'
    BY <2>2, <2>3 DEF SInv, Sessions, StartingIsNew, HeldIsOwned, NumberedByRequest,
       ConfirmedIsOwned, StopIsComplete, Done, requests, runtime, watch, history
  <2> QED BY <2>1, <2>4, <2>5 DEF SInv
<1>2. CASE LoopEnds(s)
  <2>1. EInv'
    BY <1>2, NoEventLemma DEF LoopEnds
  <2>2. SessionTypes'
    BY <1>2 DEF SInv, SessionTypes, LoopEnds, requests, watch, history
  <2>3. \A t \in Requests : Done(t) => Done(t)'
    BY <1>2 DEF SInv, SessionTypes, LoopEnds, Done
  <2>4. Sessions'
    BY <1>2, <2>3, NumbersLemma DEF SInv, SessionTypes, Sessions, StartingIsNew, HeldIsOwned,
       NumberedByRequest, ConfirmedIsOwned, StopIsComplete,
       LoopEnds, requests, watch, events, history
  <2> QED BY <2>1, <2>2, <2>4 DEF SInv
<1>3. CASE FlushTask(s)
  <2>1. EInv' /\ buffer' = [buffer EXCEPT ![s] = {}]
    BY <1>3, FlushLemma DEF FlushTask
  <2>2. \A t \in closed : buffer'[t] = {}
    BY <2>1, BufferLemma
  <2>3. /\ UNCHANGED <<requests, owned, runtime, attached, history>>
        /\ flusher' \subseteq flusher
    BY <1>3 DEF FlushTask
  <2>4. SessionTypes'
    BY <2>3 DEF SInv, SessionTypes, requests, runtime, history
  <2>5. Sessions'
    BY <2>2, <2>3 DEF SInv, Sessions, StartingIsNew, HeldIsOwned, NumberedByRequest,
       ConfirmedIsOwned, StopIsComplete, Done, requests, runtime, history
  <2> QED BY <2>1, <2>4, <2>5 DEF SInv
<1> QED BY <1>1, <1>2, <1>3 DEF Beside

LEMMA PollLemma ==
    ASSUME SInv, EInv, StationAssumption, Poll
    PROVE  SInv' /\ EInv'
<1>1. EInv' /\ buffer' = [buffer EXCEPT ![owned] = {}]
  BY NumbersLemma, FlushLemma DEF Poll
<1>2. \A t \in closed : buffer'[t] = {}
  BY <1>1, NumbersLemma, BufferLemma DEF Poll
<1>3. UNCHANGED <<requests, owned, runtime, watch, history>>
  BY DEF Poll
<1>4. SessionTypes'
  BY <1>3 DEF SInv, SessionTypes, requests, runtime, watch, history
<1>5. Sessions'
  BY <1>2, <1>3 DEF SInv, Sessions, StartingIsNew, HeldIsOwned, NumberedByRequest,
     ConfirmedIsOwned, StopIsComplete, Done, requests, runtime, watch, history
<1> QED BY <1>1, <1>4, <1>5 DEF SInv

-----------------------------------------------------------------------------
(***************************************************************************)
(* Theorems.                                                               *)
(***************************************************************************)

\* Every step keeps the sessions and the events in order.
LEMMA StepLemma ==
    ASSUME SInv, EInv, StationAssumption, [Next]_vars
    PROVE  SInv' /\ EInv'
<1>1. CASE Ask
  BY <1>1, AskLemma, NoEventLemma DEF Ask
<1>2. CASE StartRefused \/ StopsNothing \/ KillRefused
  BY <1>2, RefusedLemma, NoEventLemma DEF StartRefused, StopsNothing, KillRefused
<1>3. CASE StartBegins
  BY <1>3, StartLemma, NoEventLemma DEF StartBegins
<1>4. CASE StartFails
  BY <1>4, StartFailsLemma, NoEventLemma DEF StartFails
<1>5. CASE SessionStarts \/ SnapshotRaises \/ StartedRaises
  <2>1. PICK keeps \in BOOLEAN, confirms \in BOOLEAN :
           (confirms => keeps) /\ SessionUp(keeps, confirms)
    BY <1>5 DEF SessionStarts, SnapshotRaises, StartedRaises
  <2> QED BY <2>1, SessionUpLemma, NoEventLemma DEF SessionUp
<1>6. CASE StopBegins
  BY <1>6, StopBeginsLemma, NoEventLemma DEF StopBegins
<1>7. CASE LoopCancelled \/ LoopRaises
  BY <1>7, LoopLemma, NoEventLemma DEF LoopCancelled, LoopRaises
<1>8. CASE SessionStops \/ SessionStopRaises \/ FlusherEnds
  BY <1>8, SessionStopLemma
<1>9. CASE KillBegins \/ KillEnds
  BY <1>9, KillLemma, NoEventLemma DEF KillBegins, KillEnds
<1>10. CASE \E s \in Requests : Beside(s)
  BY <1>10, BesideLemma
<1>11. CASE Poll
  BY <1>11, PollLemma
<1>12. CASE UNCHANGED vars
  <2>1. EInv'
    BY <1>12, NoEventLemma DEF vars
  <2>2. SessionTypes'
    BY <1>12 DEF SInv, SessionTypes, vars, requests, runtime, watch, history
  <2>3. Sessions'
    BY <1>12 DEF SInv, Sessions, StartingIsNew, HeldIsOwned, NumberedByRequest,
       ConfirmedIsOwned, StopIsComplete, Done, vars, requests, runtime, watch, events, history
  <2> QED BY <2>1, <2>2, <2>3 DEF SInv
<1> QED
  BY <1>1, <1>2, <1>3, <1>4, <1>5, <1>6, <1>7, <1>8, <1>9, <1>10, <1>11, <1>12
     DEF Next, Serve

\* The inductive invariant of the station: owner, loops, handlers and history
\* agree in every state the requests, crashes and failed writes can lead to.
THEOREM InductiveInvariant == Spec => []IInv
<1>1. Init => IInv
  <2> SUFFICES ASSUME Init PROVE IInv
    OBVIOUS
  <2>1. TypeOK
    BY StationAssumption DEF Init, TypeOK, StationAssumption
  <2>2. Sessions
    BY DEF Init, Sessions, StartingIsNew, HeldIsOwned, NumberedByRequest, ConfirmedIsOwned,
       StopIsComplete
  <2>3. Persistence
    BY DEF Init, Persistence, NothingBeyondPublished, LostIsGone, EventsPersistedOnce, EventIds
  <2> QED BY <2>1, <2>2, <2>3 DEF IInv
<1>2. IInv /\ [Next]_vars => IInv'
  <2> SUFFICES ASSUME IInv, [Next]_vars PROVE IInv'
    OBVIOUS
  <2>1. SInv /\ EInv
    BY TypesLemma DEF IInv, SInv, EInv
  <2>2. SInv' /\ EInv'
    BY <2>1, StepLemma, StationAssumption
  <2>3. TypeOK'
    BY <2>2 DEF SInv, EInv, TypeOK, EventTypes, SessionTypes
  <2> QED BY <2>2, <2>3 DEF SInv, EInv, IInv
<1> QED BY <1>1, <1>2, PTL DEF Spec

\* Every variable keeps its type; no event is ever written a second time.
THEOREM TypeCorrect == Spec => []TypeOK
<1>1. IInv => TypeOK
  BY DEF IInv
<1> QED BY <1>1, InductiveInvariant, PTL

\* However flushes, polls and stops take turns and fail, no event is in the
\* history twice or out of order, and none vanishes without a failed write.
THEOREM PersistedOnce == Spec => []EventsPersistedOnce
<1>1. IInv => EventsPersistedOnce
  BY DEF IInv, Persistence
<1> QED BY <1>1, InductiveInvariant, PTL

\* The operator's stop and kill switch reach a confirmed session while it runs.
THEOREM ConfirmedOwned == Spec => []ConfirmedIsOwned
<1>1. IInv => ConfirmedIsOwned
  BY DEF IInv, Sessions
<1> QED BY <1>1, InductiveInvariant, PTL

\* A completed stop leaves no loop, handler, flush task or unwritten event.
THEOREM StopComplete == Spec => []StopIsComplete
<1>1. IInv => StopIsComplete
  BY DEF IInv, Sessions
<1> QED BY <1>1, InductiveInvariant, PTL
=============================================================================
