------------------------------ MODULE BarFeed -------------------------------
(***************************************************************************)
(* The data loop of a session.  Live, it polls the symbols in turn through *)
(* one fetcher, page after page, and hands every candle newer than the     *)
(* last one of its symbol to on_bar(); a request or an on_bar() that       *)
(* raises ends the turn of that symbol only.  In paper mode it replays the *)
(* bars stored for the first symbol.  on_bar() keeps the equity history    *)
(* that the weekly and the daily loss limits are measured against.         *)
(*                                                                         *)
(* Symbols are numbered in the order of the rotation, candles in that of   *)
(* their timestamps; the newest candle of the exchange is still forming.   *)
(* The equity at a bar is named by the candle.                             *)
(***************************************************************************)
EXTENDS Integers, Sequences, FiniteSets

CONSTANTS
    Symbols,     \* how many symbols the session trades
    Page,        \* candles in one response
    LastCandle,  \* bound: candles that ever open
    Day,         \* candles of a calendar day
    Week,        \* candles of the weekly window
    HistoryMax   \* _equity_history_maxlen

ASSUME FeedAssumption ==
    /\ Symbols \in Nat \ {0}
    /\ Page \in Nat \ {0}
    /\ LastCandle \in Nat \ {0}
    /\ Day \in Nat \ {0}
    /\ Week \in Nat
    /\ HistoryMax \in Nat \ {0}

VARIABLES
    replay,     \* the session replays stored bars
    now,        \* the newest candle of the exchange, or of the store
    state,      \* running, halted by the kill switch, or stopped
    pc,         \* where the loop is
    turn,       \* the symbol whose turn it is
    since,      \* where the next page starts, 0 for the newest candles
    answer,     \* the candles of this turn's response
    rows,       \* of them those still to be handed on
    completed,  \* history: of them those whose on_bar() has completed
    last,       \* last_timestamps
    equity,     \* _equity_history, the timestamps
    base,       \* _weekly_base_idx, counted from 1
    day,        \* _daily_baseline_day, -1 for None
    anchored,   \* history: days a baseline was set for
    inOrder     \* history: no bar was older than the one before it

fetch  == <<turn, since, answer, rows, completed>>
losses == <<equity, base, day, anchored, inOrder>>
vars   == <<replay, now, state, pc, fetch, last, losses>>

Candles == 1..LastCandle
DayOf(c) == c \div Day
Oldest(S) == CHOOSE c \in S : \A d \in S : c <= d
Newest(S) == CHOOSE c \in S : \A d \in S : c >= d

TypeOK ==
    /\ replay \in BOOLEAN
    /\ now \in Candles
    /\ state \in {"running", "halted", "stopped"}
    /\ pc \in {"connect", "fetch", "rows", "bar", "rest", "ended"}
    /\ turn \in 1..Symbols
    /\ since \in 0..now
    /\ answer \subseteq 1..now
    /\ rows \subseteq answer
    /\ completed \subseteq answer
    /\ last \in [1..Symbols -> 0..now]
    /\ equity \in Seq(1..now)
    /\ Len(equity) <= HistoryMax
    /\ base \in 1..(Len(equity) + 1)
    /\ day \in {-1} \cup {DayOf(c) : c \in 1..now}
    /\ anchored \subseteq {DayOf(c) : c \in 1..now}
    /\ inOrder \in BOOLEAN

Init ==
    /\ replay \in BOOLEAN
    /\ now = 1
    /\ state = "running"
    /\ pc = IF replay THEN "fetch" ELSE "connect"
    /\ turn = 1
    /\ since = 0
    /\ answer = {}
    /\ rows = {}
    /\ completed = {}
    /\ last = [s \in 1..Symbols |-> 0]
    /\ equity = <<>>
    /\ base = 1
    /\ day = -1
    /\ anchored = {}
    /\ inOrder = TRUE

\* A candle opens at the exchange, or is downloaded into the store.
Opens ==
    /\ now < LastCandle
    /\ now' = now + 1
    /\ UNCHANGED <<replay, state, pc, fetch, last, losses>>

(***************************************************************************)
(* The rotation.  A paper session replays its first symbol only.           *)
(***************************************************************************)
Rotation == IF replay THEN 1 ELSE Symbols

\* Mutant: a failure ends the round instead of the turn.
NextTurn_EndsRound ==
    /\ turn' = 1
    /\ pc' = "rest"
    /\ since' = 0
    /\ answer' = {}
    /\ rows' = {}
    /\ completed' = {}

\* The end of a turn: the next symbol, or the rest of the round.
NextTurn ==
    /\ turn' = IF turn < Rotation THEN turn + 1 ELSE 1
    /\ pc' = IF turn < Rotation THEN "fetch" ELSE "rest"
    /\ since' = 0
    /\ answer' = {}
    /\ rows' = {}
    /\ completed' = {}

Connects ==
    /\ pc = "connect"
    /\ pc' = "fetch"
    /\ UNCHANGED <<replay, now, state, fetch, last, losses>>

\* The exchange answers with its newest candles, or those after since.
PageFrom(n) ==
    {c \in 1..now : IF n = 0 THEN c > now - Page ELSE n < c /\ c <= n + Page}

\* Candles with a missing or infinite field are rejected: got is what is left.
FetchPage(got) ==
    /\ pc = "fetch" /\ ~replay
    /\ got \subseteq PageFrom(since)
    /\ answer' = answer \cup got
    /\ IF Cardinality(got) = Page
         THEN /\ since' = Newest(got)
              /\ UNCHANGED <<pc, rows>>
         ELSE /\ since' = 0
              /\ pc' = "rows"
              /\ rows' = {c \in answer' : c > last[turn]}
    /\ UNCHANGED <<replay, now, state, turn, completed, last, losses>>

\* Paper: what the store has after the last bar that was replayed.
Query ==
    /\ pc = "fetch" /\ replay
    /\ answer' = {c \in 1..now : c > last[turn]}
    /\ rows' = answer'
    /\ pc' = "rows"
    /\ UNCHANGED <<replay, now, state, turn, since, completed, last, losses>>

FetchFails ==
    /\ pc = "fetch"
    /\ NextTurn
    /\ UNCHANGED <<replay, now, state, last, losses>>

(***************************************************************************)
(* on_bar().  What it keeps of the equity precedes its first await.        *)
(***************************************************************************)
\* Mutant: the cap is tested before the new entry is appended.
Recorded_OneMore(c) ==
    IF Len(equity) <= HistoryMax THEN Append(equity, c) ELSE Tail(Append(equity, c))

\* Append, and drop the oldest entry above the cap.
Recorded(c) ==
    IF Len(equity) < HistoryMax THEN Append(equity, c) ELSE Tail(Append(equity, c))

\* Mutant: the eviction leaves the pointer where it is.
Shifted_Not == base

\* The pointer follows the entry it names when the oldest one is dropped.
Shifted ==
    IF Len(equity) >= HistoryMax /\ base > 1 THEN base - 1 ELSE base

\* _weekly_base_equity: the pointer moves on to the first entry of the window.
WeeklyBase(h, from, c) ==
    CHOOSE i \in from..(Len(h) + 1) :
        /\ i <= Len(h) => h[i] >= c - Week
        /\ \A k \in from..(i - 1) : h[k] < c - Week

\* The first bar of a day anchors the baseline of the daily loss limit.
Records(c) ==
    /\ equity' = Recorded(c)
    /\ base' = WeeklyBase(equity', Shifted, c)
    /\ day' = DayOf(c)
    /\ anchored' = anchored \cup {DayOf(c)}
    /\ inOrder' = (inOrder /\ (equity = <<>> \/ c >= equity[Len(equity)]))

HandedOn(c) ==
    /\ last' = [last EXCEPT ![turn] = c]
    /\ rows' = rows \ {c}

BarBegins ==
    /\ pc = "rows" /\ rows # {} /\ state = "running"
    /\ Records(Oldest(rows))
    /\ pc' = "bar"
    /\ UNCHANGED <<replay, now, state, fetch, last>>

\* The drawdown limit is broken: the kill switch is activated, the session
\* stops, and on_bar() returns before it asks any strategy.
BarBreaksDrawdown ==
    /\ pc = "rows" /\ rows # {} /\ state = "running"
    /\ Records(Oldest(rows))
    /\ HandedOn(Oldest(rows))
    /\ completed' = completed \cup {Oldest(rows)}
    /\ state' = "stopped"
    /\ UNCHANGED <<replay, now, pc, turn, since, answer>>

\* Strategies and orders are done with.
BarEnds ==
    /\ pc = "bar"
    /\ HandedOn(Oldest(rows))
    /\ completed' = completed \cup {Oldest(rows)}
    /\ pc' = "rows"
    /\ UNCHANGED <<replay, now, state, turn, since, answer, losses>>

\* Mutant: last_timestamps is written before on_bar() is awaited.
BarRaises_AfterMark ==
    /\ pc = "bar"
    /\ last' = [last EXCEPT ![turn] = Oldest(rows)]
    /\ NextTurn
    /\ UNCHANGED <<replay, now, state, losses>>

\* A strategy or an order raises: the rest of the response is dropped.
BarRaises ==
    /\ pc = "bar"
    /\ NextTurn
    /\ UNCHANGED <<replay, now, state, last, losses>>

\* on_bar() of a stopped or halted session returns at once.
BarIgnored ==
    /\ pc = "rows" /\ rows # {} /\ state # "running"
    /\ HandedOn(Oldest(rows))
    /\ UNCHANGED <<replay, now, state, pc, turn, since, answer, completed, losses>>

RowsEnd ==
    /\ pc = "rows" /\ rows = {}
    /\ NextTurn
    /\ UNCHANGED <<replay, now, state, last, losses>>

\* Health, maintenance, order timeouts and the pause before the next round.
Rests ==
    /\ pc = "rest"
    /\ pc' = IF state = "stopped" THEN "ended" ELSE "fetch"
    /\ UNCHANGED <<replay, now, state, fetch, last, losses>>

(***************************************************************************)
(* From outside, while the loop awaits something.                          *)
(***************************************************************************)
Suspended == pc \in {"connect", "fetch", "bar", "rest"}

\* A risk event or the operator activates the kill switch.
Halts ==
    /\ Suspended /\ state = "running"
    /\ state' = "halted"
    /\ UNCHANGED <<replay, now, pc, fetch, last, losses>>

\* The session is stopped and its loop cancelled.
Stops ==
    /\ Suspended
    /\ state' = "stopped"
    /\ pc' = "ended"
    /\ UNCHANGED <<replay, now, fetch, last, losses>>

Loop ==
    \/ Connects
    \/ \E got \in SUBSET PageFrom(since) : FetchPage(got)
    \/ Query
    \/ FetchFails
    \/ BarBegins
    \/ BarBreaksDrawdown
    \/ BarEnds
    \/ BarRaises
    \/ BarIgnored
    \/ RowsEnd
    \/ Rests

Next == Loop \/ Opens \/ Halts \/ Stops

Spec == Init /\ [][Next]_vars

(***************************************************************************)
(* Fairness.  The loop goes on, as every call is bounded by CALL_TIMEOUT,  *)
(* and connects in the end.  Only the last symbol of the rotation is       *)
(* assumed to be answered again and again, and its bars to be processed    *)
(* when they are retried for long enough; the others may fail for ever.    *)
(***************************************************************************)
Steady == turn = Rotation

FairSpec ==
    /\ Spec
    /\ WF_vars(Loop)
    /\ SF_vars(Steady /\ since = 0 /\ FetchPage(PageFrom(0)))
    /\ SF_vars(Steady /\ since # 0 /\ FetchPage(PageFrom(since)))
    /\ SF_vars(Query)
    /\ SF_vars(Steady /\ BarEnds)

(***************************************************************************)
(* Properties                                                              *)
(***************************************************************************)
\* No candle of a response is passed over: last_timestamps moves past it only
\* when its on_bar() has completed, or the session was halted or stopped.  A bar
\* whose strategy or order raised is therefore asked for again, and handed on as
\* long as it is still among the newest rows the exchange answers with.
CandlesInTurn ==
    [][\A s \in 1..Symbols : \A c \in answer :
         (s = turn /\ last[s] < c /\ c <= last'[s])
            => c \in completed' \/ state # "running"]_vars

\* The pointer carried from bar to bar and across evictions names the first
\* entry of the weekly window, as long as no bar was older than the one before.
WeeklyBaseIsFirst ==
    (inOrder /\ equity # <<>>) =>
        /\ base \in DOMAIN equity
        /\ equity[base] >= equity[Len(equity)] - Week
        /\ \A i \in 1..(base - 1) : equity[i] < equity[Len(equity)] - Week

\* A symbol whose requests are answered is not starved: last_timestamps reaches
\* every candle that opens, whatever the other symbols of the rotation suffer,
\* until the session is halted or stopped.  Candles that have left the newest
\* page of the exchange by the time of the request are passed over on the way
\* without being handed on.
SteadyNotStarved ==
    \A c \in Candles : now >= c ~> (last[Rotation] >= c \/ state # "running")

\* engine.py: "On the first bar of a calendar day, anchor the day's baseline to
\* that bar's equity."  A day that has its baseline is not anchored again.
AnchoredOncePerDay ==
    [][day' # day => day' \notin anchored]_vars
=============================================================================
