------------------------------ MODULE BarTable ------------------------------
(***************************************************************************)
(* What the bar store promises its writers: the bars of a symbol are one   *)
(* table, and a job changes whole months of it at a time, each at once.  A *)
(* save puts its bars over those with the same timestamp and timeframe; a  *)
(* tagging relabels what the month holds at that moment.  A job that       *)
(* answers success has done every month it undertook; one that fails may   *)
(* have done some.  BarStore implements this specification.                *)
(***************************************************************************)
EXTENDS Naturals

CONSTANTS
    Saves,          \* jobs that save bars
    Tags,           \* jobs that relabel the data source
    Stamps,         \* timestamps
    Timeframes,
    MonthOf,        \* the month of a timestamp
    Batches         \* the batches a save may have, sets of keys

Jobs   == Saves \cup Tags
Keys   == Stamps \X Timeframes
Months == {MonthOf[t] : t \in Stamps}

\* A bar is known by its key, the job its values come from and the job that
\* labelled it last.
Rows == [key : Keys, by : Saves, label : Jobs]

MonthOfRow(r) == MonthOf[r.key[1]]

\* The bars of save j that fall in month m.
Fresh(j, keys, m) ==
    {[key |-> k, by |-> j, label |-> j] : k \in {k \in keys : MonthOf[k[1]] = m}}

\* Bars new over bars old.
Upsert(old, new) == {r \in old : \A n \in new : n.key # r.key} \cup new

Relabelled(rows, j) == {[r EXCEPT !.label = j] : r \in rows}

VARIABLES
    table,          \* the bars stored
    batch,          \* what each save has to store
    todo,           \* months a job has still to do
    outcome         \* what each job has answered

vars == <<table, batch, todo, outcome>>

Init ==
    /\ table = {}
    /\ batch \in [Saves -> Batches]
    /\ todo = [j \in Jobs |-> {}]
    /\ outcome = [j \in Jobs |-> "new"]

Begin(j) ==
    /\ outcome[j] = "new"
    /\ outcome' = [outcome EXCEPT ![j] = "open"]
    /\ todo' = [todo EXCEPT ![j] = IF j \in Saves
                                   THEN {MonthOf[k[1]] : k \in batch[j]}
                                   ELSE {MonthOfRow(r) : r \in table}]
    /\ UNCHANGED <<table, batch>>

Put(j, m) ==
    /\ outcome[j] = "open"
    /\ m \in todo[j]
    /\ todo' = [todo EXCEPT ![j] = todo[j] \ {m}]
    /\ LET month == {r \in table : MonthOfRow(r) = m}
       IN  table' = (table \ month) \cup
                        IF j \in Saves THEN Upsert(month, Fresh(j, batch[j], m))
                                       ELSE Relabelled(month, j)
    /\ UNCHANGED <<batch, outcome>>

Succeed(j) ==
    /\ outcome[j] = "open"
    /\ todo[j] = {}
    /\ outcome' = [outcome EXCEPT ![j] = "ok"]
    /\ UNCHANGED <<table, batch, todo>>

\* Some jobs fail, together when their process dies, and leave the rest undone.
Fail(js) ==
    /\ \A j \in js : outcome[j] \in {"new", "open"}
    /\ outcome' = [j \in Jobs |-> IF j \in js THEN "failed" ELSE outcome[j]]
    /\ todo' = [j \in Jobs |-> IF j \in js THEN {} ELSE todo[j]]
    /\ UNCHANGED <<table, batch>>

Next ==
    \/ \E j \in Jobs : Begin(j) \/ Succeed(j) \/ \E m \in Months : Put(j, m)
    \/ \E js \in SUBSET Jobs : Fail(js)

Spec == Init /\ [][Next]_vars
=============================================================================
