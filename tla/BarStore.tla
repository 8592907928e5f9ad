------------------------------ MODULE BarStore ------------------------------
(***************************************************************************)
(* The partitioned Parquet store of one symbol: DataStore.save and the     *)
(* station's tagging, run by threads of several processes.  A job rewrites *)
(* one month file at a time: it takes the in-process lock of the file,     *)
(* then the lock file (300 s at most), reads the file, writes the merged   *)
(* month to a temporary file and renames that over it.  Reads and writes   *)
(* may fail, and a process may die at any step.                            *)
(*                                                                         *)
(* One tagging runs at a time: its temporary file has a name that another  *)
(* one would list among the months (see the README).  A tagging that dies  *)
(* between the write and the rename leaves that file behind, and readers   *)
(* that list every parquet file take it for a month.  The model has the    *)
(* month files only, and its properties speak of these.                    *)
(***************************************************************************)
EXTENDS Naturals

CONSTANTS
    Saves,          \* jobs: a download, a demo seed
    Tags,           \* jobs: a relabelling of the data source
    Process,        \* the process of each job
    Stamps,         \* timestamps of bars
    Timeframes,
    MonthOf,        \* the month of a timestamp
    Batches         \* the batches a save may have, sets of keys

VARIABLES
    batch,      \* the keys each save has to store
    pc,         \* where each job is
    left,       \* months a job has still to do, done in ascending order
    file,       \* bars of each month file, {} when there is none
    inner,      \* in-process locks: who holds which month's
    outer,      \* lock files: who holds which month's
    merged      \* the month as a job will write it

vars == <<batch, pc, left, file, inner, outer, merged>>

Table == INSTANCE BarTable WITH
    table   <- UNION {file[m] : m \in {MonthOf[t] : t \in Stamps}},
    todo    <- left,
    outcome <- [j \in Saves \cup Tags |->
                  IF pc[j] \in {"new", "ok", "failed"} THEN pc[j] ELSE "open"]

Jobs   == Table!Jobs
Keys   == Table!Keys
Months == Table!Months
Rows   == Table!Rows

ASSUME StoreAssumption ==
    /\ Stamps \subseteq Nat
    /\ MonthOf \in [Stamps -> Nat]
    /\ Batches \subseteq (SUBSET (Stamps \X Timeframes)) \ {{}}
    /\ Saves \cap Tags = {}
    /\ \A i, j \in Tags : i = j

TypeOK ==
    /\ batch \in [Saves -> Batches]
    /\ pc \in [Jobs -> {"new", "idle", "locking", "reading", "opening", "writing",
                        "ok", "failed"}]
    /\ left \in [Jobs -> SUBSET Months]
    /\ file \in [Months -> SUBSET Rows]
    /\ inner \cup outer \subseteq Jobs \X Months
    /\ merged \in [Jobs -> SUBSET Rows]

Init ==
    /\ batch \in [Saves -> Batches]
    /\ pc = [j \in Jobs |-> "new"]
    /\ left = [j \in Jobs |-> {}]
    /\ file = [m \in Months |-> {}]
    /\ inner = {}
    /\ outer = {}
    /\ merged = [j \in Jobs |-> {}]

Ended(j) == pc[j] \in {"new", "ok", "failed"}

\* The month job j is at.
At(j, m) == m \in left[j] /\ \A n \in left[j] : m <= n

Goto(j, place) == pc' = [pc EXCEPT ![j] = place]

\* The two locks of a month are released together, the lock file first.
Release(j, m) ==
    /\ inner' = inner \ {<<j, m>>}
    /\ outer' = outer \ {<<j, m>>}

-----------------------------------------------------------------------------
(***************************************************************************)
(* What a month becomes.                                                   *)
(***************************************************************************)

\* Mutant: a batch that begins at the file's last bar is appended as well.
Appends_OrEqual(old, new) == \A o \in old, n \in new : n.key[1] >= o.key[1]

\* Every new bar is later than every bar of the file: they are appended as
\* they are.
Appends(old, new) == \A o \in old, n \in new : n.key[1] > o.key[1]

\* Otherwise the last bar of each timestamp and timeframe stays.
Deduplicated(old, new) == {r \in old : \A n \in new : n.key # r.key} \cup new

Merged(old, new) == IF Appends(old, new) THEN old \cup new ELSE Deduplicated(old, new)

\* Mutant: timestamps are stored as they come, in nanoseconds.
Rewritten_Unnormalised(j, m) ==
    {[r EXCEPT !.key[1] = 1000000 * @] : r \in Table!Fresh(j, batch[j], m)}

Rewritten(j, m) ==
    IF j \in Saves THEN Merged(file[m], Table!Fresh(j, batch[j], m))
                   ELSE Table!Relabelled(file[m], j)

-----------------------------------------------------------------------------
(***************************************************************************)
(* The steps of a job.                                                     *)
(***************************************************************************)

\* A save groups its bars by month; a tagging lists the files there are.
Begin(j) ==
    /\ pc[j] = "new"
    /\ Goto(j, "idle")
    /\ left' = [left EXCEPT ![j] = IF j \in Saves
                                   THEN {MonthOf[k[1]] : k \in batch[j]}
                                   ELSE {m \in Months : file[m] # {}}]
    /\ UNCHANGED <<batch, file, inner, outer, merged>>

\* No file: "No local parquet files found".
Refused(j) ==
    /\ j \in Tags
    /\ pc[j] = "new"
    /\ \A m \in Months : file[m] = {}
    /\ Goto(j, "failed")
    /\ UNCHANGED <<batch, left, file, inner, outer, merged>>

TakeInner(j, m) ==
    /\ pc[j] = "idle"
    /\ At(j, m)
    /\ \A k \in Jobs : Process[k] = Process[j] => <<k, m>> \notin inner
    /\ inner' = inner \cup {<<j, m>>}
    /\ Goto(j, "locking")
    /\ UNCHANGED <<batch, left, file, outer, merged>>

\* Mutant: the lock file is the process's own.
TakeOuter_Own(j, m) ==
    /\ pc[j] = "locking"
    /\ At(j, m)
    /\ \A k \in Jobs : Process[k] = Process[j] => <<k, m>> \notin outer
    /\ outer' = outer \cup {<<j, m>>}
    /\ Goto(j, "reading")
    /\ UNCHANGED <<batch, left, file, inner, merged>>

TakeOuter(j, m) ==
    /\ pc[j] = "locking"
    /\ At(j, m)
    /\ \A k \in Jobs : <<k, m>> \notin outer
    /\ outer' = outer \cup {<<j, m>>}
    /\ Goto(j, "reading")
    /\ UNCHANGED <<batch, left, file, inner, merged>>

\* Job j gives up: what it has renamed so far stays, its locks do not.
GivesUp(j, m) ==
    /\ Release(j, m)
    /\ Goto(j, "failed")
    /\ left' = [left EXCEPT ![j] = {}]
    /\ UNCHANGED <<batch, file, merged>>

\* Mutant: the in-process lock is not released.
TimesOut_KeepsInner(j, m) ==
    /\ pc[j] = "locking"
    /\ At(j, m)
    /\ \E k \in Jobs : <<k, m>> \in outer
    /\ Goto(j, "failed")
    /\ left' = [left EXCEPT ![j] = {}]
    /\ UNCHANGED <<batch, file, inner, outer, merged>>

\* 300 s passed and another process still has the lock file: DataError.
TimesOut(j, m) ==
    /\ pc[j] = "locking"
    /\ At(j, m)
    /\ \E k \in Jobs : <<k, m>> \in outer
    /\ GivesUp(j, m)

Read(j, m) ==
    /\ pc[j] = "reading"
    /\ At(j, m)
    /\ merged' = [merged EXCEPT ![j] = Rewritten(j, m)]
    /\ Goto(j, "opening")
    /\ UNCHANGED <<batch, left, file, inner, outer>>

\* The temporary file is opened and being written, beside the month file.
Open(j, m) ==
    /\ pc[j] = "opening"
    /\ At(j, m)
    /\ Goto(j, "writing")
    /\ UNCHANGED <<batch, left, file, inner, outer, merged>>

Replace(j, m) ==
    /\ pc[j] = "writing"
    /\ At(j, m)
    /\ file' = [file EXCEPT ![m] = merged[j]]
    /\ left' = [left EXCEPT ![j] = left[j] \ {m}]
    /\ merged' = [merged EXCEPT ![j] = {}]
    /\ Release(j, m)
    /\ Goto(j, "idle")
    /\ UNCHANGED batch

\* Reading or writing raises; the temporary file is unlinked.
Fails(j, m) ==
    /\ pc[j] \in {"reading", "opening", "writing"}
    /\ At(j, m)
    /\ GivesUp(j, m)

\* All months done: the answer reads the store once more, which may raise.
Answer(j) ==
    /\ pc[j] = "idle"
    /\ left[j] = {}
    /\ \/ Goto(j, "ok")
       \/ Goto(j, "failed")
    /\ UNCHANGED <<batch, left, file, inner, outer, merged>>

\* A process dies: its jobs end, and the system drops its locks.
Crash(p) ==
    LET dead == {j \in Jobs : Process[j] = p /\ ~Ended(j)}
    IN  /\ dead # {}
        /\ pc' = [j \in Jobs |-> IF j \in dead THEN "failed" ELSE pc[j]]
        /\ left' = [j \in Jobs |-> IF j \in dead THEN {} ELSE left[j]]
        /\ inner' = {h \in inner : h[1] \notin dead}
        /\ outer' = {h \in outer : h[1] \notin dead}
        /\ UNCHANGED <<batch, file, merged>>

-----------------------------------------------------------------------------
Locks(j)  == \E m \in Months : TakeInner(j, m) \/ TakeOuter(j, m) \/ TimesOut(j, m)
Writes(j) == \E m \in Months : Read(j, m) \/ Open(j, m) \/ Replace(j, m)

Next ==
    \/ \E j \in Jobs : \/ Begin(j) \/ Refused(j) \/ Answer(j)
                       \/ \E m \in Months : \/ TakeInner(j, m) \/ TakeOuter(j, m)
                                            \/ TimesOut(j, m) \/ Read(j, m) \/ Open(j, m)
                                            \/ Replace(j, m) \/ Fails(j, m)
    \/ \E p \in {Process[j] : j \in Jobs} : Crash(p)

Spec == Init /\ [][Next]_vars

\* Threads run: a job that can take a lock, read, write or answer does so.
FairSpec == Spec /\ \A j \in Jobs : WF_vars(Locks(j) \/ Writes(j) \/ Answer(j))

-----------------------------------------------------------------------------
(***************************************************************************)
(* Properties.                                                             *)
(***************************************************************************)

\* A month file holds a bar at most once per timestamp and timeframe, although
\* the fast path appends without looking for duplicates, and only bars of its
\* month.
KeyedOnce ==
    \A m \in Months : \A r, s \in file[m] :
        /\ r.key = s.key => r = s
        /\ Table!MonthOfRow(r) = m

\* Whatever jobs run beside it, fail or die, a rename replaces a month by the
\* month as it was with this job's bars or label: no update is lost between
\* the read and the rename, and success means that every month was done
\* (comments at store.py:144 and service.py:1350).
ImplementsTable == Table!Spec

\* Every job that has begun ends: waiting for a lock is bounded by the others'
\* work, and no failure keeps a lock.
JobsEnd == \A j \in Jobs : pc[j] = "idle" ~> Ended(j)
=============================================================================
