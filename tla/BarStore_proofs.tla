--------------------------- MODULE BarStore_proofs ---------------------------
(***************************************************************************)
(* Proofs about BarStore, for every set of jobs, processes, timestamps and *)
(* batches.                                                                *)
(***************************************************************************)
EXTENDS BarStore, TLAPS

-----------------------------------------------------------------------------
(***************************************************************************)
(* The inductive invariant, in named parts.                                *)
(***************************************************************************)

InFile(j) == pc[j] \in {"reading", "opening", "writing"}

\* A lock file is held by the job that works on its month, and by no other.
OuterIsWork == \A j \in Jobs, m \in Months : <<j, m>> \in outer <=> InFile(j) /\ At(j, m)
OuterIsOne  == \A j, k \in Jobs, m \in Months :
                   <<j, m>> \in outer /\ <<k, m>> \in outer => j = k

\* What a job is about to write is still the month of now with its change.
MergedIsFresh ==
    \A j \in Jobs, m \in Months :
        pc[j] \in {"opening", "writing"} /\ At(j, m) => merged[j] = Rewritten(j, m)

\* A job that has not begun has nothing to do.
UnbegunIsIdle == \A j \in Jobs : pc[j] = "new" => left[j] = {}

IInv == TypeOK /\ UnbegunIsIdle /\ OuterIsWork /\ OuterIsOne /\ MergedIsFresh /\ KeyedOnce

USE DEF Jobs, Keys, Months, Rows, Table!Jobs, Table!Keys, Table!Months, Table!Rows

-----------------------------------------------------------------------------
(***************************************************************************)
(* Months and rows.                                                        *)
(***************************************************************************)

LEMMA MonthsLemma == ASSUME StoreAssumption PROVE Months \subseteq Nat
BY DEF StoreAssumption

\* A job is at one month only.
LEMMA AtLemma ==
    ASSUME StoreAssumption, TypeOK, NEW j \in Jobs, NEW m \in Months, NEW n \in Months,
           At(j, m), At(j, n)
    PROVE  m = n
<1>1. m \in Nat /\ n \in Nat
  BY MonthsLemma
<1>2. m <= n /\ n <= m
  BY DEF At
<1> QED BY <1>1, <1>2

\* The batch of a save has its bars of a month once each.
LEMMA FreshLemma ==
    ASSUME StoreAssumption, TypeOK, NEW j \in Saves, NEW m \in Months
    PROVE  /\ Table!Fresh(j, batch[j], m) \subseteq Rows
           /\ \A r, s \in Table!Fresh(j, batch[j], m) :
                  /\ r.key = s.key => r = s
                  /\ Table!MonthOfRow(r) = m
<1>1. batch[j] \subseteq Keys
  BY DEF TypeOK, StoreAssumption
<1>2. \A k \in batch[j] : [key |-> k, by |-> j, label |-> j] \in Rows
  BY <1>1
<1> QED BY <1>1, <1>2 DEF Table!Fresh, Table!MonthOfRow

\* The fast path appends what the full merge would have kept.
LEMMA MergeLemma ==
    ASSUME StoreAssumption, NEW old \in SUBSET Rows, NEW new \in SUBSET Rows
    PROVE  Merged(old, new) = Table!Upsert(old, new)
<1>1. ASSUME Appends(old, new)  PROVE old \cup new = Deduplicated(old, new)
  <2>1. ASSUME NEW r \in old, NEW n \in new  PROVE n.key # r.key
    <3>1. n.key[1] \in Nat /\ r.key[1] \in Nat
      BY DEF StoreAssumption
    <3>2. n.key[1] > r.key[1]
      BY <1>1 DEF Appends
    <3> QED BY <3>1, <3>2
  <2> QED BY <2>1 DEF Deduplicated
<1>2. Deduplicated(old, new) = Table!Upsert(old, new)
  BY DEF Deduplicated, Table!Upsert
<1> QED BY <1>1, <1>2 DEF Merged

\* The month a job writes holds its bars once each.
LEMMA RewrittenLemma ==
    ASSUME StoreAssumption, IInv, NEW j \in Jobs, NEW m \in Months
    PROVE  /\ Rewritten(j, m) \subseteq Rows
           /\ \A r, s \in Rewritten(j, m) :
                  /\ r.key = s.key => r = s
                  /\ Table!MonthOfRow(r) = m
<1>1. file[m] \subseteq Rows
  BY DEF IInv, TypeOK
<1>2. \A r, s \in file[m] : (r.key = s.key => r = s) /\ Table!MonthOfRow(r) = m
  BY DEF IInv, KeyedOnce
<1>3. CASE j \in Saves
  <2> DEFINE new == Table!Fresh(j, batch[j], m)
  <2>1. /\ new \subseteq Rows
        /\ \A r, s \in new : (r.key = s.key => r = s) /\ Table!MonthOfRow(r) = m
    BY <1>3, FreshLemma DEF IInv
  <2>2. Rewritten(j, m) = Table!Upsert(file[m], new)
    BY <1>1, <1>3, <2>1, MergeLemma DEF Rewritten
  <2> HIDE DEF new
  <2> QED BY <1>1, <1>2, <2>1, <2>2 DEF Table!Upsert
<1>4. CASE j \notin Saves
  <2>1. Rewritten(j, m) = {[r EXCEPT !.label = j] : r \in file[m]}
    BY <1>4 DEF Rewritten, Table!Relabelled
  <2>2. ASSUME NEW r \in file[m]
        PROVE  /\ [r EXCEPT !.label = j] \in Rows
               /\ [r EXCEPT !.label = j].key = r.key
    BY <1>1
  <2>3. \A r \in file[m] : Table!MonthOfRow([r EXCEPT !.label = j]) = m
    BY <1>2, <2>2 DEF Table!MonthOfRow
  <2> QED BY <1>2, <2>1, <2>2, <2>3
<1> QED BY <1>3, <1>4

\* The bars of a month are its file.
LEMMA SliceLemma ==
    ASSUME IInv, NEW m \in Months
    PROVE  {r \in UNION {file[n] : n \in Months} : Table!MonthOfRow(r) = m} = file[m]
BY DEF IInv, KeyedOnce

-----------------------------------------------------------------------------
(***************************************************************************)
(* The invariant holds.                                                    *)
(***************************************************************************)

LEMMA InitLemma == ASSUME StoreAssumption, Init PROVE IInv
BY DEF Init, IInv, TypeOK, UnbegunIsIdle, OuterIsWork, OuterIsOne, MergedIsFresh, KeyedOnce, InFile

\* A step that changes neither file nor batch rewrites months the same way.
LEMMA RewrittenSameLemma ==
    ASSUME NEW j \in Jobs, NEW m \in Months, file'[m] = file[m], UNCHANGED batch
    PROVE  Rewritten(j, m)' = Rewritten(j, m)
BY DEF Rewritten, Merged, Appends, Deduplicated, Table!Fresh, Table!Relabelled

\* Job j leaves its month behind: its lock goes, the others' stay.
LEMMA GivesUpLemma ==
    ASSUME StoreAssumption, IInv, NEW j \in Jobs, NEW m \in Months, At(j, m),
           GivesUp(j, m)
    PROVE  IInv'
<1> USE DEF GivesUp, Release, Goto
<1>1. TypeOK'
  BY DEF IInv, TypeOK
<1>2. OuterIsWork'
  <2>1. ASSUME NEW k \in Jobs, NEW n \in Months
        PROVE  (<<k, n>> \in outer <=> InFile(k) /\ At(k, n))'
    <3>1. CASE k # j
      BY <3>1 DEF IInv, TypeOK, OuterIsWork, InFile, At
    <3>2. CASE k = j
      <4>1. ~InFile(k)'
        BY <3>2 DEF InFile, IInv, TypeOK
      <4>2. <<k, n>> \notin outer'
        BY <3>2, AtLemma DEF IInv, OuterIsWork
      <4> QED BY <4>1, <4>2
    <3> QED BY <3>1, <3>2
  <2> QED BY <2>1 DEF OuterIsWork
<1>3. OuterIsOne'
  BY DEF IInv, OuterIsOne
<1>4. MergedIsFresh'
  BY RewrittenSameLemma DEF IInv, TypeOK, MergedIsFresh, At
<1>5. KeyedOnce'
  BY DEF IInv, KeyedOnce
<1>6. UnbegunIsIdle'
  BY DEF IInv, TypeOK, UnbegunIsIdle
<1> QED BY <1>1, <1>2, <1>3, <1>4, <1>5, <1>6 DEF IInv

\* A step that leaves files and lock files alone and moves job j outside them.
LEMMA OutsideLemma ==
    ASSUME StoreAssumption, IInv, NEW j \in Jobs, TypeOK',
           UNCHANGED <<batch, file, outer, merged>>,
           ~InFile(j), ~InFile(j)',
           pc'[j] # "new",
           \A k \in Jobs \ {j} : pc'[k] = pc[k] /\ left'[k] = left[k]
    PROVE  IInv'
<1>1. OuterIsWork'
  BY DEF IInv, OuterIsWork, InFile, At
<1>2. OuterIsOne'
  BY DEF IInv, OuterIsOne
<1>3. MergedIsFresh'
  BY RewrittenSameLemma DEF IInv, MergedIsFresh, InFile, At
<1>4. KeyedOnce'
  BY DEF IInv, KeyedOnce
<1>5. UnbegunIsIdle'
  BY DEF IInv, UnbegunIsIdle
<1> QED BY <1>1, <1>2, <1>3, <1>4, <1>5 DEF IInv

LEMMA BeginLemma ==
    ASSUME StoreAssumption, IInv, NEW j \in Jobs, Begin(j)
    PROVE  IInv'
<1>1. ASSUME j \in Saves  PROVE {MonthOf[k[1]] : k \in batch[j]} \subseteq Months
  <2>1. batch[j] \subseteq Stamps \X Timeframes
    BY <1>1 DEF IInv, TypeOK, StoreAssumption
  <2>2. \A k \in batch[j] : k[1] \in Stamps
    BY <2>1
  <2> QED BY <2>2
<1>2. left' \in [Jobs -> SUBSET Months]
  BY <1>1 DEF Begin, IInv, TypeOK
<1>3. TypeOK'
  BY <1>2 DEF Begin, Goto, IInv, TypeOK
<1> QED BY <1>3, OutsideLemma DEF Begin, Goto, InFile, IInv, TypeOK

LEMMA TakeOuterLemma ==
    ASSUME StoreAssumption, IInv, NEW j \in Jobs, NEW m \in Months, TakeOuter(j, m)
    PROVE  IInv'
<1> USE DEF TakeOuter, Goto
<1>1. TypeOK'
  BY DEF IInv, TypeOK
<1>2. OuterIsWork'
  <2>1. ASSUME NEW k \in Jobs, NEW n \in Months
        PROVE  (<<k, n>> \in outer <=> InFile(k) /\ At(k, n))'
    <3>1. CASE k # j
      BY <3>1 DEF IInv, TypeOK, OuterIsWork, InFile, At
    <3>2. CASE k = j
      <4>1. InFile(k)' /\ ~InFile(k)
        BY <3>2 DEF InFile, IInv, TypeOK
      <4>2. At(k, n)' <=> n = m
        BY <3>2, AtLemma DEF At, IInv
      <4>3. <<k, n>> \notin outer
        BY <3>2, <4>1 DEF IInv, OuterIsWork
      <4> QED BY <3>2, <4>1, <4>2, <4>3
    <3> QED BY <3>1, <3>2
  <2> QED BY <2>1 DEF OuterIsWork
<1>3. OuterIsOne'
  BY DEF IInv, OuterIsOne
<1>4. MergedIsFresh'
  BY RewrittenSameLemma DEF IInv, TypeOK, MergedIsFresh, At
<1>5. KeyedOnce'
  BY DEF IInv, KeyedOnce
<1>6. UnbegunIsIdle'
  BY DEF IInv, TypeOK, UnbegunIsIdle
<1> QED BY <1>1, <1>2, <1>3, <1>4, <1>5, <1>6 DEF IInv

LEMMA ReadLemma ==
    ASSUME StoreAssumption, IInv, NEW j \in Jobs, NEW m \in Months, Read(j, m)
    PROVE  IInv'
<1> USE DEF Read, Goto
<1>1. TypeOK'
  BY RewrittenLemma DEF IInv, TypeOK
<1>2. OuterIsWork'
  BY DEF IInv, TypeOK, OuterIsWork, InFile, At
<1>3. OuterIsOne'
  BY DEF IInv, OuterIsOne
<1>4. MergedIsFresh'
  <2>1. ASSUME NEW k \in Jobs, NEW n \in Months,
               pc'[k] \in {"opening", "writing"}, At(k, n)'
        PROVE  merged'[k] = Rewritten(k, n)'
    <3>1. Rewritten(k, n)' = Rewritten(k, n) /\ At(k, n)
      BY <2>1, RewrittenSameLemma DEF At
    <3>2. CASE k # j
      BY <2>1, <3>1, <3>2 DEF IInv, TypeOK, MergedIsFresh
    <3>3. CASE k = j
      <4>1. n = m
        BY <3>1, <3>3, AtLemma DEF IInv
      <4> QED BY <3>1, <3>3, <4>1 DEF IInv, TypeOK
    <3> QED BY <3>2, <3>3
  <2> QED BY <2>1 DEF MergedIsFresh
<1>5. KeyedOnce'
  BY DEF IInv, KeyedOnce
<1>6. UnbegunIsIdle'
  BY DEF IInv, TypeOK, UnbegunIsIdle
<1> QED BY <1>1, <1>2, <1>3, <1>4, <1>5, <1>6 DEF IInv

LEMMA OpenLemma ==
    ASSUME StoreAssumption, IInv, NEW j \in Jobs, NEW m \in Months, Open(j, m)
    PROVE  IInv'
<1> USE DEF Open, Goto
<1>1. TypeOK'
  BY DEF IInv, TypeOK
<1>2. OuterIsWork'
  BY DEF IInv, TypeOK, OuterIsWork, InFile, At
<1>3. OuterIsOne'
  BY DEF IInv, OuterIsOne
<1>4. MergedIsFresh'
  BY RewrittenSameLemma DEF IInv, TypeOK, MergedIsFresh, At
<1>5. KeyedOnce'
  BY DEF IInv, KeyedOnce
<1>6. UnbegunIsIdle'
  BY DEF IInv, TypeOK, UnbegunIsIdle
<1> QED BY <1>1, <1>2, <1>3, <1>4, <1>5, <1>6 DEF IInv

\* A rename: the other jobs in their files are at other months.
LEMMA ReplaceLemma ==
    ASSUME StoreAssumption, IInv, NEW j \in Jobs, NEW m \in Months, Replace(j, m)
    PROVE  IInv' /\ file' = [file EXCEPT ![m] = Rewritten(j, m)]
<1> USE DEF Replace, Goto, Release
<1>1. file' = [file EXCEPT ![m] = Rewritten(j, m)]
  BY DEF IInv, MergedIsFresh
<1>2. TypeOK'
  BY DEF IInv, TypeOK
<1>3. OuterIsWork'
  <2>1. ASSUME NEW k \in Jobs, NEW n \in Months
        PROVE  (<<k, n>> \in outer <=> InFile(k) /\ At(k, n))'
    <3>1. CASE k # j
      BY <3>1 DEF IInv, TypeOK, OuterIsWork, InFile, At
    <3>2. CASE k = j
      <4>1. ~InFile(k)'
        BY <3>2 DEF InFile, IInv, TypeOK
      <4>2. <<k, n>> \notin outer'
        BY <3>2, AtLemma DEF IInv, OuterIsWork
      <4> QED BY <4>1, <4>2
    <3> QED BY <3>1, <3>2
  <2> QED BY <2>1 DEF OuterIsWork
<1>4. OuterIsOne'
  BY DEF IInv, OuterIsOne
<1>5. MergedIsFresh'
  <2>1. ASSUME NEW k \in Jobs, NEW n \in Months,
               pc'[k] \in {"opening", "writing"}, At(k, n)'
        PROVE  merged'[k] = Rewritten(k, n)'
    <3>1. k # j
      BY <2>1 DEF IInv, TypeOK
    <3>2. pc[k] \in {"opening", "writing"} /\ At(k, n) /\ merged'[k] = merged[k]
      BY <2>1, <3>1 DEF IInv, TypeOK, At
    <3>3. <<k, n>> \in outer /\ <<j, m>> \in outer
      BY <3>2 DEF IInv, OuterIsWork, InFile
    <3>4. n # m
      BY <3>1, <3>3 DEF IInv, OuterIsOne
    <3>5. Rewritten(k, n)' = Rewritten(k, n)
      BY <3>4, RewrittenSameLemma DEF IInv, TypeOK
    <3> QED BY <3>2, <3>5 DEF IInv, MergedIsFresh
  <2> QED BY <2>1 DEF MergedIsFresh
<1>6. KeyedOnce'
  <2>1. ASSUME NEW n \in Months, NEW r \in file'[n], NEW s \in file'[n]
        PROVE  (r.key = s.key => r = s) /\ Table!MonthOfRow(r) = n
    <3>1. CASE n = m
      <4>1. file'[n] = Rewritten(j, m)
        BY <1>1, <3>1 DEF IInv, TypeOK
      <4> QED BY <3>1, <4>1, RewrittenLemma
    <3>2. CASE n # m
      BY <1>1, <3>2 DEF IInv, TypeOK, KeyedOnce
    <3> QED BY <3>1, <3>2
  <2> QED BY <2>1 DEF KeyedOnce, Table!MonthOfRow
<1>7. UnbegunIsIdle'
  BY DEF IInv, TypeOK, UnbegunIsIdle
<1> QED BY <1>1, <1>2, <1>3, <1>4, <1>5, <1>6, <1>7 DEF IInv

\* The dead of a crash hold nothing any more.
LEMMA CrashLemma ==
    ASSUME StoreAssumption, IInv, NEW p, Crash(p)
    PROVE  IInv'
<1> DEFINE dead == {j \in Jobs : Process[j] = p /\ ~Ended(j)}
<1>1. /\ pc' = [j \in Jobs |-> IF j \in dead THEN "failed" ELSE pc[j]]
      /\ left' = [j \in Jobs |-> IF j \in dead THEN {} ELSE left[j]]
      /\ inner' = {h \in inner : h[1] \notin dead}
      /\ outer' = {h \in outer : h[1] \notin dead}
      /\ UNCHANGED <<batch, file, merged>>
  BY DEF Crash
<1> HIDE DEF dead
<1>2. TypeOK'
  BY <1>1 DEF IInv, TypeOK
<1>3. OuterIsWork'
  BY <1>1 DEF IInv, TypeOK, OuterIsWork, InFile, At
<1>4. OuterIsOne'
  BY <1>1 DEF IInv, OuterIsOne
<1>5. MergedIsFresh'
  BY <1>1, RewrittenSameLemma DEF IInv, TypeOK, MergedIsFresh, At
<1>6. KeyedOnce'
  BY <1>1 DEF IInv, KeyedOnce
<1>7. UnbegunIsIdle'
  BY <1>1 DEF IInv, TypeOK, UnbegunIsIdle
<1> QED BY <1>2, <1>3, <1>4, <1>5, <1>6, <1>7 DEF IInv

LEMMA StepLemma == ASSUME StoreAssumption, IInv, [Next]_vars PROVE IInv'
<1>1. ASSUME NEW j \in Jobs, Begin(j)  PROVE IInv'
  BY <1>1, BeginLemma
<1>2. ASSUME NEW j \in Jobs, Refused(j)  PROVE IInv'
  <2>1. TypeOK'
    BY <1>2 DEF Refused, Goto, IInv, TypeOK
  <2> QED BY <1>2, <2>1, OutsideLemma DEF Refused, Goto, InFile, IInv, TypeOK
<1>3. ASSUME NEW j \in Jobs, Answer(j)  PROVE IInv'
  <2>1. TypeOK'
    BY <1>3 DEF Answer, Goto, IInv, TypeOK
  <2> QED BY <1>3, <2>1, OutsideLemma DEF Answer, Goto, InFile, IInv, TypeOK
<1>4. ASSUME NEW j \in Jobs, NEW m \in Months, TakeInner(j, m)  PROVE IInv'
  <2>1. TypeOK'
    BY <1>4 DEF TakeInner, Goto, IInv, TypeOK
  <2> QED BY <1>4, <2>1, OutsideLemma DEF TakeInner, Goto, InFile, IInv, TypeOK
<1>5. ASSUME NEW j \in Jobs, NEW m \in Months, TakeOuter(j, m)  PROVE IInv'
  BY <1>5, TakeOuterLemma
<1>6. ASSUME NEW j \in Jobs, NEW m \in Months, TimesOut(j, m) \/ Fails(j, m)
      PROVE  IInv'
  BY <1>6, GivesUpLemma DEF TimesOut, Fails
<1>7. ASSUME NEW j \in Jobs, NEW m \in Months, Read(j, m)  PROVE IInv'
  BY <1>7, ReadLemma
<1>8. ASSUME NEW j \in Jobs, NEW m \in Months, Open(j, m)  PROVE IInv'
  BY <1>8, OpenLemma
<1>9. ASSUME NEW j \in Jobs, NEW m \in Months, Replace(j, m)  PROVE IInv'
  BY <1>9, ReplaceLemma
<1>10. ASSUME NEW p, Crash(p)  PROVE IInv'
  BY <1>10, CrashLemma
<1>11. CASE UNCHANGED vars
  <2> USE <1>11 DEF vars
  <2>1. TypeOK' /\ UnbegunIsIdle' /\ OuterIsOne' /\ KeyedOnce'
    BY DEF IInv, TypeOK, UnbegunIsIdle, OuterIsOne, KeyedOnce
  <2>2. OuterIsWork'
    BY DEF IInv, OuterIsWork, InFile, At
  <2>3. MergedIsFresh'
    BY RewrittenSameLemma DEF IInv, MergedIsFresh, At
  <2> QED BY <2>1, <2>2, <2>3 DEF IInv
<1> QED BY <1>1, <1>2, <1>3, <1>4, <1>5, <1>6, <1>7, <1>8, <1>9, <1>10, <1>11 DEF Next

\* The invariant is inductive, whatever the jobs, processes and batches are.
THEOREM InductiveInvariant == ASSUME StoreAssumption PROVE Spec => []IInv
<1>1. Init => IInv
  BY InitLemma
<1>2. IInv /\ [Next]_vars => IInv'
  BY StepLemma
<1> QED BY <1>1, <1>2, PTL DEF Spec

\* Every state of the store is well formed.
THEOREM TypeCorrect == ASSUME StoreAssumption PROVE Spec => []TypeOK
<1>1. IInv => TypeOK
  BY DEF IInv
<1> QED BY <1>1, InductiveInvariant, PTL

\* No month file ever holds a bar twice.
THEOREM NoDuplicates == ASSUME StoreAssumption PROVE Spec => []KeyedOnce
<1>1. IInv => KeyedOnce
  BY DEF IInv
<1> QED BY <1>1, InductiveInvariant, PTL

-----------------------------------------------------------------------------
(***************************************************************************)
(* The store implements the table.                                         *)
(***************************************************************************)

Bars    == UNION {file[m] : m \in Months}
Outcome == [j \in Jobs |-> IF Ended(j) THEN pc[j] ELSE "open"]

\* The months that have bars are those that have a file.
LEMMA FilesLemma ==
    ASSUME IInv
    PROVE  {Table!MonthOfRow(r) : r \in Bars} = {m \in Months : file[m] # {}}
BY DEF IInv, KeyedOnce, Bars

\* Replacing a file replaces the bars of its month.
LEMMA BarsLemma ==
    ASSUME IInv, NEW m \in Months, NEW rows, file' = [file EXCEPT ![m] = rows]
    PROVE  Bars' = (Bars \ file[m]) \cup rows
<1>1. \A n \in Months : file'[n] = IF n = m THEN rows ELSE file[n]
  BY DEF IInv, TypeOK
<1>2. \A n \in Months : n # m => file[n] \cap file[m] = {}
  BY DEF IInv, KeyedOnce
<1> QED BY <1>1, <1>2 DEF Bars

\* A job that gives up, alone or with its process.
LEMMA FailLemma ==
    ASSUME NEW js \in SUBSET Jobs, UNCHANGED <<batch, file>>, IInv,
           \A j \in js : pc[j] \notin {"ok", "failed"},
           pc' = [j \in Jobs |-> IF j \in js THEN "failed" ELSE pc[j]],
           left' = [j \in Jobs |-> IF j \in js THEN {} ELSE left[j]]
    PROVE  Table!Next
<1>1. \A j \in js : Outcome[j] \in {"new", "open"}
  BY DEF Outcome, Ended
<1>2. Outcome' = [j \in Jobs |-> IF j \in js THEN "failed" ELSE Outcome[j]]
  BY DEF Outcome, Ended
<1>3. Bars' = Bars
  BY DEF Bars
<1>4. Table!Fail(js)
  BY <1>1, <1>2, <1>3 DEF Table!Fail, Bars, Outcome, Ended
<1> QED BY <1>4 DEF Table!Next

\* Taking locks, reading and writing beside the file shows nothing.
LEMMA HiddenLemma ==
    ASSUME IInv, NEW j \in Jobs, NEW place, ~Ended(j), place \notin {"new", "ok", "failed"},
           Goto(j, place), UNCHANGED <<batch, left, file>>
    PROVE  UNCHANGED Table!vars
<1>1. Outcome' = Outcome
  BY DEF Outcome, Ended, Goto, IInv, TypeOK
<1>2. Bars' = Bars
  BY DEF Bars
<1> QED BY <1>1, <1>2 DEF Table!vars, Bars, Outcome, Ended

LEMMA BeginMaps ==
    ASSUME IInv, NEW j \in Jobs, Begin(j)
    PROVE  Table!Next
<1>1. Outcome[j] = "new" /\ Outcome' = [Outcome EXCEPT ![j] = "open"]
  BY DEF Begin, Goto, Outcome, Ended, IInv, TypeOK
<1>2. Bars' = Bars
  BY DEF Begin, Bars
<1>3. left' = [left EXCEPT ![j] = IF j \in Saves
                                  THEN {MonthOf[k[1]] : k \in batch[j]}
                                  ELSE {Table!MonthOfRow(r) : r \in Bars}]
  BY FilesLemma DEF Begin
<1>4. Table!Begin(j)
  BY <1>1, <1>2, <1>3 DEF Begin, Table!Begin, Bars, Outcome, Ended
<1> QED BY <1>4 DEF Table!Next

LEMMA ReplaceMaps ==
    ASSUME StoreAssumption, IInv, NEW j \in Jobs, NEW m \in Months, Replace(j, m)
    PROVE  Table!Next
<1>1. Outcome[j] = "open" /\ Outcome' = Outcome
  BY DEF Replace, Goto, Outcome, Ended, IInv, TypeOK
<1>2. m \in left[j] /\ left' = [left EXCEPT ![j] = left[j] \ {m}]
  BY DEF Replace, At
<1>3. file[m] = {r \in Bars : Table!MonthOfRow(r) = m}
  BY SliceLemma DEF Bars
<1>4. Bars' = (Bars \ file[m]) \cup Rewritten(j, m)
  BY BarsLemma, ReplaceLemma
<1>5. Rewritten(j, m) = IF j \in Saves
                        THEN Table!Upsert(file[m], Table!Fresh(j, batch[j], m))
                        ELSE Table!Relabelled(file[m], j)
  BY MergeLemma, FreshLemma DEF Rewritten, IInv, TypeOK
<1>6. Table!Put(j, m)
  BY <1>1, <1>2, <1>3, <1>4, <1>5 DEF Replace, Table!Put, Bars, Outcome, Ended
<1> QED BY <1>6 DEF Table!Next

LEMMA AnswerMaps ==
    ASSUME IInv, NEW j \in Jobs, Answer(j)
    PROVE  Table!Next
<1>1. CASE Goto(j, "ok")
  <2>1. Outcome[j] = "open" /\ Outcome' = [Outcome EXCEPT ![j] = "ok"]
    BY <1>1 DEF Answer, Goto, Outcome, Ended, IInv, TypeOK
  <2>2. Bars' = Bars
    BY DEF Answer, Bars
  <2>3. Table!Succeed(j)
    BY <2>1, <2>2 DEF Answer, Table!Succeed, Bars, Outcome, Ended
  <2> QED BY <2>3 DEF Table!Next
<1>2. CASE Goto(j, "failed")
  <2>1. /\ pc' = [k \in Jobs |-> IF k \in {j} THEN "failed" ELSE pc[k]]
        /\ left' = [k \in Jobs |-> IF k \in {j} THEN {} ELSE left[k]]
    BY <1>2 DEF Answer, Goto, IInv, TypeOK
  <2> QED BY <2>1, FailLemma DEF Answer
<1> QED BY <1>1, <1>2 DEF Answer

LEMMA StepMaps ==
    ASSUME StoreAssumption, IInv, [Next]_vars
    PROVE  Table!Next \/ UNCHANGED Table!vars
<1>1. ASSUME NEW j \in Jobs, Refused(j)  PROVE Table!Next
  <2>1. /\ pc' = [k \in Jobs |-> IF k \in {j} THEN "failed" ELSE pc[k]]
        /\ left' = [k \in Jobs |-> IF k \in {j} THEN {} ELSE left[k]]
    BY <1>1 DEF Refused, Goto, IInv, TypeOK, UnbegunIsIdle
  <2> QED BY <1>1, <2>1, FailLemma DEF Refused
<1>2. ASSUME NEW j \in Jobs, NEW m \in Months,
             TakeInner(j, m) \/ TakeOuter(j, m) \/ Read(j, m) \/ Open(j, m)
      PROVE  UNCHANGED Table!vars
  BY <1>2, HiddenLemma DEF TakeInner, TakeOuter, Read, Open, Ended
<1>3. ASSUME NEW j \in Jobs, NEW m \in Months, TimesOut(j, m) \/ Fails(j, m)
      PROVE  Table!Next
  <2>1. /\ pc' = [k \in Jobs |-> IF k \in {j} THEN "failed" ELSE pc[k]]
        /\ left' = [k \in Jobs |-> IF k \in {j} THEN {} ELSE left[k]]
        /\ \A k \in {j} : pc[k] \notin {"ok", "failed"}
    BY <1>3 DEF TimesOut, Fails, GivesUp, Goto, IInv, TypeOK
  <2>2. UNCHANGED <<batch, file>>
    BY <1>3 DEF TimesOut, Fails, GivesUp
  <2>3. {j} \in SUBSET Jobs
    OBVIOUS
  <2> QED BY <2>1, <2>2, <2>3, FailLemma
<1>4. ASSUME NEW p, Crash(p)  PROVE Table!Next
  <2> DEFINE dead == {j \in Jobs : Process[j] = p /\ ~Ended(j)}
  <2>1. /\ pc' = [j \in Jobs |-> IF j \in dead THEN "failed" ELSE pc[j]]
        /\ left' = [j \in Jobs |-> IF j \in dead THEN {} ELSE left[j]]
        /\ UNCHANGED <<batch, file>>
    BY <1>4 DEF Crash
  <2>2. \A j \in dead : pc[j] \notin {"ok", "failed"}
    BY DEF Ended
  <2>3. dead \in SUBSET Jobs
    OBVIOUS
  <2> HIDE DEF dead
  <2> QED BY <2>1, <2>2, <2>3, FailLemma
<1>5. CASE UNCHANGED vars
  BY <1>5 DEF vars, Table!vars
<1>6. ASSUME NEW j \in Jobs, Begin(j) \/ Answer(j)  PROVE Table!Next
  BY <1>6, BeginMaps, AnswerMaps
<1>7. ASSUME NEW j \in Jobs, NEW m \in Months, Replace(j, m)  PROVE Table!Next
  BY <1>7, ReplaceMaps
<1> QED BY <1>1, <1>2, <1>3, <1>4, <1>5, <1>6, <1>7 DEF Next

\* Every behaviour of the store is one of the table: months change at once and
\* by whole jobs, and no concurrent change is lost.
THEOREM Refinement == ASSUME StoreAssumption PROVE Spec => ImplementsTable
<1>1. Init => Table!Init
  <2>1. Init => Outcome = [j \in Jobs |-> "new"] /\ Bars = {}
    BY DEF Init, Outcome, Ended, Bars
  <2> QED BY <2>1 DEF Init, Table!Init, Outcome, Ended, Bars
<1>2. IInv /\ [Next]_vars => [Table!Next]_(Table!vars)
  BY StepMaps
<1> QED BY <1>1, <1>2, InductiveInvariant, PTL DEF Spec, ImplementsTable, Table!Spec

-----------------------------------------------------------------------------
(***************************************************************************)
(* What a save has answered for stays stored.                              *)
(***************************************************************************)

\* A bar of the timestamp and timeframe k is in the file of its month.
Stored(k) == \E r \in file[MonthOf[k[1]]] : r.key = k

\* The months a save is done with have its bars, or later ones in their place.
DoneIsStored ==
    \A j \in Saves : \A k \in batch[j] :
        pc[j] \notin {"new", "failed"} /\ MonthOf[k[1]] \notin left[j] => Stored(k)

\* A save that has answered ok has the whole of its batch in the store.
OkIsStored == \A j \in Saves : pc[j] = "ok" => \A k \in batch[j] : Stored(k)

LEMMA BatchLemma ==
    ASSUME StoreAssumption, TypeOK, NEW j \in Saves, NEW k \in batch[j]
    PROVE  k \in Keys /\ MonthOf[k[1]] \in Months
<1>1. k \in Keys
  BY DEF TypeOK, StoreAssumption
<1> QED BY <1>1

\* What is written in place of a month has a bar wherever the month has one,
\* and wherever the save brings one.
LEMMA CoversLemma ==
    ASSUME StoreAssumption, IInv, NEW j \in Jobs, NEW m \in Months
    PROVE  /\ \A r \in file[m] : \E s \in Rewritten(j, m) : s.key = r.key
           /\ j \in Saves => \A k \in batch[j] :
                  MonthOf[k[1]] = m => \E s \in Rewritten(j, m) : s.key = k
<1>1. file[m] \subseteq Rows
  BY DEF IInv, TypeOK
<1>2. CASE j \in Saves
  <2> DEFINE new == Table!Fresh(j, batch[j], m)
  <2>1. new \subseteq Rows
    BY <1>2, FreshLemma DEF IInv
  <2>2. Rewritten(j, m) = Table!Upsert(file[m], new)
    BY <1>1, <1>2, <2>1, MergeLemma DEF Rewritten
  <2>3. ASSUME NEW k \in batch[j], MonthOf[k[1]] = m  PROVE \E s \in new : s.key = k
    <3>1. [key |-> k, by |-> j, label |-> j] \in new
      BY <2>3 DEF Table!Fresh
    <3> QED BY <3>1
  <2> HIDE DEF new
  <2> QED BY <1>2, <2>2, <2>3 DEF Table!Upsert
<1>3. CASE j \notin Saves
  <2>1. Rewritten(j, m) = {[r EXCEPT !.label = j] : r \in file[m]}
    BY <1>3 DEF Rewritten, Table!Relabelled
  <2>2. \A r \in file[m] : [r EXCEPT !.label = j].key = r.key
    BY <1>1
  <2> QED BY <1>3, <2>1, <2>2
<1> QED BY <1>2, <1>3

\* Only a rename changes a file.
LEMMA FileLemma ==
    ASSUME [Next]_vars
    PROVE  UNCHANGED file \/ \E j \in Jobs, m \in Months : Replace(j, m)
BY DEF Next, vars, Begin, Refused, Answer, TakeInner, TakeOuter, TimesOut, GivesUp, Read,
       Open, Fails, Crash

LEMMA StoredLemma ==
    ASSUME StoreAssumption, IInv, [Next]_vars, NEW k \in Keys, Stored(k)
    PROVE  Stored(k)'
<1>1. CASE UNCHANGED file
  BY <1>1 DEF Stored
<1>2. ASSUME NEW j \in Jobs, NEW m \in Months, Replace(j, m)
      PROVE  Stored(k)'
  <2>1. file' = [file EXCEPT ![m] = Rewritten(j, m)]
    BY <1>2, ReplaceLemma
  <2>2. \E s \in file'[MonthOf[k[1]]] : s.key = k
    <3>1. CASE MonthOf[k[1]] = m
      BY <2>1, <3>1, CoversLemma DEF Stored, IInv, TypeOK
    <3>2. CASE MonthOf[k[1]] # m
      BY <2>1, <3>2 DEF Stored, IInv, TypeOK
    <3> QED BY <3>1, <3>2
  <2> QED BY <2>2 DEF Stored
<1> QED BY <1>1, <1>2, FileLemma

\* A step that gives no save a new promise to keep.
LEMMA NoPromiseLemma ==
    ASSUME StoreAssumption, IInv, DoneIsStored, [Next]_vars, UNCHANGED batch,
           \A j \in Saves : pc'[j] \notin {"new", "failed"} =>
               pc[j] \notin {"new", "failed"} /\ left'[j] = left[j]
    PROVE  DoneIsStored'
<1> SUFFICES ASSUME NEW j \in Saves, NEW k \in batch[j],
                    pc'[j] \notin {"new", "failed"}, MonthOf[k[1]] \notin left'[j]
             PROVE  Stored(k)'
  BY DEF DoneIsStored
<1>1. Stored(k)
  BY DEF DoneIsStored
<1> QED BY <1>1, StoredLemma, BatchLemma DEF IInv

LEMMA BeginKeepsPromises ==
    ASSUME StoreAssumption, IInv, DoneIsStored, NEW j \in Jobs, Begin(j)
    PROVE  DoneIsStored'
<1> SUFFICES ASSUME NEW i \in Saves, NEW k \in batch[i],
                    pc'[i] \notin {"new", "failed"}, MonthOf[k[1]] \notin left'[i]
             PROVE  Stored(k)'
  BY DEF DoneIsStored, Begin
<1>1. i # j
  BY DEF Begin, IInv, TypeOK
<1>2. Stored(k)
  BY <1>1 DEF DoneIsStored, Begin, Goto, IInv, TypeOK
<1> QED BY <1>2 DEF Stored, Begin

LEMMA ReplaceKeepsPromises ==
    ASSUME StoreAssumption, IInv, DoneIsStored, NEW j \in Jobs, NEW m \in Months, Replace(j, m)
    PROVE  DoneIsStored'
<1> SUFFICES ASSUME NEW i \in Saves, NEW k \in batch[i],
                    pc'[i] \notin {"new", "failed"}, MonthOf[k[1]] \notin left'[i]
             PROVE  Stored(k)'
  BY DEF DoneIsStored, Replace
<1>1. k \in Keys /\ MonthOf[k[1]] \in Months
  BY BatchLemma DEF IInv
<1>2. CASE i = j /\ MonthOf[k[1]] = m
  <2>1. file' = [file EXCEPT ![m] = Rewritten(j, m)]
    BY ReplaceLemma
  <2>2. \E s \in file'[MonthOf[k[1]]] : s.key = k
    BY <1>2, <2>1, CoversLemma DEF IInv, TypeOK
  <2> QED BY <2>2 DEF Stored
<1>3. CASE ~(i = j /\ MonthOf[k[1]] = m)
  <2>1. pc[i] \notin {"new", "failed"} /\ MonthOf[k[1]] \notin left[i]
    BY <1>3 DEF Replace, Goto, IInv, TypeOK
  <2>2. Stored(k)
    BY <2>1 DEF DoneIsStored
  <2> QED BY <1>1, <2>2, StoredLemma DEF Next
<1> QED BY <1>2, <1>3

LEMMA PromiseLemma ==
    ASSUME StoreAssumption, IInv, DoneIsStored, [Next]_vars
    PROVE  DoneIsStored'
<1>1. ASSUME NEW j \in Jobs, Begin(j)  PROVE DoneIsStored'
  BY <1>1, BeginKeepsPromises
<1>2. ASSUME NEW j \in Jobs, Refused(j) \/ Answer(j)  PROVE DoneIsStored'
  <2>1. /\ UNCHANGED batch
        /\ \A i \in Saves : pc'[i] \notin {"new", "failed"} =>
               pc[i] \notin {"new", "failed"} /\ left'[i] = left[i]
    BY <1>2 DEF Refused, Answer, Goto, IInv, TypeOK
  <2> QED BY <2>1, NoPromiseLemma
<1>3. ASSUME NEW j \in Jobs, NEW m \in Months,
             TakeInner(j, m) \/ TakeOuter(j, m) \/ Read(j, m) \/ Open(j, m)
      PROVE  DoneIsStored'
  <2>1. /\ UNCHANGED batch
        /\ \A i \in Saves : pc'[i] \notin {"new", "failed"} =>
               pc[i] \notin {"new", "failed"} /\ left'[i] = left[i]
    BY <1>3 DEF TakeInner, TakeOuter, Read, Open, Goto, IInv, TypeOK
  <2> QED BY <2>1, NoPromiseLemma
<1>4. ASSUME NEW j \in Jobs, NEW m \in Months, TimesOut(j, m) \/ Fails(j, m)
      PROVE  DoneIsStored'
  <2>1. /\ UNCHANGED batch
        /\ \A i \in Saves : pc'[i] \notin {"new", "failed"} =>
               pc[i] \notin {"new", "failed"} /\ left'[i] = left[i]
    BY <1>4 DEF TimesOut, Fails, GivesUp, Goto, IInv, TypeOK
  <2> QED BY <2>1, NoPromiseLemma
<1>5. ASSUME NEW j \in Jobs, NEW m \in Months, Replace(j, m)  PROVE DoneIsStored'
  BY <1>5, ReplaceKeepsPromises
<1>6. ASSUME NEW p, Crash(p)  PROVE DoneIsStored'
  <2>1. /\ UNCHANGED batch
        /\ \A i \in Saves : pc'[i] \notin {"new", "failed"} =>
               pc[i] \notin {"new", "failed"} /\ left'[i] = left[i]
    BY <1>6 DEF Crash, IInv, TypeOK
  <2> QED BY <2>1, NoPromiseLemma
<1>7. CASE UNCHANGED vars
  BY <1>7 DEF vars, DoneIsStored, Stored
<1> QED BY <1>1, <1>2, <1>3, <1>4, <1>5, <1>6, <1>7 DEF Next

\* A job that has answered ok has no month left.
OkIsDone == \A j \in Jobs : pc[j] = "ok" => left[j] = {}

LEMMA OkLemma ==
    ASSUME StoreAssumption, IInv, OkIsDone, [Next]_vars
    PROVE  OkIsDone'
<1>1. ASSUME NEW j \in Jobs, Begin(j) \/ Refused(j) \/ Answer(j)  PROVE OkIsDone'
  BY <1>1 DEF Begin, Refused, Answer, Goto, IInv, TypeOK, OkIsDone
<1>2. ASSUME NEW j \in Jobs, NEW m \in Months,
             TakeInner(j, m) \/ TakeOuter(j, m) \/ Read(j, m) \/ Open(j, m)
      PROVE  OkIsDone'
  BY <1>2 DEF TakeInner, TakeOuter, Read, Open, Goto, IInv, TypeOK, OkIsDone
<1>3. ASSUME NEW j \in Jobs, NEW m \in Months,
             TimesOut(j, m) \/ Fails(j, m) \/ Replace(j, m)
      PROVE  OkIsDone'
  BY <1>3 DEF TimesOut, Fails, GivesUp, Replace, Goto, IInv, TypeOK, OkIsDone
<1>4. ASSUME NEW p, Crash(p)  PROVE OkIsDone'
  BY <1>4 DEF Crash, IInv, TypeOK, OkIsDone
<1>5. CASE UNCHANGED vars
  BY <1>5 DEF vars, OkIsDone
<1> QED BY <1>1, <1>2, <1>3, <1>4, <1>5 DEF Next

\* A save that has answered ok finds all its bars stored, then and ever after:
\* no save, tagging, failure or crash beside it or after it takes the bar of a
\* timestamp and timeframe away (it may put a newer one in its place).
THEOREM Durable == ASSUME StoreAssumption PROVE Spec => []OkIsStored
<1>1. Init => DoneIsStored /\ OkIsDone
  BY DEF Init, DoneIsStored, OkIsDone
<1>2. IInv /\ DoneIsStored /\ OkIsDone /\ [Next]_vars => (DoneIsStored /\ OkIsDone)'
  BY PromiseLemma, OkLemma
<1>3. DoneIsStored /\ OkIsDone => OkIsStored
  <2> SUFFICES ASSUME DoneIsStored, OkIsDone, NEW j \in Saves, pc[j] = "ok", NEW k \in batch[j]
               PROVE  Stored(k)
    BY DEF OkIsStored
  <2>1. left[j] = {}
    BY DEF OkIsDone
  <2> QED BY <2>1 DEF DoneIsStored
<1> QED BY <1>1, <1>2, <1>3, InductiveInvariant, PTL DEF Spec
=============================================================================
