--------------------------- MODULE BarFeed_proofs ---------------------------
(***************************************************************************)
(* Proofs about BarFeed, for every number of symbols, page and window      *)
(* size, history cap and number of candles.                                *)
(***************************************************************************)
EXTENDS BarFeed, FiniteSetTheorems, SequenceTheorems, WellFoundedInduction, TLAPS

-----------------------------------------------------------------------------
(***************************************************************************)
(* Sets of candles have an oldest and a newest member.                     *)
(***************************************************************************)

LEMMA SmallestNumber ==
    ASSUME NEW S \in SUBSET Nat, S # {}
    PROVE  \E m \in S : \A k \in S : m <= k
<1>1. IsWellFoundedOn(OpToRel(<, Nat), Nat)
  BY NatLessThanWellFounded
<1>2. PICK m \in S : \A k \in S : ~ (<<k, m>> \in OpToRel(<, Nat))
  BY <1>1, WFMin
<1>3. \A k \in S : ~ (k < m)
  BY <1>2 DEF OpToRel
<1> QED BY <1>3

LEMMA OldestLemma ==
    ASSUME NEW S \in SUBSET Nat, S # {}
    PROVE  Oldest(S) \in S /\ \A d \in S : Oldest(S) <= d
BY SmallestNumber DEF Oldest

LEMMA NewestLemma ==
    ASSUME NEW n \in Nat, NEW S \in SUBSET (0..n), S # {}
    PROVE  Newest(S) \in S /\ \A d \in S : Newest(S) >= d
<1> DEFINE T == {n - d : d \in S}
<1>1. T \in SUBSET Nat /\ T # {}
  <2>1. \A d \in S : n - d \in Nat
    OBVIOUS
  <2>2. T \subseteq Nat
    BY <2>1
  <2>3. \E d \in S : n - d \in T
    OBVIOUS
  <2> QED BY <2>2, <2>3
<1>2. PICK m \in T : \A k \in T : m <= k
  BY <1>1, SmallestNumber
<1>3. PICK c \in S : m = n - c
  BY <1>2
<1>4. \A d \in S : c >= d
  <2> TAKE d \in S
  <2>1. n - d \in T
    OBVIOUS
  <2>2. n - c <= n - d
    BY <2>1, <1>2, <1>3
  <2> QED BY <2>2
<1> QED BY <1>4 DEF Newest

\* A full page is not empty.
LEMMA FullPage ==
    ASSUME FeedAssumption, NEW n \in Nat, NEW got \in SUBSET (1..n), Cardinality(got) = Page
    PROVE  Newest(got) \in got
<1>1. got # {}
  <2> SUFFICES ASSUME got = {} PROVE FALSE
    OBVIOUS
  <2>1. Cardinality(got) = 0
    BY FS_EmptySet
  <2> QED BY <2>1 DEF FeedAssumption
<1> QED BY <1>1, NewestLemma

-----------------------------------------------------------------------------
(***************************************************************************)
(* The inductive invariant, in named parts.                                *)
(***************************************************************************)

\* As long as no bar was older than the one before it, the history is sorted.
HistorySorted ==
    inOrder => \A i, j \in 1..Len(equity) : i <= j => equity[i] <= equity[j]

\* What is left to hand on is what the response has beyond last_timestamps.
RowsAreTheRest ==
    /\ pc \in {"rows", "bar"} => rows = {c \in answer : c > last[turn]}
    /\ pc = "bar" => rows # {}
    /\ pc \in {"connect", "fetch", "rest"} => rows = {} /\ completed = {}

IInv ==
    /\ TypeOK
    /\ HistorySorted
    /\ RowsAreTheRest
    /\ WeeklyBaseIsFirst

-----------------------------------------------------------------------------
(***************************************************************************)
(* The equity history and the pointer into it.                             *)
(***************************************************************************)

\* Where the loop of _weekly_base_equity ends.
LEMMA WeeklyBaseLemma ==
    ASSUME FeedAssumption, NEW n \in Nat, NEW h \in Seq(1..n), NEW c \in 1..n,
           h # <<>>, h[Len(h)] = c, NEW from \in 1..Len(h)
    PROVE  /\ WeeklyBase(h, from, c) \in from..Len(h)
           /\ h[WeeklyBase(h, from, c)] >= c - Week
           /\ \A k \in from..(WeeklyBase(h, from, c) - 1) : h[k] < c - Week
<1> DEFINE T == {i \in from..(Len(h) + 1) : i <= Len(h) => h[i] >= c - Week}
<1> USE DEF FeedAssumption
<1>1. Len(h) \in Nat /\ \A i \in 1..Len(h) : h[i] \in 1..n
  OBVIOUS
<1>2. Len(h) \in T
  BY <1>1
<1>3. PICK m \in T : \A k \in T : m <= k
  <2>1. T \in SUBSET Nat
    BY <1>1
  <2> QED BY <1>2, <2>1, SmallestNumber
<1>4. m \in from..Len(h)
  BY <1>1, <1>2, <1>3
<1>5. \A k \in from..(m - 1) : h[k] < c - Week
  <2> TAKE k \in from..(m - 1)
  <2>1. k \notin T
    BY <1>1, <1>3, <1>4
  <2>2. k \in 1..Len(h) /\ k \in from..(Len(h) + 1)
    BY <1>1, <1>4
  <2> QED BY <1>1, <2>1, <2>2
<1>6. \E i \in from..(Len(h) + 1) :
          /\ i <= Len(h) => h[i] >= c - Week
          /\ \A k \in from..(i - 1) : h[k] < c - Week
  BY <1>3, <1>5
<1> DEFINE w == WeeklyBase(h, from, c)
<1>7. /\ w \in from..(Len(h) + 1)
      /\ w <= Len(h) => h[w] >= c - Week
      /\ \A k \in from..(w - 1) : h[k] < c - Week
  BY <1>6 DEF WeeklyBase
<1>8. w # Len(h) + 1
  <2> SUFFICES ASSUME w = Len(h) + 1 PROVE FALSE
    OBVIOUS
  <2>1. h[Len(h)] < c - Week
    BY <1>1, <1>7
  <2> QED BY <2>1
<1> HIDE DEF w
<1>9. w \in from..Len(h)
  <2>1. w \in Int /\ from <= w /\ w <= Len(h) + 1 /\ w # Len(h) + 1
    BY <1>1, <1>7, <1>8
  <2>2. Len(h) \in Int /\ from \in Int
    BY <1>1
  <2>3. w <= Len(h)
    BY <2>1, <2>2
  <2> QED BY <2>1, <2>2, <2>3
<1>10. w <= Len(h)
  BY <1>1, <1>9
<1>11. h[w] >= c - Week
  BY <1>7, <1>10
<1> QED BY <1>7, <1>9, <1>11 DEF w

\* The history after a bar, entry by entry.
LEMMA RecordedLemma ==
    ASSUME FeedAssumption, TypeOK, NEW c \in 1..now
    PROVE  /\ Recorded(c) \in Seq(1..now)
           /\ Recorded(c) # <<>>
           /\ Len(Recorded(c)) =
                IF Len(equity) < HistoryMax THEN Len(equity) + 1 ELSE Len(equity)
           /\ Recorded(c)[Len(Recorded(c))] = c
           /\ \A i \in 1..(Len(Recorded(c)) - 1) :
                IF Len(equity) < HistoryMax
                  THEN i \in 1..Len(equity) /\ Recorded(c)[i] = equity[i]
                  ELSE i + 1 \in 1..Len(equity) /\ Recorded(c)[i] = equity[i + 1]
<1> USE DEF FeedAssumption, TypeOK
<1>1. Append(equity, c) \in Seq(1..now) /\ Len(Append(equity, c)) = Len(equity) + 1
  OBVIOUS
<1>2. \A i \in 1..(Len(equity) + 1) :
          Append(equity, c)[i] = IF i <= Len(equity) THEN equity[i] ELSE c
  OBVIOUS
<1>3. CASE Len(equity) < HistoryMax
  <2>1. Recorded(c) = Append(equity, c)
    BY <1>3 DEF Recorded
  <2>2. Len(Recorded(c)) = Len(equity) + 1
    BY <2>1, <1>1
  <2>3. Recorded(c) # <<>> /\ Len(equity) \in Nat
    BY <2>2
  <2> QED BY <1>1, <1>2, <1>3, <2>1, <2>2, <2>3
<1>4. CASE ~ (Len(equity) < HistoryMax)
  <2>1. Recorded(c) = Tail(Append(equity, c))
    BY <1>4 DEF Recorded
  <2>2. Len(equity) = HistoryMax /\ Len(equity) > 0
    BY <1>4
  <2>3. /\ Tail(Append(equity, c)) \in Seq(1..now)
        /\ Len(Tail(Append(equity, c))) = Len(equity)
        /\ \A i \in 1..Len(equity) :
              Tail(Append(equity, c))[i] = Append(equity, c)[i + 1]
    <3>1. Append(equity, c) # <<>>
      BY <1>1, <2>2
    <3> QED BY <1>1, <2>2, <3>1, HeadTailProperties
  <2>4. Recorded(c) # <<>>
    BY <2>1, <2>2, <2>3
  <2> QED BY <1>2, <1>4, <2>1, <2>2, <2>3, <2>4
<1> QED BY <1>3, <1>4

\* Where the pointer stands before it moves on.
LEMMA ShiftedLemma ==
    ASSUME FeedAssumption, TypeOK, NEW c \in 1..now
    PROVE  Shifted \in 1..Len(Recorded(c))
<1>1. /\ base \in 1..(Len(equity) + 1)
      /\ Len(equity) \in Nat /\ Len(equity) <= HistoryMax /\ HistoryMax \in Nat \ {0}
  BY DEF TypeOK, FeedAssumption
<1>2. Len(Recorded(c)) = IF Len(equity) < HistoryMax THEN Len(equity) + 1 ELSE Len(equity)
  BY RecordedLemma
<1> QED BY <1>1, <1>2 DEF Shifted

\* A sorted history q with pointer b becomes h with pointer f: without its
\* first gone entries, and with c behind them.
Carried(n, q, h, c, W, gone, b, f) ==
    /\ n \in Nat /\ W \in Nat /\ gone \in {0, 1}
    /\ q \in Seq(1..n) /\ h \in Seq(1..n) /\ c \in 1..n
    /\ b \in 1..(Len(q) + 1) /\ f \in 1..Len(h)
    /\ Len(h) = Len(q) + 1 - gone
    /\ h[Len(h)] = c
    /\ \A i \in 1..(Len(h) - 1) : i + gone \in 1..Len(q) /\ h[i] = q[i + gone]
    /\ f = IF b > gone THEN b - gone ELSE b
    /\ \A i, j \in 1..Len(q) : i <= j => q[i] <= q[j]
    /\ Len(q) > 0 => /\ c >= q[Len(q)]
                     /\ b \in 1..Len(q)
                     /\ \A i \in 1..(b - 1) : q[i] < q[Len(q)] - W

LEMMA PointerLemma ==
    ASSUME NEW n, NEW q, NEW h, NEW c, NEW W, NEW gone, NEW b, NEW f,
           Carried(n, q, h, c, W, gone, b, f)
    PROVE  /\ \A i, j \in 1..Len(h) : i <= j => h[i] <= h[j]
           /\ \A k \in 1..(f - 1) : h[k] < c - W
<1>1. /\ n \in Nat /\ W \in Nat /\ gone \in {0, 1} /\ c \in 1..n
      /\ Len(q) \in Nat /\ Len(h) \in Nat /\ Len(h) > 0
      /\ b \in 1..(Len(q) + 1) /\ f \in 1..Len(h)
      /\ f = IF b > gone THEN b - gone ELSE b
      /\ Len(h) = Len(q) + 1 - gone
      /\ h[Len(h)] = c
  BY DEF Carried
<1>2. /\ \A i \in 1..Len(q) : q[i] \in 1..n
      /\ \A i \in 1..Len(h) : h[i] \in 1..n
  BY ElementOfSeq DEF Carried
<1>3. \A i \in 1..(Len(h) - 1) : i + gone \in 1..Len(q) /\ h[i] = q[i + gone]
  BY DEF Carried
<1>4. \A i, j \in 1..Len(q) : i <= j => q[i] <= q[j]
  BY DEF Carried
<1>5. Len(q) > 0 => /\ c >= q[Len(q)]
                    /\ \A i \in 1..(b - 1) : q[i] < q[Len(q)] - W
  BY DEF Carried
<1>6. ASSUME NEW i \in 1..(Len(h) - 1) PROVE h[i] <= c
  <2>1. i + gone \in 1..Len(q) /\ h[i] = q[i + gone]
    BY <1>3
  <2>2. Len(q) \in 1..Len(q) /\ i + gone <= Len(q)
    BY <1>1, <2>1
  <2>3. q[i + gone] <= q[Len(q)]
    BY <1>4, <2>1, <2>2
  <2>4. q[Len(q)] <= c
    BY <1>1, <1>2, <1>5, <2>2
  <2>5. q[i + gone] \in 1..n /\ q[Len(q)] \in 1..n
    BY <1>2, <2>1, <2>2
  <2> QED BY <1>1, <2>1, <2>3, <2>4, <2>5
<1>7. ASSUME NEW i \in 1..Len(h), NEW j \in 1..Len(h), i <= j PROVE h[i] <= h[j]
  <2>1. CASE j < Len(h)
    <3>1. i \in 1..(Len(h) - 1) /\ j \in 1..(Len(h) - 1)
      BY <1>1, <1>7, <2>1
    <3>2. /\ i + gone \in 1..Len(q) /\ h[i] = q[i + gone]
          /\ j + gone \in 1..Len(q) /\ h[j] = q[j + gone]
      BY <1>3, <3>1
    <3>3. i + gone <= j + gone
      BY <1>1, <1>7
    <3> QED BY <1>4, <3>2, <3>3
  <2>2. CASE j = Len(h) /\ i < j
    <3>1. i \in 1..(Len(h) - 1)
      BY <1>1, <1>7, <2>2
    <3> QED BY <3>1, <1>1, <1>6, <2>2
  <2>3. CASE i = j
    BY <1>1, <1>2, <2>3
  <2> QED BY <1>1, <1>7, <2>1, <2>2, <2>3
<1>8. ASSUME NEW k \in 1..(f - 1) PROVE h[k] < c - W
  <2>1. k + gone < b /\ k \in 1..(Len(h) - 1)
    BY <1>1
  <2>2. k + gone \in 1..Len(q) /\ h[k] = q[k + gone]
    BY <1>3, <2>1
  <2>3. Len(q) > 0 /\ k + gone \in 1..(b - 1) /\ Len(q) \in 1..Len(q)
    <3>1. Len(q) \in Nat /\ b \in Nat
      BY <1>1
    <3>2. k + gone \in Nat /\ 1 <= k + gone /\ k + gone <= Len(q)
      BY <2>2, <3>1
    <3>3. Len(q) > 0 /\ Len(q) \in 1..Len(q)
      BY <3>1, <3>2
    <3>4. k + gone \in 1..(b - 1)
      BY <2>1, <3>1, <3>2
    <3> QED BY <3>3, <3>4
  <2>4. q[k + gone] < q[Len(q)] - W /\ q[Len(q)] <= c
    BY <1>1, <1>2, <1>5, <2>3
  <2>5. q[k + gone] \in 1..n /\ q[Len(q)] \in 1..n
    BY <1>2, <2>2, <2>3
  <2> DEFINE x == q[k + gone]
  <2> DEFINE y == q[Len(q)]
  <2> HIDE DEF x, y
  <2>6. x \in Int /\ y \in Int /\ x < y - W /\ y <= c /\ c \in Int /\ W \in Int
    BY <1>1, <2>4, <2>5 DEF x, y
  <2>7. x < c - W
    BY <2>6
  <2> QED BY <2>2, <2>7 DEF x
<1> QED BY <1>7, <1>8

\* A bar keeps the history sorted and the pointer right.
LEMMA RecordsLemma ==
    ASSUME FeedAssumption, IInv, NEW c \in 1..now, Records(c), now' = now
    PROVE  /\ equity' \in Seq(1..now) /\ Len(equity') <= HistoryMax
           /\ base' \in 1..(Len(equity') + 1)
           /\ day' \in {-1} \cup {DayOf(d) : d \in 1..now}
           /\ anchored' \subseteq {DayOf(d) : d \in 1..now}
           /\ inOrder' \in BOOLEAN
           /\ HistorySorted'
           /\ WeeklyBaseIsFirst'
<1> DEFINE h == Recorded(c)
<1> DEFINE f == Shifted
<1> DEFINE w == WeeklyBase(h, f, c)
<1> DEFINE gone == IF Len(equity) < HistoryMax THEN 0 ELSE 1
<1>1. /\ h \in Seq(1..now) /\ h # <<>>
      /\ h[Len(h)] = c
      /\ Len(h) = IF Len(equity) < HistoryMax THEN Len(equity) + 1 ELSE Len(equity)
      /\ \A i \in 1..(Len(h) - 1) :
           IF Len(equity) < HistoryMax
             THEN i \in 1..Len(equity) /\ h[i] = equity[i]
             ELSE i + 1 \in 1..Len(equity) /\ h[i] = equity[i + 1]
  BY RecordedLemma DEF IInv
<1>2. f \in 1..Len(h)
  BY ShiftedLemma DEF IInv
<1>3. /\ equity \in Seq(1..now) /\ Len(equity) <= HistoryMax
      /\ base \in 1..(Len(equity) + 1) /\ now \in Nat
      /\ anchored \subseteq {DayOf(d) : d \in 1..now}
      /\ HistoryMax \in Nat \ {0} /\ Week \in Nat
  BY DEF IInv, TypeOK, FeedAssumption, Candles
<1>4. /\ equity' = h /\ base' = w
      /\ day' = DayOf(c) /\ anchored' = anchored \cup {DayOf(c)}
  BY DEF Records
<1>5. inOrder' \in BOOLEAN /\ (inOrder' => inOrder /\ (equity = <<>> \/ c >= equity[Len(equity)]))
  BY DEF Records
<1>6. f = IF base > gone THEN base - gone ELSE base
  BY <1>3 DEF Shifted
<1>7. /\ gone \in {0, 1}
      /\ Len(h) = Len(equity) + 1 - gone
      /\ \A i \in 1..(Len(h) - 1) : i + gone \in 1..Len(equity) /\ h[i] = equity[i + gone]
  <2>1. CASE Len(equity) < HistoryMax
    BY <2>1, <1>1, <1>3
  <2>2. CASE ~ (Len(equity) < HistoryMax)
    BY <2>2, <1>1, <1>3
  <2> QED BY <2>1, <2>2
<1> HIDE DEF h, f, w, gone
<1>8. /\ w \in f..Len(h)
      /\ h[w] >= c - Week
      /\ \A k \in f..(w - 1) : h[k] < c - Week
  BY <1>1, <1>2, <1>3, WeeklyBaseLemma DEF w
<1>9. Len(h) \in Nat /\ Len(h) <= HistoryMax
  BY <1>1, <1>3
<1>10. w \in 1..Len(h)
  BY <1>2, <1>8, <1>9
<1>11. ASSUME inOrder'
       PROVE  /\ \A i, j \in 1..Len(h) : i <= j => h[i] <= h[j]
              /\ \A k \in 1..(f - 1) : h[k] < c - Week
  <2>1. inOrder /\ (equity = <<>> \/ c >= equity[Len(equity)])
    BY <1>5, <1>11
  <2>2. \A i, j \in 1..Len(equity) : i <= j => equity[i] <= equity[j]
    BY <2>1 DEF IInv, HistorySorted
  <2>3. Len(equity) > 0 =>
          /\ c >= equity[Len(equity)]
          /\ base \in 1..Len(equity)
          /\ \A i \in 1..(base - 1) : equity[i] < equity[Len(equity)] - Week
    <3> SUFFICES ASSUME Len(equity) > 0
                 PROVE  /\ c >= equity[Len(equity)]
                        /\ base \in 1..Len(equity)
                        /\ \A i \in 1..(base - 1) : equity[i] < equity[Len(equity)] - Week
      OBVIOUS
    <3>1. equity # <<>>
      OBVIOUS
    <3>2. DOMAIN equity = 1..Len(equity)
      BY <1>3
    <3> QED BY <2>1, <3>1, <3>2 DEF IInv, WeeklyBaseIsFirst
  <2>4. /\ now \in Nat /\ equity \in Seq(1..now) /\ h \in Seq(1..now) /\ c \in 1..now
        /\ Week \in Nat /\ gone \in {0, 1}
        /\ base \in 1..(Len(equity) + 1) /\ f \in 1..Len(h)
        /\ Len(h) = Len(equity) + 1 - gone /\ h[Len(h)] = c
        /\ f = IF base > gone THEN base - gone ELSE base
    BY <1>1, <1>2, <1>3, <1>6, <1>7
  <2>5. \A i \in 1..(Len(h) - 1) : i + gone \in 1..Len(equity) /\ h[i] = equity[i + gone]
    BY <1>7
  <2>6. Carried(now, equity, h, c, Week, gone, base, f)
    BY <2>2, <2>3, <2>4, <2>5 DEF Carried
  <2> QED BY <2>6, PointerLemma
<1>12. HistorySorted'
  BY <1>4, <1>11 DEF HistorySorted
<1>13. WeeklyBaseIsFirst'
  <2> SUFFICES ASSUME inOrder'
               PROVE  /\ w \in DOMAIN h
                      /\ h[w] >= h[Len(h)] - Week
                      /\ \A i \in 1..(w - 1) : h[i] < h[Len(h)] - Week
    BY <1>4 DEF WeeklyBaseIsFirst
  <2>1. ASSUME NEW i \in 1..(w - 1) PROVE h[i] < c - Week
    <3>1. w \in Nat /\ f \in Nat /\ i \in Nat /\ 1 <= i /\ i <= w - 1
      BY <1>2, <1>9, <1>10, <2>1
    <3>2. CASE i < f
      BY <3>1, <3>2, <1>11
    <3>3. CASE f <= i
      <4>1. i \in f..(w - 1)
        BY <3>1, <3>3
      <4> QED BY <4>1, <1>8
    <3> QED BY <3>1, <3>2, <3>3
  <2>2. DOMAIN h = 1..Len(h)
    BY <1>1
  <2> QED BY <1>1, <1>8, <1>10, <2>1, <2>2
<1>14. day' \in {DayOf(d) : d \in 1..now} /\ anchored' \subseteq {DayOf(d) : d \in 1..now}
  BY <1>3, <1>4
<1>15. base' \in 1..(Len(equity') + 1)
  BY <1>4, <1>9, <1>10
<1> QED BY <1>1, <1>4, <1>5, <1>9, <1>12, <1>13, <1>14, <1>15

-----------------------------------------------------------------------------
(***************************************************************************)
(* The steps.                                                              *)
(***************************************************************************)

LEMMA InitInvariant ==
    ASSUME FeedAssumption, Init
    PROVE  IInv
<1> USE DEF FeedAssumption, Init
<1>1. TypeOK
  BY DEF TypeOK, Candles
<1>2. HistorySorted
  BY DEF HistorySorted
<1>3. RowsAreTheRest
  BY DEF RowsAreTheRest
<1>4. WeeklyBaseIsFirst
  BY DEF WeeklyBaseIsFirst
<1> QED BY <1>1, <1>2, <1>3, <1>4 DEF IInv

\* A step that leaves the losses alone keeps what is said of them.
LEMMA LossesLemma ==
    ASSUME IInv, UNCHANGED losses
    PROVE  HistorySorted' /\ WeeklyBaseIsFirst'
BY DEF IInv, HistorySorted, WeeklyBaseIsFirst, losses

LEMMA NextTurnLemma ==
    ASSUME FeedAssumption, IInv, NextTurn, UNCHANGED <<replay, now, state, last, losses>>
    PROVE  IInv'
<1>1. turn' \in 1..Symbols /\ pc' \in {"fetch", "rest"}
  BY DEF IInv, TypeOK, NextTurn, Rotation, FeedAssumption
<1>3. since' \in 0..now /\ answer' = {} /\ rows' = {} /\ completed' = {}
  BY DEF IInv, TypeOK, NextTurn, Candles
<1>4. TypeOK'
  BY <1>1, <1>3 DEF IInv, TypeOK, losses
<1>2. RowsAreTheRest'
  BY DEF NextTurn, RowsAreTheRest
<1> QED BY <1>2, <1>4, LossesLemma DEF IInv

LEMMA OpensLemma ==
    ASSUME FeedAssumption, IInv, Opens
    PROVE  IInv'
<1>0. now \in Nat /\ now' = now + 1 /\ now' \in Candles /\ 1..now \subseteq 1..now' /\ 0..now \subseteq 0..now'
  BY DEF IInv, TypeOK, Opens, FeedAssumption, Candles
<1>1. equity' \in Seq(1..now')
  <2>1. equity \in Seq(1..now)
    BY DEF IInv, TypeOK
  <2> QED BY <1>0, <2>1 DEF Opens, losses
<1>2. last' \in [1..Symbols -> 0..now']
  BY <1>0 DEF IInv, TypeOK, Opens
<1>3. /\ day' \in {-1} \cup {DayOf(c) : c \in 1..now'}
      /\ anchored' \subseteq {DayOf(c) : c \in 1..now'}
  BY <1>0 DEF IInv, TypeOK, Opens, losses
<1>4. TypeOK'
  BY <1>0, <1>1, <1>2, <1>3 DEF IInv, TypeOK, Opens, losses, fetch
<1>5. RowsAreTheRest'
  BY DEF IInv, RowsAreTheRest, Opens, fetch
<1> QED BY <1>4, <1>5, LossesLemma DEF IInv, Opens

LEMMA FetchPageLemma ==
    ASSUME FeedAssumption, IInv, NEW got \in SUBSET PageFrom(since), FetchPage(got)
    PROVE  IInv'
<1>1. got \subseteq 1..now /\ now \in Nat
  BY DEF PageFrom, IInv, TypeOK, Candles
<1>2. Cardinality(got) = Page => Newest(got) \in 0..now
  <2> SUFFICES ASSUME Cardinality(got) = Page PROVE Newest(got) \in 0..now
    OBVIOUS
  <2>1. Newest(got) \in got
    BY <1>1, FullPage
  <2>2. Newest(got) \in 1..now
    BY <1>1, <2>1
  <2> QED BY <1>1, <2>2
<1>3. rows = {} /\ completed = {} /\ pc = "fetch"
  BY DEF IInv, RowsAreTheRest, FetchPage
<1>4. TypeOK'
  BY <1>1, <1>2, <1>3 DEF IInv, TypeOK, FetchPage, losses
<1>5. RowsAreTheRest'
  BY <1>3 DEF RowsAreTheRest, FetchPage
<1> QED BY <1>4, <1>5, LossesLemma DEF IInv, FetchPage

LEMMA QueryLemma ==
    ASSUME FeedAssumption, IInv, Query
    PROVE  IInv'
<1>1. completed = {}
  BY DEF IInv, RowsAreTheRest, Query
<1>2. TypeOK'
  BY <1>1 DEF IInv, TypeOK, Query, losses
<1>3. RowsAreTheRest'
  BY DEF RowsAreTheRest, Query
<1> QED BY <1>2, <1>3, LossesLemma DEF IInv, Query

\* The oldest row is handed on: the others are newer.
LEMMA HandedOnLemma ==
    ASSUME FeedAssumption, IInv, pc \in {"rows", "bar"}, rows # {}, HandedOn(Oldest(rows)),
           pc' = "rows", UNCHANGED <<now, turn, answer>>
    PROVE  /\ Oldest(rows) \in rows
           /\ last' \in [1..Symbols -> 0..now]
           /\ rows' \subseteq answer
           /\ RowsAreTheRest'
           /\ \A c \in answer : last[turn] < c /\ c <= last'[turn] => c = Oldest(rows)
<1>1. now \in Nat /\ answer \subseteq 1..now /\ turn \in 1..Symbols /\ last \in [1..Symbols -> 0..now]
  BY DEF IInv, TypeOK, Candles
<1>2. rows = {c \in answer : c > last[turn]}
  BY DEF IInv, RowsAreTheRest
<1>3. rows \in SUBSET Nat
  <2>1. 1..now \subseteq Nat /\ rows \subseteq answer
    BY <1>1, <1>2
  <2> QED BY <1>1, <2>1
<1> DEFINE o == Oldest(rows)
<1>4. o \in rows /\ \A d \in rows : o <= d
  BY <1>3, OldestLemma
<1> HIDE DEF o
<1>5. last' = [last EXCEPT ![turn] = o] /\ rows' = rows \ {o}
  BY DEF HandedOn, o
<1>6. last'[turn] = o /\ last' \in [1..Symbols -> 0..now]
  BY <1>1, <1>2, <1>4, <1>5
<1>7. \A c \in answer : last[turn] < c /\ c <= o => c = o
  <2> SUFFICES ASSUME NEW c \in answer, last[turn] < c, c <= o PROVE c = o
    OBVIOUS
  <2>1. c \in rows /\ c \in Nat /\ o \in Nat
    BY <1>1, <1>2, <1>3, <1>4
  <2>2. o <= c
    BY <1>4, <2>1
  <2> QED BY <2>1, <2>2
<1>8. rows' = {c \in answer : c > o}
  <2>1. ASSUME NEW c \in rows' PROVE c \in answer /\ c > o
    BY <2>1, <1>2, <1>3, <1>4, <1>5
  <2>2. ASSUME NEW c \in answer, c > o PROVE c \in rows'
    <3>1. c \in Nat /\ o \in Nat /\ last[turn] \in Nat /\ o > last[turn]
      BY <1>1, <1>2, <1>3, <1>4
    <3> QED BY <2>2, <3>1, <1>2, <1>5
  <2> QED BY <2>1, <2>2
<1>9. RowsAreTheRest'
  BY <1>6, <1>8 DEF RowsAreTheRest
<1> QED BY <1>2, <1>4, <1>5, <1>6, <1>7, <1>9 DEF o

\* What BarBegins and BarBreaksDrawdown record.
LEMMA RecordedBarLemma ==
    ASSUME FeedAssumption, IInv, rows # {}, Records(Oldest(rows)), now' = now
    PROVE  /\ equity' \in Seq(1..now) /\ Len(equity') <= HistoryMax
           /\ base' \in 1..(Len(equity') + 1)
           /\ day' \in {-1} \cup {DayOf(d) : d \in 1..now}
           /\ anchored' \subseteq {DayOf(d) : d \in 1..now}
           /\ inOrder' \in BOOLEAN
           /\ HistorySorted'
           /\ WeeklyBaseIsFirst'
<1>1. rows \in SUBSET Nat /\ rows \subseteq 1..now
  BY DEF IInv, TypeOK, Candles
<1>2. Oldest(rows) \in 1..now
  BY <1>1, OldestLemma
<1> QED BY <1>2, RecordsLemma

LEMMA BarBeginsLemma ==
    ASSUME FeedAssumption, IInv, BarBegins
    PROVE  IInv'
<1>1. TypeOK' /\ HistorySorted' /\ WeeklyBaseIsFirst'
  BY RecordedBarLemma DEF IInv, TypeOK, BarBegins, fetch
<1>2. RowsAreTheRest'
  BY DEF IInv, RowsAreTheRest, BarBegins, fetch
<1> QED BY <1>1, <1>2 DEF IInv

LEMMA BarBreaksDrawdownLemma ==
    ASSUME FeedAssumption, IInv, BarBreaksDrawdown
    PROVE  IInv'
<1>1. /\ Oldest(rows) \in rows
      /\ last' \in [1..Symbols -> 0..now]
      /\ rows' \subseteq answer
      /\ RowsAreTheRest'
  BY HandedOnLemma DEF BarBreaksDrawdown
<1>2. TypeOK' /\ HistorySorted' /\ WeeklyBaseIsFirst'
  BY <1>1, RecordedBarLemma DEF IInv, TypeOK, BarBreaksDrawdown
<1> QED BY <1>1, <1>2 DEF IInv

LEMMA BarEndsLemma ==
    ASSUME FeedAssumption, IInv, BarEnds
    PROVE  IInv'
<1>0. rows # {}
  BY DEF IInv, RowsAreTheRest, BarEnds
<1>1. /\ Oldest(rows) \in rows
      /\ last' \in [1..Symbols -> 0..now]
      /\ rows' \subseteq answer
      /\ RowsAreTheRest'
  BY <1>0, HandedOnLemma DEF BarEnds
<1>2. TypeOK'
  BY <1>1 DEF IInv, TypeOK, BarEnds, losses
<1> QED BY <1>1, <1>2, LossesLemma DEF IInv, BarEnds

LEMMA BarIgnoredLemma ==
    ASSUME FeedAssumption, IInv, BarIgnored
    PROVE  IInv'
<1>1. /\ last' \in [1..Symbols -> 0..now]
      /\ rows' \subseteq answer
      /\ RowsAreTheRest'
  BY HandedOnLemma DEF BarIgnored
<1>2. TypeOK'
  BY <1>1 DEF IInv, TypeOK, BarIgnored, losses
<1> QED BY <1>1, <1>2, LossesLemma DEF IInv, BarIgnored

\* Steps that move the loop or stop the session, and nothing else.
LEMMA ControlLemma ==
    ASSUME FeedAssumption, IInv, Connects \/ Rests \/ Halts \/ Stops
    PROVE  IInv'
<1>1. UNCHANGED <<replay, now, fetch, last, losses>>
  BY DEF Connects, Rests, Halts, Stops
<1>2. /\ state' \in {"running", "halted", "stopped"}
      /\ pc' \in {"connect", "fetch", "rows", "bar", "rest", "ended"}
  BY DEF Connects, Rests, Halts, Stops, IInv, TypeOK
<1>3. TypeOK'
  BY <1>1, <1>2 DEF IInv, TypeOK, fetch, losses
<1>4. RowsAreTheRest'
  BY <1>1 DEF IInv, RowsAreTheRest, Connects, Rests, Halts, Stops, fetch
<1> QED BY <1>1, <1>3, <1>4, LossesLemma DEF IInv

LEMMA NextInvariant ==
    ASSUME FeedAssumption, IInv, [Next]_vars
    PROVE  IInv'
<1>1. CASE Connects \/ Rests \/ Halts \/ Stops
  BY <1>1, ControlLemma
<1>2. CASE \E got \in SUBSET PageFrom(since) : FetchPage(got)
  BY <1>2, FetchPageLemma
<1>3. CASE Query
  BY <1>3, QueryLemma
<1>4. CASE FetchFails \/ BarRaises \/ RowsEnd
  BY <1>4, NextTurnLemma DEF FetchFails, BarRaises, RowsEnd
<1>5. CASE BarBegins
  BY <1>5, BarBeginsLemma
<1>6. CASE BarBreaksDrawdown
  BY <1>6, BarBreaksDrawdownLemma
<1>7. CASE BarEnds
  BY <1>7, BarEndsLemma
<1>8. CASE BarIgnored
  BY <1>8, BarIgnoredLemma
<1>9. CASE Opens
  BY <1>9, OpensLemma
<1>10. CASE UNCHANGED vars
  <2>1. TypeOK'
    BY <1>10 DEF vars, fetch, losses, IInv, TypeOK
  <2>2. RowsAreTheRest' /\ UNCHANGED losses
    BY <1>10 DEF vars, fetch, losses, IInv, RowsAreTheRest
  <2> QED BY <2>1, <2>2, LossesLemma DEF IInv
<1> QED
  BY <1>1, <1>2, <1>3, <1>4, <1>5, <1>6, <1>7, <1>8, <1>9, <1>10 DEF Next, Loop

-----------------------------------------------------------------------------
(***************************************************************************)
(* The theorems.                                                           *)
(***************************************************************************)

\* The inductive invariant holds in every reachable state.
THEOREM InductiveInvariant == Spec => []IInv
<1>1. Init => IInv
  BY FeedAssumption, InitInvariant
<1>2. IInv /\ [Next]_vars => IInv'
  BY FeedAssumption, NextInvariant
<1> QED BY <1>1, <1>2, PTL DEF Spec

\* Every variable keeps its type: the equity history stays within its cap and
\* the pointer into it within the history.
THEOREM TypeCorrect == Spec => []TypeOK
<1>1. IInv => TypeOK
  BY DEF IInv
<1> QED BY <1>1, InductiveInvariant, PTL

\* The O(1) pointer of _weekly_base_equity finds what a scan of the history
\* would find, as long as bars come in the order of time.
THEOREM WeeklyBaseCorrect == Spec => []WeeklyBaseIsFirst
<1>1. IInv => WeeklyBaseIsFirst
  BY DEF IInv
<1> QED BY <1>1, InductiveInvariant, PTL

\* One step of the loop passes over no candle whose on_bar() has not completed.
LEMMA CandlesStep ==
    ASSUME FeedAssumption, IInv, [Next]_vars,
           NEW s \in 1..Symbols, NEW c \in answer,
           s = turn, last[s] < c, c <= last'[s], state = "running"
    PROVE  c \in completed'
<1>1. CASE BarEnds \/ BarBreaksDrawdown
  <2>1. rows # {} /\ pc \in {"rows", "bar"}
    BY <1>1 DEF BarEnds, BarBreaksDrawdown, IInv, RowsAreTheRest
  <2>2. c = Oldest(rows)
    BY <1>1, <2>1, HandedOnLemma DEF BarEnds, BarBreaksDrawdown
  <2> QED BY <1>1, <2>2 DEF BarEnds, BarBreaksDrawdown
<1>2. CASE last' = last
  <2>1. last[s] \in Int /\ c \in Int
    BY DEF IInv, TypeOK, Candles
  <2> QED BY <1>2, <2>1
<1>3. CASE BarIgnored
  BY <1>3 DEF BarIgnored
<1> QED
  BY <1>1, <1>2, <1>3 DEF Next, Loop, Connects, FetchPage, Query, FetchFails, BarBegins,
     BarRaises, RowsEnd, Rests, Opens, Halts, Stops, vars

\* last_timestamps moves past a candle of a response only when its on_bar() has
\* completed, or the session was halted or stopped.
THEOREM InTurn == Spec => CandlesInTurn
<1>1. IInv /\ [Next]_vars =>
        [\A s \in 1..Symbols : \A c \in answer :
           (s = turn /\ last[s] < c /\ c <= last'[s])
              => c \in completed' \/ state # "running"]_vars
  BY FeedAssumption, CandlesStep
<1> QED BY <1>1, InductiveInvariant, PTL DEF Spec, CandlesInTurn

-----------------------------------------------------------------------------
(***************************************************************************)
(* The daily baseline, as long as bars come in order.                      *)
(***************************************************************************)

\* The day of the baseline is that of the newest bar, and no later day has been
\* anchored.
BaselineIsLatest ==
    inOrder =>
        /\ equity = <<>> => anchored = {}
        /\ equity # <<>> => /\ day = DayOf(equity[Len(equity)])
                            /\ \A d \in anchored : d <= day

\* A later candle is not of an earlier day.
LEMMA DayLemma ==
    ASSUME FeedAssumption, NEW b \in Nat, NEW c \in Nat, b <= c
    PROVE  DayOf(b) \in Nat /\ DayOf(c) \in Nat /\ DayOf(b) <= DayOf(c)
<1>1. Day \in Nat /\ Day > 0
  BY DEF FeedAssumption
<1> QED BY <1>1 DEF DayOf

\* A bar that is recorded in order keeps the days in order.
LEMMA BaselineLemma ==
    ASSUME FeedAssumption, IInv, BaselineIsLatest, NEW c \in 1..now, Records(c)
    PROVE  /\ BaselineIsLatest'
           /\ inOrder' /\ day' # day => day' \notin anchored
<1>1. /\ equity' # <<>> /\ equity'[Len(equity')] = c
      /\ day' = DayOf(c) /\ anchored' = anchored \cup {DayOf(c)}
  BY RecordedLemma DEF Records, IInv
<1>2. c \in Nat /\ now \in Nat /\ DayOf(c) \in Nat
  BY DayLemma DEF IInv, TypeOK, Candles
<1>3. CASE ~inOrder'
  BY <1>3 DEF BaselineIsLatest
<1>4. CASE inOrder' /\ equity = <<>>
  <2>1. anchored = {}
    BY <1>4 DEF BaselineIsLatest, Records
  <2> QED BY <1>1, <1>2, <2>1 DEF BaselineIsLatest
<1>5. CASE inOrder' /\ equity # <<>>
  <2> DEFINE b == equity[Len(equity)]
  <2>1. inOrder /\ c >= b
    BY <1>5 DEF Records
  <2>2. b \in Nat
    <3>1. equity \in Seq(1..now) /\ 1..now \subseteq Nat
      BY <1>2 DEF IInv, TypeOK
    <3>2. Len(equity) \in 1..Len(equity)
      BY <1>5, <3>1
    <3>3. \A i \in 1..Len(equity) : equity[i] \in 1..now
      BY <3>1, ElementOfSeq
    <3> QED BY <3>1, <3>2, <3>3
  <2>3. day = DayOf(b) /\ \A d \in anchored : d <= day
    BY <1>5, <2>1 DEF BaselineIsLatest
  <2> HIDE DEF b
  <2>4. day \in Nat /\ day <= DayOf(c)
    BY <1>2, <2>1, <2>2, <2>3, DayLemma
  <2>5. anchored \subseteq Int
    <3>1. \A d \in 1..now : DayOf(d) \in Int
      BY <1>2, DayLemma
    <3> QED BY <3>1 DEF IInv, TypeOK
  <2>6. \A d \in anchored' : d <= DayOf(c)
    BY <1>1, <1>2, <2>3, <2>4, <2>5
  <2>7. DayOf(c) # day => DayOf(c) \notin anchored
    BY <1>2, <2>3, <2>4, <2>5
  <2> QED BY <1>1, <2>6, <2>7 DEF BaselineIsLatest
<1> QED BY <1>3, <1>4, <1>5

LEMMA BaselineStep ==
    ASSUME FeedAssumption, IInv, BaselineIsLatest, [Next]_vars
    PROVE  /\ BaselineIsLatest'
           /\ inOrder' /\ day' # day => day' \notin anchored
<1>1. CASE BarBegins \/ BarBreaksDrawdown
  <2>1. pc = "rows" /\ rows # {} /\ Records(Oldest(rows))
    BY <1>1 DEF BarBegins, BarBreaksDrawdown
  <2>2. rows \subseteq 1..now /\ now \in Nat
    BY DEF IInv, TypeOK, Candles
  <2>3. Oldest(rows) \in 1..now
    <3>1. rows \in SUBSET Nat
      BY <2>2
    <3>2. Oldest(rows) \in rows
      BY <2>1, <3>1, OldestLemma
    <3> QED BY <2>2, <3>2
  <2> QED BY <2>1, <2>3, BaselineLemma
<1>2. CASE UNCHANGED losses
  BY <1>2 DEF losses, BaselineIsLatest
<1> QED
  BY <1>1, <1>2 DEF Next, Loop, Connects, FetchPage, Query, FetchFails, BarEnds, BarRaises,
     BarIgnored, RowsEnd, Rests, Opens, Halts, Stops, vars

\* engine.py's promise about the daily loss limit holds under a condition: as
\* long as no bar is older than the one before it, a day's baseline is anchored
\* once.  (Two symbols that catch up break the condition, see AnchoredOncePerDay.)
THEOREM AnchoredOnceInOrder ==
    Spec => [][inOrder' /\ day' # day => day' \notin anchored]_vars
<1>1. Init => BaselineIsLatest
  BY DEF Init, BaselineIsLatest
<1>2. IInv /\ BaselineIsLatest /\ [Next]_vars =>
        BaselineIsLatest' /\ [inOrder' /\ day' # day => day' \notin anchored]_vars
  BY FeedAssumption, BaselineStep
<1> QED BY <1>1, <1>2, InductiveInvariant, PTL DEF Spec

-----------------------------------------------------------------------------
(***************************************************************************)
(* The place each symbol has reached.                                      *)
(***************************************************************************)

LEMMA ForwardStep ==
    ASSUME FeedAssumption, IInv, [Next]_vars, NEW s \in 1..Symbols
    PROVE  /\ last'[s] >= last[s]
           /\ (BarBegins \/ BarBreaksDrawdown) => Oldest(rows) > last[turn]
<1>0. ASSUME BarBegins \/ BarBreaksDrawdown  PROVE Oldest(rows) > last[turn]
  <2>1. pc = "rows" /\ rows # {}
    BY <1>0 DEF BarBegins, BarBreaksDrawdown
  <2>2. rows \in SUBSET Nat /\ rows = {c \in answer : c > last[turn]}
    BY <2>1 DEF IInv, TypeOK, Candles, RowsAreTheRest
  <2> QED BY <2>1, <2>2, OldestLemma
<1>1. last[s] \in Int /\ last \in [1..Symbols -> 0..now]
  BY DEF IInv, TypeOK, Candles
<1>2. ASSUME BarBreaksDrawdown \/ BarEnds \/ BarIgnored  PROVE last'[s] >= last[s]
  <2>1. pc \in {"rows", "bar"} /\ rows # {} /\ last' = [last EXCEPT ![turn] = Oldest(rows)]
    BY <1>2 DEF BarBreaksDrawdown, BarEnds, BarIgnored, HandedOn, IInv, RowsAreTheRest
  <2>2. rows \in SUBSET Nat /\ rows = {c \in answer : c > last[turn]}
    BY <2>1 DEF IInv, TypeOK, Candles, RowsAreTheRest
  <2>3. Oldest(rows) \in rows
    BY <2>1, <2>2, OldestLemma
  <2>4. Oldest(rows) > last[turn] /\ Oldest(rows) \in Int
    BY <2>2, <2>3
  <2>5. CASE s = turn
    BY <1>1, <2>1, <2>4, <2>5
  <2>6. CASE s # turn
    <3>1. last'[s] = last[s]
      BY <1>1, <2>1, <2>6
    <3> QED BY <1>1, <3>1
  <2> QED BY <2>5, <2>6
<1>3. ASSUME UNCHANGED last  PROVE last'[s] >= last[s]
  BY <1>1, <1>3
<1>4. last'[s] >= last[s]
  BY <1>2, <1>3 DEF Next, Loop, Connects, FetchPage, Query, FetchFails, BarBegins, BarRaises,
     RowsEnd, Rests, Opens, Halts, Stops, vars
<1> QED BY <1>0, <1>4

\* No failure, retry, stale page or change of turn moves last_timestamps back,
\* and on_bar() is given later candles only: one that has completed is never
\* handed on again.
NeverTwice ==
    /\ \A s \in 1..Symbols : last'[s] >= last[s]
    /\ (BarBegins \/ BarBreaksDrawdown) => Oldest(rows) > last[turn]

\* No candle is handed on twice, unless its on_bar() raised.
THEOREM LastMovesForward == Spec => [][NeverTwice]_vars
<1>1. IInv /\ [Next]_vars => [NeverTwice]_vars
  <2> SUFFICES ASSUME IInv, [Next]_vars PROVE NeverTwice
    OBVIOUS
  <2>1. 1 \in 1..Symbols
    BY FeedAssumption DEF FeedAssumption
  <2> QED BY <2>1, FeedAssumption, ForwardStep DEF NeverTwice
<1> QED BY <1>1, InductiveInvariant, PTL DEF Spec
=============================================================================
