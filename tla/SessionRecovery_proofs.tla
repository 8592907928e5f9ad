----------------------- MODULE SessionRecovery_proofs -----------------------
(***************************************************************************)
(* Proofs about SessionRecovery, for every set of orders and pairs.        *)
(***************************************************************************)
EXTENDS SessionRecovery, TLAPS

-----------------------------------------------------------------------------
(***************************************************************************)
(* The inductive invariant, in named parts.                                *)
(***************************************************************************)

\* A session that is down or starting tracks no order and waits for no push.
StartingIsBlank ==
    phase \in {"down", "ask", "orders"} => tracked = {} /\ unbooked = NoLots

\* Only a session under reconciliation has one, and it is not verified yet.
CheckingIsUnverified ==
    /\ phase \in {"down", "ask", "orders"} => ~verified
    /\ phase \in {"ask", "orders"} => origin = "checkpoint"
    /\ phase = "down" => origin = "nothing"

\* What a reconciliation that found nothing has shown, less what strays have
\* filled since.
MatchedSoFar ==
    phase = "orders" /\ ~found => \A s \in Symbols : exPos[s] = book[s] + strays[s]

\* A save is on its way in the sibling, never in the checkpoint itself.
SavedInTemp ==
    /\ phase = "saving" => temp.kind = "book"
    /\ temp # TornFile

IInv ==
    /\ TypeOK
    /\ StartingIsBlank
    /\ CheckingIsUnverified
    /\ MatchedSoFar
    /\ SavedInTemp
    /\ RestoredBookIsTrue
    /\ CheckpointIsWhole

-----------------------------------------------------------------------------
(***************************************************************************)
(* Files.                                                                  *)
(***************************************************************************)

\* A checkpoint of a book is a file, and whole.
LEMMA CheckpointLemma ==
    ASSUME NEW b \in Books
    PROVE  /\ Checkpoint(b) \in Files
           /\ Checkpoint(b).kind = "book"
           /\ Checkpoint(b) # TornFile
BY DEF Checkpoint, Files, TornFile

\* What a file of kind book holds is a book.
LEMMA LoadLemma ==
    ASSUME NEW f \in Files, f.kind = "book"
    PROVE  f.book \in Books
BY DEF Files, NoFile, TornFile, BadFile

LEMMA NoFileLemma ==
    /\ NoFile \in Files /\ BadFile \in Files
    /\ NoFile # TornFile /\ BadFile # TornFile
    /\ NoLots \in Books /\ NoLots \in [Symbols -> Nat]
BY DEF NoFile, BadFile, TornFile, Files, NoLots, Books

\* Every count of lots is one.
LEMMA LotsLemma ==
    ASSUME TypeOK, NEW s \in Symbols
    PROVE  /\ book[s] \in Nat /\ unbooked[s] \in Nat
           /\ exPos[s] \in Nat /\ strays[s] \in Nat
<1>1. /\ book \in [Symbols -> Nat] /\ unbooked \in [Symbols -> Nat]
      /\ exPos \in [Symbols -> Nat] /\ strays \in [Symbols -> Nat]
  BY DEF TypeOK, Books
<1> QED BY <1>1

-----------------------------------------------------------------------------
(***************************************************************************)
(* The start and its reconciliation.                                       *)
(***************************************************************************)

\* A start from a checkpoint is unverified; any other has nothing to be true to.
LEMMA StartLemma ==
    ASSUME IInv, RecoveryAssumption, Start
    PROVE  IInv'
<1>0. starts' \in Nat
  <2>1. starts \in Nat /\ starts' = starts + 1
    BY DEF IInv, TypeOK, Start
  <2> QED BY <2>1
<1>1. CASE file.kind = "book" /\ StartFrom(file.book)
  <2>1. file.book \in Books
    BY <1>1, LoadLemma DEF IInv, TypeOK
  <2>2. TypeOK'
    <3>1. book' \in Books /\ strays' \in [Symbols -> Nat]
      BY <1>1, <2>1, NoFileLemma DEF Start, StartFrom
    <3>2. /\ phase' \in {"down", "ask", "orders", "up", "saving"}
          /\ origin' \in {"nothing", "fresh", "checkpoint", "bad file"}
          /\ verified' \in BOOLEAN
      BY <1>1 DEF StartFrom
    <3>3. UNCHANGED <<tracked, unbooked, found, todo, file, temp, ex, old, exPos>>
      BY DEF Start, check, disk
    <3> QED BY <1>0, <3>1, <3>2, <3>3 DEF IInv, TypeOK
  <2>3. (StartingIsBlank /\ CheckingIsUnverified /\ MatchedSoFar /\ SavedInTemp
         /\ RestoredBookIsTrue /\ CheckpointIsWhole)'
    BY <1>1 DEF IInv, Start, StartFrom, check, disk, StartingIsBlank, CheckingIsUnverified,
       MatchedSoFar, SavedInTemp, RestoredBookIsTrue, CheckpointIsWhole
  <2> QED BY <2>2, <2>3 DEF IInv
<1>2. ASSUME NEW from \in {"fresh", "bad file"}, NEW allowed \in BOOLEAN,
             StartWithout(from, allowed)
      PROVE  IInv'
  <2>1. TypeOK'
    <3>1. book' \in Books /\ strays' \in [Symbols -> Nat]
      BY <1>2, NoFileLemma DEF Start, StartWithout
    <3>2. /\ phase' \in {"down", "ask", "orders", "up", "saving"}
          /\ origin' \in {"nothing", "fresh", "checkpoint", "bad file"}
          /\ verified' \in BOOLEAN
      BY <1>2 DEF StartWithout
    <3>3. UNCHANGED <<tracked, unbooked, found, todo, file, temp, ex, old, exPos>>
      BY DEF Start, check, disk
    <3> QED BY <1>0, <3>1, <3>2, <3>3 DEF IInv, TypeOK
  <2>2. (StartingIsBlank /\ CheckingIsUnverified /\ MatchedSoFar /\ SavedInTemp
         /\ RestoredBookIsTrue /\ CheckpointIsWhole)'
    BY <1>2 DEF IInv, Start, StartWithout, check, disk, StartingIsBlank, CheckingIsUnverified,
       MatchedSoFar, SavedInTemp, RestoredBookIsTrue, CheckpointIsWhole
  <2> QED BY <2>1, <2>2 DEF IInv
<1>3. CASE StartWithout("fresh", TRUE)
  BY <1>2, <1>3
<1>4. CASE StartWithout("bad file", FALSE)
  BY <1>2, <1>4
<1>5. \/ file.kind = "book" /\ StartFrom(file.book)
      \/ StartWithout("fresh", TRUE) \/ StartWithout("bad file", FALSE)
  BY DEF Start
<1> QED BY <1>1, <1>3, <1>4, <1>5

\* The comparison finds every symbol on which the two sides differ.
LEMMA PositionsLemma ==
    ASSUME IInv, RecoveryAssumption, PositionsAnswered \/ PositionsFail
    PROVE  IInv'
<1>1. CASE PositionsAnswered
  <2>1. TypeOK'
    BY <1>1, NoFileLemma DEF IInv, TypeOK, PositionsAnswered, Held, disk
  <2>2. MatchedSoFar'
    <3> SUFFICES ASSUME ~found', NEW s \in Symbols
                 PROVE  exPos[s] = book[s] + strays'[s]
      BY <1>1 DEF MatchedSoFar, PositionsAnswered
    <3>1. exPos[s] = book[s] /\ book[s] \in Nat
      BY <1>1 DEF PositionsAnswered, Drifted, IInv, TypeOK, Books
    <3>2. strays'[s] = 0
      BY <1>1 DEF PositionsAnswered, NoLots
    <3> QED BY <3>1, <3>2
  <2>3. (StartingIsBlank /\ CheckingIsUnverified /\ SavedInTemp
         /\ RestoredBookIsTrue /\ CheckpointIsWhole)'
    BY <1>1 DEF IInv, PositionsAnswered, disk, StartingIsBlank, CheckingIsUnverified,
       SavedInTemp, RestoredBookIsTrue, CheckpointIsWhole
  <2> QED BY <2>1, <2>2, <2>3 DEF IInv
<1>2. CASE PositionsFail
  BY <1>2 DEF IInv, TypeOK, PositionsFail, check, disk, exch, StartingIsBlank,
     CheckingIsUnverified, MatchedSoFar, SavedInTemp, RestoredBookIsTrue, CheckpointIsWhole
<1> QED BY <1>1, <1>2

\* Looking for orphans adds discrepancies and takes none back.
LEMMA OrdersLemma ==
    ASSUME IInv, RecoveryAssumption,
           (\E s \in Symbols : OrdersAnswered(s)) \/ OrdersFail
    PROVE  IInv'
<1>1. /\ UNCHANGED <<phase, starts, origin, verified, book, tracked, unbooked>>
      /\ UNCHANGED disk /\ UNCHANGED exch
      /\ found' \in BOOLEAN /\ (found => found') /\ todo' \subseteq Symbols
  BY DEF IInv, TypeOK, OrdersAnswered, OrdersFail, LeftAfterFailure
<1> QED BY <1>1 DEF IInv, TypeOK, disk, exch, StartingIsBlank, CheckingIsUnverified,
     MatchedSoFar, SavedInTemp, RestoredBookIsTrue, CheckpointIsWhole

\* The session is verified when nothing was found, and then its book is true.
LEMMA VerifyEndsLemma ==
    ASSUME IInv, RecoveryAssumption, VerifyEnds
    PROVE  IInv'
<1>1. TypeOK'
  BY DEF IInv, TypeOK, VerifyEnds, check, disk, exch
<1>2. (StartingIsBlank /\ CheckingIsUnverified /\ MatchedSoFar /\ SavedInTemp
       /\ CheckpointIsWhole)'
  BY DEF IInv, VerifyEnds, check, disk, exch, StartingIsBlank, CheckingIsUnverified,
     MatchedSoFar, SavedInTemp, CheckpointIsWhole
<1>3. RestoredBookIsTrue'
  <2> SUFFICES ASSUME ~found, NEW s \in Symbols
               PROVE  exPos[s] = book[s] + unbooked[s] + strays[s]
    BY DEF RestoredBookIsTrue, VerifyEnds, exch
  <2>1. exPos[s] = book[s] + strays[s]
    BY DEF IInv, MatchedSoFar, VerifyEnds
  <2>2. unbooked[s] = 0
    BY DEF IInv, StartingIsBlank, VerifyEnds, NoLots
  <2> QED BY <2>1, <2>2, LotsLemma DEF IInv
<1> QED BY <1>1, <1>2, <1>3 DEF IInv

-----------------------------------------------------------------------------
(***************************************************************************)
(* The running session.                                                    *)
(***************************************************************************)

\* Sending an order moves no position.
LEMMA EnterLemma ==
    ASSUME IInv, RecoveryAssumption, NEW o \in Orders, NEW answered \in BOOLEAN,
           Enter(o, answered)
    PROVE  IInv'
<1>1. TypeOK'
  BY DEF IInv, TypeOK, Enter, check, disk
<1>2. (StartingIsBlank /\ CheckingIsUnverified /\ MatchedSoFar /\ SavedInTemp
       /\ RestoredBookIsTrue /\ CheckpointIsWhole)'
  BY DEF IInv, Enter, check, disk, StartingIsBlank, CheckingIsUnverified, MatchedSoFar,
     SavedInTemp, RestoredBookIsTrue, CheckpointIsWhole
<1> QED BY <1>1, <1>2 DEF IInv

\* A push moves a lot from under way into the book; an exit takes the same
\* number of lots off the book and off the exchange.
LEMMA BookLemma ==
    ASSUME IInv, RecoveryAssumption, NEW s \in Symbols, Push(s) \/ Flatten(s)
    PROVE  IInv'
<1>1. Reduction(s) \in Nat /\ Reduction(s) <= book[s] /\ Reduction(s) <= exPos[s]
  BY LotsLemma DEF IInv, Reduction
<1>2. TypeOK'
  <2>1. CASE Push(s)
    <3>1. book[s] + 1 \in Nat /\ unbooked[s] - 1 \in Nat
      BY <2>1, LotsLemma DEF IInv, Push
    <3>2. book' \in Books /\ unbooked' \in [Symbols -> Nat]
      BY <2>1, <3>1 DEF IInv, TypeOK, Books, Push
    <3> QED BY <2>1, <3>2 DEF IInv, TypeOK, Push, check, disk, exch
  <2>2. CASE Flatten(s)
    <3>1. exPos[s] - Reduction(s) \in Nat /\ book[s] - Reduction(s) \in Nat
      BY <1>1, LotsLemma DEF IInv
    <3> QED BY <2>2, <3>1 DEF IInv, TypeOK, Books, Flatten, check, disk
  <2> QED BY <2>1, <2>2
<1>3. (StartingIsBlank /\ CheckingIsUnverified /\ MatchedSoFar /\ SavedInTemp
       /\ CheckpointIsWhole)'
  BY DEF IInv, Push, Flatten, check, disk, exch, StartingIsBlank, CheckingIsUnverified,
     MatchedSoFar, SavedInTemp, CheckpointIsWhole
<1>4. RestoredBookIsTrue'
  <2> SUFFICES ASSUME origin = "checkpoint", verified, NEW r \in Symbols
               PROVE  exPos'[r] = book'[r] + unbooked'[r] + strays'[r]
    BY DEF RestoredBookIsTrue, Push, Flatten
  <2>1. exPos[r] = book[r] + unbooked[r] + strays[r]
    BY DEF IInv, RestoredBookIsTrue
  <2>2. CASE Push(s)
    BY <2>1, <2>2 DEF IInv, TypeOK, Books, Push, exch
  <2>3. CASE Flatten(s)
    BY <1>1, <2>1, <2>3 DEF IInv, TypeOK, Books, Flatten
  <2> QED BY <2>2, <2>3
<1> QED BY <1>2, <1>3, <1>4 DEF IInv

\* Saving touches the files only, and never leaves the checkpoint torn.
LEMMA SaveLemma ==
    ASSUME IInv, RecoveryAssumption, SaveBegins \/ (\E replaced \in BOOLEAN : SaveEnds(replaced))
    PROVE  IInv'
<1>1. CASE SaveBegins
  <2>1. temp' \in Files /\ temp'.kind = "book" /\ temp' # TornFile /\ file' = file
    BY <1>1, CheckpointLemma DEF SaveBegins, WriteTemp, IInv, TypeOK
  <2>2. TypeOK'
    BY <1>1, <2>1 DEF IInv, TypeOK, SaveBegins, check, exch
  <2>3. (StartingIsBlank /\ CheckingIsUnverified /\ MatchedSoFar /\ SavedInTemp
         /\ RestoredBookIsTrue /\ CheckpointIsWhole)'
    BY <1>1, <2>1 DEF IInv, SaveBegins, check, exch, StartingIsBlank, CheckingIsUnverified,
       MatchedSoFar, SavedInTemp, RestoredBookIsTrue, CheckpointIsWhole
  <2> QED BY <2>2, <2>3 DEF IInv
<1>2. ASSUME NEW replaced \in BOOLEAN, SaveEnds(replaced) PROVE IInv'
  <2>1. temp' = NoFile /\ file' \in Files /\ file' # TornFile
    BY <1>2 DEF SaveEnds, IInv, TypeOK, SavedInTemp, CheckpointIsWhole
  <2>2. TypeOK'
    BY <1>2, <2>1, NoFileLemma DEF IInv, TypeOK, SaveEnds, check, exch
  <2>3. (StartingIsBlank /\ CheckingIsUnverified /\ MatchedSoFar /\ SavedInTemp
         /\ RestoredBookIsTrue /\ CheckpointIsWhole)'
    BY <1>2, <2>1, NoFileLemma DEF IInv, SaveEnds, check, exch, StartingIsBlank,
       CheckingIsUnverified, MatchedSoFar, SavedInTemp, RestoredBookIsTrue, CheckpointIsWhole
  <2> QED BY <2>2, <2>3 DEF IInv
<1> QED BY <1>1, <1>2

\* A crash loses the memory of the process; the checkpoint stays.
LEMMA CrashLemma ==
    ASSUME IInv, RecoveryAssumption, Crash
    PROVE  IInv'
<1>1. TypeOK'
  BY NoFileLemma DEF IInv, TypeOK, Crash
<1>2. (StartingIsBlank /\ CheckingIsUnverified /\ MatchedSoFar /\ SavedInTemp
       /\ RestoredBookIsTrue /\ CheckpointIsWhole)'
  BY NoFileLemma DEF IInv, Crash, StartingIsBlank, CheckingIsUnverified, MatchedSoFar,
     SavedInTemp, RestoredBookIsTrue, CheckpointIsWhole
<1> QED BY <1>1, <1>2 DEF IInv

-----------------------------------------------------------------------------
(***************************************************************************)
(* The world outside.                                                      *)
(***************************************************************************)

\* A fill is either on its way to the session or a stray.
LEMMA FillLemma ==
    ASSUME IInv, RecoveryAssumption, NEW o \in Orders, ExFill(o)
    PROVE  IInv'
<1>1. SymbolOf[o] \in Symbols
  BY DEF RecoveryAssumption
<1>2. TypeOK'
  <2>1. /\ exPos[SymbolOf[o]] + 1 \in Nat /\ unbooked[SymbolOf[o]] + 1 \in Nat
        /\ strays[SymbolOf[o]] + 1 \in Nat
    BY <1>1, LotsLemma DEF IInv
  <2>2. exPos' \in [Symbols -> Nat]
    BY <1>1, <2>1 DEF IInv, TypeOK, ExFill
  <2>3. unbooked' \in [Symbols -> Nat] /\ strays' \in [Symbols -> Nat]
    BY <1>1, <2>1 DEF IInv, TypeOK, ExFill
  <2>4. ex' \in [Orders -> {"none", "open", "done"}]
    BY DEF IInv, TypeOK, ExFill
  <2> QED BY <2>2, <2>3, <2>4 DEF IInv, TypeOK, ExFill, Outside, check, disk
<1>3. StartingIsBlank'
  BY DEF IInv, StartingIsBlank, ExFill, Outside
<1>4. (CheckingIsUnverified /\ SavedInTemp /\ CheckpointIsWhole)'
  BY DEF IInv, ExFill, Outside, check, disk, CheckingIsUnverified, SavedInTemp, CheckpointIsWhole
<1>5. MatchedSoFar'
  <2> SUFFICES ASSUME phase = "orders", ~found, NEW s \in Symbols
               PROVE  exPos'[s] = book[s] + strays'[s]
    BY DEF MatchedSoFar, ExFill, Outside, check
  <2>1. exPos[s] = book[s] + strays[s]
    BY DEF IInv, MatchedSoFar
  <2>2. o \notin tracked
    BY DEF IInv, StartingIsBlank
  <2>3. /\ exPos'[s] = IF s = SymbolOf[o] THEN exPos[s] + 1 ELSE exPos[s]
        /\ strays'[s] = IF s = SymbolOf[o] THEN strays[s] + 1 ELSE strays[s]
    BY <1>1, <2>2 DEF ExFill, IInv, TypeOK
  <2> QED BY <2>1, <2>3, LotsLemma DEF IInv
<1>6. RestoredBookIsTrue'
  <2> SUFFICES ASSUME origin = "checkpoint", verified, NEW s \in Symbols
               PROVE  exPos'[s] = book[s] + unbooked'[s] + strays'[s]
    BY DEF RestoredBookIsTrue, ExFill, Outside
  <2>1. exPos[s] = book[s] + unbooked[s] + strays[s]
    BY DEF IInv, RestoredBookIsTrue
  <2>2. exPos'[s] = IF s = SymbolOf[o] THEN exPos[s] + 1 ELSE exPos[s]
    BY <1>1 DEF ExFill, IInv, TypeOK
  <2>3. unbooked'[s] + strays'[s]
            = IF s = SymbolOf[o] THEN unbooked[s] + strays[s] + 1 ELSE unbooked[s] + strays[s]
    <3>1. CASE o \in tracked
      BY <1>1, <3>1, LotsLemma DEF ExFill, IInv, TypeOK
    <3>2. CASE o \notin tracked
      BY <1>1, <3>2, LotsLemma DEF ExFill, IInv, TypeOK
    <3> QED BY <3>1, <3>2
  <2>4. unbooked'[s] \in Nat /\ strays'[s] \in Nat
    BY <1>2, LotsLemma DEF TypeOK
  <2> QED BY <2>1, <2>2, <2>3, <2>4, LotsLemma DEF IInv
<1> QED BY <1>2, <1>3, <1>4, <1>5, <1>6 DEF IInv

\* Dropping or ageing an order, or changing the file between two runs, moves
\* no position.
LEMMA OutsideLemma ==
    ASSUME IInv, RecoveryAssumption,
           \/ \E o \in Orders : ExDrop(o) \/ Age(o)
           \/ \E f \in {NoFile, BadFile} : FileChanges(f)
    PROVE  IInv'
<1>1. /\ UNCHANGED <<phase, starts, origin, verified, book, tracked, unbooked, found, todo,
                     temp, exPos, strays>>
      /\ ex' \in [Orders -> {"none", "open", "done"}] /\ old' \subseteq Orders
      /\ file' \in Files /\ file' # TornFile
  BY NoFileLemma DEF IInv, TypeOK, CheckpointIsWhole, ExDrop, Age, FileChanges, Outside,
     check, disk, exch
<1> QED BY <1>1 DEF IInv, TypeOK, StartingIsBlank, CheckingIsUnverified, MatchedSoFar,
     SavedInTemp, RestoredBookIsTrue, CheckpointIsWhole

-----------------------------------------------------------------------------
(***************************************************************************)
(* The theorems.                                                           *)
(***************************************************************************)

\* The inductive invariant holds in every reachable state.
THEOREM InductiveInvariant == Spec => []IInv
<1>1. Init => IInv
  <2> SUFFICES ASSUME Init PROVE IInv
    OBVIOUS
  <2>1. TypeOK
    BY NoFileLemma DEF Init, TypeOK
  <2>2. /\ StartingIsBlank /\ CheckingIsUnverified /\ MatchedSoFar /\ SavedInTemp
        /\ RestoredBookIsTrue /\ CheckpointIsWhole
    BY NoFileLemma DEF Init, StartingIsBlank, CheckingIsUnverified, MatchedSoFar,
       SavedInTemp, RestoredBookIsTrue, CheckpointIsWhole
  <2> QED BY <2>1, <2>2 DEF IInv
<1>2. IInv /\ [Next]_vars => IInv'
  <2> SUFFICES ASSUME IInv, [Next]_vars PROVE IInv'
    OBVIOUS
  <2>1. CASE Start
    BY <2>1, StartLemma, RecoveryAssumption
  <2>2. CASE PositionsAnswered \/ PositionsFail
    BY <2>2, PositionsLemma, RecoveryAssumption
  <2>3. CASE (\E s \in Symbols : OrdersAnswered(s)) \/ OrdersFail
    BY <2>3, OrdersLemma, RecoveryAssumption
  <2>4. CASE VerifyEnds
    BY <2>4, VerifyEndsLemma, RecoveryAssumption
  <2>5. CASE \E o \in Orders, answered \in BOOLEAN : Enter(o, answered)
    BY <2>5, EnterLemma, RecoveryAssumption
  <2>6. CASE \E s \in Symbols : Push(s) \/ Flatten(s)
    BY <2>6, BookLemma, RecoveryAssumption
  <2>7. CASE SaveBegins \/ \E replaced \in BOOLEAN : SaveEnds(replaced)
    BY <2>7, SaveLemma, RecoveryAssumption
  <2>8. CASE Crash
    BY <2>8, CrashLemma, RecoveryAssumption
  <2>9. CASE \E o \in Orders : ExFill(o)
    BY <2>9, FillLemma, RecoveryAssumption
  <2>10. CASE (\E o \in Orders : ExDrop(o) \/ Age(o))
              \/ \E f \in {NoFile, BadFile} : FileChanges(f)
    BY <2>10, OutsideLemma, RecoveryAssumption
  <2>11. CASE UNCHANGED vars
    BY <2>11 DEF vars, IInv, TypeOK, StartingIsBlank, CheckingIsUnverified, MatchedSoFar,
       SavedInTemp, RestoredBookIsTrue, CheckpointIsWhole
  <2> QED BY <2>1, <2>2, <2>3, <2>4, <2>5, <2>6, <2>7, <2>8, <2>9, <2>10, <2>11 DEF Next
<1> QED BY <1>1, <1>2, PTL DEF Spec

\* Every variable keeps its type; so no exit takes a position below zero,
\* however far the restored book is from the exchange.
THEOREM TypeCorrect == Spec => []TypeOK
<1>1. IInv => TypeOK
  BY DEF IInv
<1> QED BY <1>1, InductiveInvariant, PTL

\* A session restored from a checkpoint and verified knows what it holds, but
\* for fills of untracked orders since the exchange was asked.
THEOREM RestoredIsTrue == Spec => []RestoredBookIsTrue
<1>1. IInv => RestoredBookIsTrue
  BY DEF IInv
<1> QED BY <1>1, InductiveInvariant, PTL

\* No crash leaves a checkpoint that cannot be read.
THEOREM CheckpointWhole == Spec => []CheckpointIsWhole
<1>1. IInv => CheckpointIsWhole
  BY DEF IInv
<1> QED BY <1>1, InductiveInvariant, PTL

\* The search for orphans is blind: the age of an order, seconds less
\* milliseconds, is far below zero, whatever the staleness threshold.
THEOREM OrphanSearchIsBlind == \A o \in Orders : ~ Orphan(o)
<1> SUFFICES ASSUME NEW o \in Orders PROVE ~ (AgeSeconds(o) > Staleness)
  BY DEF Orphan
<1>1. Staleness \in Nat /\ Epoch \in Nat /\ Epoch > 2 * Staleness + 2
  BY RecoveryAssumption DEF RecoveryAssumption
<1>2. CASE o \in old
  BY <1>1, <1>2 DEF AgeSeconds, Timestamp
<1>3. CASE o \notin old
  BY <1>1, <1>3 DEF AgeSeconds, Timestamp
<1> QED BY <1>2, <1>3

\* What a reconciliation has found is a position that differs, whatever strays
\* have filled since the exchange was asked.
FoundIsDrift ==
    phase = "orders" /\ found => \E s \in Symbols : exPos[s] # book[s] + strays[s]

\* A stray fill during the reconciliation moves both sides of the comparison.
LEMMA FillKeepsDrift ==
    ASSUME IInv, RecoveryAssumption, FoundIsDrift, NEW o \in Orders, ExFill(o)
    PROVE  FoundIsDrift'
<1> SUFFICES ASSUME phase = "orders", found
             PROVE  \E s \in Symbols : exPos'[s] # book[s] + strays'[s]
  BY DEF FoundIsDrift, ExFill, Outside, check
<1>1. PICK s \in Symbols : exPos[s] # book[s] + strays[s]
  BY DEF FoundIsDrift
<1>2. o \notin tracked /\ SymbolOf[o] \in Symbols
  BY DEF IInv, StartingIsBlank, RecoveryAssumption
<1>3. /\ exPos'[s] = IF s = SymbolOf[o] THEN exPos[s] + 1 ELSE exPos[s]
      /\ strays'[s] = IF s = SymbolOf[o] THEN strays[s] + 1 ELSE strays[s]
  BY <1>2 DEF ExFill, IInv, TypeOK
<1>4. exPos'[s] # book[s] + strays'[s]
  BY <1>1, <1>3, LotsLemma DEF IInv
<1> QED BY <1>4

\* Nothing but a position that differs blocks a restart.
THEOREM FoundIsReal == Spec => []FoundIsDrift
<1>1. Init => FoundIsDrift
  BY DEF Init, FoundIsDrift
<1>2. IInv /\ FoundIsDrift /\ [Next]_vars => FoundIsDrift'
  <2> SUFFICES ASSUME IInv, FoundIsDrift, [Next]_vars PROVE FoundIsDrift'
    OBVIOUS
  <2>1. CASE PositionsAnswered
    <3> SUFFICES ASSUME found'
                 PROVE  \E s \in Symbols : exPos'[s] # book'[s] + strays'[s]
      BY DEF FoundIsDrift
    <3>1. PICK s \in Symbols : exPos[s] # book[s]
      BY <2>1 DEF PositionsAnswered, Drifted
    <3>2. exPos' = exPos /\ book' = book /\ strays'[s] = 0
      BY <2>1 DEF PositionsAnswered, NoLots
    <3>3. book[s] + 0 = book[s]
      BY LotsLemma DEF IInv
    <3> QED BY <3>1, <3>2, <3>3
  <2>2. CASE \E s \in Symbols : OrdersAnswered(s)
    <3>1. found' = found
      BY <2>2, OrphanSearchIsBlind DEF OrdersAnswered, IInv, TypeOK
    <3> QED BY <2>2, <3>1 DEF FoundIsDrift, OrdersAnswered, exch
  <2>3. CASE OrdersFail
    BY <2>3 DEF FoundIsDrift, OrdersFail, exch
  <2>4. CASE \E o \in Orders : ExFill(o)
    BY <2>4, FillKeepsDrift, RecoveryAssumption
  <2>5. CASE \/ \E o \in Orders : ExDrop(o) \/ Age(o)
             \/ UNCHANGED vars
    BY <2>5 DEF FoundIsDrift, ExDrop, Age, Outside, check, vars
  <2>6. CASE \/ Start \/ PositionsFail \/ VerifyEnds \/ SaveBegins \/ Crash
             \/ \E o \in Orders, answered \in BOOLEAN : Enter(o, answered)
             \/ \E s \in Symbols : Push(s) \/ Flatten(s)
             \/ \E replaced \in BOOLEAN : SaveEnds(replaced)
             \/ \E f \in {NoFile, BadFile} : FileChanges(f)
    <3>1. phase' # "orders"
      BY <2>6 DEF Start, StartWithout, StartFrom, PositionsFail, VerifyEnds, SaveBegins, Crash,
         Enter, Push, Flatten, SaveEnds, FileChanges, Outside
    <3> QED BY <3>1 DEF FoundIsDrift
  <2> QED BY <2>1, <2>2, <2>3, <2>4, <2>5, <2>6 DEF Next
<1> QED BY <1>1, <1>2, InductiveInvariant, PTL DEF Spec

\* Fail-closed is not fail-stuck: a restart whose checkpoint is what the
\* exchange says, and that left no order open, may trade.
THEOREM CleanRestartMayTrade == Spec => CleanRestartTrades
<1>1. IInv /\ FoundIsDrift /\ [Next]_vars => [VerifyEnds /\ CleanRestart => verified']_vars
  <2> SUFFICES ASSUME IInv, FoundIsDrift, VerifyEnds, CleanRestart PROVE verified'
    BY DEF CleanRestartTrades
  <2>1. \A s \in Symbols : exPos[s] = book[s] + strays[s]
    <3> TAKE s \in Symbols
    <3>1. exPos[s] = book[s] /\ strays[s] = 0
      BY DEF CleanRestart, NoLots
    <3> QED BY <3>1, LotsLemma DEF IInv
  <2>2. ~ found
    BY <2>1 DEF FoundIsDrift, VerifyEnds
  <2> QED BY <2>2 DEF VerifyEnds
<1> QED BY <1>1, InductiveInvariant, FoundIsReal, PTL DEF Spec, CleanRestartTrades
=============================================================================
