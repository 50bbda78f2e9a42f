----------------------- MODULE CleanupScheduleProofs -----------------------
(***************************************************************************)
(* Proofs, for any number of uploads, processes and tokens and any batch   *)
(* size, of the safety properties of CleanupSchedule.                      *)
(*                                                                         *)
(* The argument: a process that works on a claim has drawn a token nobody  *)
(* else has (HolderHasToken, TokensDiffer), so one outcome at most counts. *)
(* The cursor and the claim go round the fenced rows in the order of their *)
(* stamps; while a row waits, a row that had its turn lies behind the      *)
(* cursor and the claim (TurnsInOrder), and cannot be claimed again.  The  *)
(* cursor passes a deleted row only because the one process whose outcome  *)
(* counts acknowledges after its own deletion (AckFollowsDeletion).        *)
(***************************************************************************)
EXTENDS CleanupSchedule, WellFoundedInduction, TLAPS

USE NAssumption, BatchAssumption, TokenAssumption

-----------------------------------------------------------------------------
(* The scans.                                                              *)

\* A set of uploads that is not empty has a member with the least rank.
LEMMA LeastExists ==
    ASSUME NEW S \in SUBSET Uploads, S # {},
           NEW rank \in [Uploads -> Nat]
    PROVE  \E u \in S : \A v \in S : rank[u] <= rank[v]
<1> DEFINE T == {rank[u] : u \in S}
<1>1. T \subseteq Nat /\ T # {}
  OBVIOUS
<1> HIDE DEF T
<1>2. PICK x \in T : \A y \in T : ~(<<y, x>> \in OpToRel(<, Nat))
  BY <1>1, NatLessThanWellFounded, WFMin
<1>3. \A y \in T : x <= y
  <2> TAKE y \in T
  <2>1. ~(y < x)
    BY <1>1, <1>2 DEF OpToRel
  <2> QED
    BY <1>1, <2>1
<1> QED
  BY <1>3 DEF T

\* The ordinary scan finds a candidate.
LEMMA FirstIsOne ==
    ASSUME NEW S \in SUBSET Uploads, S # {}
    PROVE  First(S) \in S
<1> DEFINE id == [w \in Uploads |-> w]
<1>1. \E u \in S : \A v \in S : id[u] <= id[v]
  <2>1. id \in [Uploads -> Nat]
    BY DEF Uploads
  <2> HIDE DEF id
  <2> QED
    BY <2>1, LeastExists
<1>2. \E u \in S : \A v \in S : u <= v
  BY <1>1
<1> QED
  BY <1>2 DEF First

\* The reconciliation scan finds a fenced row, and comes to it before every
\* row that is fenced and not at the cursor.
LEMMA NextIsFenced ==
    ASSUME fenced \in SUBSET Uploads, fenced # {}, cursor \in fenced \cup {0},
           stamp \in [Uploads -> Uploads],
           \A u, v \in Uploads : stamp[u] = stamp[v] => u = v
    PROVE  /\ NextCandidate \in fenced
           /\ \A u \in fenced : cursor \notin {0, u} =>
                NextCandidate = u
                \/ (NextCandidate # cursor /\ Before(cursor, NextCandidate, u))
<1> DEFINE after == {u \in fenced : cursor # 0 /\ stamp[u] > stamp[cursor]}
           among == IF after # {} THEN after ELSE fenced
<1>1. among \in SUBSET Uploads /\ among # {} /\ stamp \in [Uploads -> Nat]
  <2>1. among \in SUBSET Uploads /\ among # {}
    OBVIOUS
  <2>2. stamp \in [Uploads -> Nat]
    BY DEF Uploads
  <2> QED
    BY <2>1, <2>2
<1>2. \E u \in among : \A v \in among : stamp[u] <= stamp[v]
  BY <1>1, LeastExists
<1>3. NextCandidate = CHOOSE u \in among : \A v \in among : stamp[u] <= stamp[v]
  BY DEF NextCandidate
<1>4. NextCandidate \in among /\ \A v \in among : stamp[NextCandidate] <= stamp[v]
  <2> HIDE DEF among
  <2> QED
    BY <1>2, <1>3
<1>5. ASSUME NEW u \in fenced, cursor \notin {0, u}
      PROVE  \/ NextCandidate = u
             \/ NextCandidate # cursor /\ Before(cursor, NextCandidate, u)
  <2> DEFINE n == NextCandidate
  <2>1. n \in fenced /\ cursor \in fenced /\ n \in Uploads
    BY <1>4, <1>5
  <2>2. stamp[n] \in Nat /\ stamp[u] \in Nat /\ stamp[cursor] \in Nat
    BY <1>1, <1>5, <2>1
  <2>3. n # u => stamp[n] # stamp[u]
    BY <1>5, <2>1
  <2>4. stamp[cursor] # stamp[u]
    BY <1>5, <2>1
  <2>5. CASE after # {}
    <3>1. n \in after /\ \A v \in after : stamp[n] <= stamp[v]
      BY <1>4, <2>5
    <3>2. stamp[n] > stamp[cursor]
      BY <3>1
    <3>3. stamp[u] > stamp[cursor] => stamp[n] <= stamp[u]
      BY <1>5, <3>1
    <3> QED
      BY <2>2, <2>3, <2>4, <3>2, <3>3 DEF Before
  <2>6. CASE after = {}
    <3>1. stamp[n] <= stamp[u]
      BY <1>4, <1>5, <2>6
    <3>2. ~(stamp[u] > stamp[cursor])
      BY <1>5, <2>6
    <3> QED
      BY <2>2, <2>3, <2>4, <3>1, <3>2 DEF Before
  <2> QED
    BY <2>5, <2>6
<1> QED
  BY <1>1, <1>4, <1>5

\* Stamps are numbers.
LEMMA StampIsNat ==
    ASSUME stamp \in [Uploads -> Uploads], NEW row \in Uploads
    PROVE  stamp[row] \in Nat
<1>1. stamp[row] \in Uploads
  OBVIOUS
<1> QED
  BY <1>1 DEF Uploads

\* Going round: from a row to itself, by way of a row between, and not both ways.
LEMMA GoingRound ==
    ASSUME stamp \in [Uploads -> Uploads],
           \A u, v \in Uploads : stamp[u] = stamp[v] => u = v,
           NEW u \in Uploads, NEW v \in Uploads, NEW c \in Uploads, NEW w \in Uploads
    PROVE  /\ u # v => Before(v, v, u)
           /\ ~Before(v, u, u)
           /\ Before(v, c, u) /\ Before(c, w, u) => Before(v, w, u)
           /\ Before(v, c, u) /\ Before(c, v, u) => v = c
<1>1. /\ stamp[u] \in Nat /\ stamp[v] \in Nat
      /\ stamp[c] \in Nat /\ stamp[w] \in Nat
  BY StampIsNat
<1>2. (u # v => stamp[u] # stamp[v]) /\ (v # c => stamp[v] # stamp[c])
  OBVIOUS
<1> QED
  BY <1>1, <1>2 DEF Before

-----------------------------------------------------------------------------
(* Types.                                                                  *)

\* TypeOK in parts: the shared variables but leaseExpired, the cursor and the
\* claim (TurnsInOrder), then the processes, then the history.
SharedOK ==
    /\ eligible \subseteq Uploads
    /\ fenced \subseteq Uploads
    /\ stamp \in [Uploads -> Uploads]
    /\ target \subseteq Uploads
    /\ copies \subseteq Uploads
    /\ lane \in Lane
    /\ claimToken \in Tokens \cup {NoToken}

LocalOK ==
    /\ pc \in [Cleaners -> Place]
    /\ left \in [Cleaners -> 0 .. BatchSize]
    /\ attempted \in [Cleaners -> SUBSET Uploads]
    /\ mine \in [Cleaners -> 0 .. N]
    /\ token \in [Cleaners -> Tokens \cup {NoToken}]

ServedOK == served \subseteq Uploads \X Uploads

FieldsOK == SharedOK /\ LocalOK /\ ServedOK

Facts ==
    /\ FieldsOK
    /\ HolderHasToken
    /\ TokensDiffer
    /\ TurnsInOrder
    /\ AckFollowsDeletion

FlagsOK == leaseExpired \in BOOLEAN /\ cleared \in BOOLEAN

LEMMA FlagPreserved == FlagsOK /\ [Next]_vars => FlagsOK'
<1> SUFFICES ASSUME FlagsOK, [Next]_vars PROVE FlagsOK'
  OBVIOUS
<1> USE DEF FlagsOK, claimVars, scheduleVars, observed
<1>1. CASE LeaseExpires
  BY <1>1, Zenon DEF LeaseExpires
<1>2. ASSUME NEW u \in Uploads,
             BecomeEligible(u) \/ EligibilityEnds(u) \/ CopyLands(u)
      PROVE  FlagsOK'
  BY <1>2, Zenon DEF BecomeEligible, EligibilityEnds, CopyLands
<1>3. ASSUME NEW c \in Cleaners, Work(c) \/ Stop(c)
      PROVE  FlagsOK'
  <2>1. CASE Run(c)
    BY <2>1, Zenon DEF Run, Goto
  <2>2. CASE PreferredLane(c)
    BY <2>2, Zenon DEF PreferredLane, Goto
  <2>3. CASE BatchEnds(c)
    BY <2>3, Zenon DEF BatchEnds, Return, Goto
  <2>4. CASE NoWork(c)
    BY <2>4, Zenon DEF NoWork, Return, Goto
  <2>5. CASE Stop(c)
    BY <2>5, Zenon DEF Stop, Return, Goto
  <2>6. CASE SelectOrdinary(c)
    BY <2>6, Zenon DEF SelectOrdinary, Goto
  <2>7. CASE NoOrdinaryWork(c)
    BY <2>7, Zenon DEF NoOrdinaryWork, Goto
  <2>8. CASE DeleteOne(c)
    BY <2>8, Zenon DEF DeleteOne, Goto
  <2>9. CASE DeleteOneFails(c)
    BY <2>9, Zenon DEF DeleteOneFails, Goto
  <2>10. CASE MarkOrdinaryAttempt(c)
    BY <2>10, Zenon DEF MarkOrdinaryAttempt, Goto
  <2>11. CASE ClaimReconciliation(c)
    BY <2>11, Zenon DEF ClaimReconciliation, Goto, NoFencedWork, FreshToken
  <2>12. CASE NothingToReconcile(c)
    BY <2>12, Zenon DEF NothingToReconcile, Goto
  <2>13. CASE DeleteTarget(c)
    BY <2>13, Zenon DEF DeleteTarget, Goto
  <2>14. CASE DeleteTargetFails(c)
    BY <2>14, Zenon DEF DeleteTargetFails, Goto
  <2>15. CASE Acknowledge(c)
    BY <2>15, Zenon DEF Acknowledge, ClaimMatches, NextIteration, Goto
  <2>16. CASE RecordClaimRetry(c)
    BY <2>16, Zenon DEF RecordClaimRetry, ClaimMatches, NextIteration, Goto
  <2>17. CASE ClaimLost(c)
    BY <2>17, Zenon DEF ClaimLost, NextIteration, Goto
  <2> QED
    BY <1>3, <2>1, <2>2, <2>3, <2>4, <2>5, <2>6, <2>7, <2>8, <2>9, <2>10,
       <2>11, <2>12, <2>13, <2>14, <2>15, <2>16, <2>17 DEF Work, Ordinary,
       Reconciliation
<1>4. CASE UNCHANGED vars
  BY <1>4, Zenon DEF vars
<1> QED
  BY <1>1, <1>2, <1>3, <1>4 DEF Next, Surroundings

\* Only uploads are deleted, fenced and copied.
LEMMA SharedPreserved == Facts /\ [Next]_vars => SharedOK'
<1> SUFFICES ASSUME Facts, [Next]_vars PROVE SharedOK'
  OBVIOUS
<1> USE DEF Facts, FieldsOK, SharedOK, rowVars, storageVars, claimVars,
   scheduleVars, localVars, Lane
<1>1. CASE LeaseExpires
  BY <1>1 DEF LeaseExpires
<1>2. ASSUME NEW u \in Uploads,
             BecomeEligible(u) \/ EligibilityEnds(u) \/ CopyLands(u)
      PROVE  SharedOK'
  BY <1>2 DEF BecomeEligible, EligibilityEnds, CopyLands
<1>3. ASSUME NEW c \in Cleaners, Work(c) \/ Stop(c)
      PROVE  SharedOK'
  <2>1. CASE Run(c)
    BY <2>1 DEF Run, Goto
  <2>2. CASE PreferredLane(c)
    BY <2>2 DEF PreferredLane, Goto
  <2>3. CASE BatchEnds(c)
    BY <2>3 DEF BatchEnds, Return, Goto
  <2>4. CASE NoWork(c)
    BY <2>4 DEF NoWork, Return, Goto
  <2>5. CASE Stop(c)
    BY <2>5 DEF Stop, Return, Goto
  <2>6. CASE SelectOrdinary(c)
    BY <2>6 DEF SelectOrdinary, Goto
  <2>7. CASE NoOrdinaryWork(c)
    BY <2>7 DEF NoOrdinaryWork, Goto
  <2>8. CASE DeleteOne(c)
    BY <2>8 DEF DeleteOne, Goto
  <2>9. CASE DeleteOneFails(c)
    BY <2>9 DEF DeleteOneFails, Goto
  <2>10. CASE MarkOrdinaryAttempt(c)
    BY <2>10 DEF MarkOrdinaryAttempt, Goto
  <2>11. CASE ClaimReconciliation(c)
    BY <2>11 DEF ClaimReconciliation, FreshToken
  <2>12. CASE NothingToReconcile(c)
    BY <2>12 DEF NothingToReconcile, Goto
  <2>13. CASE DeleteTarget(c)
    BY <2>13 DEF DeleteTarget, Goto
  <2>14. CASE DeleteTargetFails(c)
    BY <2>14 DEF DeleteTargetFails, Goto
  <2>15. CASE Acknowledge(c)
    BY <2>15 DEF Acknowledge, ClaimMatches, NextIteration, Goto
  <2>16. CASE RecordClaimRetry(c)
    BY <2>16 DEF RecordClaimRetry, ClaimMatches, NextIteration, Goto
  <2>17. CASE ClaimLost(c)
    BY <2>17 DEF ClaimLost, NextIteration, Goto
  <2> QED
    BY <1>3, <2>1, <2>2, <2>3, <2>4, <2>5, <2>6, <2>7, <2>8, <2>9, <2>10,
       <2>11, <2>12, <2>13, <2>14, <2>15, <2>16, <2>17 DEF Work, Ordinary,
       Reconciliation
<1>4. CASE UNCHANGED vars
  BY <1>4 DEF vars
<1> QED
  BY <1>1, <1>2, <1>3, <1>4 DEF Next, Surroundings

\* A process works on uploads, for BatchSize iterations at most.
LEMMA LocalPreserved == Facts /\ [Next]_vars => LocalOK'
<1> SUFFICES ASSUME Facts, [Next]_vars PROVE LocalOK'
  OBVIOUS
<1>a. fenced \subseteq Uploads /\ claim \in 0 .. N /\ Uploads \subseteq 0 .. N
  BY DEF Facts, FieldsOK, SharedOK, TurnsInOrder, Uploads
<1>b. LocalOK
  BY DEF Facts, FieldsOK
<1> USE <1>b DEF LocalOK, localVars, Place
<1>1. CASE LeaseExpires
  BY <1>1 DEF LeaseExpires
<1>2. ASSUME NEW u \in Uploads,
             BecomeEligible(u) \/ EligibilityEnds(u) \/ CopyLands(u)
      PROVE  LocalOK'
  BY <1>2 DEF BecomeEligible, EligibilityEnds, CopyLands
<1>3. ASSUME NEW c \in Cleaners, Work(c) \/ Stop(c)
      PROVE  LocalOK'
  <2>1. CASE Run(c)
    BY <2>1 DEF Run, Goto
  <2>2. CASE PreferredLane(c)
    BY <2>2 DEF PreferredLane, Goto
  <2>3. CASE BatchEnds(c)
    BY <2>3 DEF BatchEnds, Return, Goto
  <2>4. CASE NoWork(c)
    BY <2>4 DEF NoWork, Return, Goto
  <2>5. CASE Stop(c)
    BY <2>5 DEF Stop, Return, Goto
  <2>6. CASE SelectOrdinary(c)
    <3>1. Candidates(c) \in SUBSET Uploads
      BY DEF Candidates, Facts, FieldsOK, SharedOK
    <3>2. First(Candidates(c)) \in Uploads
      BY <2>6, <3>1, FirstIsOne DEF SelectOrdinary
    <3> QED
      BY <1>a, <2>6, <3>2 DEF SelectOrdinary, Goto
  <2>7. CASE NoOrdinaryWork(c)
    BY <2>7 DEF NoOrdinaryWork, Goto
  <2>8. CASE DeleteOne(c)
    BY <2>8 DEF DeleteOne, Goto
  <2>9. CASE DeleteOneFails(c)
    BY <2>9 DEF DeleteOneFails, Goto
  <2>10. CASE MarkOrdinaryAttempt(c)
    BY <2>10 DEF MarkOrdinaryAttempt, Goto
  <2>11. CASE ClaimReconciliation(c)
    <3>1. claim = 0 => NextCandidate \in Uploads
      BY <2>11, NextIsFenced
         DEF ClaimReconciliation, NoFencedWork, Facts, FieldsOK, SharedOK, TurnsInOrder
    <3>2. (IF claim # 0 THEN claim ELSE NextCandidate) \in 0 .. N
      BY <1>a, <3>1
    <3> QED
      BY <2>11, <3>2 DEF ClaimReconciliation, Goto, FreshToken
  <2>12. CASE NothingToReconcile(c)
    BY <2>12 DEF NothingToReconcile, Goto
  <2>13. CASE DeleteTarget(c)
    BY <2>13 DEF DeleteTarget, Goto
  <2>14. CASE DeleteTargetFails(c)
    BY <2>14 DEF DeleteTargetFails, Goto
  <2>15. CASE Acknowledge(c)
    BY <2>15 DEF Acknowledge, ClaimMatches, NextIteration, Goto
  <2>16. CASE RecordClaimRetry(c)
    BY <2>16 DEF RecordClaimRetry, ClaimMatches, NextIteration, Goto
  <2>17. CASE ClaimLost(c)
    BY <2>17 DEF ClaimLost, NextIteration, Goto
  <2> QED
    BY <1>3, <2>1, <2>2, <2>3, <2>4, <2>5, <2>6, <2>7, <2>8, <2>9, <2>10,
       <2>11, <2>12, <2>13, <2>14, <2>15, <2>16, <2>17 DEF Work, Ordinary,
       Reconciliation
<1>4. CASE UNCHANGED vars
  BY <1>4 DEF vars
<1> QED
  BY <1>1, <1>2, <1>3, <1>4 DEF Next, Surroundings

\* The history is one of uploads.
LEMMA ServedPreserved == Facts /\ [Next]_vars => ServedOK'
<1> SUFFICES ASSUME Facts, [Next]_vars PROVE ServedOK'
  OBVIOUS
<1> USE DEF Facts, FieldsOK, ServedOK, observed
<1>1. CASE LeaseExpires
  BY <1>1 DEF LeaseExpires
<1>2. ASSUME NEW u \in Uploads,
             BecomeEligible(u) \/ EligibilityEnds(u) \/ CopyLands(u)
      PROVE  ServedOK'
  BY <1>2 DEF BecomeEligible, EligibilityEnds, CopyLands
<1>3. ASSUME NEW c \in Cleaners, Work(c) \/ Stop(c)
      PROVE  ServedOK'
  <2>1. CASE Run(c)
    BY <2>1 DEF Run, Goto
  <2>2. CASE PreferredLane(c)
    BY <2>2 DEF PreferredLane, Goto
  <2>3. CASE BatchEnds(c)
    BY <2>3 DEF BatchEnds, Return, Goto
  <2>4. CASE NoWork(c)
    BY <2>4 DEF NoWork, Return, Goto
  <2>5. CASE Stop(c)
    BY <2>5 DEF Stop, Return, Goto
  <2>6. CASE SelectOrdinary(c)
    BY <2>6 DEF SelectOrdinary, Goto
  <2>7. CASE NoOrdinaryWork(c)
    BY <2>7 DEF NoOrdinaryWork, Goto
  <2>8. CASE DeleteOne(c)
    BY <2>8 DEF DeleteOne, Goto
  <2>9. CASE DeleteOneFails(c)
    BY <2>9 DEF DeleteOneFails, Goto
  <2>10. CASE MarkOrdinaryAttempt(c)
    BY <2>10 DEF MarkOrdinaryAttempt, Goto
  <2>11. CASE ClaimReconciliation(c)
    BY <2>11 DEF ClaimReconciliation, Goto, NoFencedWork, FreshToken
  <2>12. CASE NothingToReconcile(c)
    BY <2>12 DEF NothingToReconcile, Goto
  <2>13. CASE DeleteTarget(c)
    BY <2>13 DEF DeleteTarget, Goto
  <2>14. CASE DeleteTargetFails(c)
    BY <2>14 DEF DeleteTargetFails, Goto
  <2>15. CASE Acknowledge(c)
    <3>1. claim \in Uploads /\ fenced \subseteq Uploads
      BY <2>15 DEF Acknowledge, ClaimMatches, HolderHasToken, Holding, SharedOK
    <3> QED
      BY <2>15, <3>1 DEF Acknowledge
  <2>16. CASE RecordClaimRetry(c)
    BY <2>16 DEF RecordClaimRetry, ClaimMatches, NextIteration, Goto
  <2>17. CASE ClaimLost(c)
    BY <2>17 DEF ClaimLost, NextIteration, Goto
  <2> QED
    BY <1>3, <2>1, <2>2, <2>3, <2>4, <2>5, <2>6, <2>7, <2>8, <2>9, <2>10,
       <2>11, <2>12, <2>13, <2>14, <2>15, <2>16, <2>17 DEF Work, Ordinary,
       Reconciliation
<1>4. CASE UNCHANGED vars
  BY <1>4 DEF vars
<1> QED
  BY <1>1, <1>2, <1>3, <1>4 DEF Next, Surroundings

-----------------------------------------------------------------------------
(* Tokens.                                                                 *)

\* A claim is worked on with a token that was fresh when it was taken.
LEMMA TokensPreserved ==
    Facts /\ [Next]_vars => HolderHasToken' /\ TokensDiffer'
<1> SUFFICES ASSUME Facts, [Next]_vars PROVE HolderHasToken' /\ TokensDiffer'
  OBVIOUS
<1> USE DEF Facts, FieldsOK, SharedOK, LocalOK, HolderHasToken, TokensDiffer, TurnsInOrder, rowVars,
   storageVars, claimVars, scheduleVars, localVars, Uploads, Place, Holding
<1>1. CASE LeaseExpires
  BY <1>1 DEF LeaseExpires
<1>2. ASSUME NEW u \in Uploads,
             BecomeEligible(u) \/ EligibilityEnds(u) \/ CopyLands(u)
      PROVE  HolderHasToken' /\ TokensDiffer'
  BY <1>2 DEF BecomeEligible, EligibilityEnds, CopyLands
<1>3. ASSUME NEW c \in Cleaners, Work(c) \/ Stop(c)
      PROVE  HolderHasToken' /\ TokensDiffer'
  <2>1. CASE Run(c)
    BY <2>1 DEF Run, Goto
  <2>2. CASE PreferredLane(c)
    BY <2>2 DEF PreferredLane, Goto
  <2>3. CASE BatchEnds(c)
    BY <2>3 DEF BatchEnds, Return, Goto
  <2>4. CASE NoWork(c)
    BY <2>4 DEF NoWork, Return, Goto
  <2>5. CASE Stop(c)
    BY <2>5 DEF Stop, Return, Goto
  <2>6. CASE SelectOrdinary(c)
    BY <2>6 DEF SelectOrdinary, Goto
  <2>7. CASE NoOrdinaryWork(c)
    BY <2>7 DEF NoOrdinaryWork, Goto
  <2>8. CASE DeleteOne(c)
    BY <2>8 DEF DeleteOne, Goto
  <2>9. CASE DeleteOneFails(c)
    BY <2>9 DEF DeleteOneFails, Goto
  <2>10. CASE MarkOrdinaryAttempt(c)
    BY <2>10 DEF MarkOrdinaryAttempt, Goto
  <2>11. CASE ClaimReconciliation(c)
    <3>1. claim = 0 => NextCandidate \in fenced
      BY <2>11, NextIsFenced DEF ClaimReconciliation, NoFencedWork
    <3> QED
      BY <2>11, <3>1 DEF ClaimReconciliation, Goto, FreshToken
  <2>12. CASE NothingToReconcile(c)
    BY <2>12 DEF NothingToReconcile, Goto
  <2>13. CASE DeleteTarget(c)
    BY <2>13 DEF DeleteTarget, Goto
  <2>14. CASE DeleteTargetFails(c)
    BY <2>14 DEF DeleteTargetFails, Goto
  <2>15. CASE Acknowledge(c)
    BY <2>15 DEF Acknowledge, ClaimMatches, NextIteration, Goto
  <2>16. CASE RecordClaimRetry(c)
    BY <2>16 DEF RecordClaimRetry, ClaimMatches, NextIteration, Goto
  <2>17. CASE ClaimLost(c)
    BY <2>17 DEF ClaimLost, NextIteration, Goto
  <2> QED
    BY <1>3, <2>1, <2>2, <2>3, <2>4, <2>5, <2>6, <2>7, <2>8, <2>9, <2>10,
       <2>11, <2>12, <2>13, <2>14, <2>15, <2>16, <2>17 DEF Work, Ordinary,
       Reconciliation
<1>4. CASE UNCHANGED vars
  BY <1>4 DEF vars
<1> QED
  BY <1>1, <1>2, <1>3, <1>4 DEF Next, Surroundings

-----------------------------------------------------------------------------
(* Turns.                                                                  *)

\* Only a claim, an acknowledgement and a fence touch the order of the turns.
LEMMA TurnsPreserved == Facts /\ [Next]_vars => TurnsInOrder'
<1> SUFFICES ASSUME Facts, [Next]_vars PROVE TurnsInOrder'
  OBVIOUS
<1> USE DEF Facts, FieldsOK, SharedOK, LocalOK, HolderHasToken, TurnsInOrder, Before, rowVars,
   storageVars, claimVars, scheduleVars, localVars, Holding, observed
<1>1. CASE LeaseExpires
  BY <1>1 DEF LeaseExpires
<1>2. ASSUME NEW u \in Uploads,
             BecomeEligible(u) \/ EligibilityEnds(u) \/ CopyLands(u)
      PROVE  TurnsInOrder'
  BY <1>2 DEF BecomeEligible, EligibilityEnds, CopyLands
<1>3. ASSUME NEW c \in Cleaners, Work(c) \/ Stop(c)
      PROVE  TurnsInOrder'
  <2>1. CASE Run(c)
    BY <2>1 DEF Run, Goto
  <2>2. CASE PreferredLane(c)
    BY <2>2 DEF PreferredLane, Goto
  <2>3. CASE BatchEnds(c)
    BY <2>3 DEF BatchEnds, Return, Goto
  <2>4. CASE NoWork(c)
    BY <2>4 DEF NoWork, Return, Goto
  <2>5. CASE Stop(c)
    BY <2>5 DEF Stop, Return, Goto
  <2>6. CASE SelectOrdinary(c)
    BY <2>6 DEF SelectOrdinary, Goto
  <2>7. CASE NoOrdinaryWork(c)
    BY <2>7 DEF NoOrdinaryWork, Goto
  <2>8. CASE DeleteOne(c)
    BY <2>8 DEF DeleteOne, Goto
  <2>9. CASE DeleteOneFails(c)
    BY <2>9 DEF DeleteOneFails, Goto
  <2>10. CASE MarkOrdinaryAttempt(c)
    BY <2>10 DEF MarkOrdinaryAttempt, Goto
  <2>11. CASE ClaimReconciliation(c)
    <3> DEFINE u == IF claim # 0 THEN claim ELSE NextCandidate
    <3>1. claim = 0 => /\ NextCandidate \in fenced
                       /\ \A v \in fenced : cursor \notin {0, v} =>
                            NextCandidate = v
                            \/ (NextCandidate # cursor /\ Before(cursor, NextCandidate, v))
      BY <2>11, NextIsFenced DEF ClaimReconciliation, NoFencedWork
    <3>2. claim' = u /\ UNCHANGED <<rowVars, cursor, served>>
      BY <2>11 DEF ClaimReconciliation
    <3>3. u \in fenced
      BY <3>1
    <3> HIDE DEF u
    <3>4. ASSUME NEW v \in Uploads, NEW x \in Uploads, <<v, x>> \in served
          PROVE  u = v \/ (u # cursor /\ Before(cursor, u, v))
      <4>1. v \in fenced /\ cursor \in fenced /\ cursor # 0 /\ Before(x, cursor, v)
        BY <3>4
      <4>2. cursor # v
        BY <4>1, GoingRound
      <4>3. CASE claim = 0
        BY <3>1, <4>1, <4>2, <4>3 DEF u
      <4>4. CASE claim # 0
        BY <3>4, <4>4 DEF u
      <4> QED
        BY <4>3, <4>4
    <3> QED
      BY <3>2, <3>3, <3>4
  <2>12. CASE NothingToReconcile(c)
    BY <2>12 DEF NothingToReconcile, Goto
  <2>13. CASE DeleteTarget(c)
    BY <2>13 DEF DeleteTarget, Goto
  <2>14. CASE DeleteTargetFails(c)
    BY <2>14 DEF DeleteTargetFails, Goto
  <2>15. CASE Acknowledge(c)
    <3>1. claim \in fenced /\ cursor' = claim /\ claim' = 0 /\ UNCHANGED rowVars
      BY <2>15 DEF Acknowledge, ClaimMatches
    <3>a. claim # 0
      BY <3>1 DEF Uploads
    <3>2. served' = {p \in served : p[1] # claim}
                      \cup {<<u, claim>> : u \in fenced \ {claim}}
      BY <2>15 DEF Acknowledge
    <3>3. ASSUME NEW u \in Uploads, NEW v \in Uploads, <<u, v>> \in served'
          PROVE  /\ u \in fenced /\ v \in fenced /\ u # v
                 /\ Before(v, claim, u)
      <4> USE GoingRound
      <4>1. CASE u \in fenced \ {claim} /\ v = claim
        BY <3>1, <4>1
      <4>2. CASE <<u, v>> \in served /\ u # claim
        <5>1. /\ u \in fenced /\ v \in fenced /\ u # v /\ cursor \in Uploads
              /\ Before(v, cursor, u) /\ Before(cursor, claim, u)
          BY <3>1, <3>a, <4>2
        <5> QED
          BY <3>1, <5>1
      <4>3. \/ <<u, v>> \in served /\ u # claim
            \/ u \in fenced \ {claim} /\ v = claim
        BY <3>2, <3>3
      <4> QED
        BY <4>1, <4>2, <4>3
    <3>4. \A u, v \in Uploads : <<u, v>> \in served' =>
            /\ u \in fenced' /\ v \in fenced' /\ u # v
            /\ cursor' # 0
            /\ Before(v, cursor, u)'
      BY <3>1, <3>3, <3>a
    <3> QED
      BY <3>1, <3>4
  <2>16. CASE RecordClaimRetry(c)
    BY <2>16 DEF RecordClaimRetry, ClaimMatches, NextIteration, Goto
  <2>17. CASE ClaimLost(c)
    BY <2>17 DEF ClaimLost, NextIteration, Goto
  <2> QED
    BY <1>3, <2>1, <2>2, <2>3, <2>4, <2>5, <2>6, <2>7, <2>8, <2>9, <2>10,
       <2>11, <2>12, <2>13, <2>14, <2>15, <2>16, <2>17 DEF Work, Ordinary,
       Reconciliation
<1>4. CASE UNCHANGED vars
  BY <1>4 DEF vars
<1> QED
  BY <1>1, <1>2, <1>3, <1>4 DEF Next, Surroundings

-----------------------------------------------------------------------------
(* Acknowledgements.                                                       *)

\* Only the deletion of the claimed target leads to an acknowledgement that
\* counts; a takeover draws a fresh token and has its deletion before it.
LEMMA AckPreserved == Facts /\ [Next]_vars => AckFollowsDeletion'
<1> SUFFICES ASSUME Facts, [Next]_vars PROVE AckFollowsDeletion'
  OBVIOUS
<1>a. /\ pc \in [Cleaners -> Place] /\ token \in [Cleaners -> Tokens \cup {NoToken}]
      /\ mine \in [Cleaners -> 0 .. N]
      /\ \A d \in Cleaners : pc[d] = "acking" => mine[d] # 0
      /\ AckFollowsDeletion
  BY DEF Facts, FieldsOK, SharedOK, LocalOK, HolderHasToken, Holding, Uploads
<1> USE <1>a DEF AckFollowsDeletion, ClaimMatches, claimVars, scheduleVars,
   localVars, observed
<1>1. CASE LeaseExpires
  BY <1>1 DEF LeaseExpires
<1>2. ASSUME NEW u \in Uploads,
             BecomeEligible(u) \/ EligibilityEnds(u) \/ CopyLands(u)
      PROVE  AckFollowsDeletion'
  BY <1>2 DEF BecomeEligible, EligibilityEnds, CopyLands
<1>3. ASSUME NEW c \in Cleaners, Work(c) \/ Stop(c)
      PROVE  AckFollowsDeletion'
  <2>1. CASE Run(c)
    BY <2>1 DEF Run, Goto
  <2>2. CASE PreferredLane(c)
    BY <2>2 DEF PreferredLane, Goto
  <2>3. CASE BatchEnds(c)
    BY <2>3 DEF BatchEnds, Return, Goto
  <2>4. CASE NoWork(c)
    BY <2>4 DEF NoWork, Return, Goto
  <2>5. CASE Stop(c)
    BY <2>5 DEF Stop, Return, Goto
  <2>6. CASE SelectOrdinary(c)
    BY <2>6 DEF SelectOrdinary, Goto
  <2>7. CASE NoOrdinaryWork(c)
    BY <2>7 DEF NoOrdinaryWork, Goto
  <2>8. CASE DeleteOne(c)
    BY <2>8 DEF DeleteOne, Goto
  <2>9. CASE DeleteOneFails(c)
    BY <2>9 DEF DeleteOneFails, Goto
  <2>10. CASE MarkOrdinaryAttempt(c)
    BY <2>10 DEF MarkOrdinaryAttempt, Goto
  <2>11. CASE ClaimReconciliation(c)
    BY <2>11 DEF ClaimReconciliation, Goto, NoFencedWork, FreshToken
  <2>12. CASE NothingToReconcile(c)
    BY <2>12 DEF NothingToReconcile, Goto
  <2>13. CASE DeleteTarget(c)
    BY <2>13 DEF DeleteTarget, Goto
  <2>14. CASE DeleteTargetFails(c)
    <3>1. cleared => cleared'
      BY <2>14, Zenon DEF DeleteTargetFails
    <3>2. pc' = [pc EXCEPT ![c] = "retrying"] /\ UNCHANGED <<claim, claimToken, mine, token>>
      BY <2>14 DEF DeleteTargetFails, Goto
    <3> QED
      BY <3>1, <3>2
  <2>15. CASE Acknowledge(c)
    BY <2>15 DEF Acknowledge, ClaimMatches, NextIteration, Goto
  <2>16. CASE RecordClaimRetry(c)
    BY <2>16 DEF RecordClaimRetry, ClaimMatches, NextIteration, Goto
  <2>17. CASE ClaimLost(c)
    BY <2>17 DEF ClaimLost, NextIteration, Goto
  <2> QED
    BY <1>3, <2>1, <2>2, <2>3, <2>4, <2>5, <2>6, <2>7, <2>8, <2>9, <2>10,
       <2>11, <2>12, <2>13, <2>14, <2>15, <2>16, <2>17 DEF Work, Ordinary,
       Reconciliation
<1>4. CASE UNCHANGED vars
  BY <1>4 DEF vars
<1> QED
  BY <1>1, <1>2, <1>3, <1>4 DEF Next, Surroundings

-----------------------------------------------------------------------------
(* The theorems.                                                           *)

LEMMA InitFacts == Init => Facts /\ FlagsOK
<1> SUFFICES ASSUME Init PROVE Facts /\ FlagsOK
  OBVIOUS
<1>1. FieldsOK
  BY DEF Init, FieldsOK, SharedOK, LocalOK, ServedOK, Uploads, Lane, Place
<1>2. HolderHasToken /\ TokensDiffer
  BY DEF Init, HolderHasToken, TokensDiffer, Holding
<1>4. AckFollowsDeletion
  BY DEF Init, AckFollowsDeletion
<1>3. TurnsInOrder
  BY DEF Init, TurnsInOrder
<1> QED
  BY <1>1, <1>2, <1>3, <1>4 DEF Init, Facts, FlagsOK

\* The parts of IInv hold together in every reachable state.
THEOREM InductiveInvariant == Spec => []IInv
<1>1. Init => Facts /\ FlagsOK
  BY InitFacts
<1>2. (Facts /\ FlagsOK) /\ [Next]_vars
        => (Facts /\ FlagsOK)'
  BY FlagPreserved, SharedPreserved, LocalPreserved, ServedPreserved,
     TokensPreserved, TurnsPreserved, AckPreserved
     DEF Facts, FieldsOK
<1>3. Facts /\ FlagsOK => IInv
  <2> SUFFICES ASSUME Facts, FlagsOK PROVE IInv
    OBVIOUS
  <2>1. claim \in 0 .. N /\ cursor \in 0 .. N
    BY DEF Facts, FieldsOK, SharedOK, TurnsInOrder, Uploads
  <2> QED
    BY <2>1, Zenon DEF Facts, FieldsOK, SharedOK, LocalOK, ServedOK, FlagsOK, IInv,
       TypeOK
<1> QED
  BY <1>1, <1>2, <1>3, PTL DEF Spec

\* Every variable keeps its type; a run has at most BatchSize iterations.
THEOREM TypeCorrect == Spec => []TypeOK
<1>1. IInv => TypeOK
  BY DEF IInv
<1> QED
  BY <1>1, InductiveInvariant, PTL

\* At most one process holds the live claim: tokens differ.
THEOREM ClaimHasOneHolder == Spec => []OneHolder
<1>1. IInv => OneHolder
  BY DEF IInv, HolderHasToken, TokensDiffer, OneHolder, ClaimMatches
<1> QED
  BY <1>1, InductiveInvariant, PTL

\* No fenced row is acknowledged twice while another one waits.
THEOREM FencedRowsTakeTurns == Spec => TakesTurns
<1>1. IInv => \A u \in fenced \ {claim} : claim # 0 => <<u, claim>> \notin served
  <2> SUFFICES ASSUME IInv, NEW u \in fenced, u # claim, claim # 0,
                      <<u, claim>> \in served
               PROVE  FALSE
    OBVIOUS
  <2>1. /\ u \in Uploads /\ claim \in Uploads /\ cursor \in Uploads
        /\ stamp \in [Uploads -> Uploads]
    BY DEF IInv, TypeOK, TurnsInOrder
  <2>2. Before(claim, cursor, u) /\ claim # cursor /\ Before(cursor, claim, u)
    BY <2>1 DEF IInv, TurnsInOrder
  <2> QED
    BY <2>1, <2>2, GoingRound DEF IInv, TurnsInOrder
<1>2. IInv => (claim # 0 /\ claim' = 0 => \A u \in fenced \ {claim} : <<u, claim>> \notin served)
  BY <1>1
<1> QED
  BY <1>2, InductiveInvariant, PTL DEF TakesTurns


\* The steps of the two action properties, named for the proofs.
KeepsLiveClaim ==
    claim # 0 /\ ~leaseExpired /\ claimToken' # claimToken
        => \E c \in Cleaners : token[c] = claimToken /\ pc[c] = "acking" /\ pc'[c] = "choosing"

PassesDeleted ==
    claim # 0 => \/ claim' = claim /\ cursor' = cursor
                 \/ claim' = 0 /\ cursor' = claim /\ cleared

\* A claim that is not expired is changed by its holder only.
LEMMA LiveStep == IInv /\ [Next]_vars => KeepsLiveClaim
<1> SUFFICES ASSUME IInv, [Next]_vars PROVE KeepsLiveClaim
  BY DEF KeepsLiveClaim
<1> USE DEF KeepsLiveClaim, rowVars, storageVars, claimVars, scheduleVars, localVars,
   IInv, TypeOK, Place
<1>1. CASE LeaseExpires
  BY <1>1 DEF LeaseExpires
<1>2. ASSUME NEW u \in Uploads,
             BecomeEligible(u) \/ EligibilityEnds(u) \/ CopyLands(u)
      PROVE  KeepsLiveClaim
  BY <1>2 DEF BecomeEligible, EligibilityEnds, CopyLands
<1>3. ASSUME NEW c \in Cleaners, Work(c) \/ Stop(c)
      PROVE  KeepsLiveClaim
  <2>1. CASE Run(c)
    BY <2>1 DEF Run, Goto
  <2>2. CASE PreferredLane(c)
    BY <2>2 DEF PreferredLane, Goto
  <2>3. CASE BatchEnds(c)
    BY <2>3 DEF BatchEnds, Return, Goto
  <2>4. CASE NoWork(c)
    BY <2>4 DEF NoWork, Return, Goto
  <2>5. CASE Stop(c)
    BY <2>5 DEF Stop, Return, Goto
  <2>6. CASE SelectOrdinary(c)
    BY <2>6 DEF SelectOrdinary, Goto
  <2>7. CASE NoOrdinaryWork(c)
    BY <2>7 DEF NoOrdinaryWork, Goto
  <2>8. CASE DeleteOne(c)
    BY <2>8 DEF DeleteOne, Goto
  <2>9. CASE DeleteOneFails(c)
    BY <2>9 DEF DeleteOneFails, Goto
  <2>10. CASE MarkOrdinaryAttempt(c)
    BY <2>10 DEF MarkOrdinaryAttempt, Goto
  <2>11. CASE ClaimReconciliation(c)
    BY <2>11 DEF ClaimReconciliation, Goto, NoFencedWork, FreshToken
  <2>12. CASE NothingToReconcile(c)
    BY <2>12 DEF NothingToReconcile, Goto
  <2>13. CASE DeleteTarget(c)
    BY <2>13 DEF DeleteTarget, Goto
  <2>14. CASE DeleteTargetFails(c)
    BY <2>14 DEF DeleteTargetFails, Goto
  <2>15. CASE Acknowledge(c)
    BY <2>15 DEF Acknowledge, ClaimMatches, NextIteration, Goto
  <2>16. CASE RecordClaimRetry(c)
    BY <2>16 DEF RecordClaimRetry, ClaimMatches, NextIteration, Goto
  <2>17. CASE ClaimLost(c)
    BY <2>17 DEF ClaimLost, NextIteration, Goto
  <2> QED
    BY <1>3, <2>1, <2>2, <2>3, <2>4, <2>5, <2>6, <2>7, <2>8, <2>9, <2>10,
       <2>11, <2>12, <2>13, <2>14, <2>15, <2>16, <2>17 DEF Work, Ordinary,
       Reconciliation
<1>4. CASE UNCHANGED vars
  BY <1>4 DEF vars
<1> QED
  BY <1>1, <1>2, <1>3, <1>4 DEF Next, Surroundings

\* A live claim is ended by the process that holds it.
THEOREM LiveClaimKept == Spec => LiveClaimIsKept
<1>1. Spec => [][KeepsLiveClaim]_vars
  BY LiveStep, InductiveInvariant, PTL DEF Spec
<1> QED
  BY <1>1, PTL DEF LiveClaimIsKept, KeepsLiveClaim

\* A claim is taken over for the same row, or acknowledged after a deletion.
LEMMA ClaimStep == IInv /\ [Next]_vars => PassesDeleted
<1> SUFFICES ASSUME IInv, [Next]_vars PROVE PassesDeleted
  BY DEF PassesDeleted
<1> USE DEF PassesDeleted, rowVars, storageVars, claimVars, scheduleVars, localVars,
   IInv, TypeOK, Place
<1>1. CASE LeaseExpires
  BY <1>1 DEF LeaseExpires
<1>2. ASSUME NEW u \in Uploads,
             BecomeEligible(u) \/ EligibilityEnds(u) \/ CopyLands(u)
      PROVE  PassesDeleted
  BY <1>2 DEF BecomeEligible, EligibilityEnds, CopyLands
<1>3. ASSUME NEW c \in Cleaners, Work(c) \/ Stop(c)
      PROVE  PassesDeleted
  <2>1. CASE Run(c)
    BY <2>1 DEF Run, Goto
  <2>2. CASE PreferredLane(c)
    BY <2>2 DEF PreferredLane, Goto
  <2>3. CASE BatchEnds(c)
    BY <2>3 DEF BatchEnds, Return, Goto
  <2>4. CASE NoWork(c)
    BY <2>4 DEF NoWork, Return, Goto
  <2>5. CASE Stop(c)
    BY <2>5 DEF Stop, Return, Goto
  <2>6. CASE SelectOrdinary(c)
    BY <2>6 DEF SelectOrdinary, Goto
  <2>7. CASE NoOrdinaryWork(c)
    BY <2>7 DEF NoOrdinaryWork, Goto
  <2>8. CASE DeleteOne(c)
    BY <2>8 DEF DeleteOne, Goto
  <2>9. CASE DeleteOneFails(c)
    BY <2>9 DEF DeleteOneFails, Goto
  <2>10. CASE MarkOrdinaryAttempt(c)
    BY <2>10 DEF MarkOrdinaryAttempt, Goto
  <2>11. CASE ClaimReconciliation(c)
    BY <2>11 DEF ClaimReconciliation, Goto, NoFencedWork, FreshToken
  <2>12. CASE NothingToReconcile(c)
    BY <2>12 DEF NothingToReconcile, Goto
  <2>13. CASE DeleteTarget(c)
    BY <2>13 DEF DeleteTarget, Goto
  <2>14. CASE DeleteTargetFails(c)
    BY <2>14 DEF DeleteTargetFails, Goto
  <2>15. CASE Acknowledge(c)
    BY <2>15 DEF Acknowledge, AckFollowsDeletion
  <2>16. CASE RecordClaimRetry(c)
    BY <2>16 DEF RecordClaimRetry, ClaimMatches, NextIteration, Goto
  <2>17. CASE ClaimLost(c)
    BY <2>17 DEF ClaimLost, NextIteration, Goto
  <2> QED
    BY <1>3, <2>1, <2>2, <2>3, <2>4, <2>5, <2>6, <2>7, <2>8, <2>9, <2>10,
       <2>11, <2>12, <2>13, <2>14, <2>15, <2>16, <2>17 DEF Work, Ordinary,
       Reconciliation
<1>4. CASE UNCHANGED vars
  BY <1>4 DEF vars
<1> QED
  BY <1>1, <1>2, <1>3, <1>4 DEF Next, Surroundings

\* The cursor passes a claimed row only after its target was deleted.
THEOREM ClaimNotBypassed == Spec => ClaimIsNotBypassed
<1>1. Spec => [][PassesDeleted]_vars
  BY ClaimStep, InductiveInvariant, PTL DEF Spec
<1> QED
  BY <1>1, PTL DEF ClaimIsNotBypassed, PassesDeleted
=============================================================================
