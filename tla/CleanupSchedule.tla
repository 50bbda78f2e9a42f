-------------------------- MODULE CleanupSchedule --------------------------
(***************************************************************************)
(* The scheduler of the retention service: any number of processes run     *)
(* cleanup_expired, whose iterations share two lanes.  The ordinary lane   *)
(* deletes the target of an eligible upload and fences its row; the        *)
(* reconciliation lane deletes the targets of fenced rows again, in turn,  *)
(* because a copy may have landed after the fence.  CleanupScheduleState,  *)
(* one row, holds the preferred lane, the cursor and one leased claim.     *)
(*                                                                         *)
(* Each transaction is one action.  A process that dies, or whose          *)
(* transaction fails or loses its reply, does Stop.                        *)
(***************************************************************************)
EXTENDS Naturals

CONSTANTS
    N,          \* the number of uploads
    Cleaners,   \* the processes that call cleanup_expired
    Tokens,     \* claim tokens (uuid4): one never drawn twice while in use
    NoToken,
    Broken,     \* uploads whose object the store keeps refusing to delete
    BatchSize   \* cleanup_expired(batch_size=...)

ASSUME NAssumption == N \in Nat
ASSUME BatchAssumption == BatchSize \in Nat \ {0}
ASSUME TokenAssumption == NoToken \notin Tokens

\* Uploads in the order of the ordinary scan.
Uploads == 1 .. N

VARIABLES
    \* The rows: eligible for deletion, fenced (promotion_target_deleted_at).
    \* stamp is the order of promotion_target_deleted_at, drawn in advance: it
    \* is the "now" of the run that fences the row, not the time of the fence.
    eligible, fenced, stamp,
    \* Object storage: the targets that exist, the copies still in flight.
    target, copies,
    \* CleanupScheduleState; 0 is None.
    lane, cursor, claim, claimToken, leaseExpired,
    \* Each process: its place, the iterations it has left, the ordinary
    \* candidates it has tried, and the upload and token it works on.
    pc, left, attempted, mine, token,
    \* <<u, v>>: v was acknowledged since u was fenced or acknowledged; the
    \* claimed upload's target was deleted since the claim was made (both
    \* observed by the properties only).
    served, cleared

rowVars      == <<eligible, fenced, stamp>>
storageVars  == <<target, copies>>
claimVars    == <<claim, claimToken, leaseExpired>>
scheduleVars == <<lane, cursor, claimVars>>
localVars    == <<left, attempted, mine, token>>
observed     == <<served, cleared>>
vars == <<rowVars, storageVars, scheduleVars, pc, localVars, observed>>

Lane == {"ordinary", "reconciliation"}

\* "...First" is the preferred lane of an iteration, "...Second" the other.
Place == {"idle", "choosing", "ordinaryFirst", "ordinarySecond", "deleting",
          "marking", "reconcileFirst", "reconcileSecond", "reconciling",
          "acking", "retrying"}

Holding == {"reconciling", "acking", "retrying"}

TypeOK ==
    /\ eligible \subseteq Uploads
    /\ fenced \subseteq Uploads
    /\ stamp \in [Uploads -> Uploads]
    /\ target \subseteq Uploads
    /\ copies \subseteq Uploads
    /\ lane \in Lane
    /\ cursor \in 0 .. N
    /\ claim \in 0 .. N
    /\ claimToken \in Tokens \cup {NoToken}
    /\ leaseExpired \in BOOLEAN
    /\ pc \in [Cleaners -> Place]
    /\ left \in [Cleaners -> 0 .. BatchSize]
    /\ attempted \in [Cleaners -> SUBSET Uploads]
    /\ mine \in [Cleaners -> 0 .. N]
    /\ token \in [Cleaners -> Tokens \cup {NoToken}]
    /\ served \subseteq Uploads \X Uploads
    /\ cleared \in BOOLEAN

Init ==
    /\ eligible = {}
    /\ fenced = {}
    /\ stamp \in {f \in [Uploads -> Uploads] : \A u, v \in Uploads : f[u] = f[v] => u = v}
    /\ target = Uploads
    /\ copies = Uploads
    /\ lane = "ordinary"
    /\ cursor = 0
    /\ claim = 0
    /\ claimToken = NoToken
    /\ leaseExpired = FALSE
    /\ pc = [c \in Cleaners |-> "idle"]
    /\ left = [c \in Cleaners |-> 0]
    /\ attempted = [c \in Cleaners |-> {}]
    /\ mine = [c \in Cleaners |-> 0]
    /\ token = [c \in Cleaners |-> NoToken]
    /\ served = {}
    /\ cleared = FALSE

Goto(c, place) == pc' = [pc EXCEPT ![c] = place]

\* cleanup_expired returns.
Return(c) ==
    /\ Goto(c, "idle")
    /\ left' = [left EXCEPT ![c] = 0]
    /\ attempted' = [attempted EXCEPT ![c] = {}]
    /\ mine' = [mine EXCEPT ![c] = 0]
    /\ token' = [token EXCEPT ![c] = NoToken]

\* The first upload of a set, in the order of the scans.
First(S) == CHOOSE u \in S : \A v \in S : u <= v

-----------------------------------------------------------------------------
(* The surroundings.                                                       *)

\* A reservation becomes stale, or the window of an attached input ends.
BecomeEligible(u) ==
    /\ u \notin eligible \cup fenced
    /\ eligible' = eligible \cup {u}
    /\ UNCHANGED <<fenced, stamp, storageVars, scheduleVars, pc, localVars, observed>>

\* A stale reservation is attached, or fails, after all.
EligibilityEnds(u) ==
    /\ u \in eligible
    /\ eligible' = eligible \ {u}
    /\ UNCHANGED <<fenced, stamp, storageVars, scheduleVars, pc, localVars, observed>>

CopyLands(u) ==
    /\ u \in copies
    /\ copies' = copies \ {u}
    /\ target' = target \cup {u}
    /\ UNCHANGED <<rowVars, scheduleVars, pc, localVars, observed>>

\* RETENTION_RECONCILIATION_LEASE_SECONDS have passed.
LeaseExpires ==
    /\ claim # 0
    /\ ~leaseExpired
    /\ leaseExpired' = TRUE
    /\ UNCHANGED <<rowVars, storageVars, lane, cursor, claim, claimToken, pc,
                   localVars, observed>>

-----------------------------------------------------------------------------
(* One run of cleanup_expired.                                             *)

Run(c) ==
    /\ pc[c] = "idle"
    /\ Goto(c, "choosing")
    /\ left' = [left EXCEPT ![c] = BatchSize]
    /\ UNCHANGED <<rowVars, storageVars, scheduleVars, attempted, mine, token, observed>>

\* _preferred_lane, read in a transaction of its own.
PreferredLane(c) ==
    /\ pc[c] = "choosing"
    /\ left[c] > 0
    /\ left' = [left EXCEPT ![c] = @ - 1]
    /\ Goto(c, IF lane = "ordinary" THEN "ordinaryFirst" ELSE "reconcileFirst")
    /\ UNCHANGED <<rowVars, storageVars, scheduleVars, attempted, mine, token, observed>>

BatchEnds(c) ==
    /\ pc[c] = "choosing"
    /\ left[c] = 0
    /\ Return(c)
    /\ UNCHANGED <<rowVars, storageVars, scheduleVars, observed>>

Candidates(c) == eligible \ attempted[c]

\* Mutant: an upload that could not be deleted is tried again at once.
SelectOrdinaryForgetting(c) ==
    /\ pc[c] \in {"ordinaryFirst", "ordinarySecond"}
    /\ Candidates(c) # {}
    /\ mine' = [mine EXCEPT ![c] = First(Candidates(c))]
    /\ Goto(c, "deleting")
    /\ UNCHANGED <<rowVars, storageVars, scheduleVars, left, attempted, token, observed>>

\* _ordinary_candidates(limit=1)
SelectOrdinary(c) ==
    /\ pc[c] \in {"ordinaryFirst", "ordinarySecond"}
    /\ Candidates(c) # {}
    /\ mine' = [mine EXCEPT ![c] = First(Candidates(c))]
    /\ attempted' = [attempted EXCEPT ![c] = @ \cup {First(Candidates(c))}]
    /\ Goto(c, "deleting")
    /\ UNCHANGED <<rowVars, storageVars, scheduleVars, left, token, observed>>

NoOrdinaryWork(c) ==
    /\ pc[c] = "ordinaryFirst"
    /\ Candidates(c) = {}
    /\ Goto(c, "reconcileSecond")
    /\ UNCHANGED <<rowVars, storageVars, scheduleVars, localVars, observed>>

\* The claim is held and live, or no row is fenced.
NoFencedWork == IF claim # 0 THEN ~leaseExpired ELSE fenced = {}

\* Neither lane has work for this process.
NoWork(c) ==
    /\ \/ pc[c] = "ordinarySecond" /\ Candidates(c) = {}
       \/ pc[c] = "reconcileSecond" /\ NoFencedWork
    /\ Return(c)
    /\ UNCHANGED <<rowVars, storageVars, scheduleVars, observed>>

\* _delete_one: eligibility is checked again under the row lock.
DeleteOne(c) ==
    /\ pc[c] = "deleting"
    /\ mine[c] \in eligible \ Broken
    /\ eligible' = eligible \ {mine[c]}
    /\ fenced' = fenced \cup {mine[c]}
    /\ target' = target \ {mine[c]}
    /\ Goto(c, "marking")
    /\ UNCHANGED <<stamp, copies, scheduleVars, localVars, observed>>

\* The row is locked, was deleted by another process, or the store failed.
DeleteOneFails(c) ==
    /\ pc[c] = "deleting"
    /\ target' \in {target} \cup {target \ {u} : u \in {mine[c]} \cap (eligible \ Broken)}
    /\ Goto(c, "marking")
    /\ UNCHANGED <<rowVars, copies, scheduleVars, localVars, observed>>

\* _mark_ordinary_attempt
MarkOrdinaryAttempt(c) ==
    /\ pc[c] = "marking"
    /\ lane' = "reconciliation"
    /\ mine' = [mine EXCEPT ![c] = 0]
    /\ Goto(c, "choosing")
    /\ UNCHANGED <<rowVars, storageVars, cursor, claimVars, left, attempted,
                   token, observed>>

\* Mutant: the scan starts over each time.
NextFromTheStart == CHOOSE u \in fenced : \A v \in fenced : stamp[u] <= stamp[v]

\* _next_reconciliation_candidate: the next after the cursor, then from the start.
NextCandidate ==
    LET after == {u \in fenced : cursor # 0 /\ stamp[u] > stamp[cursor]}
        among == IF after # {} THEN after ELSE fenced
    IN  CHOOSE u \in among : \A v \in among : stamp[u] <= stamp[v]

FreshToken == Tokens \ ({claimToken} \cup {token[c] : c \in Cleaners})

\* Mutant: the lease is not looked at.
ClaimLiveOnes(c) ==
    /\ pc[c] \in {"reconcileFirst", "reconcileSecond"}
    /\ claim # 0 \/ fenced # {}
    /\ LET u == IF claim # 0 THEN claim ELSE NextCandidate
       IN  /\ claim' = u
           /\ mine' = [mine EXCEPT ![c] = u]
    /\ \E t \in FreshToken :
         /\ claimToken' = t
         /\ token' = [token EXCEPT ![c] = t]
    /\ leaseExpired' = FALSE
    /\ Goto(c, "reconciling")
    /\ UNCHANGED <<rowVars, storageVars, lane, cursor, left, attempted, observed>>

\* Mutant: a dead claim is not taken over.
ClaimFreeOnly(c) ==
    /\ pc[c] \in {"reconcileFirst", "reconcileSecond"}
    /\ claim = 0 /\ fenced # {}
    /\ LET u == IF claim # 0 THEN claim ELSE NextCandidate
       IN  /\ claim' = u
           /\ mine' = [mine EXCEPT ![c] = u]
    /\ \E t \in FreshToken :
         /\ claimToken' = t
         /\ token' = [token EXCEPT ![c] = t]
    /\ leaseExpired' = FALSE
    /\ Goto(c, "reconciling")
    /\ UNCHANGED <<rowVars, storageVars, lane, cursor, left, attempted, observed>>

\* _claim_reconciliation: a live claim is left alone, an expired one is taken
\* over for the same upload.  Fenced rows stay, so the branches for a claim
\* whose row is gone are dead.
ClaimReconciliation(c) ==
    /\ pc[c] \in {"reconcileFirst", "reconcileSecond"}
    /\ ~NoFencedWork
    /\ LET u == IF claim # 0 THEN claim ELSE NextCandidate
       IN  /\ claim' = u
           /\ mine' = [mine EXCEPT ![c] = u]
    /\ \E t \in FreshToken :
         /\ claimToken' = t
         /\ token' = [token EXCEPT ![c] = t]
    /\ leaseExpired' = FALSE
    /\ Goto(c, "reconciling")
    /\ UNCHANGED <<rowVars, storageVars, lane, cursor, left, attempted, observed>>

NothingToReconcile(c) ==
    /\ pc[c] = "reconcileFirst"
    /\ NoFencedWork
    /\ Goto(c, "ordinarySecond")
    /\ UNCHANGED <<rowVars, storageVars, scheduleVars, localVars, observed>>

\* _attempt_reconciliation; the key of a fenced row is the one its reservation
\* wrote, so the branches for another key are dead.
DeleteTarget(c) ==
    /\ pc[c] = "reconciling"
    /\ target' = target \ {mine[c]}
    /\ cleared' = (cleared \/ mine[c] = claim)
    /\ Goto(c, "acking")
    /\ UNCHANGED <<rowVars, copies, scheduleVars, localVars, served>>

DeleteTargetFails(c) ==
    /\ pc[c] = "reconciling"
    /\ \/ UNCHANGED <<target, cleared>>
       \/ target' = target \ {mine[c]} /\ cleared' = (cleared \/ mine[c] = claim)
    /\ Goto(c, "retrying")
    /\ UNCHANGED <<rowVars, copies, scheduleVars, localVars, served>>

\* _claim_matches
ClaimMatches(c) == claim = mine[c] /\ claimToken = token[c]

\* The claim is done with: the process forgets it and goes on.
NextIteration(c) ==
    /\ Goto(c, "choosing")
    /\ mine' = [mine EXCEPT ![c] = 0]
    /\ token' = [token EXCEPT ![c] = NoToken]
    /\ UNCHANGED <<left, attempted>>

\* Mutant: a late outcome moves the cursor too.
AcknowledgeLate(c) ==
    /\ pc[c] = "acking"
    /\ cursor' = mine[c]
    /\ claim' = 0
    /\ claimToken' = NoToken
    /\ leaseExpired' = FALSE
    /\ lane' = "ordinary"
    /\ served' = {p \in served : p[1] # claim} \cup {<<u, claim>> : u \in fenced \ {claim}}
    /\ cleared' = FALSE
    /\ NextIteration(c)
    /\ UNCHANGED <<rowVars, storageVars>>

\* _ack_reconciliation
Acknowledge(c) ==
    /\ pc[c] = "acking"
    /\ ClaimMatches(c)
    /\ cursor' = claim
    /\ claim' = 0
    /\ claimToken' = NoToken
    /\ leaseExpired' = FALSE
    /\ lane' = "ordinary"
    /\ served' = {p \in served : p[1] # claim} \cup {<<u, claim>> : u \in fenced \ {claim}}
    /\ cleared' = FALSE
    /\ NextIteration(c)
    /\ UNCHANGED <<rowVars, storageVars>>

\* Mutant: a failed deletion is acknowledged too.
RecordRetryAsDone(c) ==
    /\ pc[c] = "retrying"
    /\ ClaimMatches(c)
    /\ cursor' = claim
    /\ claim' = 0
    /\ claimToken' = NoToken
    /\ leaseExpired' = FALSE
    /\ lane' = "ordinary"
    /\ served' = {p \in served : p[1] # claim} \cup {<<u, claim>> : u \in fenced \ {claim}}
    /\ cleared' = FALSE
    /\ NextIteration(c)
    /\ UNCHANGED <<rowVars, storageVars>>

\* _record_claim_retry: the claim and the cursor stay.
RecordClaimRetry(c) ==
    /\ pc[c] = "retrying"
    /\ ClaimMatches(c)
    /\ lane' = "ordinary"
    /\ NextIteration(c)
    /\ UNCHANGED <<rowVars, storageVars, cursor, claimVars, observed>>

\* Another process has taken the claim over.
ClaimLost(c) ==
    /\ pc[c] \in {"acking", "retrying"}
    /\ ~ClaimMatches(c)
    /\ NextIteration(c)
    /\ UNCHANGED <<rowVars, storageVars, scheduleVars, observed>>

Stop(c) ==
    /\ pc[c] # "idle"
    /\ Return(c)
    /\ UNCHANGED <<rowVars, storageVars, scheduleVars, observed>>

-----------------------------------------------------------------------------
Ordinary(c) ==
    \/ SelectOrdinary(c) \/ NoOrdinaryWork(c) \/ DeleteOne(c)
    \/ DeleteOneFails(c) \/ MarkOrdinaryAttempt(c)

Reconciliation(c) ==
    \/ ClaimReconciliation(c) \/ NothingToReconcile(c) \/ DeleteTarget(c)
    \/ DeleteTargetFails(c) \/ Acknowledge(c) \/ RecordClaimRetry(c) \/ ClaimLost(c)

Surroundings ==
    \/ LeaseExpires
    \/ \E u \in Uploads : BecomeEligible(u) \/ EligibilityEnds(u) \/ CopyLands(u)

Work(c) ==
    \/ Run(c) \/ PreferredLane(c) \/ BatchEnds(c) \/ NoWork(c)
    \/ Ordinary(c) \/ Reconciliation(c)

Next == Surroundings \/ \E c \in Cleaners : Work(c) \/ Stop(c)

Spec == Init /\ [][Next]_vars

\* cleanup_expired is called again and again and runs on; processes stop
\* crashing one day (a Stop that is Work is a return); leases expire; the store
\* refuses no key for ever, but for the broken ones; and not every attempt
\* outlives its lease.
Fairness ==
    /\ <>[][\A c \in Cleaners : Stop(c) => Work(c)]_vars
    /\ WF_vars(LeaseExpires)
    /\ \A c \in Cleaners :
         /\ WF_vars(Work(c))
         /\ SF_vars(DeleteOne(c))
         /\ SF_vars(DeleteTarget(c))
         /\ SF_vars(Acknowledge(c))

FairSpec == Spec /\ Fairness

-----------------------------------------------------------------------------
(* What must hold.                                                         *)

\* Fenced rows take turns: none is acknowledged twice while another one waits,
\* whatever rows are fenced meanwhile, before or behind the cursor.
\* (_next_reconciliation_candidate, _ack_reconciliation)
TakesTurns ==
    [][claim # 0 /\ claim' = 0 => \A u \in fenced \ {claim} : <<u, claim>> \notin served]_vars

\* A live claim is ended by the process that holds it, never by a late one
\* whose lease has run out.  (_claim_matches, _claim_reconciliation)
LiveClaimIsKept ==
    [][claim # 0 /\ ~leaseExpired /\ claimToken' # claimToken
        => \E c \in Cleaners : token[c] = claimToken /\ pc[c] = "acking" /\ pc'[c] = "choosing"]_vars

\* The cursor passes a claimed upload only after its target was deleted under
\* that claim: no crash, takeover or failed deletion skips it.
\* (_run_reconciliation_once, _record_claim_retry)
ClaimIsNotBypassed ==
    [][claim # 0 => \/ claim' = claim /\ cursor' = cursor
                    \/ claim' = 0 /\ cursor' = claim /\ cleared]_vars

\* At most one process holds the live claim.
OneHolder ==
    \A c, d \in Cleaners :
        pc[c] \in Holding /\ pc[d] \in Holding /\ ClaimMatches(c) /\ ClaimMatches(d) => c = d

\* A process that works on a fenced row has drawn a token for it.
HolderHasToken ==
    \A c \in Cleaners :
        IF pc[c] \in Holding THEN token[c] \in Tokens /\ mine[c] \in fenced
                             ELSE token[c] = NoToken

TokensDiffer ==
    \A c, d \in Cleaners : token[c] = token[d] /\ token[c] # NoToken => c = d

\* Who is about to acknowledge the claim has deleted its target.
AckFollowsDeletion ==
    \A c \in Cleaners : pc[c] = "acking" /\ ClaimMatches(c) => cleared

\* Going round the stamps from v, w comes before u.
Before(v, w, u) ==
    \/ stamp[v] <= stamp[w] /\ stamp[w] < stamp[u]
    \/ stamp[u] < stamp[v] /\ stamp[v] <= stamp[w]
    \/ stamp[w] < stamp[u] /\ stamp[u] < stamp[v]

\* After the last turn of v the cursor has not come to u, which still waits;
\* neither has the claim gone past it.
TurnsInOrder ==
    /\ claim \in fenced \cup {0}
    /\ cursor \in fenced \cup {0}
    /\ \A u, v \in Uploads : stamp[u] = stamp[v] => u = v
    /\ \A u, v \in Uploads : <<u, v>> \in served =>
        /\ u \in fenced /\ v \in fenced /\ u # v
        /\ cursor # 0
        /\ Before(v, cursor, u)
        /\ claim \in {0, u} \/ (claim # cursor /\ Before(cursor, claim, u))

\* The inductive invariant of CleanupScheduleProofs: rows are claimed with a
\* token of one's own, in the order of their stamps, and acknowledged after
\* their deletion.  (_claim_reconciliation, _next_reconciliation_candidate)
IInv == TypeOK /\ HolderHasToken /\ TokensDiffer /\ TurnsInOrder /\ AckFollowsDeletion

\* A copy that lands after the fence is removed, whatever else waits in either
\* lane.  (cleanup_expired)
LateCopyIsRemoved ==
    \A u \in Uploads : u \in fenced /\ u \in target ~> u \notin target

\* An eligible upload is deleted even if the store keeps refusing others and
\* the reconciliation lane never runs empty, as the test of the ordinary scan
\* says: no "failing key monopolizing every slot in a cleanup scan".
\* (_ordinary_candidates, _run_ordinary_once)
OrdinaryIsNotStarved ==
    \A u \in Uploads \ Broken : u \in eligible ~> u \notin eligible
=============================================================================
