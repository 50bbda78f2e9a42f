-------------------------- MODULE WebClientProofs --------------------------
(***************************************************************************)
(* Proofs about a browser tab in front of Promotion, for any number of     *)
(* other requests and any retry bound.                                     *)
(*                                                                         *)
(* Every step of the composition is a step of Promotion or leaves its      *)
(* variables alone, so that everything proved of Promotion holds behind a  *)
(* browser too.  The job page tells the truth because an answer that is    *)
(* under way still holds when it arrives: a job that exists stays, and one *)
(* that is over stays over (JobMovesOn).  What is asked is asked by the    *)
(* submission in force because only a submission that is not "idle" asks,  *)
(* and such a one has its form mounted or is adrift.                       *)
(***************************************************************************)
EXTENDS WebClient, PromotionProofs
-----------------------------------------------------------------------------
(* The composition behaves as Promotion.                                   *)

LEMMA FormIsSilent == Form => UNCHANGED vars
  BY DEF Form, SelectFile, Submit, SubmitAgain, Resume, ReadFile, AbortedEnds

LEMMA JobPageIsSilent == JobPage \/ Navigation => UNCHANGED vars
  BY DEF JobPage, Navigation, Poll, PollHandled, PollReturns, PollFails,
     LeaveForm, OpenForm, OpenJob, LeaveJob, Forget

\* What the server does for the tab is what Promotion does for Mine.
LEMMA WebStepIsPromotionStep == [WebNext]_webVars => [Next]_vars
<1> SUFFICES ASSUME [WebNext]_webVars PROVE [Next]_vars
  OBVIOUS
<1>1. CASE Form
  BY <1>1, FormIsSilent
<1>2. CASE Api
  <2>1. CASE HandleIntent
    BY <2>1 DEF HandleIntent, Next, Browser
  <2>2. CASE HandleComplete
    BY <2>2 DEF HandleComplete, Next, Browser
  <2>3. CASE HandleCreate
    BY <2>3, MineAssumption DEF HandleCreate, Next, Create
  <2>4. CASE Refuse
    BY <2>4 DEF Refuse
  <2> QED
    BY <1>2, <2>1, <2>2, <2>3, <2>4 DEF Api
<1>3. CASE Receive
  <2>1. CASE ReceiveIntent
    BY <2>1 DEF ReceiveIntent, Next, Browser
  <2>2. CASE ReceivePut \/ ReceiveComplete \/ ReceiveJob \/ ReceiveFailure
    BY <2>2 DEF ReceivePut, ReceiveComplete, ReceiveJob, ReceiveFailure
  <2> QED
    BY <1>3, <2>1, <2>2 DEF Receive
<1>4. CASE JobPage \/ Navigation
  BY <1>4, JobPageIsSilent
<1>5. CASE HandlePut
  BY <1>5 DEF HandlePut, Next, Browser
<1>6. CASE CreateGoesOn
  BY <1>6, MineAssumption DEF CreateGoesOn, Next, Create
<1>7. CASE CreateEnds
  BY <1>7, MineAssumption DEF CreateEnds, Next, Create
<1>8. CASE CreateStops
  BY <1>8, MineAssumption DEF CreateStops, Next
<1>9. CASE ConnectionFails
  BY <1>9 DEF ConnectionFails
<1>10. CASE Others
  BY <1>10 DEF Others, Next
<1>11. CASE UNCHANGED webVars
  BY <1>11 DEF webVars
<1> QED
  BY <1>1, <1>2, <1>3, <1>4, <1>5, <1>6, <1>7, <1>8, <1>9, <1>10, <1>11
     DEF WebNext

\* A tab in front of it makes Promotion do nothing that it would not do alone:
\* all that is proved of Promotion holds of the composition.
THEOREM WebImplementsPromotion == WebSpec => Spec
<1>1. WebInit => Init
  BY DEF WebInit
<1> QED
  BY <1>1, WebStepIsPromotionStep, PTL DEF WebSpec, Spec

\* The invariant of Promotion, with the tab as one of the requests.
THEOREM InvariantBehindBrowser == WebSpec => []IInv
  BY WebImplementsPromotion, InductiveInvariant, PTL

\* An active job has its input, with the tab as one of the requests.
THEOREM InputBehindBrowser == WebSpec => []ActiveJobHasItsInput
  BY WebImplementsPromotion, JobFindsItsInput, PTL

\* The contract of the input is kept, with the tab as one of the requests.
THEOREM ContractBehindBrowser == WebSpec => ImplementsInputContract
  BY WebImplementsPromotion, Refinement, PTL

-----------------------------------------------------------------------------
(* What the server never takes back.                                       *)

Over == {"terminal", "aged"}

\* A job stays, and its end stays an end: only an upload without a job can be
\* finalized.
LEMMA JobMovesOn ==
    IInv /\ [Next]_vars => /\ job # "absent" => job' # "absent"
                           /\ job \in Over => job' \in Over
<1> SUFFICES ASSUME IInv, [Next]_vars
             PROVE  /\ job # "absent" => job' # "absent"
                    /\ job \in Over => job' \in Over
  OBVIOUS
<1> USE DEF Over
<1>1. CASE Browser \/ Copy \/ Time \/ Cleanup
  BY <1>1 DEF Browser, CreateUpload, SendPut, PutAnswered, CompleteUpload, Copy,
     CopyLands, CopyLost, Time, Expire, BecomeStale, BecomeOrphaned, Cleanup,
     CleanTarget, CleanTargetRollsBack, CleanSource, CleanSourceRollsBack,
     Reconcile
<1>2. CASE JobMoves
  BY <1>2 DEF JobMoves
<1>3. ASSUME NEW r \in Requests, Create(r) \/ Stop(r)
      PROVE  /\ job # "absent" => job' # "absent"
             /\ job \in Over => job' \in Over
  <2>1. CASE Finalize(r)
    <3>1. job = "absent"
      BY <2>1 DEF Finalize, Unchanged, IInv, JobMatchesPromotion
    <3> QED
      BY <3>1
  <2>2. CASE ~Finalize(r)
    BY <1>3, <2>2 DEF Create, Reserve, SendCopy, CopySucceeds, CopyFails,
       FinalizeFails, Compensate, MarkFailed, MarkNothing, ReleaseSource,
       ReleaseDeferred, Stop
  <2> QED
    BY <2>1, <2>2
<1>4. CASE UNCHANGED vars
  BY <1>4 DEF vars
<1> QED
  BY <1>1, <1>2, <1>3, <1>4 DEF Next

-----------------------------------------------------------------------------
(* The tab's inductive invariant.                                          *)

\* What is under way to the tab, and what it shows, is true; and a submission
\* has its form mounted or is adrift.
WebInv ==
    /\ stage = "creating" /\ answer = "ok" => job # "absent"
    /\ tab = "job" => job # "absent"
    /\ shown # "nothing" => job # "absent"
    /\ shown = "over" => job \in Over
    /\ poll \in {"asked", "active", "over"} => tab = "job"
    /\ poll = "over" => job \in Over
    /\ stage # "idle" => tab = "form" \/ adrift

\* One step per group of actions.
LEMMA WebInvPreserved == IInv /\ WebInv /\ [WebNext]_webVars => WebInv'
<1> SUFFICES ASSUME IInv, WebInv, [WebNext]_webVars PROVE WebInv'
  OBVIOUS
<1>1. /\ job # "absent" => job' # "absent"
      /\ job \in Over => job' \in Over
  BY WebStepIsPromotionStep, JobMovesOn
<1> USE DEF WebInv, clientVars, formVars, pollVars
<1>2. CASE Form
  <2>1. CASE \E f \in File : SelectFile(f)
    BY <1>1, <2>1 DEF SelectFile
  <2>2. CASE Submit \/ SubmitAgain
    BY <1>1, <2>2 DEF Submit, SubmitAgain
  <2>3. CASE Resume \/ ReadFile \/ AbortedEnds
    BY <1>1, <2>3 DEF Resume, ReadFile, AbortedEnds, Fail
  <2> QED
    BY <1>2, <2>1, <2>2, <2>3 DEF Form
<1>3. CASE Api
  BY <1>1, <1>3 DEF Api, HandleIntent, HandleComplete, HandleCreate, Refuse,
     Answer
<1>4. CASE Receive
  <2>1. CASE ReceiveIntent
    BY <1>1, <2>1 DEF ReceiveIntent
  <2>2. CASE ReceivePut \/ ReceiveComplete
    BY <1>1, <2>2 DEF ReceivePut, ReceiveComplete
  <2>3. CASE ReceiveJob
    BY <1>1, <2>3 DEF ReceiveJob
  <2>4. CASE ReceiveFailure
    BY <1>1, <2>4 DEF ReceiveFailure, Fail, Waiting
  <2> QED
    BY <1>4, <2>1, <2>2, <2>3, <2>4 DEF Receive
<1>5. CASE JobPage
  <2>1. CASE Poll
    BY <1>1, <2>1 DEF Poll
  <2>2. CASE PollHandled
    <3>1. job \in {"active"} \cup Over
      BY <2>2 DEF PollHandled, IInv, TypeOK, JobState, Over
    <3>2. job' = job
      BY <2>2 DEF PollHandled, vars
    <3> QED
      BY <2>2, <3>1, <3>2 DEF PollHandled, Over
  <2>3. CASE PollReturns
    BY <1>1, <2>3 DEF PollReturns
  <2>4. CASE PollFails
    BY <1>1, <2>4 DEF PollFails
  <2> QED
    BY <1>5, <2>1, <2>2, <2>3, <2>4 DEF JobPage
<1>6. CASE Navigation
  <2>1. CASE LeaveForm \/ OpenForm
    BY <1>1, <2>1 DEF LeaveForm, OpenForm, NothingAdrift
  <2>2. CASE OpenJob \/ LeaveJob \/ Forget
    BY <1>1, <2>2 DEF OpenJob, LeaveJob, Forget, NothingAdrift
  <2> QED
    BY <1>6, <2>1, <2>2 DEF Navigation
<1>7. CASE HandlePut
  BY <1>1, <1>7 DEF HandlePut, Answer
<1>8. CASE CreateEnds
  <2>1. CASE ReleaseSource(Mine) \/ ReleaseDeferred(Mine)
    <3>1. job # "absent"
      BY <2>1, MineAssumption DEF ReleaseSource, ReleaseDeferred, IInv,
         RowInOrder, JobMatchesPromotion
    <3> QED
      BY <1>1, <1>8, <3>1 DEF CreateEnds, Answer
  <2>2. CASE Answer("creating", "failed")
    BY <1>1, <1>8, <2>2 DEF CreateEnds, Answer
  <2> QED
    BY <1>8, <2>1, <2>2 DEF CreateEnds
<1>9. CASE CreateStops
  BY <1>1, <1>9 DEF CreateStops, Answer
<1>10. CASE ConnectionFails
  BY <1>1, <1>10 DEF ConnectionFails
<1>11. CASE CreateGoesOn \/ Others \/ UNCHANGED webVars
  BY <1>1, <1>11 DEF CreateGoesOn, Others, webVars
<1> QED
  BY <1>2, <1>3, <1>4, <1>5, <1>6, <1>7, <1>8, <1>9, <1>10, <1>11 DEF WebNext

LEMMA InvariantOfTab == WebSpec => []WebInv
<1>1. WebInit => WebInv
  BY DEF WebInit, WebInv
<1> QED
  BY <1>1, WebInvPreserved, InvariantBehindBrowser, PTL DEF WebSpec

\* A job page is open only for a job that was committed, and shows an end only
\* after the end, whatever calls, answers and polls are lost or late.
THEOREM JobPageIsTrue == WebSpec => []JobPageTellsTheTruth
<1>1. WebInv => JobPageTellsTheTruth
  BY DEF WebInv, JobPageTellsTheTruth, Over
<1> QED
  BY <1>1, InvariantOfTab, PTL

-----------------------------------------------------------------------------
(* Leaving the form.                                                       *)

\* What a step asks, and when a submission goes adrift.
AsksInForce ==
    /\ sent' \notin {sent, "none"} => InForce(sent')
    /\ put' = "pending" /\ put # "pending" => InForce("uploading")
    /\ adrift' /\ ~adrift => stage = "paused"

\* Requests and the PUT are sent by ReadFile and Receive only, for a submission
\* that is not idle.
LEMMA SubmissionAsks == WebInv /\ [WebNext]_webVars => AsksInForce
<1> SUFFICES ASSUME WebInv, [WebNext]_webVars PROVE AsksInForce
  OBVIOUS
<1>1. stage # "idle" => tab = "form" \/ adrift
  BY DEF WebInv
<1> USE DEF AsksInForce, InForce, clientVars, formVars, pollVars, storageVars
<1>2. CASE Form
  <2>1. CASE ReadFile
    BY <1>1, <2>1 DEF ReadFile, Fail, vars
  <2>2. CASE ~ReadFile
    BY <1>2, <2>2 DEF Form, SelectFile, Submit, SubmitAgain, Resume, Fail,
       AbortedEnds, vars
  <2> QED
    BY <2>1, <2>2
<1>3. CASE Api
  BY <1>3 DEF Api, HandleIntent, HandleComplete, HandleCreate, Refuse,
     CreateUpload, CompleteUpload, Reserve, vars
<1>4. CASE Receive
  <2>1. CASE ReceiveIntent
    BY <1>1, <2>1 DEF ReceiveIntent, SendPut, vars
  <2>2. CASE ReceivePut \/ ReceiveComplete
    BY <1>1, <2>2 DEF ReceivePut, ReceiveComplete, vars
  <2>3. CASE ReceiveJob \/ ReceiveFailure
    BY <2>3 DEF ReceiveJob, ReceiveFailure, Fail, vars
  <2> QED
    BY <1>4, <2>1, <2>2, <2>3 DEF Receive
<1>5. CASE JobPage \/ Navigation
  BY <1>5 DEF JobPage, Navigation, Poll, PollHandled, PollReturns, PollFails,
     LeaveForm, OpenForm, OpenJob, LeaveJob, Forget, vars
<1>6. CASE HandlePut
  BY <1>6 DEF HandlePut, PutAnswered
<1>7. CASE CreateGoesOn
  BY <1>7 DEF CreateGoesOn, SendCopy, CopySucceeds, CopyFails, Finalize,
     FinalizeFails, Compensate
<1>8. CASE CreateEnds \/ CreateStops
  BY <1>8 DEF CreateEnds, CreateStops, ReleaseSource, ReleaseDeferred,
     MarkFailed, MarkNothing, Stop
<1>9. CASE ConnectionFails \/ UNCHANGED webVars
  BY <1>9 DEF ConnectionFails, webVars, vars
<1>10. CASE Others
  BY <1>10 DEF Others, Copy, CopyLands, CopyLost, Time, Expire, BecomeStale,
     BecomeOrphaned, JobMoves, Cleanup, CleanTarget, CleanTargetRollsBack,
     CleanSource, CleanSourceRollsBack, Reconcile, Create, Reserve, SendCopy,
     CopySucceeds, CopyFails, Finalize, FinalizeFails, Compensate, MarkFailed,
     MarkNothing, ReleaseSource, ReleaseDeferred, Stop
<1> QED
  BY <1>2, <1>3, <1>4, <1>5, <1>6, <1>7, <1>8, <1>9, <1>10 DEF WebNext

\* A form that was left, and a submission that was replaced, ask nothing more of
\* the API or the storage, unless the submission was paused when its form was
\* left.
THEOREM LeftFormIsSilent == WebSpec => LeavingStopsTheForm
<1>1. WebInv /\ [WebNext]_webVars => [AsksInForce]_webVars
  BY SubmissionAsks
<1>2. [][AsksInForce]_webVars => LeavingStopsTheForm
  BY PTL DEF AsksInForce, LeavingStopsTheForm
<1> QED
  BY <1>1, <1>2, InvariantOfTab, PTL DEF WebSpec
=============================================================================
