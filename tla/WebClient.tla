----------------------------- MODULE WebClient -----------------------------
(***************************************************************************)
(* One browser tab in front of the upload of module Promotion: the form    *)
(* that checks a file, asks for an upload, PUTs the file, confirms it and  *)
(* asks for a job, and the job page that polls the job.  The issue form    *)
(* and the verify form are the same program for what is modelled here.     *)
(*                                                                         *)
(* Every call is a request on its way, a handler on the server (an action  *)
(* of Promotion) and an answer on its way back.  Aborting a call makes the *)
(* browser forget it; the server may still handle it.                      *)
(***************************************************************************)
EXTENDS Promotion

CONSTANT Mine  \* the API request that serves this tab

ASSUME MineAssumption == Mine \in Requests

VARIABLES
    \* The page that is mounted: "form", "job" or "away".
    tab,
    \* The form: its file or "none", the submission's stage ("idle", "paused",
    \* "checking", "failed" or one of Waiting), the request on its way to the
    \* API and the answer on its way back ("ok", "failed") or "none", whether a
    \* submission that was aborted still reads its file, and whether the
    \* submission is adrift: paused when its form was left, so that the form's
    \* controller could not abort it.
    file, stage, sent, answer, aborted, adrift,
    \* The job page: the cached status ("nothing", "active", "over"), and the
    \* fetch under way ("idle", "asked", "failed", or the status it carries).
    shown, poll

formVars   == <<file, stage, sent, answer, aborted, adrift>>
pollVars   == <<shown, poll>>
clientVars == <<tab, formVars, pollVars>>
webVars    == <<vars, clientVars>>

\* What validateIssuanceFile or validateVerificationFile says of the file, and
\* a valid PDF in which more than MAX_PDF_PAGES pages are counted.
File == {"valid", "long", "invalid"}

\* The stages that wait for an answer, and the request each one sends.
Waiting == {"intent", "uploading", "finalizing", "creating"}

WebInit ==
    /\ Init
    /\ tab = "form"
    /\ file = "none"
    /\ stage = "idle"
    /\ sent = "none"
    /\ answer = "none"
    /\ aborted = FALSE
    /\ adrift = FALSE
    /\ shown = "nothing"
    /\ poll = "idle"

-----------------------------------------------------------------------------
(* The form, up to its first request.                                      *)

\* Bound: the tab tries for one upload.
FirstUpload == upload = "absent" /\ sent = "none"

\* selectFile, disabled while a submission is pending; a file that is not
\* valid is kept and shown with its error, which disables the button.
SelectFile(f) ==
    /\ tab = "form"
    /\ stage \in {"idle", "failed"}
    /\ FirstUpload
    /\ file' = f
    /\ stage' = "idle"
    /\ UNCHANGED <<vars, tab, sent, answer, aborted, adrift, pollVars>>

\* submit does nothing under a validation error; the mutation starts with
\* checks of its own, so that it may fail at once: no file, no e-mail address,
\* a file that is no longer welcome.  Offline the mutation is paused before
\* any of it: the client leaves the network mode of react-query "online".
Submit ==
    /\ tab = "form"
    /\ stage \in {"idle", "failed"}
    /\ file # "invalid"
    /\ FirstUpload
    /\ \/ stage' = "failed"
       \/ file # "none" /\ stage' = "checking"
       \/ stage' = "paused"
    /\ UNCHANGED <<vars, tab, file, sent, answer, aborted, adrift, pollVars>>

\* A second submit event before the button is disabled: the new submission
\* aborts the first, if both were paused when they are resumed.
SubmitAgain ==
    /\ tab = "form"
    /\ stage \in {"paused", "checking"}
    /\ ~aborted
    /\ aborted' = TRUE
    /\ UNCHANGED <<vars, tab, file, stage, sent, answer, adrift, pollVars>>

\* A submission fails: the form shows the error, and of a form that is gone
\* nothing is left.
Fail ==
    /\ stage' = IF adrift THEN "idle" ELSE "failed"
    /\ file' = IF adrift THEN "none" ELSE file
    /\ adrift' = FALSE

\* The browser is online again and looked at: the paused mutation runs, with a
\* controller of its own, whether or not its form is still there.
Resume ==
    /\ stage = "paused"
    /\ \/ Fail
       \/ file # "none" /\ stage' = "checking" /\ UNCHANGED <<file, adrift>>
    /\ UNCHANGED <<vars, tab, sent, answer, aborted, pollVars>>

\* countPdfPages counts page objects in the raw bytes; a file in which it finds
\* none is left to the server.
TooLong == file = "long"

\* countPdfPages and sha256, neither of which looks at the signal, then the
\* first request.  The file may also have become unreadable.
ReadFile ==
    /\ stage = "checking"
    /\ \/ Fail /\ UNCHANGED sent
       \/ ~TooLong /\ stage' = "intent" /\ sent' = "intent" /\ UNCHANGED <<file, adrift>>
    /\ UNCHANGED <<vars, tab, answer, aborted, pollVars>>

\* A variant with a bug: the calls are made without the signal (noticed by
\* LeavingStopsTheForm).
AbortedGoesOn ==
    /\ aborted
    /\ aborted' = FALSE
    /\ FirstUpload
    /\ sent' = "intent"
    /\ UNCHANGED <<vars, tab, file, stage, answer, adrift, pollVars>>

\* An aborted submission has read its file: fetch rejects at once.
AbortedEnds ==
    /\ aborted
    /\ stage # "paused"
    /\ aborted' = FALSE
    /\ UNCHANGED <<vars, tab, file, stage, sent, answer, adrift, pollVars>>

-----------------------------------------------------------------------------
(* The calls.                                                              *)

\* The answer to the call of stage s, if the submission still waits for it.
Answer(s, a) == answer' = IF stage = s /\ answer = "none" THEN a ELSE answer

\* UploadIntentView and create_upload
HandleIntent ==
    /\ sent = "intent"
    /\ CreateUpload
    /\ sent' = "none"
    /\ Answer("intent", "ok")
    /\ UNCHANGED <<tab, file, stage, aborted, adrift, pollVars>>

\* The storage has dealt with the PUT.
HandlePut ==
    /\ PutAnswered
    /\ Answer("uploading", IF source' THEN "ok" ELSE "failed")
    /\ UNCHANGED <<tab, file, stage, sent, aborted, adrift, pollVars>>

\* UploadCompleteView and complete_upload, which returns an upload that is
\* already finalized as it is.
HandleComplete ==
    /\ sent = "finalizing"
    /\ \/ CompleteUpload
       \/ finalized /\ UNCHANGED vars
    /\ sent' = "none"
    /\ Answer("finalizing", "ok")
    /\ UNCHANGED <<tab, file, stage, aborted, adrift, pollVars>>

\* The POST that creates the issuance or the verification reaches its view.
HandleCreate ==
    /\ sent = "creating"
    /\ Reserve(Mine)
    /\ sent' = "none"
    /\ UNCHANGED <<tab, file, stage, answer, aborted, adrift, pollVars>>

\* The request is lost, throttled, forbidden, invalid or out of time.
Refuse ==
    /\ sent # "none"
    /\ sent' = "none"
    /\ Answer(sent, "failed")
    /\ UNCHANGED <<vars, tab, file, stage, aborted, adrift, pollVars>>

\* The view's own work goes on, whoever still waits for it.
CreateGoesOn ==
    /\ \/ SendCopy(Mine) \/ CopySucceeds(Mine) \/ CopyFails(Mine)
       \/ Finalize(Mine) \/ FinalizeFails(Mine) \/ Compensate(Mine)
    /\ UNCHANGED clientVars

CreateEnds ==
    /\ \/ (ReleaseSource(Mine) \/ ReleaseDeferred(Mine)) /\ Answer("creating", "ok")
       \/ (MarkFailed(Mine) \/ MarkNothing(Mine)) /\ Answer("creating", "failed")
    /\ UNCHANGED <<tab, file, stage, sent, aborted, adrift, pollVars>>

CreateStops ==
    /\ Stop(Mine)
    /\ Answer("creating", "failed")
    /\ UNCHANGED <<tab, file, stage, sent, aborted, adrift, pollVars>>

\* The connection fails under a call: nothing is known of the server's part.
ConnectionFails ==
    /\ stage \in Waiting
    /\ answer # "failed"
    /\ answer' = "failed"
    /\ UNCHANGED <<vars, tab, file, stage, sent, aborted, adrift, pollVars>>

\* uploadPdf has its intent and sends the PUT, which storage refuses once the
\* presigned URL has expired.
ReceiveIntent ==
    /\ stage = "intent" /\ answer = "ok"
    /\ stage' = "uploading"
    /\ \/ SendPut /\ answer' = "none"
       \/ upload # "open" /\ UNCHANGED vars /\ answer' = "failed"
    /\ UNCHANGED <<tab, file, sent, aborted, adrift, pollVars>>

ReceivePut ==
    /\ stage = "uploading" /\ answer = "ok"
    /\ stage' = "finalizing"
    /\ sent' = "finalizing"
    /\ answer' = "none"
    /\ UNCHANGED <<vars, tab, file, aborted, adrift, pollVars>>

\* createIssuance, createVerification
ReceiveComplete ==
    /\ stage = "finalizing" /\ answer = "ok"
    /\ stage' = "creating"
    /\ sent' = "creating"
    /\ answer' = "none"
    /\ UNCHANGED <<vars, tab, file, aborted, adrift, pollVars>>

\* A variant with a bug: the answer's status is not looked at (noticed by
\* JobPageTellsTheTruth).
ReceiveAnyAnswer ==
    /\ stage = "creating" /\ answer # "none"
    /\ stage' = "idle" /\ file' = "none" /\ answer' = "none" /\ adrift' = FALSE
    /\ tab' = "job" /\ poll' = "asked"
    /\ UNCHANGED <<vars, sent, aborted, shown>>

\* onSuccess: the job page replaces the form, or whatever page is mounted if the
\* submission was adrift, and fetches the job at once.
ReceiveJob ==
    /\ stage = "creating" /\ answer = "ok"
    /\ stage' = "idle" /\ file' = "none" /\ answer' = "none" /\ adrift' = FALSE
    /\ tab' = "job" /\ poll' = "asked"
    /\ UNCHANGED <<vars, sent, aborted, shown>>

\* Any other answer is thrown as SafeApiError; no call is repeated.
ReceiveFailure ==
    /\ stage \in Waiting /\ answer = "failed"
    /\ Fail
    /\ answer' = "none"
    /\ UNCHANGED <<vars, tab, sent, aborted, pollVars>>

Receive == ReceiveIntent \/ ReceivePut \/ ReceiveComplete \/ ReceiveJob \/ ReceiveFailure

-----------------------------------------------------------------------------
(* Moving about, and the job page.                                         *)

\* The form is unmounted, by the user or by SessionBoundary: its controller
\* aborts the call under way.  A paused submission has no controller yet and
\* goes adrift.
LeaveForm ==
    /\ tab = "form"
    /\ tab' = "away"
    /\ \/ /\ stage # "paused"
          /\ stage' = "idle" /\ file' = "none" /\ answer' = "none"
          /\ aborted' = (aborted \/ stage = "checking")
          /\ UNCHANGED adrift
       \/ /\ stage = "paused"
          /\ adrift' = TRUE
          /\ UNCHANGED <<file, stage, answer, aborted>>
    /\ UNCHANGED <<vars, sent, pollVars>>

\* Bound: the tab opens neither page while a submission is adrift.
NothingAdrift == ~adrift

OpenForm ==
    /\ tab = "away"
    /\ NothingAdrift
    /\ tab' = "form"
    /\ UNCHANGED <<vars, formVars, pollVars>>

\* From the list of jobs; the query fetches when it is mounted.
OpenJob ==
    /\ tab = "away"
    /\ NothingAdrift
    /\ job # "absent"
    /\ tab' = "job"
    /\ poll' = "asked"
    /\ UNCHANGED <<vars, formVars, shown>>

\* The unmounted query aborts its fetch.
LeaveJob ==
    /\ tab = "job"
    /\ tab' = "away"
    /\ poll' = "idle"
    /\ UNCHANGED <<vars, formVars, shown>>

\* The query cache drops what nobody shows.
Forget ==
    /\ tab = "away"
    /\ shown # "nothing"
    /\ shown' = "nothing"
    /\ UNCHANGED <<vars, tab, formVars, poll>>

\* A variant with a bug: an error ends the polling (noticed by
\* SubmissionIsAnswered).
PollUntilError ==
    /\ tab = "job"
    /\ shown # "over"
    /\ poll = "idle"
    /\ poll' = "asked"
    /\ UNCHANGED <<vars, tab, formVars, shown>>

\* jobPollingInterval: only a terminal status ends the polling.
Poll ==
    /\ tab = "job"
    /\ shown # "over"
    /\ poll \in {"idle", "failed"}
    /\ poll' = "asked"
    /\ UNCHANGED <<vars, tab, formVars, shown>>

\* JobDetailView reads the row.
PollHandled ==
    /\ poll = "asked"
    /\ poll' = IF job = "active" THEN "active" ELSE "over"
    /\ UNCHANGED <<vars, tab, formVars, shown>>

PollReturns ==
    /\ poll \in {"active", "over"}
    /\ shown' = poll
    /\ poll' = "idle"
    /\ UNCHANGED <<vars, tab, formVars>>

\* The data of an earlier fetch stays.
PollFails ==
    /\ poll \in {"asked", "active", "over"}
    /\ poll' = "failed"
    /\ UNCHANGED <<vars, tab, formVars, shown>>

-----------------------------------------------------------------------------
Form ==
    \/ Submit \/ SubmitAgain \/ Resume \/ ReadFile \/ AbortedEnds
    \/ \E f \in File : SelectFile(f)

Api == HandleIntent \/ HandleComplete \/ HandleCreate \/ Refuse

JobPage == Poll \/ PollHandled \/ PollReturns \/ PollFails

Navigation == LeaveForm \/ OpenForm \/ OpenJob \/ LeaveJob \/ Forget

\* What goes on without the tab.
Others ==
    /\ \/ Copy \/ Time \/ JobMoves \/ Cleanup
       \/ \E r \in Requests \ {Mine} : Create(r) \/ Stop(r)
    /\ UNCHANGED clientVars

WebNext ==
    \/ Form \/ Api \/ Receive \/ JobPage \/ Navigation
    \/ HandlePut \/ CreateGoesOn \/ CreateEnds \/ CreateStops \/ ConnectionFails
    \/ Others

\* A live tab and a live server go on; every request reaches the API or is
\* refused; the API is not unreachable for good, the browser comes online again
\* and the tab is looked at again (react-query resumes and polls in the
\* foreground only).  The rest is Promotion's.
WebFairness ==
    /\ WF_webVars(Resume)
    /\ WF_webVars(ReadFile)
    /\ WF_webVars(AbortedEnds)
    /\ WF_webVars(Api)
    /\ WF_webVars(Receive)
    /\ WF_webVars(HandlePut)
    /\ WF_webVars(CreateGoesOn \/ CreateEnds)
    /\ WF_webVars(Poll)
    /\ SF_webVars(PollHandled)
    /\ SF_webVars(PollReturns)
    /\ WF_webVars(Copy /\ UNCHANGED clientVars)
    /\ WF_webVars(Expire /\ UNCHANGED clientVars)
    /\ WF_webVars(BecomeStale /\ UNCHANGED clientVars)
    /\ WF_webVars(BecomeOrphaned /\ UNCHANGED clientVars)
    /\ WF_webVars(JobMoves /\ UNCHANGED clientVars)
    /\ \A r \in Requests \ {Mine} : WF_webVars(Create(r) /\ UNCHANGED clientVars)
    /\ WF_webVars(CleanTarget /\ UNCHANGED clientVars)
    /\ WF_webVars(CleanSource /\ UNCHANGED clientVars)
    /\ WF_webVars(Reconcile /\ UNCHANGED clientVars)

WebSpec == WebInit /\ [][WebNext]_webVars /\ WebFairness

-----------------------------------------------------------------------------
(* What must hold.                                                         *)

Pending == stage \in Waiting \cup {"paused", "checking"}

\* Who stays is told: a pending submission ends, in an error on the form, on the
\* job page or, if its form is left, in the end all the same; and an open job
\* page comes to show that the job is over, however many calls, answers and
\* polls fail on the way.  (mutationFn, uploadPdf, jobPollingInterval)
SubmissionIsAnswered ==
    /\ Pending ~> ~Pending /\ (stage = "failed" \/ tab # "form")
    /\ tab = "job" ~> tab = "away" \/ shown = "over"

\* The tab never claims too much: a job page is open only for a job that was
\* committed, and shows its end only after the end.  (onSuccess, useJob,
\* against _copy_then_finalize, which answers after its commit)
JobPageTellsTheTruth ==
    /\ tab = "job" => job # "absent"
    /\ shown # "nothing" => job # "absent"
    /\ shown = "over" => job \in {"terminal", "aged"}

\* The submission in force has come to stage s: the last one of the mounted
\* form, or one that is adrift.
InForce(s) == stage' = s /\ (tab = "form" \/ adrift)

\* What is asked of the API or the storage is asked by the submission in force,
\* for the stage it is at.  A submission that was replaced by a second one, or
\* whose form was left, asks nothing more, although counting and hashing go on:
\* all but one that was paused offline when its form was left, which the code
\* lets run.  (abortRef, the signal of every call)
LeavingStopsTheForm ==
    [][/\ sent' \notin {sent, "none"} => InForce(sent')
       /\ put' = "pending" /\ put # "pending" => InForce("uploading")
       /\ adrift' /\ ~adrift => stage = "paused"]_webVars
=============================================================================
