------------------------ MODULE ResearchPipeline ------------------------
(***************************************************************************)
(* One research job driven by its durable workflow                         *)
(* (workflow/orchestration.py, workflow/research_workflow.py), with the    *)
(* activities that store what it decides (workflow/activities.py,          *)
(* workflow/publishing.py) and the people who review it (api/routes.py).   *)
(*                                                                         *)
(* An activity runs at least once: an attempt may fail before it changes   *)
(* anything, or land and be reported, or land and have its report lost,    *)
(* and it is retried up to JobAttempts times before the workflow sees an   *)
(* exception.  An attempt of add_job_evidence may also be given up on      *)
(* while it runs, and then finish beside its replacement; JobRow models    *)
(* that of transition_job and ResearchRecord that of publish_report.  An   *)
(* agent activity stores nothing this module keeps, so its own retries are *)
(* one step that ends in a result or a failure.                            *)
(***************************************************************************)
EXTENDS JobModel, Sequences

CONSTANTS Task,             \* researcher tasks a plan may contain
          Caller,           \* people who may call the review route
          Requester,        \* the caller who created the job
          Reviewer,         \* callers holding the reviewer role
          Administrator,    \* callers holding the administrator role
          MaxReviewCycles,  \* MAX_REVIEW_CYCLES
          JobAttempts,      \* JOB_RETRY_POLICY.maximum_attempts
          MaxRequests,      \* bound: requests made to the review route
          MaxOvertaken      \* bound: records with an attempt given up on while it runs

ASSUME PipelineAssumption ==
    /\ Reviewer \subseteq Caller /\ Administrator \subseteq Caller
    /\ MaxReviewCycles \in Nat
    /\ JobAttempts \in Nat \ {0}
    /\ MaxRequests \in Nat /\ MaxOvertaken \in Nat

VARIABLES
    status,       \* stored: the job row's status
    evidence,     \* stored: rows per <<task, research pass>>
    findings,     \* stored: reviewer status of the current findings, or "none"
    artifacts,    \* stored: how many of the four artifacts exist, in writing order
    publication,  \* stored: "none", "complete" or "partial"
    pc,           \* workflow: the activity or wait it is at
    attempt,      \* workflow: attempt number of the awaited job activity
    cycle,        \* workflow: review_cycle
    plan,         \* workflow: the plan's researcher tasks
    results,      \* workflow: what each task's research activity returned
    held,         \* workflow: evidence in hand, as <<task, pass>>
    short,        \* workflow: whether there are shortfalls
    reviewOpen,   \* workflow: _review_is_open
    decisions,    \* workflow: _reviewer_decisions
    written,      \* publish_report: artifacts this attempt has put
    looked,       \* add_job_evidence: the awaited attempt has found nothing stored
    late,         \* add_job_evidence: attempts given up on, yet to insert, per record
    raced,        \* history: attempts given up on that would still insert, per record
    requests,     \* review route: requests admitted and not yet signalled
    asked,        \* review route: how many were admitted
    answered      \* history: the request each review round was answered by

store  == <<status, evidence, findings, artifacts, publication>>
local  == <<cycle, plan, results, held, short>>
review == <<reviewOpen, decisions, answered>>
adds   == <<looked, late, raced>>
route  == <<requests, asked>>
vars   == <<store, pc, attempt, local, review, written, adds, route>>

Passes    == 0..MaxReviewCycles
Records   == Task \X Passes
Artifacts == <<"report.json", "report.md", "provenance-manifest.json", "evidence.json">>

\* A review request in flight: who decides what, and the round whose status they read.
Request == [by : Caller, seen : Nat, decision : ReviewerDecision]

TransitionSteps == {"start", "to_researching", "to_no_evidence", "to_analyzing",
                    "to_review", "to_more", "to_exhausted", "to_rejected",
                    "to_reporting", "to_end", "fail_partial", "fail"}
RecordSteps == {"record_not_required", "record_pending", "record_approved",
                "record_rejected"}
AgentSteps  == {"plan", "analyze", "critique", "report"}
Closed      == {"ended", "raised"}
Steps == TransitionSteps \cup RecordSteps \cup AgentSteps \cup Closed
         \cup {"gather", "persist", "await", "publish"}

Running == pc \notin Closed

TypeOK ==
    /\ status \in JobStatus
    /\ evidence \in [Records -> Nat]
    /\ findings \in ReviewerStatus \cup {"none"}
    /\ artifacts \in 0..Len(Artifacts)
    /\ publication \in {"none", "complete", "partial"}
    /\ pc \in Steps
    /\ attempt \in 1..JobAttempts
    /\ cycle \in 0..MaxReviewCycles + 1
    /\ plan \subseteq Task
    /\ results \in [Task -> {"running", "found", "short", "failed"}]
    /\ held \subseteq Records
    /\ short \in BOOLEAN
    /\ reviewOpen \in BOOLEAN
    /\ decisions \in Seq(Request)
    /\ written \in 0..Len(Artifacts)
    /\ looked \in BOOLEAN
    /\ late \in [Records -> Nat] /\ raced \in [Records -> Nat]
    /\ requests \subseteq Request
    /\ asked \in 0..MaxRequests
    /\ answered \subseteq [round : Nat, request : Request]

Init ==
    /\ status = CREATED /\ findings = "none"
    /\ evidence = [k \in Records |-> 0]
    /\ looked = FALSE /\ late = evidence /\ raced = evidence
    /\ artifacts = 0 /\ publication = "none"
    /\ pc = "start" /\ attempt = 1 /\ cycle = 0
    /\ plan = {} /\ results = [t \in Task |-> "running"] /\ held = {}
    /\ short = FALSE /\ reviewOpen = FALSE /\ decisions = <<>> /\ written = 0
    /\ requests = {} /\ asked = 0 /\ answered = {}

-----------------------------------------------------------------------------
(* How the workflow moves on from an awaited activity.                     *)

\* An activity's result is delivered: its attempts are over.
Proceed(step) == pc' = step /\ attempt' = 1

\* An exception reaches the workflow: run_research_job hands it to _fail, whose own
\* PARTIAL attempt falls through to FAILED, and whose FAILED attempt re-raises.
Raise(budget) ==
    Proceed(CASE pc = "fail" -> "raised"
              [] pc = "fail_partial" -> "fail"
              [] OTHER -> IF budget THEN "fail_partial" ELSE "fail")

\* Mutant: no maximum_attempts, Temporal's default.
Retry_unbounded ==
    /\ attempt' = IF attempt < JobAttempts THEN attempt + 1 ELSE 1
    /\ UNCHANGED pc

\* Mutant: attempts are counted past the last one.
Retry_uncapped == attempt' = attempt + 1 /\ UNCHANGED pc

\* A job activity's attempt is not reported as done: retry it, or give up.
Retry ==
    IF attempt < JobAttempts THEN attempt' = attempt + 1 /\ UNCHANGED pc
                             ELSE Raise(FALSE)

-----------------------------------------------------------------------------
(* transition_job: the status the awaited transition asks for, and what    *)
(* the pipeline does once it is stored.                                    *)

\* Mutant: shortfalls are left out of the final status.
Goal_forgets_shortfalls(p) ==
    CASE p = "start"                        -> PLANNING
      [] p \in {"to_researching", "to_more"} -> RESEARCHING
      [] p = "to_analyzing"                 -> ANALYZING
      [] p = "to_review"                    -> REVIEW_REQUIRED
      [] p = "to_reporting"                 -> REPORTING
      [] p = "to_end"                       -> COMPLETED
      [] p \in {"to_rejected", "fail"}      -> FAILED
      [] OTHER                              -> PARTIAL

Goal(p) ==
    CASE p = "start"                        -> PLANNING
      [] p \in {"to_researching", "to_more"} -> RESEARCHING
      [] p = "to_analyzing"                 -> ANALYZING
      [] p = "to_review"                    -> REVIEW_REQUIRED
      [] p = "to_reporting"                 -> REPORTING
      [] p = "to_end"                       -> IF short THEN PARTIAL ELSE COMPLETED
      [] p \in {"to_rejected", "fail"}      -> FAILED
      [] OTHER                              -> PARTIAL

After(p) ==
    CASE p = "start"          -> "plan"
      [] p = "to_researching" -> "gather"
      [] p = "to_analyzing"   -> "analyze"
      [] p = "to_review"      -> "await"
      [] p = "to_more"        -> IF cycle > MaxReviewCycles THEN "to_exhausted"
                                                            ELSE "gather"
      [] p = "to_reporting"   -> "report"
      [] OTHER                -> "ended"

\* One attempt reads the row and writes the new status: a call that already landed is
\* recognised, and any other must be allowed by the table.
TransitionLands ==
    /\ pc \in TransitionSteps
    /\ status = Goal(pc) \/ Goal(pc) \in ALLOWED_TRANSITIONS(status)
    /\ status' = Goal(pc)
    /\ UNCHANGED <<evidence, findings, artifacts, publication>>

\* Mutant: the review opens only once the workflow starts waiting for it.
OpenReview_when_waiting(step) == reviewOpen' = (reviewOpen \/ step = "await")

\* Asking for review_required opens the review, before the status is stored.
OpenReview(step) == reviewOpen' = (reviewOpen \/ step = "to_review")

TransitionReturns ==
    /\ TransitionLands
    /\ Proceed(After(pc))
    /\ OpenReview(After(pc))
    /\ results' = IF After(pc) = "gather" THEN [t \in Task |-> "running"] ELSE results
    /\ UNCHANGED <<cycle, plan, held, short, decisions, answered, written, adds, route>>

TransitionUnreported ==
    /\ TransitionLands
    /\ Retry
    /\ UNCHANGED <<local, review, written, adds, route>>

TransitionFails ==
    /\ pc \in TransitionSteps
    /\ Retry
    /\ UNCHANGED <<store, local, review, written, adds, route>>

-----------------------------------------------------------------------------
(* The agents: plan, research, analyze, critique and report.               *)

PlanReturns(tasks) ==
    /\ pc = "plan"
    /\ plan' = tasks
    /\ Proceed("to_researching")
    /\ UNCHANGED <<store, cycle, results, held, short, review, written, adds, route>>

\* One researcher's activity ends, in any order; gather keeps its failure as a result.
ResearchEnds(t, result) ==
    /\ pc = "gather" /\ t \in plan /\ results[t] = "running"
    /\ results' = [results EXCEPT ![t] = result]
    /\ UNCHANGED <<store, pc, attempt, cycle, plan, held, short, review, written, adds, route>>

GatherReturns ==
    /\ pc = "gather" /\ \A t \in plan : results[t] # "running"
    /\ Proceed("persist")
    /\ UNCHANGED <<store, local, review, written, adds, route>>

\* Tasks that submitted a record which has not been persisted in this pass.
Unpersisted == {t \in plan : results[t] \in {"found", "short"} /\ <<t, cycle>> \notin held}

\* The record the awaited add_job_evidence carries: one is awaited at a time, and every
\* attempt of it carries the same one.
Adding == <<CHOOSE t \in Unpersisted : TRUE, cycle>>

AtEvidence == pc = "persist" /\ Unpersisted # {}

\* Mutant: add_job_evidence stores the excerpt without looking for it first.
Recognised_never(k) == FALSE

\* list_evidence shows the excerpt.
Recognised(k) == evidence[k] > 0

\* The awaited attempt finds nothing stored, and goes on to insert: nothing locks the job,
\* and no constraint of the table makes the insert look again.
EvidenceLooks ==
    /\ AtEvidence /\ ~looked /\ ~Recognised(Adding)
    /\ looked' = TRUE
    /\ UNCHANGED <<store, pc, attempt, local, review, written, late, raced, route>>

Insert(k) ==
    /\ evidence' = [evidence EXCEPT ![k] = @ + 1]
    /\ UNCHANGED <<status, findings, artifacts, publication>>

\* The awaited attempt ends: it returns the record it recognised, or inserts its own.
EvidenceLands ==
    /\ AtEvidence
    /\ \/ ~looked /\ Recognised(Adding) /\ UNCHANGED store
       \/ looked /\ Insert(Adding)
    /\ looked' = FALSE
    /\ UNCHANGED <<late, raced>>

EvidenceReturns ==
    /\ EvidenceLands
    /\ held' = held \cup {Adding}
    /\ Proceed(pc)
    /\ UNCHANGED <<cycle, plan, results, short, review, written, route>>

EvidenceUnreported ==
    /\ EvidenceLands
    /\ Retry
    /\ UNCHANGED <<local, review, written, route>>

EvidenceFails ==
    /\ AtEvidence
    /\ Retry /\ looked' = FALSE
    /\ UNCHANGED <<store, local, review, written, late, raced, route>>

\* The attempt outlives JOB_ACTIVITY_TIMEOUT after its look, and runs on in its worker: it
\* awaits nothing before its insert, so no cancellation reaches it, and another worker has
\* the replacement.  One given up on before its look is EvidenceFails: rows are never
\* removed, so a late look either finds a row and ends, or might as well have come first.
EvidenceOvertaken ==
    /\ AtEvidence /\ looked
    /\ Cardinality({k \in Records \ {Adding} : raced[k] > 0}) < MaxOvertaken
    /\ Retry /\ looked' = FALSE
    /\ late' = [late EXCEPT ![Adding] = @ + 1]
    /\ raced' = [raced EXCEPT ![Adding] = @ + 1]
    /\ UNCHANGED <<store, local, review, written, route>>

\* An attempt given up on inserts its record, whatever was stored or decided since.
LateInsert(k) ==
    /\ late[k] > 0
    /\ late' = [late EXCEPT ![k] = @ - 1]
    /\ Insert(k)
    /\ UNCHANGED <<pc, attempt, local, review, written, looked, raced, route>>

\* _collect_evidence returns: its unmet requirements replace those of an earlier pass.
Collected ==
    /\ pc = "persist" /\ Unpersisted = {}
    /\ short' = \E t \in plan : results[t] \in {"short", "failed"}
    /\ Proceed(IF held = {} THEN "to_no_evidence" ELSE "to_analyzing")
    /\ UNCHANGED <<store, cycle, plan, results, held, review, written, adds, route>>

AnalyzeReturns ==
    /\ pc = "analyze"
    /\ Proceed("critique")
    /\ UNCHANGED <<store, local, review, written, adds, route>>

CritiqueReturns(requiresReviewer) ==
    /\ pc = "critique"
    /\ Proceed(IF requiresReviewer THEN "record_pending" ELSE "record_not_required")
    /\ UNCHANGED <<store, local, review, written, adds, route>>

ReportReturns(omitted) ==
    /\ pc = "report"
    /\ short' = (short \/ omitted)
    /\ Proceed("publish")
    /\ UNCHANGED <<store, cycle, plan, results, held, review, written, adds, route>>

\* An agent's retries are spent, its output was refused, or the budget is.
AgentFails(budget) ==
    /\ pc \in AgentSteps
    /\ Raise(budget)
    /\ UNCHANGED <<store, local, review, written, adds, route>>

-----------------------------------------------------------------------------
(* record_job_findings: the findings' reviewer status.                     *)

Verdict(p) == CASE p = "record_not_required" -> NOT_REQUIRED
                [] p = "record_pending"      -> PENDING
                [] p = "record_approved"     -> APPROVED
                [] OTHER                     -> REJECTED

FindingsLand ==
    /\ pc \in RecordSteps
    /\ findings' = Verdict(pc)
    /\ UNCHANGED <<status, evidence, artifacts, publication>>

Recorded(p) == CASE p = "record_pending"  -> "to_review"
                 [] p = "record_rejected" -> "to_rejected"
                 [] OTHER                 -> "to_reporting"

FindingsReturn ==
    /\ FindingsLand
    /\ Proceed(Recorded(pc))
    /\ OpenReview(Recorded(pc))
    /\ UNCHANGED <<local, decisions, answered, written, adds, route>>

FindingsUnreported ==
    /\ FindingsLand
    /\ Retry
    /\ UNCHANGED <<local, review, written, adds, route>>

FindingsFail ==
    /\ pc \in RecordSteps
    /\ Retry
    /\ UNCHANGED <<store, local, review, written, adds, route>>

-----------------------------------------------------------------------------
(* publish_report: four artifacts in order, then the record naming them.   *)

PublishPut ==
    /\ pc = "publish" /\ written < Len(Artifacts)
    /\ written' = written + 1
    /\ artifacts' = IF written' > artifacts THEN written' ELSE artifacts
    /\ UNCHANGED <<status, evidence, findings, publication, pc, attempt, local, review, adds, route>>

\* Mutant: the record is written first and the artifacts after it.
PublicationLands_early ==
    /\ pc = "publish"
    /\ publication' = IF short THEN "partial" ELSE "complete"
    /\ UNCHANGED <<status, evidence, findings, artifacts>>

PublicationLands ==
    /\ pc = "publish" /\ written = Len(Artifacts)
    /\ publication' = IF short THEN "partial" ELSE "complete"
    /\ UNCHANGED <<status, evidence, findings, artifacts>>

PublishReturns ==
    /\ PublicationLands
    /\ Proceed("to_end")
    /\ UNCHANGED <<local, review, written, adds, route>>

PublishUnreported ==
    /\ PublicationLands
    /\ Retry /\ written' = 0
    /\ UNCHANGED <<local, review, adds, route>>

\* The attempt fails at any point; what it has put stays put.
PublishFails ==
    /\ pc = "publish"
    /\ Retry /\ written' = 0
    /\ UNCHANGED <<store, local, review, adds, route>>

-----------------------------------------------------------------------------
(* The review: the route admits a decision, a signal delivers it later,    *)
(* and the workflow takes the first one delivered.                         *)

\* Mutant: the requester may decide on their own job.
MayReview_own_job(c) == c \in Reviewer \cup Administrator

MayReview(c) ==
    /\ c \in Reviewer \cup Administrator
    /\ c # Requester \/ c \in Administrator

\* The review round the stored review_required belongs to.
ShownRound == IF pc = "to_more" THEN cycle - 1 ELSE cycle

\* review_job up to the status check: the row is read here and not again.
ReviewAdmitted(c, d) ==
    /\ asked < MaxRequests
    /\ MayReview(c)
    /\ status = REVIEW_REQUIRED
    /\ requests' = requests \cup {[by |-> c, seen |-> ShownRound, decision |-> d]}
    /\ asked' = asked + 1
    /\ UNCHANGED <<store, pc, attempt, local, review, written, adds>>

\* submit_reviewer_decision, in the workflow: dropped unless a review is open.
Signalled(r) == decisions' = IF reviewOpen THEN Append(decisions, r) ELSE decisions

\* The signal reaches a running workflow.
ReviewDelivered(r) ==
    /\ r \in requests /\ Running
    /\ requests' = requests \ {r}
    /\ Signalled(r)
    /\ UNCHANGED <<store, pc, attempt, local, reviewOpen, answered, written, adds, asked>>

\* The workflow is gone (409) or its service cannot be reached (503).
ReviewUndelivered(r) ==
    /\ r \in requests
    /\ requests' = requests \ {r}
    /\ UNCHANGED <<store, pc, attempt, local, review, written, adds, asked>>

\* The first decision is used; what else arrived for this review is dropped with it.
TakeFirst == decisions' = <<>> /\ reviewOpen' = FALSE

\* Mutant: the review cycle is not counted.
NextCycle_uncounted(d) == cycle' = cycle

NextCycle(d) == cycle' = IF d = MORE THEN cycle + 1 ELSE cycle

DecisionTaken ==
    /\ pc = "await" /\ decisions # <<>>
    /\ LET r == Head(decisions) IN
         /\ answered' = answered \cup {[round |-> cycle, request |-> r]}
         /\ NextCycle(r.decision)
         /\ Proceed(CASE r.decision = APPROVE -> "record_approved"
                      [] r.decision = REJECT  -> "record_rejected"
                      [] OTHER                -> "to_more")
    /\ TakeFirst
    /\ UNCHANGED <<store, plan, results, held, short, written, adds, route>>

-----------------------------------------------------------------------------
WorkflowNext ==
    \/ TransitionReturns \/ TransitionUnreported \/ TransitionFails
    \/ \E tasks \in SUBSET Task : PlanReturns(tasks)
    \/ \E t \in Task, result \in {"found", "short", "failed"} : ResearchEnds(t, result)
    \/ GatherReturns
    \/ EvidenceLooks \/ EvidenceReturns \/ EvidenceUnreported \/ EvidenceFails
    \/ EvidenceOvertaken
    \/ Collected
    \/ AnalyzeReturns
    \/ \E b \in BOOLEAN : CritiqueReturns(b) \/ ReportReturns(b) \/ AgentFails(b)
    \/ FindingsReturn \/ FindingsUnreported \/ FindingsFail
    \/ PublishPut \/ PublishReturns \/ PublishUnreported \/ PublishFails
    \/ DecisionTaken

RouteNext ==
    \/ \E c \in Caller, d \in ReviewerDecision : ReviewAdmitted(c, d)
    \/ \E r \in requests : ReviewDelivered(r) \/ ReviewUndelivered(r)

\* An attempt given up on takes its time, or dies with its worker.
LateNext == \E k \in Records : LateInsert(k)

Next == WorkflowNext \/ RouteNext \/ LateNext

\* Temporal redelivers workflow and activity work until the workflow closes; nobody
\* promises that a reviewer ever answers.
Spec == Init /\ [][Next]_vars /\ WF_vars(WorkflowNext)
-----------------------------------------------------------------------------
(* Properties.                                                             *)

\* A job stored as completed has its report published in full: every artifact and the
\* record naming them, not marked partial, with findings no reviewer still owes an
\* answer on (_run_research_job's order of report, publish, final transition).
CompletedIsPublished ==
    status = COMPLETED => /\ publication = "complete"
                          /\ artifacts = Len(Artifacts)
                          /\ findings \in {NOT_REQUIRED, APPROVED}

\* The record pointing at the artifacts is never there while one of them is missing,
\* whichever attempt of publish_report stopped where (_publish's last comment).
PublishedIsWhole == publication # "none" => artifacts = Len(Artifacts)

\* Nothing is reported on or published unless the critic asked for no review, or the
\* review of this very round was answered with an approval by a reviewer other than
\* the requester, administrators excepted (review_job, the review loop).  Whether it was
\* made for this round is DecisionAnswersItsRound's question.
ReportedIsReviewed ==
    (publication # "none" \/ status \in {REPORTING, COMPLETED}) =>
        \/ findings = NOT_REQUIRED
        \/ /\ findings = APPROVED
           /\ \E a \in answered :
                /\ a.round = cycle /\ a.request.decision = APPROVE
                /\ a.request.by \in (Reviewer \ {Requester}) \cup Administrator

\* However often add_job_evidence is redelivered, and however late an attempt given up on
\* finishes, an excerpt is stored again at most once for each attempt that was given up on
\* while it was about to insert; and the workflow argues only from evidence that is stored.
RepeatedOnlyWhenRaced ==
    /\ \A k \in Records : evidence[k] <= 1 + raced[k]
    /\ \A k \in held : evidence[k] > 0

\* The doc of JobActivities: each activity is "safe to redeliver" and "recognises a call
\* that already landed instead of repeating it", so one excerpt is one row.
EvidenceStoredOnce == \A k \in Records : evidence[k] <= 1

\* Whenever the job is shown as awaiting a review that has not been answered, the
\* workflow accepts a decision: the gap between storing review_required and waiting
\* for the signal loses nothing (_await_reviewer_decision's docstring).
ShownReviewIsOpen ==
    status = REVIEW_REQUIRED /\ pc \in {"to_review", "await"} => reviewOpen

\* One decision answers one review round.
OneAnswerPerRound == \A a, b \in answered : a.round = b.round => a = b

\* The order of the pipeline agrees with the table of transitions even when an earlier
\* attempt landed unreported: outside _fail no transition it awaits can be refused.
OwnTransitionsAreAllowed ==
    pc \in TransitionSteps \ {"fail", "fail_partial"} =>
        status = Goal(pc) \/ Goal(pc) \in ALLOWED_TRANSITIONS(status)

\* A job does not stay in a working status with nothing working on it (_fail): again
\* and again it is terminal, waiting for a reviewer, or its workflow has raised.
Settles == []<>(status \in Terminal \/ pc \in {"await", "raised"})

\* The doc of submit_reviewer_decision: a decision "cannot answer a later round".
DecisionAnswersItsRound == \A a \in answered : a.request.seen = a.round
=============================================================================
