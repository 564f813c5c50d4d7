--------------------- MODULE ResearchPipelineProofs ---------------------
(***************************************************************************)
(* The pipeline's promises for any plan, any number of reviewers, review   *)
(* cycles, attempts and requests.  None of them is inductive: each rests   *)
(* on what the stores must hold while the workflow is at a given step,     *)
(* and that survives every retry because an attempt that landed            *)
(* unreported leaves the workflow where it was.                            *)
(***************************************************************************)
EXTENDS ResearchPipeline, SequenceTheorems, TLAPS

\* Steps at which the workflow stores nothing but the status of a failure.
Failing == {"fail_partial", "fail"} \cup Closed

\* The statuses the row may hold while the workflow is at a step.
StatusAt(p) ==
    CASE p = "start"                                  -> {CREATED, PLANNING}
      [] p = "plan"                                   -> {PLANNING}
      [] p = "to_researching"                         -> {PLANNING, RESEARCHING}
      [] p \in {"gather", "persist"}                  -> {RESEARCHING}
      [] p \in {"to_no_evidence", "to_exhausted"}     -> {RESEARCHING, PARTIAL}
      [] p = "to_analyzing"                           -> {RESEARCHING, ANALYZING}
      [] p \in {"analyze", "critique", "record_not_required", "record_pending"}
                                                      -> {ANALYZING}
      [] p = "to_review"                              -> {ANALYZING, REVIEW_REQUIRED}
      [] p \in {"await", "record_approved", "record_rejected"}
                                                      -> {REVIEW_REQUIRED}
      [] p = "to_more"                                -> {REVIEW_REQUIRED, RESEARCHING}
      [] p = "to_rejected"                            -> {REVIEW_REQUIRED, FAILED}
      [] p = "to_reporting"                           -> {ANALYZING, REVIEW_REQUIRED, REPORTING}
      [] p \in {"report", "publish"}                  -> {REPORTING}
      [] p = "to_end"                                 -> {REPORTING, Goal(p)}
      [] OTHER                                        -> JobStatus

StatusInStep == status \in StatusAt(pc)

\* A pass beyond the last one is only ever given up on.
CycleInBounds ==
    /\ pc \notin Failing \cup {"to_more", "to_exhausted"} => cycle <= MaxReviewCycles
    /\ pc = "to_more" => cycle > 0

\* What an attempt has put is there, and the record follows the last artifact.
PublicationInStep ==
    /\ written <= artifacts
    /\ publication # "none" => pc \in {"publish", "to_end"} \cup Failing
    /\ pc = "to_end" => publication = IF short THEN "partial" ELSE "complete"
    /\ status = COMPLETED => publication = "complete"

\* The review of this round was answered with an approval by someone who may give it.
ApprovedNow ==
    \E a \in answered :
        /\ a.round = cycle /\ a.request.decision = APPROVE
        /\ a.request.by \in (Reviewer \ {Requester}) \cup Administrator

Cleared == findings = NOT_REQUIRED \/ (findings = APPROVED /\ ApprovedNow)

ReviewInStep ==
    /\ pc = "record_approved" => ApprovedNow
    /\ pc \in {"to_reporting", "report", "publish", "to_end"} => Cleared
    /\ pc \in {"to_review", "await"} => reviewOpen

\* Only people who may review are heard.
HeardMayReview ==
    /\ \A r \in requests : MayReview(r.by)
    /\ \A i \in 1..Len(decisions) : MayReview(decisions[i].by)

\* Steps after the answer of this round, if the round had a review.
Answered == {"record_approved", "record_rejected", "to_rejected", "to_reporting", "report",
             "publish", "to_end"} \cup Failing

\* No round is answered before it comes, nor again once it was.
RoundsInStep ==
    \A a \in answered : a.round <= cycle /\ (pc \notin Answered => a.round < cycle)

\* Rows there are and rows still to come from attempts given up on.
Rows(k) == evidence[k] + late[k]

\* An awaited attempt that has looked has room for its row; while there is no row, every
\* attempt still to come was given up on after its look.
RowsInStep ==
    /\ \A k \in Records : Rows(k) <= 1 + raced[k]
    /\ \A k \in Records : evidence[k] = 0 => Rows(k) <= raced[k]
    /\ looked => AtEvidence /\ Adding \in Records /\ Rows(Adding) <= raced[Adding]
    /\ \A k \in held : evidence[k] > 0

IInv ==
    /\ TypeOK /\ StatusInStep /\ CycleInBounds /\ PublicationInStep /\ ReviewInStep
    /\ HeardMayReview /\ RoundsInStep
    /\ PublishedIsWhole /\ ReportedIsReviewed /\ RowsInStep /\ OneAnswerPerRound
-----------------------------------------------------------------------------
USE DEF Failing, Closed

\* report.json, report.md, the manifest and the evidence bundle.
LEMMA FourArtifacts == Len(Artifacts) = 4
  BY DEF Artifacts

\* A step that touches neither rows nor evidence in hand keeps what is known of them if no
\* attempt is then past its look.
LEMMA RowsKept ==
    ASSUME RowsInStep, UNCHANGED <<evidence, held, late, raced>>, ~looked'
    PROVE  RowsInStep'
  BY DEF RowsInStep, Rows

\* So does one that leaves the awaited attempt alone.
LEMMA RowsStay ==
    ASSUME RowsInStep, UNCHANGED <<evidence, pc, local, adds>>
    PROVE  RowsInStep'
<1> USE DEF local, adds
<1>1. Unpersisted' = Unpersisted  BY DEF Unpersisted
<1>2. AtEvidence' = AtEvidence /\ Adding' = Adding  BY <1>1 DEF AtEvidence, Adding
<1> QED  BY <1>2 DEF RowsInStep, Rows

\* Only an awaited add_job_evidence is past its look.
LEMMA NotAdding ==
    ASSUME IInv, pc # "persist" \/ Unpersisted = {}
    PROVE  ~looked
  BY DEF IInv, RowsInStep, AtEvidence

\* A job starts with nothing stored and no review.
LEMMA InitIInv == Init => IInv
<1> SUFFICES ASSUME Init PROVE IInv  OBVIOUS
<1> USE DEF Init, CREATED, COMPLETED, REPORTING
<1>1. TypeOK
  <2>1. decisions \in Seq(Request)  BY EmptySeq
  <2>2. /\ evidence \in [Records -> Nat] /\ late \in [Records -> Nat] /\ raced \in [Records -> Nat]
        /\ looked \in BOOLEAN /\ results \in [Task -> {"running", "found", "short", "failed"}]
    OBVIOUS
  <2>3. attempt \in 1..JobAttempts /\ cycle \in 0..MaxReviewCycles + 1 /\ asked \in 0..MaxRequests
    BY PipelineAssumption DEF PipelineAssumption
  <2>4. artifacts \in 0..Len(Artifacts) /\ written \in 0..Len(Artifacts)
    BY FourArtifacts
  <2>5. status \in JobStatus /\ pc \in Steps
    BY DEF JobStatus, Steps, TransitionSteps
  <2> QED  BY <2>1, <2>2, <2>3, <2>4, <2>5 DEF TypeOK
<1>2. StatusInStep  BY DEF StatusInStep, StatusAt
<1>3. CycleInBounds /\ HeardMayReview /\ RoundsInStep /\ OneAnswerPerRound
  BY PipelineAssumption
  DEF CycleInBounds, HeardMayReview, RoundsInStep, OneAnswerPerRound, PipelineAssumption
<1>4. PublicationInStep /\ ReviewInStep  BY DEF PublicationInStep, ReviewInStep
<1>5. PublishedIsWhole /\ ReportedIsReviewed  BY DEF PublishedIsWhole, ReportedIsReviewed
<1>6. RowsInStep  BY DEF RowsInStep, Rows
<1> QED  BY <1>1, <1>2, <1>3, <1>4, <1>5, <1>6 DEF IInv

-----------------------------------------------------------------------------
(* Where an exception or a lost report takes the workflow.                 *)

\* The workflow is left where it is, for another attempt, or gives the job up.
StaysOrFails == pc' \in {pc} \cup Failing /\ attempt' \in 1..JobAttempts

\* _fail is the only way out of an exception.
LEMMA RaiseFails ==
    ASSUME NEW b \in BOOLEAN, Raise(b)
    PROVE  StaysOrFails
  BY PipelineAssumption DEF Raise, Proceed, StaysOrFails, PipelineAssumption

\* Another attempt, or the exception of the last one.
LEMMA RetryStays ==
    ASSUME TypeOK, Retry
    PROVE  StaysOrFails
<1>1. CASE attempt < JobAttempts
  BY <1>1, PipelineAssumption DEF Retry, StaysOrFails, TypeOK, PipelineAssumption
<1>2. CASE ~(attempt < JobAttempts)
  BY <1>2, RaiseFails DEF Retry
<1> QED  BY <1>1, <1>2

\* A step that changes no store, at most starts publish_report's writing over, and stays
\* or fails, keeps every promise.
LEMMA FailureKeeps ==
    ASSUME IInv, StaysOrFails, UNCHANGED <<store, local, review, late, raced, route>>,
           written' \in {written, 0}, looked' = FALSE \/ UNCHANGED <<looked, pc>>
    PROVE  IInv'
<1> USE DEF store, local, review, route
<1>1. TypeOK'
  <2>1. pc' \in Steps /\ attempt' \in 1..JobAttempts
    BY DEF IInv, TypeOK, StaysOrFails, Steps, TransitionSteps
  <2>2. looked' \in BOOLEAN  BY DEF IInv, TypeOK
  <2>3. written' \in 0..Len(Artifacts)  BY FourArtifacts DEF IInv, TypeOK
  <2> QED  BY <2>1, <2>2, <2>3 DEF IInv, TypeOK
<1>2. StatusInStep'
  <2>1. CASE pc' = pc
    BY <2>1 DEF IInv, StatusInStep, StatusAt, Goal
  <2>2. CASE pc' \in Failing
    BY <2>2 DEF IInv, TypeOK, StatusInStep, StatusAt
  <2> QED  BY <2>1, <2>2 DEF StaysOrFails
<1>3. CycleInBounds' /\ RoundsInStep'
  BY DEF IInv, TypeOK, CycleInBounds, RoundsInStep, Answered, StaysOrFails
<1>4. PublicationInStep'
  BY DEF IInv, TypeOK, PublicationInStep, StaysOrFails, Artifacts
<1>5. ReviewInStep'
  BY DEF IInv, ReviewInStep, Cleared, ApprovedNow, StaysOrFails
<1>6. HeardMayReview'  BY DEF IInv, HeardMayReview
<1>7. PublishedIsWhole' /\ ReportedIsReviewed' /\ OneAnswerPerRound'
  BY DEF IInv, PublishedIsWhole, ReportedIsReviewed, OneAnswerPerRound
<1>8. RowsInStep'
  <2>1. CASE looked' = FALSE  BY <2>1, RowsKept DEF IInv
  <2>2. CASE UNCHANGED <<looked, pc>>  BY <2>2, RowsStay DEF IInv, adds
  <2> QED  BY <2>1, <2>2
<1> QED  BY <1>1, <1>2, <1>3, <1>4, <1>5, <1>6, <1>7, <1>8 DEF IInv
-----------------------------------------------------------------------------
(* transition_job.                                                         *)

\* The status a transition asks for is one the row may hold at that step, and in the
\* step that follows.
LEMMA GoalInStep ==
    ASSUME TypeOK, pc \in TransitionSteps
    PROVE  /\ Goal(pc) \in JobStatus
           /\ Goal(pc) \in StatusAt(pc)
           /\ After(pc) \in Steps
           /\ Goal(pc) \in StatusAt(After(pc))
<1> USE DEF CREATED, PLANNING, RESEARCHING, ANALYZING, REVIEW_REQUIRED, REPORTING,
            COMPLETED, FAILED, PARTIAL
<1>1. Goal(pc) \in JobStatus  BY DEF Goal, JobStatus
<1>2. Goal(pc) \in StatusAt(pc)  BY <1>1 DEF StatusAt, Goal, TransitionSteps
<1>3. After(pc) \in Steps
  BY DEF After, Steps, TransitionSteps, AgentSteps
<1>4. Goal(pc) \in StatusAt(After(pc))  BY <1>1 DEF StatusAt, Goal, After, TransitionSteps
<1> QED  BY <1>1, <1>2, <1>3, <1>4

\* Whether or not its report arrives, a transition stores a status that the workflow has
\* earned: its artifacts, its review and its record are in place.
LEMMA TransitionStores ==
    ASSUME IInv, TransitionLands
    PROVE  /\ status' \in JobStatus
           /\ status' = COMPLETED => publication = "complete"
           /\ (publication # "none" \/ status' \in {REPORTING, COMPLETED}) => Cleared
           /\ pc \in TransitionSteps
           /\ UNCHANGED <<evidence, findings, artifacts, publication>>
<1> USE DEF CREATED, PLANNING, RESEARCHING, ANALYZING, REVIEW_REQUIRED, REPORTING,
            COMPLETED, FAILED, PARTIAL
<1>1. status' = Goal(pc) /\ pc \in TransitionSteps
      /\ UNCHANGED <<evidence, findings, artifacts, publication>>
  BY DEF TransitionLands
<1>2. status' \in JobStatus  BY <1>1, GoalInStep DEF IInv
<1>3. status' = COMPLETED => pc = "to_end" /\ ~short  BY <1>1 DEF Goal
<1>4. status' = REPORTING => pc = "to_reporting"  BY <1>1 DEF Goal
<1>5. pc = "to_end" /\ ~short => publication = "complete"
  BY DEF IInv, PublicationInStep
<1>6. publication # "none" => Cleared
  BY DEF IInv, ReportedIsReviewed, Cleared, ApprovedNow
<1>7. pc \in {"to_end", "to_reporting"} => Cleared
  BY DEF IInv, ReviewInStep
<1> QED  BY <1>1, <1>2, <1>3, <1>4, <1>5, <1>6, <1>7

\* A transition that is stored but not heard of is asked for again, or fails the job.
LEMMA TransitionUnreportedKeeps ==
    ASSUME IInv, TransitionUnreported
    PROVE  IInv'
<1> USE DEF local, review, route
<1>1. StaysOrFails  BY RetryStays DEF IInv, TransitionUnreported
<1>2. /\ TransitionLands /\ status' = Goal(pc) /\ pc \in TransitionSteps
      /\ UNCHANGED <<evidence, findings, artifacts, publication>>
      /\ UNCHANGED <<local, review, written, adds, route>>
  BY DEF TransitionUnreported, TransitionLands
<1>3. TypeOK'
  <2>1. pc' \in Steps /\ attempt' \in 1..JobAttempts
    BY <1>1 DEF IInv, TypeOK, StaysOrFails, Steps, TransitionSteps
  <2> QED  BY <1>2, <2>1, TransitionStores DEF IInv, TypeOK, adds
<1>4. StatusInStep'
  <2>1. CASE pc' = pc
    <3>1. StatusAt(pc)' = StatusAt(pc)  BY <1>2, <2>1 DEF StatusAt, Goal
    <3> QED  BY <1>2, <2>1, <3>1, GoalInStep DEF IInv, StatusInStep
  <2>2. CASE pc' \in Failing
    BY <1>3, <2>2 DEF TypeOK, StatusInStep, StatusAt
  <2> QED  BY <1>1, <2>1, <2>2 DEF StaysOrFails
<1>5. CycleInBounds' /\ RoundsInStep'
  BY <1>1, <1>2 DEF IInv, CycleInBounds, RoundsInStep, Answered, StaysOrFails
<1>6. PublicationInStep'
  BY <1>1, <1>2, TransitionStores DEF IInv, PublicationInStep, StaysOrFails
<1>7. ReviewInStep'
  BY <1>1, <1>2 DEF IInv, ReviewInStep, Cleared, ApprovedNow, StaysOrFails
<1>8. HeardMayReview' /\ PublishedIsWhole' /\ OneAnswerPerRound'
  BY <1>2 DEF IInv, HeardMayReview, PublishedIsWhole, OneAnswerPerRound
<1>10. RowsInStep'  BY <1>2, NotAdding, RowsKept DEF IInv, adds, TransitionSteps
<1>9. ReportedIsReviewed'
  BY <1>2, TransitionStores DEF ReportedIsReviewed, Cleared, ApprovedNow
<1> QED  BY <1>3, <1>4, <1>5, <1>6, <1>7, <1>8, <1>9, <1>10 DEF IInv

\* A transition that is reported takes the job into the phase it asked for.
LEMMA TransitionReturnsKeeps ==
    ASSUME IInv, TransitionReturns
    PROVE  IInv'
<1> USE DEF route
<1>1. /\ TransitionLands /\ status' = Goal(pc) /\ pc \in TransitionSteps
      /\ pc' = After(pc) /\ attempt' = 1
      /\ reviewOpen' = (reviewOpen \/ After(pc) = "to_review")
      /\ results' = IF After(pc) = "gather" THEN [t \in Task |-> "running"] ELSE results
      /\ UNCHANGED <<evidence, findings, artifacts, publication>>
      /\ UNCHANGED <<cycle, plan, held, short, decisions, answered, written, adds, route>>
  BY DEF TransitionReturns, TransitionLands, Proceed, OpenReview
<1>2. TypeOK'
  <2>1. results' \in [Task -> {"running", "found", "short", "failed"}]
    BY <1>1 DEF IInv, TypeOK
  <2> QED
    BY <1>1, <2>1, TransitionStores, GoalInStep, PipelineAssumption
    DEF IInv, TypeOK, adds, PipelineAssumption
<1>3. StatusInStep'
  <2>1. StatusAt(After(pc)) = StatusAt(pc)'  BY <1>1 DEF StatusAt, Goal
  <2> QED  BY <1>1, <2>1, GoalInStep DEF IInv, StatusInStep
<1>4. CycleInBounds' /\ RoundsInStep'
  <2>1. cycle \in Nat /\ UNCHANGED <<cycle, answered>>
    BY <1>1, PipelineAssumption DEF IInv, TypeOK, PipelineAssumption
  <2>2. CycleInBounds'
    BY <1>1, <2>1, PipelineAssumption
    DEF IInv, CycleInBounds, After, TransitionSteps, PipelineAssumption
  <2>3. RoundsInStep'
    BY <1>1, <2>1 DEF IInv, RoundsInStep, Answered, After, TransitionSteps
  <2> QED  BY <2>2, <2>3
<1>5. PublicationInStep'
  BY <1>1, TransitionStores DEF IInv, PublicationInStep, After, TransitionSteps
<1>6. ReviewInStep'
  BY <1>1 DEF IInv, ReviewInStep, Cleared, ApprovedNow, After, TransitionSteps
<1>7. HeardMayReview' /\ PublishedIsWhole' /\ OneAnswerPerRound'
  BY <1>1 DEF IInv, HeardMayReview, PublishedIsWhole, OneAnswerPerRound
<1>8. ReportedIsReviewed'
  BY <1>1, TransitionStores DEF ReportedIsReviewed, Cleared, ApprovedNow
<1>9. RowsInStep'  BY <1>1, NotAdding, RowsKept DEF IInv, adds, TransitionSteps
<1> QED  BY <1>2, <1>3, <1>4, <1>5, <1>6, <1>7, <1>8, <1>9 DEF IInv
-----------------------------------------------------------------------------
(* The agents.                                                             *)

\* The steps that take the workflow on and leave the stores, its review and its requests
\* alone: what each changes of its own is its plan, results, evidence in hand, shortfalls.
AgentReturns ==
    \/ \E tasks \in SUBSET Task : PlanReturns(tasks)
    \/ \E t \in Task, result \in {"found", "short", "failed"} : ResearchEnds(t, result)
    \/ GatherReturns \/ Collected \/ AnalyzeReturns
    \/ \E b \in BOOLEAN : CritiqueReturns(b) \/ ReportReturns(b)

\* An answer of an agent takes the workflow to the next step of its phase.
LEMMA AgentReturnsKeeps ==
    ASSUME IInv, AgentReturns
    PROVE  IInv'
<1> USE DEF CREATED, PLANNING, RESEARCHING, ANALYZING, REVIEW_REQUIRED, REPORTING,
            COMPLETED, FAILED, PARTIAL
<1> USE DEF AgentReturns, PlanReturns, ResearchEnds, GatherReturns, Collected, AnalyzeReturns,
            CritiqueReturns, ReportReturns, Proceed, store, local, review, route
<1>1. UNCHANGED <<store, cycle, held, review, written, adds, route>>
  OBVIOUS
<1>2. <<pc, pc'>> \in
        { <<"plan", "to_researching">>, <<"gather", "gather">>, <<"gather", "persist">>,
          <<"persist", "to_no_evidence">>, <<"persist", "to_analyzing">>,
          <<"analyze", "critique">>, <<"critique", "record_pending">>,
          <<"critique", "record_not_required">>, <<"report", "publish">> }
  OBVIOUS
<1>3. TypeOK'
  <2>1. plan' \subseteq Task
    BY DEF IInv, TypeOK
  <2>2. attempt' \in 1..JobAttempts
    <3>1. attempt' \in {attempt, 1}  OBVIOUS
    <3> HIDE DEF AgentReturns
    <3> QED  BY <3>1, PipelineAssumption DEF IInv, TypeOK, PipelineAssumption
  <2>3. short' \in BOOLEAN
    <3>1. \/ short' = short
          \/ short' = \E t \in plan : results[t] \in {"short", "failed"}
          \/ \E b \in BOOLEAN : short' = (short \/ b)
      BY Zenon
    <3>2. short \in BOOLEAN  BY DEF IInv, TypeOK
    <3> HIDE DEF AgentReturns
    <3> QED  BY <3>1, <3>2, Zenon
  <2>4. results' \in [Task -> {"running", "found", "short", "failed"}]
    BY DEF IInv, TypeOK
  <2>5. pc' \in Steps
    BY <1>2 DEF Steps, TransitionSteps, AgentSteps, RecordSteps
  <2> QED  BY <1>1, <2>1, <2>2, <2>3, <2>4, <2>5 DEF IInv, TypeOK, adds
<1>10. pc # "persist" \/ Unpersisted = {}
  OBVIOUS
<1> HIDE DEF AgentReturns
<1>4. StatusInStep'
  BY <1>1, <1>2 DEF IInv, StatusInStep, StatusAt
<1>5. CycleInBounds' /\ RoundsInStep'
  BY <1>1, <1>2 DEF IInv, CycleInBounds, RoundsInStep, Answered
<1>6. PublicationInStep'
  BY <1>1, <1>2 DEF IInv, PublicationInStep
<1>7. ReviewInStep'
  BY <1>1, <1>2 DEF IInv, ReviewInStep, Cleared, ApprovedNow
<1>8. HeardMayReview' /\ PublishedIsWhole' /\ OneAnswerPerRound'
  BY <1>1 DEF IInv, HeardMayReview, PublishedIsWhole, OneAnswerPerRound
<1>9. ReportedIsReviewed'
  BY <1>1 DEF IInv, ReportedIsReviewed
<1>11. RowsInStep'  BY <1>1, <1>10, NotAdding, RowsKept DEF IInv, adds
<1> QED  BY <1>3, <1>4, <1>5, <1>6, <1>7, <1>8, <1>9, <1>11 DEF IInv

\* An agent's failure is the job's.
LEMMA AgentFailsKeeps ==
    ASSUME IInv, NEW b \in BOOLEAN, AgentFails(b)
    PROVE  IInv'
  BY RaiseFails, FailureKeeps, NotAdding DEF AgentFails, AgentSteps, adds, IInv, TypeOK

-----------------------------------------------------------------------------
(* add_job_evidence.                                                       *)

\* The record awaited is of a task of the plan and of a pass there is.
LEMMA AddingIsRecord ==
    ASSUME IInv, AtEvidence
    PROVE  Adding \in Records
<1>1. PICK t \in Unpersisted : Adding = <<t, cycle>>  BY DEF AtEvidence, Adding
<1>2. t \in Task  BY <1>1 DEF Unpersisted, IInv, TypeOK
<1>3. cycle \in Passes
  BY PipelineAssumption
  DEF AtEvidence, IInv, TypeOK, CycleInBounds, Passes, PipelineAssumption
<1> QED  BY <1>1, <1>2, <1>3 DEF Records

\* What a step of the awaited attempt, or of one given up on, leaves alone.
EvidenceStep ==
    /\ UNCHANGED <<status, findings, artifacts, publication, cycle, plan, results, short>>
    /\ UNCHANGED <<review, written, route>>

\* Whatever happens to the rows, the rest of the invariant does not speak of them.
LEMMA EvidenceStepKeeps ==
    ASSUME IInv, EvidenceStep, StaysOrFails, RowsInStep',
           evidence' \in [Records -> Nat], late' \in [Records -> Nat],
           raced' \in [Records -> Nat], looked' \in BOOLEAN, held' \subseteq Records
    PROVE  IInv'
<1> USE DEF EvidenceStep, review, route
<1>1. TypeOK'
  <2>1. pc' \in Steps  BY DEF StaysOrFails, IInv, TypeOK, Steps, TransitionSteps
  <2> QED  BY <2>1 DEF IInv, TypeOK, StaysOrFails
<1>2. StatusInStep'
  <2>1. CASE pc' = pc  BY <2>1 DEF IInv, StatusInStep, StatusAt, Goal
  <2>2. CASE pc' \in Failing  BY <2>2 DEF IInv, TypeOK, StatusInStep, StatusAt
  <2> QED  BY <2>1, <2>2 DEF StaysOrFails
<1>3. CycleInBounds' /\ RoundsInStep'
  BY DEF IInv, CycleInBounds, RoundsInStep, Answered, StaysOrFails
<1>4. PublicationInStep'  BY DEF IInv, PublicationInStep, StaysOrFails
<1>5. ReviewInStep'  BY DEF IInv, ReviewInStep, Cleared, ApprovedNow, StaysOrFails
<1>6. HeardMayReview' /\ PublishedIsWhole' /\ OneAnswerPerRound' /\ ReportedIsReviewed'
  BY DEF IInv, HeardMayReview, PublishedIsWhole, OneAnswerPerRound, ReportedIsReviewed
<1> QED  BY <1>1, <1>2, <1>3, <1>4, <1>5, <1>6 DEF IInv

\* An attempt looks, returns the record it found, inserts its own, fails, or is given up on
\* with its insert still to come.
LEMMA EvidenceKeeps ==
    ASSUME IInv, EvidenceLooks \/ EvidenceReturns \/ EvidenceUnreported \/ EvidenceFails
                 \/ EvidenceOvertaken
    PROVE  IInv'
<1> DEFINE k == Adding
<1> USE DEF local, store
<1>1. AtEvidence /\ pc = "persist"
  BY DEF EvidenceLooks, EvidenceReturns, EvidenceUnreported, EvidenceLands, EvidenceFails,
         EvidenceOvertaken, AtEvidence
<1>2. k \in Records  BY <1>1, AddingIsRecord
<1>3. EvidenceStep /\ held' \in {held, held \cup {k}}
  BY DEF EvidenceStep, EvidenceLooks, EvidenceReturns, EvidenceUnreported, EvidenceLands,
         Insert, EvidenceFails, EvidenceOvertaken
<1>4. StaysOrFails
  <2>1. CASE EvidenceReturns
    BY <2>1, PipelineAssumption DEF EvidenceReturns, Proceed, StaysOrFails, PipelineAssumption
  <2>2. CASE EvidenceLooks
    BY <2>2 DEF EvidenceLooks, StaysOrFails, IInv, TypeOK
  <2> QED
    BY <2>1, <2>2, RetryStays DEF EvidenceUnreported, EvidenceFails, EvidenceOvertaken, IInv
<1>5. /\ evidence \in [Records -> Nat] /\ late \in [Records -> Nat] /\ raced \in [Records -> Nat]
      /\ held \subseteq Records
  BY DEF IInv, TypeOK
<1>6. RowsInStep  BY DEF IInv
<1>7. CASE EvidenceLooks
  <2>1. /\ evidence[k] = 0 /\ looked' = TRUE
        /\ UNCHANGED <<evidence, held, late, raced, plan, results, cycle, pc>>
    BY <1>2, <1>5, <1>7 DEF EvidenceLooks, Recognised
  <2>2. Unpersisted' = Unpersisted  BY <2>1 DEF Unpersisted
  <2>3. AtEvidence' /\ Adding' = k  BY <1>1, <2>1, <2>2 DEF AtEvidence, Adding
  <2> HIDE DEF k
  <2>4. RowsInStep'  BY <1>2, <1>6, <2>1, <2>3 DEF RowsInStep, Rows
  <2> QED  BY <1>3, <1>4, <1>5, <2>1, <2>4, EvidenceStepKeeps
<1>8. CASE EvidenceReturns \/ EvidenceUnreported
  <2>1. /\ looked' = FALSE /\ UNCHANGED <<late, raced>>
        /\ \/ evidence[k] > 0 /\ evidence' = evidence
           \/ looked /\ evidence' = [evidence EXCEPT ![k] = evidence[k] + 1]
    BY <1>8 DEF EvidenceReturns, EvidenceUnreported, EvidenceLands, Recognised, Insert
  <2> HIDE DEF k
  <2>2. evidence' \in [Records -> Nat] /\ evidence'[k] > 0
    BY <1>2, <1>5, <2>1
  <2>3. \A j \in Records : j # k => evidence'[j] = evidence[j]
    BY <1>2, <1>5, <2>1
  <2>4. looked => Rows(k) <= raced[k]  BY <1>6 DEF RowsInStep, k
  <2>5. evidence'[k] + late[k] <= 1 + raced[k]
    BY <1>2, <1>5, <1>6, <2>1, <2>4 DEF RowsInStep, Rows
  <2>6. \A j \in held' : evidence'[j] > 0
    BY <1>3, <1>5, <1>6, <2>2, <2>3 DEF RowsInStep
  <2>7. RowsInStep'  BY <1>2, <1>6, <2>1, <2>2, <2>3, <2>5, <2>6 DEF RowsInStep, Rows
  <2>8. held' \subseteq Records  BY <1>2, <1>3, <1>5
  <2> QED  BY <1>3, <1>4, <1>5, <2>1, <2>2, <2>7, <2>8, EvidenceStepKeeps
<1>9. CASE EvidenceFails
  <2>1. looked' = FALSE /\ UNCHANGED <<evidence, held, late, raced>>
    BY <1>9 DEF EvidenceFails
  <2>2. RowsInStep'  BY <1>6, <2>1, RowsKept
  <2> QED  BY <1>3, <1>4, <1>5, <2>1, <2>2, EvidenceStepKeeps
<1>10. CASE EvidenceOvertaken
  <2>1. /\ looked /\ looked' = FALSE /\ UNCHANGED <<evidence, held>>
        /\ late' = [late EXCEPT ![k] = late[k] + 1]
        /\ raced' = [raced EXCEPT ![k] = raced[k] + 1]
    BY <1>10 DEF EvidenceOvertaken
  <2>2. Rows(k) <= raced[k]  BY <1>6, <2>1 DEF RowsInStep, k
  <2> HIDE DEF k
  <2>3. late' \in [Records -> Nat] /\ raced' \in [Records -> Nat]
    BY <1>2, <1>5, <2>1
  <2>4. \A j \in Records : \/ j = k /\ late'[j] = late[j] + 1 /\ raced'[j] = raced[j] + 1
                           \/ late'[j] = late[j] /\ raced'[j] = raced[j]
    BY <1>2, <1>5, <2>1
  <2>5. RowsInStep'  BY <1>2, <1>5, <1>6, <2>1, <2>2, <2>4 DEF RowsInStep, Rows
  <2> QED  BY <1>3, <1>4, <1>5, <2>1, <2>3, <2>5, EvidenceStepKeeps
<1> QED  BY <1>7, <1>8, <1>9, <1>10

\* An attempt given up on inserts the row that was still to come.
LEMMA LateKeeps ==
    ASSUME IInv, LateNext
    PROVE  IInv'
<1> USE DEF local
<1>1. PICK k \in Records : LateInsert(k)  BY DEF LateNext
<1>2. /\ late[k] > 0 /\ late' = [late EXCEPT ![k] = late[k] - 1]
      /\ evidence' = [evidence EXCEPT ![k] = evidence[k] + 1]
      /\ UNCHANGED <<status, findings, artifacts, publication>>
      /\ UNCHANGED <<pc, attempt, local, review, written, looked, raced, route>>
  BY <1>1 DEF LateInsert, Insert
<1>3. EvidenceStep /\ StaysOrFails
  BY <1>2 DEF EvidenceStep, StaysOrFails, IInv, TypeOK
<1>4. /\ evidence \in [Records -> Nat] /\ late \in [Records -> Nat] /\ raced \in [Records -> Nat]
      /\ held \subseteq Records /\ looked \in BOOLEAN
  BY DEF IInv, TypeOK
<1>5. late' \in [Records -> Nat] /\ evidence' \in [Records -> Nat]
  BY <1>2, <1>4
<1>6. \A j \in Records : \/ evidence'[j] = evidence[j] + 1 /\ late'[j] = late[j] - 1
                         \/ evidence'[j] = evidence[j] /\ late'[j] = late[j]
  BY <1>2, <1>4
<1>7. \A j \in Records : evidence[j] + late[j] = evidence'[j] + late'[j] /\ evidence'[j] >= evidence[j]
  BY <1>4, <1>6
<1>8. Unpersisted' = Unpersisted  BY <1>2 DEF Unpersisted
<1>9. AtEvidence' = AtEvidence /\ Adding' = Adding  BY <1>2, <1>8 DEF AtEvidence, Adding
<1>10. RowsInStep'
  <2>1. RowsInStep  BY DEF IInv
  <2> QED  BY <1>2, <1>4, <1>5, <1>7, <1>9, <2>1 DEF RowsInStep, Rows
<1> QED  BY <1>2, <1>3, <1>4, <1>5, <1>10, EvidenceStepKeeps

-----------------------------------------------------------------------------
(* record_job_findings.                                                    *)

\* No findings are recorded once something was reported on, so nothing that was cleared
\* for a report loses its clearance here.
LEMMA FindingsKeep ==
    ASSUME IInv, FindingsReturn \/ FindingsUnreported
    PROVE  IInv'
<1> USE DEF CREATED, PLANNING, RESEARCHING, ANALYZING, REVIEW_REQUIRED, REPORTING,
            COMPLETED, FAILED, PARTIAL, NOT_REQUIRED, PENDING, APPROVED, REJECTED
<1> USE DEF local, review, route, RecordSteps
<1>1. /\ pc \in RecordSteps /\ findings' = Verdict(pc)
      /\ UNCHANGED <<status, evidence, artifacts, publication>>
      /\ UNCHANGED <<local, decisions, answered, written, adds, route>>
  BY DEF FindingsReturn, FindingsUnreported, FindingsLand
<1>2. \/ StaysOrFails /\ UNCHANGED reviewOpen
      \/ /\ pc' = Recorded(pc) /\ attempt' = 1
         /\ reviewOpen' = (reviewOpen \/ Recorded(pc) = "to_review")
  BY RetryStays DEF FindingsReturn, FindingsUnreported, Proceed, OpenReview, IInv
<1>3. /\ status \in {ANALYZING, REVIEW_REQUIRED} /\ publication = "none"
      /\ status = ANALYZING <=> pc \in {"record_not_required", "record_pending"}
  BY <1>1 DEF IInv, StatusInStep, StatusAt, PublicationInStep
<1>4. TypeOK'
  <2>1. findings' \in ReviewerStatus  BY <1>1 DEF Verdict, ReviewerStatus
  <2>2. reviewOpen' \in BOOLEAN
    <3>1. reviewOpen \in BOOLEAN  BY DEF IInv, TypeOK
    <3>2. reviewOpen' = reviewOpen \/ reviewOpen' = (reviewOpen \/ Recorded(pc) = "to_review")
      BY <1>2
    <3> QED  BY <3>1, <3>2, Zenon
  <2>3. pc' \in Steps
    BY <1>1, <1>2 DEF StaysOrFails, IInv, TypeOK, Steps, TransitionSteps, Recorded
  <2>4. attempt' \in 1..JobAttempts
    BY <1>2, PipelineAssumption DEF StaysOrFails, PipelineAssumption
  <2> QED  BY <1>1, <2>1, <2>2, <2>3, <2>4 DEF IInv, TypeOK, adds
<1>5. StatusInStep'
  BY <1>1, <1>2, <1>3 DEF IInv, TypeOK, StatusInStep, StatusAt, StaysOrFails, Recorded
<1>6. CycleInBounds' /\ RoundsInStep'
  BY <1>1, <1>2 DEF IInv, CycleInBounds, RoundsInStep, Answered, StaysOrFails, Recorded
<1>7. PublicationInStep'
  BY <1>1, <1>2, <1>3 DEF IInv, PublicationInStep, StaysOrFails, Recorded
<1>8. ReviewInStep'
  BY <1>1, <1>2 DEF IInv, ReviewInStep, Cleared, ApprovedNow, StaysOrFails, Recorded, Verdict
<1>9. HeardMayReview' /\ PublishedIsWhole' /\ OneAnswerPerRound'
  BY <1>1 DEF IInv, HeardMayReview, PublishedIsWhole, OneAnswerPerRound
<1>10. ReportedIsReviewed'
  BY <1>1, <1>3 DEF ReportedIsReviewed
<1>11. RowsInStep'  BY <1>1, NotAdding, RowsKept DEF IInv, adds
<1> QED  BY <1>4, <1>5, <1>6, <1>7, <1>8, <1>9, <1>10, <1>11 DEF IInv

\* Findings that cannot be stored are tried again, or fail the job.
LEMMA FindingsFailKeeps ==
    ASSUME IInv, FindingsFail
    PROVE  IInv'
  BY RetryStays, FailureKeeps, NotAdding DEF FindingsFail, RecordSteps, adds, IInv, TypeOK

-----------------------------------------------------------------------------
(* publish_report.                                                         *)

\* Each artifact is put after the one before it, so those put are the first few.
LEMMA PublishPutKeeps ==
    ASSUME IInv, PublishPut
    PROVE  IInv'
<1> USE DEF CREATED, PLANNING, RESEARCHING, ANALYZING, REVIEW_REQUIRED, REPORTING,
            COMPLETED, FAILED, PARTIAL
<1> USE DEF local, review, route
<1>1. /\ written < 4 /\ written' = written + 1
      /\ artifacts' = IF written + 1 > artifacts THEN written + 1 ELSE artifacts
      /\ UNCHANGED <<status, evidence, findings, publication, pc, attempt, local, review, adds, route>>
  BY FourArtifacts DEF PublishPut
<1>2. written \in 0..4 /\ artifacts \in 0..4 /\ (publication # "none" => artifacts = 4)
  BY FourArtifacts DEF IInv, TypeOK, PublishedIsWhole
<1>3. written' \in 0..4 /\ artifacts' \in 0..4 /\ written' <= artifacts'
      /\ (publication # "none" => artifacts' = 4)
  BY <1>1, <1>2
<1>4. TypeOK'  BY <1>1, <1>3, FourArtifacts DEF IInv, TypeOK, adds
<1>5. StatusInStep'  BY <1>1 DEF IInv, StatusInStep, StatusAt, Goal
<1>6. PublicationInStep' /\ PublishedIsWhole'
  BY <1>1, <1>3, FourArtifacts DEF IInv, PublicationInStep, PublishedIsWhole
<1>7. CycleInBounds' /\ RoundsInStep' /\ HeardMayReview' /\ OneAnswerPerRound'
  BY <1>1 DEF IInv, CycleInBounds, RoundsInStep, HeardMayReview, OneAnswerPerRound
<1>8. ReviewInStep' /\ ReportedIsReviewed'
  BY <1>1 DEF IInv, ReviewInStep, Cleared, ApprovedNow, ReportedIsReviewed
<1>9. RowsInStep'  BY <1>1, RowsStay DEF IInv
<1> QED  BY <1>4, <1>5, <1>6, <1>7, <1>8, <1>9 DEF IInv

\* The record is written after the last artifact, for a report that was cleared.
LEMMA PublicationKeeps ==
    ASSUME IInv, PublishReturns \/ PublishUnreported
    PROVE  IInv'
<1> USE DEF CREATED, PLANNING, RESEARCHING, ANALYZING, REVIEW_REQUIRED, REPORTING,
            COMPLETED, FAILED, PARTIAL
<1> USE DEF local, review, route
<1>1. /\ pc = "publish" /\ written = 4
      /\ publication' = IF short THEN "partial" ELSE "complete"
      /\ UNCHANGED <<status, evidence, findings, artifacts>>
      /\ UNCHANGED <<local, review, adds, route>>
      /\ written' \in {written, 0}
  BY FourArtifacts DEF PublishReturns, PublishUnreported, PublicationLands
<1>2. StaysOrFails \/ (pc' = "to_end" /\ attempt' = 1)
  BY RetryStays DEF PublishReturns, PublishUnreported, Proceed, IInv
<1>3. artifacts = 4 /\ status = REPORTING /\ Cleared
  BY <1>1, FourArtifacts
  DEF IInv, TypeOK, PublicationInStep, StatusInStep, StatusAt, ReviewInStep
<1>4. TypeOK'
  <2>1. pc' \in Steps
    BY <1>2 DEF StaysOrFails, IInv, TypeOK, Steps, TransitionSteps
  <2>2. attempt' \in 1..JobAttempts
    BY <1>2, PipelineAssumption DEF StaysOrFails, PipelineAssumption
  <2> QED  BY <1>1, <2>1, <2>2, FourArtifacts DEF IInv, TypeOK, adds
<1>5. StatusInStep'
  BY <1>1, <1>2, <1>3 DEF IInv, TypeOK, StatusInStep, StatusAt, StaysOrFails
<1>6. PublicationInStep' /\ PublishedIsWhole'
  BY <1>1, <1>2, <1>3, FourArtifacts
  DEF IInv, TypeOK, PublicationInStep, PublishedIsWhole, StaysOrFails
<1>7. CycleInBounds' /\ RoundsInStep'
  BY <1>1, <1>2 DEF IInv, CycleInBounds, RoundsInStep, Answered, StaysOrFails
<1>8. ReviewInStep' /\ ReportedIsReviewed'
  BY <1>1, <1>2, <1>3 DEF ReviewInStep, Cleared, ApprovedNow, ReportedIsReviewed, StaysOrFails
<1>9. HeardMayReview' /\ OneAnswerPerRound'
  BY <1>1 DEF IInv, HeardMayReview, OneAnswerPerRound
<1>10. RowsInStep'  BY <1>1, NotAdding, RowsKept DEF IInv, adds
<1> QED  BY <1>4, <1>5, <1>6, <1>7, <1>8, <1>9, <1>10 DEF IInv

\* An attempt of publish_report that fails leaves its artifacts and no record.
LEMMA PublishFailsKeeps ==
    ASSUME IInv, PublishFails
    PROVE  IInv'
  BY RetryStays, FailureKeeps, NotAdding DEF PublishFails, adds, IInv, TypeOK

-----------------------------------------------------------------------------
(* The review.                                                             *)

\* The route and the signal change nothing but requests and decisions.
LEMMA RouteKeeps ==
    ASSUME IInv, RouteNext
    PROVE  IInv'
<1> USE DEF store, local, review
<1>1. UNCHANGED <<store, pc, attempt, local, reviewOpen, answered, written, adds>>
  BY DEF RouteNext, ReviewAdmitted, ReviewDelivered, ReviewUndelivered
<1>2. /\ requests' \subseteq Request /\ asked' \in 0..MaxRequests
      /\ \A r \in requests' : MayReview(r.by)
  <2>1. CASE \E r \in requests : ReviewDelivered(r) \/ ReviewUndelivered(r)
    BY <2>1 DEF ReviewDelivered, ReviewUndelivered, IInv, TypeOK, HeardMayReview
  <2>2. ASSUME NEW c \in Caller, NEW d \in ReviewerDecision, ReviewAdmitted(c, d)
        PROVE  <1>2!:
    <3> DEFINE r == [by |-> c, seen |-> ShownRound, decision |-> d]
    <3>1. ShownRound \in Nat
      BY PipelineAssumption DEF IInv, TypeOK, CycleInBounds, ShownRound, PipelineAssumption
    <3>2. r \in Request /\ MayReview(r.by) /\ requests' = requests \cup {r}
      BY <2>2, <3>1 DEF Request, ReviewAdmitted
    <3>3. asked' \in 0..MaxRequests
      BY <2>2, PipelineAssumption DEF ReviewAdmitted, IInv, TypeOK, PipelineAssumption
    <3> HIDE DEF r
    <3> QED  BY <3>2, <3>3 DEF IInv, TypeOK, HeardMayReview
  <2> QED  BY <2>1, <2>2 DEF RouteNext
<1>3. /\ decisions' \in Seq(Request)
      /\ \A i \in 1..Len(decisions') : MayReview(decisions'[i].by)
  <2>1. /\ decisions \in Seq(Request)
        /\ \A i \in 1..Len(decisions) : MayReview(decisions[i].by)
    BY DEF IInv, TypeOK, HeardMayReview
  <2>2. decisions' = decisions \/ \E r \in requests : decisions' = Append(decisions, r)
    BY DEF RouteNext, ReviewAdmitted, ReviewDelivered, ReviewUndelivered, Signalled
  <2>3. ASSUME NEW r \in requests, decisions' = Append(decisions, r)
        PROVE  <1>3!:
    <3>1. r \in Request /\ MayReview(r.by)  BY DEF IInv, TypeOK, HeardMayReview
    <3> QED  BY <2>1, <2>3, <3>1, AppendProperties
  <2> QED  BY <2>1, <2>2, <2>3
<1>4. TypeOK'  BY <1>1, <1>2, <1>3 DEF IInv, TypeOK, adds
<1>5. HeardMayReview'  BY <1>2, <1>3 DEF HeardMayReview
<1>6. StatusInStep'  BY <1>1 DEF IInv, StatusInStep, StatusAt, Goal
<1>7. CycleInBounds' /\ RoundsInStep' /\ PublicationInStep' /\ ReviewInStep'
  BY <1>1 DEF IInv, CycleInBounds, RoundsInStep, PublicationInStep, ReviewInStep, Cleared,
              ApprovedNow
<1>8. PublishedIsWhole' /\ ReportedIsReviewed' /\ OneAnswerPerRound'
  BY <1>1 DEF IInv, PublishedIsWhole, ReportedIsReviewed, OneAnswerPerRound
<1>9. RowsInStep'  BY <1>1, RowsStay DEF IInv
<1> QED  BY <1>4, <1>5, <1>6, <1>7, <1>8, <1>9 DEF IInv

\* The first decision delivered answers the round, and no round is answered twice.
LEMMA DecisionKeeps ==
    ASSUME IInv, DecisionTaken
    PROVE  IInv'
<1> USE DEF CREATED, PLANNING, RESEARCHING, ANALYZING, REVIEW_REQUIRED, REPORTING,
            COMPLETED, FAILED, PARTIAL, APPROVE, REJECT, MORE
<1> USE DEF store, route
<1> DEFINE r == Head(decisions)
           a == [round |-> cycle, request |-> r]
<1>1. r \in Request /\ MayReview(r.by)
  <2>1. decisions \in Seq(Request) /\ decisions # <<>>
    BY DEF DecisionTaken, IInv, TypeOK
  <2>2. r = decisions[1] /\ 1 \in 1..Len(decisions) /\ r \in Request
    BY <2>1, HeadTailProperties, LenProperties, EmptySeq
  <2> QED  BY <2>2 DEF IInv, HeardMayReview
<1>2. /\ pc = "await" /\ answered' = answered \cup {a}
      /\ cycle' = IF r.decision = MORE THEN cycle + 1 ELSE cycle
      /\ pc' = CASE r.decision = APPROVE -> "record_approved"
                 [] r.decision = REJECT -> "record_rejected"
                 [] OTHER -> "to_more"
      /\ attempt' = 1 /\ decisions' = <<>> /\ reviewOpen' = FALSE
      /\ UNCHANGED <<store, plan, results, held, short, written, adds, route>>
  BY DEF DecisionTaken, NextCycle, Proceed, TakeFirst
<1>3. /\ a \in [round : Nat, request : Request]
      /\ a.round = cycle /\ a.request = r /\ cycle \in Nat /\ cycle <= MaxReviewCycles
  BY <1>1, <1>2, PipelineAssumption DEF IInv, TypeOK, CycleInBounds, PipelineAssumption
<1>4. /\ status = REVIEW_REQUIRED /\ publication = "none"
      /\ \A b \in answered : b.round < cycle
  BY <1>2 DEF IInv, StatusInStep, StatusAt, PublicationInStep, RoundsInStep, Answered
<1>5. r.decision \in {APPROVE, REJECT, MORE}
  BY <1>1 DEF Request, ReviewerDecision
<1> HIDE DEF r, a
<1>6. TypeOK'
  <2>1. decisions' \in Seq(Request)  BY <1>2, EmptySeq
  <2>2. pc' \in Steps  BY <1>2 DEF Steps, TransitionSteps, RecordSteps
  <2>3. attempt' \in 1..JobAttempts /\ cycle' \in 0..MaxReviewCycles + 1
    BY <1>2, <1>3, PipelineAssumption DEF PipelineAssumption
  <2>4. answered' \subseteq [round : Nat, request : Request]
    BY <1>2, <1>3 DEF IInv, TypeOK
  <2> QED  BY <1>2, <2>1, <2>2, <2>3, <2>4 DEF IInv, TypeOK, adds
<1>7. StatusInStep'  BY <1>2, <1>4 DEF StatusInStep, StatusAt
<1>8. CycleInBounds'  BY <1>2, <1>3, <1>5 DEF CycleInBounds
<1>9. RoundsInStep' /\ OneAnswerPerRound'
  <2>1. \A b \in answered : b.round \in Nat  BY DEF IInv, TypeOK
  <2>2. RoundsInStep'
    BY <1>2, <1>3, <1>4, <1>5, <2>1 DEF RoundsInStep, Answered
  <2>3. OneAnswerPerRound'
    BY <1>2, <1>3, <1>4, <2>1 DEF IInv, OneAnswerPerRound
  <2> QED  BY <2>2, <2>3
<1>10. PublicationInStep'  BY <1>2, <1>4 DEF IInv, PublicationInStep
<1>11. ReviewInStep'
  <2>1. ASSUME pc' = "record_approved" PROVE ApprovedNow'
    <3>1. r.decision = APPROVE /\ cycle' = cycle  BY <1>2, <1>5, <2>1
    <3>2. r.by \in (Reviewer \ {Requester}) \cup Administrator  BY <1>1 DEF MayReview
    <3> QED  BY <1>2, <1>3, <3>1, <3>2 DEF ApprovedNow
  <2> QED  BY <1>2, <2>1 DEF ReviewInStep
<1>12. HeardMayReview'
  <2>1. Len(decisions') = 0  BY <1>2, EmptySeq
  <2> QED  BY <1>2, <2>1 DEF IInv, HeardMayReview
<1>13. PublishedIsWhole' /\ ReportedIsReviewed'
  BY <1>2, <1>4 DEF IInv, PublishedIsWhole, ReportedIsReviewed
<1>14. RowsInStep'  BY <1>2, NotAdding, RowsKept DEF IInv, adds
<1> QED  BY <1>6, <1>7, <1>8, <1>9, <1>10, <1>11, <1>12, <1>13, <1>14 DEF IInv

-----------------------------------------------------------------------------

\* Every step of the workflow, its activities and the route keeps the invariant.
LEMMA StepIInv == IInv /\ [Next]_vars => IInv'
<1> SUFFICES ASSUME IInv, [Next]_vars PROVE IInv'  OBVIOUS
<1>1. CASE TransitionReturns  BY <1>1, TransitionReturnsKeeps
<1>2. CASE TransitionUnreported  BY <1>2, TransitionUnreportedKeeps
<1>3. CASE TransitionFails
  BY <1>3, RetryStays, FailureKeeps, NotAdding
  DEF TransitionFails, TransitionSteps, adds, IInv, TypeOK
<1>4. CASE AgentReturns  BY <1>4, AgentReturnsKeeps
<1>5. CASE \E b \in BOOLEAN : AgentFails(b)  BY <1>5, AgentFailsKeeps
<1>6. CASE EvidenceLooks \/ EvidenceReturns \/ EvidenceUnreported \/ EvidenceFails
           \/ EvidenceOvertaken
  BY <1>6, EvidenceKeeps
<1>7. CASE LateNext  BY <1>7, LateKeeps
<1>8. CASE FindingsReturn \/ FindingsUnreported  BY <1>8, FindingsKeep
<1>9. CASE FindingsFail  BY <1>9, FindingsFailKeeps
<1>10. CASE PublishPut  BY <1>10, PublishPutKeeps
<1>11. CASE PublishReturns \/ PublishUnreported  BY <1>11, PublicationKeeps
<1>12. CASE PublishFails  BY <1>12, PublishFailsKeeps
<1>13. CASE DecisionTaken  BY <1>13, DecisionKeeps
<1>14. CASE RouteNext  BY <1>14, RouteKeeps
<1>15. CASE UNCHANGED vars
  <2>1. StaysOrFails  BY <1>15 DEF vars, StaysOrFails, IInv, TypeOK
  <2> QED  BY <1>15, <2>1, FailureKeeps DEF vars, adds
<1> QED
  BY <1>1, <1>2, <1>3, <1>4, <1>5, <1>6, <1>7, <1>8, <1>9, <1>10, <1>11, <1>12, <1>13,
     <1>14, <1>15
  DEF Next, WorkflowNext, AgentReturns

\* The invariant holds in every state the pipeline reaches.
LEMMA Inductive == Spec => []IInv
  BY InitIInv, StepIInv, PTL DEF Spec

\* Stores, workflow, route and history keep their types.
THEOREM TypeCorrect == Spec => []TypeOK
  BY Inductive, PTL DEF IInv

\* A completed job has all its artifacts, its record and findings nobody still owes an
\* answer on, whichever attempts were lost or repeated on the way.
THEOREM CompletedJobsArePublished == Spec => []CompletedIsPublished
<1>1. IInv => CompletedIsPublished
  BY DEF IInv, CompletedIsPublished, PublicationInStep, PublishedIsWhole, ReportedIsReviewed
<1> QED  BY <1>1, Inductive, PTL

\* The record never points at an artifact that is missing.
THEOREM PublicationsAreWhole == Spec => []PublishedIsWhole
  BY Inductive, PTL DEF IInv

\* Nothing is reported on or published without the review the critic asked for.
THEOREM ReportsAreReviewed == Spec => []ReportedIsReviewed
  BY Inductive, PTL DEF IInv

\* An excerpt has no more rows than attempts given up on between look and insert, and one
\* more, under any redelivery and however late those attempts finish.
THEOREM EvidenceIsRecognised == Spec => []RepeatedOnlyWhenRaced
<1>1. IInv => RepeatedOnlyWhenRaced
  <2> SUFFICES ASSUME IInv PROVE RepeatedOnlyWhenRaced  OBVIOUS
  <2>1. \A k \in Records : evidence[k] \in Nat /\ late[k] \in Nat /\ raced[k] \in Nat
    BY DEF IInv, TypeOK
  <2>2. \A k \in Records : evidence[k] + late[k] <= 1 + raced[k]
    BY DEF IInv, RowsInStep, Rows
  <2>3. \A k \in Records : evidence[k] <= 1 + raced[k]  BY <2>1, <2>2
  <2> QED  BY <2>3 DEF IInv, RowsInStep, RepeatedOnlyWhenRaced
<1> QED  BY <1>1, Inductive, PTL

\* No decision made on a review that is shown is dropped before the review is answered.
THEOREM ShownReviewsAreOpen == Spec => []ShownReviewIsOpen
<1>1. IInv => ShownReviewIsOpen  BY DEF IInv, ReviewInStep, ShownReviewIsOpen
<1> QED  BY <1>1, Inductive, PTL

\* However many decisions race, one of them answers a round.
THEOREM RoundsAreAnsweredOnce == Spec => []OneAnswerPerRound
  BY Inductive, PTL DEF IInv

\* The pipeline asks for no transition the table refuses, except to fail a job.
THEOREM TransitionsAreAllowed == Spec => []OwnTransitionsAreAllowed
<1>1. IInv => OwnTransitionsAreAllowed
  BY DEF IInv, StatusInStep, StatusAt, OwnTransitionsAreAllowed, Goal, TransitionSteps,
         ALLOWED_TRANSITIONS, CREATED, PLANNING, RESEARCHING, ANALYZING, REVIEW_REQUIRED,
         REPORTING, COMPLETED, FAILED, PARTIAL
<1> QED  BY <1>1, Inductive, PTL

=============================================================================
