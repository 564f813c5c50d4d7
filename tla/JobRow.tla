----------------------------- MODULE JobRow -----------------------------
(***************************************************************************)
(* The job row and everyone who writes it.  ResearchJobService.transition  *)
(* and record_checkpoint (application/jobs.py) read the whole row in one   *)
(* repository call and write the whole row back in another, with no        *)
(* version check (persistence/postgres.py, InMemoryJobRepository), so the  *)
(* create_job request, an operator's hand move and every running attempt   *)
(* of transition_job interleave between the two.                           *)
(*                                                                         *)
(* The workflow is reduced to the order in which it may ask for statuses   *)
(* (ResearchPipeline has the rest).  An attempt that outlives its timeout  *)
(* goes on running beside its replacement.                                 *)
(***************************************************************************)
EXTENDS JobModel

CONSTANTS Slot,         \* worker slots an attempt of transition_job can occupy
          Operator,     \* callers of POST /jobs/{id}/transitions
          MoveTarget,   \* bound: the statuses they ask for
          Api,          \* the create_job request
          JobAttempts   \* JOB_RETRY_POLICY.maximum_attempts

ASSUME JobRowAssumption ==
    /\ Slot \cap Operator = {} /\ Api \notin Slot \cup Operator
    /\ JobAttempts \in Nat \ {0} /\ MoveTarget \subseteq JobStatus

VARIABLES row,       \* the stored job: its status and whether it names a workflow
          stored,    \* history: every status the row has held
          h,         \* each handler: where it is, the status it is to set, its copy
          workflow,  \* the workflow execution: none, running or closed
          belief,    \* the status the workflow was last told
          awaited,   \* the status it has asked for, or "none"
          failing,   \* whether it is in _fail
          current,   \* the slot of the attempt whose result still counts
          tries      \* attempts of the awaited transition so far

wf   == <<workflow, belief, awaited, failing, current, tries>>
vars == <<row, stored, h, wf>>

Handler == Slot \cup Operator \cup {Api}
Row     == [status : JobStatus, owned : BOOLEAN]
Places  == {"idle", "start", "check", "read", "write",
            "checkpoint_read", "checkpoint_write", "done"}

TypeOK ==
    /\ row \in Row
    /\ stored \subseteq JobStatus
    /\ h \in [Handler -> [at : Places, target : JobStatus, copy : Row]]
    /\ workflow \in {"none", "running", "closed"}
    /\ belief \in JobStatus
    /\ awaited \in JobStatus \cup {"none"}
    /\ failing \in BOOLEAN
    /\ current \in Slot
    /\ tries \in 1..JobAttempts

NewRow == [status |-> CREATED, owned |-> FALSE]

\* A handler with nothing read and nothing to set.
Resting(place) == [at |-> place, target |-> FAILED, copy |-> NewRow]

\* create_job has stored the job and is about to start its workflow.
Init ==
    /\ row = NewRow
    /\ stored = {CREATED}
    /\ h = [i \in Handler |-> Resting(IF i = Api THEN "start" ELSE "idle")]
    /\ workflow = "none" /\ belief = CREATED /\ awaited = "none"
    /\ failing = FALSE /\ current \in Slot /\ tries = 1

Goes(i, place) == h' = [h EXCEPT ![i].at = place]

\* A handler's work is over; a slot is then free for another attempt.
Over(i) == h' = [h EXCEPT ![i] = Resting(IF i \in Slot THEN "idle" ELSE "done")]

Write(r) == row' = r /\ stored' = stored \cup {r.status}

\* The awaited attempt reports success; the result of any other is discarded.
Reported(i) ==
    IF i = current /\ awaited # "none"
    THEN /\ belief' = awaited /\ awaited' = "none"
         /\ workflow' = IF awaited \in Terminal THEN "closed" ELSE workflow
         /\ tries' = 1
         /\ UNCHANGED <<failing, current>>
    ELSE UNCHANGED wf

-----------------------------------------------------------------------------
(* ResearchJobService.transition: get, check the table, update.            *)

\* Mutant: transition_to does not check the table.
ServiceRead_unchecked(i) ==
    /\ h[i].at = "read"
    /\ h' = [h EXCEPT ![i].copy = row, ![i].at = "write"]
    /\ UNCHANGED <<row, stored, wf>>

ServiceRead(i) ==
    /\ h[i].at = "read"
    /\ IF h[i].target \in ALLOWED_TRANSITIONS(row.status)
       THEN h' = [h EXCEPT ![i].copy = row, ![i].at = "write"]
       ELSE Over(i)
    /\ UNCHANGED <<row, stored, wf>>

ServiceWrite(i) ==
    /\ h[i].at = "write"
    /\ Write([h[i].copy EXCEPT !.status = h[i].target])
    /\ Over(i)
    /\ IF i \in Slot THEN Reported(i) ELSE UNCHANGED wf

-----------------------------------------------------------------------------
(* create_job, from the stored job on.                                     *)

StartSucceeds ==
    /\ h[Api].at = "start"
    /\ workflow' = "running"
    /\ Goes(Api, "checkpoint_read")
    /\ UNCHANGED <<row, stored, belief, awaited, failing, current, tries>>

\* WorkflowUnavailable: the job is to be marked failed.  An RPC that fails after the
\* service acted on it leaves a workflow running all the same.
StartUnavailable(started) ==
    /\ h[Api].at = "start"
    /\ workflow' = IF started THEN "running" ELSE workflow
    /\ h' = [h EXCEPT ![Api].at = "read", ![Api].target = FAILED]
    /\ UNCHANGED <<row, stored, belief, awaited, failing, current, tries>>

CheckpointRead ==
    /\ h[Api].at = "checkpoint_read"
    /\ h' = [h EXCEPT ![Api].copy = row, ![Api].at = "checkpoint_write"]
    /\ UNCHANGED <<row, stored, wf>>

CheckpointWrite ==
    /\ h[Api].at = "checkpoint_write"
    /\ Write([h[Api].copy EXCEPT !.owned = TRUE])
    /\ Over(Api)
    /\ UNCHANGED wf

\* The API process stops before the request is finished.
ApiStops ==
    /\ h[Api].at # "done"
    /\ Over(Api)
    /\ UNCHANGED <<row, stored, wf>>

-----------------------------------------------------------------------------
(* transition_job, the route: refused for a job that names a workflow.     *)

HandMove(o, target) ==
    /\ h[o].at = "idle"
    /\ ~row.owned
    /\ h' = [h EXCEPT ![o].at = "read", ![o].target = target]
    /\ UNCHANGED <<row, stored, wf>>

-----------------------------------------------------------------------------
(* transition_job, the activity, and the workflow that awaits it.          *)

Dispatch(s, target) ==
    /\ h[s].at = "idle"
    /\ h' = [h EXCEPT ![s].at = "check", ![s].target = target]
    /\ current' = s

\* The workflow's next transition; in _fail it asks for FAILED only.
Ask(s, target) ==
    /\ workflow = "running" /\ awaited = "none"
    /\ target \in ALLOWED_TRANSITIONS(belief)
    /\ failing => target = FAILED
    /\ awaited' = target /\ tries' = 1
    /\ Dispatch(s, target)
    /\ UNCHANGED <<row, stored, workflow, belief, failing>>

\* Mutant: attempts are started without counting them against the policy.
Redeliver_unbounded(s) ==
    /\ workflow = "running" /\ awaited # "none"
    /\ tries' = tries + 1
    /\ Dispatch(s, awaited)
    /\ UNCHANGED <<row, stored, workflow, belief, awaited, failing>>

\* The attempt timed out or failed: another one is started, wherever the first one is.
Redeliver(s) ==
    /\ workflow = "running" /\ awaited # "none" /\ tries < JobAttempts
    /\ tries' = tries + 1
    /\ Dispatch(s, awaited)
    /\ UNCHANGED <<row, stored, workflow, belief, awaited, failing>>

\* The attempts are spent: _fail asks for FAILED, and if that was it, raises.
GiveUp ==
    /\ workflow = "running" /\ awaited # "none" /\ tries = JobAttempts
    /\ awaited' = "none" /\ failing' = TRUE /\ tries' = 1
    /\ workflow' = IF failing THEN "closed" ELSE workflow
    /\ UNCHANGED <<row, stored, h, belief, current>>

\* Mutant: a redelivered transition counts as landed without looking.
AttemptCheck_assumes_landed(s) ==
    /\ h[s].at = "check"
    /\ IF tries > 1
       THEN Over(s) /\ Reported(s)
       ELSE Goes(s, "read") /\ UNCHANGED wf
    /\ UNCHANGED <<row, stored>>

\* The attempt's own get: a status already at the target is a call that landed.
AttemptCheck(s) ==
    /\ h[s].at = "check"
    /\ IF row.status = h[s].target
       THEN Over(s) /\ Reported(s)
       ELSE Goes(s, "read") /\ UNCHANGED wf
    /\ UNCHANGED <<row, stored>>

\* The attempt fails, or its worker dies, before it has written.
AttemptLost(s) ==
    /\ h[s].at # "idle"
    /\ Over(s)
    /\ UNCHANGED <<row, stored, wf>>

-----------------------------------------------------------------------------
Next ==
    \/ StartSucceeds \/ CheckpointRead \/ CheckpointWrite \/ ApiStops
    \/ \E started \in BOOLEAN : StartUnavailable(started)
    \/ \E o \in Operator, target \in MoveTarget : HandMove(o, target)
    \/ \E s \in Slot :
         \/ \E target \in JobStatus : Ask(s, target)
         \/ Redeliver(s) \/ AttemptCheck(s) \/ AttemptLost(s)
    \/ GiveUp
    \/ \E i \in Handler : ServiceRead(i) \/ ServiceWrite(i)

Spec == Init /\ [][Next]_vars
-----------------------------------------------------------------------------
(* Properties.                                                             *)

\* Every status of S comes with the phases that lead to it.
PhasesLeadTo(S) ==
    /\ \A t \in {RESEARCHING, ANALYZING, REVIEW_REQUIRED, REPORTING, COMPLETED, PARTIAL} :
          t \in S => PLANNING \in S /\ RESEARCHING \in S
    /\ \A t \in {REVIEW_REQUIRED, REPORTING, COMPLETED} : t \in S => ANALYZING \in S
    /\ COMPLETED \in S => REPORTING \in S

\* However the writers interleave and however stale their copies are, no phase is
\* skipped: a status appears in the row only after the phases that lead to it
\* (every write passed transition_to on a copy that was once stored).
NoPhaseSkipped == PhasesLeadTo(stored)

\* The workflow never acts on a transition that did not happen: the status it was last
\* told was stored, redeliveries and lost attempts included.
BeliefWasStored == belief \in stored

\* The doc of record_checkpoint: it stores the owner "leaving its status untouched",
\* that is, the row it is about to write back has the status the row has.
CheckpointKeepsStatus ==
    h[Api].at = "checkpoint_write" => h[Api].copy.status = row.status

\* The doc of JobActivities: all are "safe to redeliver", that is, between two
\* transitions no leftover attempt is about to replace the status just reported.
RedeliveryIsSafe ==
    awaited = "none" /\ ~failing /\ row.status = belief =>
        \A s \in Slot : h[s].at = "write" => h[s].target = belief
=============================================================================
