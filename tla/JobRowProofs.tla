-------------------------- MODULE JobRowProofs --------------------------
(***************************************************************************)
(* For any number of worker slots, operators and attempts: no phase is     *)
(* ever skipped in the job row, and the workflow believes only statuses    *)
(* that were stored.  Neither is inductive: both follow from what the      *)
(* copies in flight are known to be.                                       *)
(***************************************************************************)
EXTENDS JobRow, TLAPS

RowWasStored == row.status \in stored

\* A copy about to be written back was stored once, and the table allows the move.
CopiesWereStored ==
    \A i \in Handler :
        /\ h[i].at \in {"write", "checkpoint_write"} => h[i].copy.status \in stored
        /\ h[i].at = "write" => h[i].target \in ALLOWED_TRANSITIONS(h[i].copy.status)

\* The attempt whose result counts is after the awaited status.
LiveAttempt ==
    awaited # "none" /\ h[current].at # "idle" => h[current].target = awaited

IInv == /\ TypeOK /\ RowWasStored /\ CopiesWereStored /\ LiveAttempt
        /\ NoPhaseSkipped /\ BeliefWasStored
-----------------------------------------------------------------------------

\* One allowed move from a status that was stored skips no phase (transition_to).
LEMMA AllowedMoveSkipsNothing ==
    ASSUME NEW S, PhasesLeadTo(S), NEW s \in S, s \in JobStatus,
           NEW t \in ALLOWED_TRANSITIONS(s)
    PROVE  PhasesLeadTo(S \cup {t})
  BY DEF PhasesLeadTo, ALLOWED_TRANSITIONS, JobStatus, CREATED, PLANNING, RESEARCHING,
         ANALYZING, REVIEW_REQUIRED, REPORTING, COMPLETED, FAILED, PARTIAL

\* The state create_job leaves behind satisfies the inductive invariant.
LEMMA InitIInv == Init => IInv
  <1> SUFFICES ASSUME Init PROVE IInv
    OBVIOUS
  <1> USE DEF Init, Resting, NewRow, CREATED, FAILED, JobStatus
  <1>1. TypeOK
    <2>1. NewRow \in Row
      BY DEF Row
    <2>2. \A place \in Places :
             Resting(place) \in [at : Places, target : JobStatus, copy : Row]
      BY <2>1
    <2>3. h \in [Handler -> [at : Places, target : JobStatus, copy : Row]]
      BY <2>2 DEF Places
    <2>4. tries \in 1..JobAttempts
      BY JobRowAssumption DEF JobRowAssumption
    <2> QED
      BY <2>1, <2>3, <2>4 DEF TypeOK
  <1>2. RowWasStored /\ CopiesWereStored /\ LiveAttempt /\ BeliefWasStored
    BY <1>1 DEF RowWasStored, CopiesWereStored, LiveAttempt, BeliefWasStored, TypeOK, Handler
  <1>3. NoPhaseSkipped
    BY DEF NoPhaseSkipped, PhasesLeadTo, PLANNING, RESEARCHING, ANALYZING,
           REVIEW_REQUIRED, REPORTING, COMPLETED, PARTIAL
  <1> QED
    BY <1>1, <1>2, <1>3 DEF IInv

-----------------------------------------------------------------------------

\* What one write of a status does to the history: it keeps the invariant's facts
\* about the row and its phases when the status was allowed from a stored one.
LEMMA WriteKeeps ==
    ASSUME IInv, NEW r \in Row, Write(r),
           \/ r.status \in stored
           \/ \E s \in stored : r.status \in ALLOWED_TRANSITIONS(s)
    PROVE  /\ row' \in Row /\ stored' \subseteq JobStatus
           /\ stored \subseteq stored' /\ r.status \in stored'
           /\ RowWasStored' /\ NoPhaseSkipped'
  <1>1. /\ row' = r /\ stored' = stored \cup {r.status} /\ r.status \in JobStatus
    BY DEF Write, Row
  <1>2. PhasesLeadTo(stored \cup {r.status})
    <2>1. CASE r.status \in stored
      <3>1. stored \cup {r.status} = stored
        BY <2>1
      <3> QED
        BY <3>1 DEF IInv, NoPhaseSkipped
    <2>2. CASE \E s \in stored : r.status \in ALLOWED_TRANSITIONS(s)
      <3>1. PICK s \in stored : r.status \in ALLOWED_TRANSITIONS(s)
        BY <2>2
      <3>2. s \in JobStatus
        BY DEF IInv, TypeOK
      <3> QED
        BY <3>1, <3>2, AllowedMoveSkipsNothing DEF IInv, NoPhaseSkipped
    <2> QED
      BY <2>1, <2>2
  <1> QED
    BY <1>1, <1>2 DEF IInv, TypeOK, RowWasStored, NoPhaseSkipped

\* A handler that finishes, or moves on without a copy, disturbs no other handler.
LEMMA OverKeeps ==
    ASSUME IInv, NEW i \in Handler, Over(i)
    PROVE  /\ h' \in [Handler -> [at : Places, target : JobStatus, copy : Row]]
           /\ \A j \in Handler : j # i => h'[j] = h[j]
           /\ h'[i].at \in {"idle", "done"}
           /\ i \in Slot => h'[i].at = "idle"
  <1>1. NewRow \in Row
    BY DEF NewRow, Row, JobStatus
  <1>2. Resting("idle") \in [at : Places, target : JobStatus, copy : Row]
    BY <1>1 DEF Resting, Places, JobStatus
  <1>3. Resting("done") \in [at : Places, target : JobStatus, copy : Row]
    BY <1>1 DEF Resting, Places, JobStatus
  <1>4. Resting("idle").at = "idle" /\ Resting("done").at = "done"
    BY DEF Resting
  <1> QED
    BY <1>2, <1>3, <1>4 DEF Over, IInv, TypeOK

\* The awaited attempt's report gives the workflow a status of the right type.
LEMMA ReportedKeeps ==
    ASSUME IInv, NEW i \in Slot, h[i].at # "idle", Reported(i)
    PROVE  /\ workflow' \in {"none", "running", "closed"} /\ failing' \in BOOLEAN
           /\ current' = current /\ tries' \in 1..JobAttempts
           /\ \/ awaited' = "none" /\ belief' = h[i].target
              \/ awaited' = awaited /\ belief' = belief /\ (i = current => awaited = "none")
  BY JobRowAssumption DEF Reported, IInv, TypeOK, LiveAttempt, wf, JobRowAssumption

\* A step that leaves row and history alone keeps the facts about them.
LEMMA QuietRow ==
    ASSUME IInv, UNCHANGED <<row, stored>>
    PROVE  /\ row' \in Row /\ stored' \subseteq JobStatus
           /\ RowWasStored' /\ NoPhaseSkipped'
  BY DEF IInv, TypeOK, RowWasStored, NoPhaseSkipped

-----------------------------------------------------------------------------

\* Every step keeps the inductive invariant.
LEMMA StepIInv == IInv /\ [Next]_vars => IInv'
  <1> SUFFICES ASSUME IInv, [Next]_vars PROVE IInv'
    OBVIOUS
  <1> USE DEF Handler
  <1>1. ASSUME NEW i \in Handler, ServiceRead(i) PROVE IInv'
    <2>1. CASE h[i].target \in ALLOWED_TRANSITIONS(row.status)
      <3>1. h' = [h EXCEPT ![i].copy = row, ![i].at = "write"]
        BY <1>1, <2>1 DEF ServiceRead
      <3>2. /\ h' \in [Handler -> [at : Places, target : JobStatus, copy : Row]]
            /\ h'[i].at = "write" /\ h'[i].copy = row /\ h'[i].target = h[i].target
            /\ \A j \in Handler : j # i => h'[j] = h[j]
        BY <3>1 DEF IInv, TypeOK, Places
      <3>3. TypeOK'
        BY <1>1, <3>2, QuietRow DEF ServiceRead, IInv, TypeOK, wf
      <3>4. CopiesWereStored'
        BY <1>1, <2>1, <3>2 DEF ServiceRead, IInv, CopiesWereStored, RowWasStored
      <3>5. LiveAttempt' /\ BeliefWasStored'
        BY <1>1, <3>2 DEF ServiceRead, IInv, TypeOK, LiveAttempt, BeliefWasStored, wf
      <3> QED
        BY <1>1, <3>3, <3>4, <3>5, QuietRow DEF ServiceRead, IInv
    <2>2. CASE h[i].target \notin ALLOWED_TRANSITIONS(row.status)
      <3>1. Over(i) /\ UNCHANGED <<row, stored, wf>>
        BY <1>1, <2>2 DEF ServiceRead
      <3>2. TypeOK'
        BY <3>1, OverKeeps, QuietRow DEF IInv, TypeOK, wf
      <3>3. CopiesWereStored'
        BY <3>1, OverKeeps DEF IInv, CopiesWereStored
      <3>4. LiveAttempt' /\ BeliefWasStored'
        BY <3>1, OverKeeps DEF IInv, TypeOK, LiveAttempt, BeliefWasStored, wf
      <3> QED
        BY <3>1, <3>2, <3>3, <3>4, QuietRow DEF IInv
    <2> QED
      BY <2>1, <2>2
  <1>2. ASSUME NEW i \in Handler, ServiceWrite(i) PROVE IInv'
    <2> DEFINE r == [h[i].copy EXCEPT !.status = h[i].target]
    <2>1. /\ r \in Row /\ r.status = h[i].target
          /\ \E s \in stored : r.status \in ALLOWED_TRANSITIONS(s)
      BY <1>2 DEF ServiceWrite, IInv, TypeOK, CopiesWereStored, Row
    <2>2. Write(r) /\ Over(i) /\ h[i].at = "write"
      BY <1>2 DEF ServiceWrite
    <2> HIDE DEF r
    <2>3. /\ row' \in Row /\ stored' \subseteq JobStatus
          /\ stored \subseteq stored' /\ h[i].target \in stored'
          /\ RowWasStored' /\ NoPhaseSkipped'
      BY <2>1, <2>2, WriteKeeps
    <2>4. /\ h' \in [Handler -> [at : Places, target : JobStatus, copy : Row]]
          /\ \A j \in Handler : j # i => h'[j] = h[j]
          /\ h'[i].at \in {"idle", "done"}
          /\ i \in Slot => h'[i].at = "idle"
      BY <2>2, OverKeeps
    <2>5. CopiesWereStored'
      BY <2>3, <2>4 DEF IInv, CopiesWereStored
    <2>6. CASE i \in Slot
      <3>1. /\ workflow' \in {"none", "running", "closed"} /\ failing' \in BOOLEAN
            /\ current' = current /\ tries' \in 1..JobAttempts
            /\ \/ awaited' = "none" /\ belief' = h[i].target
               \/ awaited' = awaited /\ belief' = belief
        BY <1>2, <2>6, <2>2, ReportedKeeps DEF ServiceWrite
      <3>2. TypeOK'
        BY <2>3, <2>4, <3>1 DEF IInv, TypeOK
      <3>3. LiveAttempt'
        BY <2>4, <2>6, <3>1 DEF IInv, TypeOK, LiveAttempt
      <3>4. BeliefWasStored'
        BY <2>3, <3>1 DEF IInv, BeliefWasStored
      <3> QED
        BY <2>3, <2>5, <3>2, <3>3, <3>4 DEF IInv
    <2>7. CASE i \notin Slot
      <3>1. UNCHANGED wf
        BY <1>2, <2>7 DEF ServiceWrite
      <3>2. TypeOK' /\ LiveAttempt' /\ BeliefWasStored'
        BY <2>3, <2>4, <2>7, <3>1 DEF IInv, TypeOK, LiveAttempt, BeliefWasStored, wf
      <3> QED
        BY <2>3, <2>5, <3>2 DEF IInv
    <2> QED
      BY <2>6, <2>7
  <1>3. CASE CheckpointRead
    <2>1. h' = [h EXCEPT ![Api].copy = row, ![Api].at = "checkpoint_write"]
      BY <1>3 DEF CheckpointRead
    <2>2. /\ h' \in [Handler -> [at : Places, target : JobStatus, copy : Row]]
          /\ h'[Api].at = "checkpoint_write" /\ h'[Api].copy = row
          /\ \A j \in Handler : j # Api => h'[j] = h[j]
      BY <2>1 DEF IInv, TypeOK, Places
    <2>3. TypeOK'
      BY <1>3, <2>2, QuietRow DEF CheckpointRead, IInv, TypeOK, wf
    <2>4. CopiesWereStored'
      BY <1>3, <2>2 DEF CheckpointRead, IInv, CopiesWereStored, RowWasStored
    <2>5. LiveAttempt' /\ BeliefWasStored'
      BY <1>3, <2>2, JobRowAssumption
      DEF CheckpointRead, IInv, TypeOK, LiveAttempt, BeliefWasStored, wf, JobRowAssumption
    <2> QED
      BY <1>3, <2>3, <2>4, <2>5, QuietRow DEF CheckpointRead, IInv
  <1>4. CASE CheckpointWrite
    <2> DEFINE r == [h[Api].copy EXCEPT !.owned = TRUE]
    <2>1. r \in Row /\ r.status = h[Api].copy.status /\ r.status \in stored
      BY <1>4 DEF CheckpointWrite, IInv, TypeOK, CopiesWereStored, Row
    <2>2. Write(r) /\ Over(Api) /\ UNCHANGED wf
      BY <1>4 DEF CheckpointWrite
    <2> HIDE DEF r
    <2>3. /\ row' \in Row /\ stored' \subseteq JobStatus /\ stored \subseteq stored'
          /\ RowWasStored' /\ NoPhaseSkipped'
      BY <2>1, <2>2, WriteKeeps
    <2>4. TypeOK' /\ CopiesWereStored' /\ LiveAttempt' /\ BeliefWasStored'
      BY <2>2, <2>3, OverKeeps, JobRowAssumption
      DEF IInv, TypeOK, CopiesWereStored, LiveAttempt, BeliefWasStored, wf, JobRowAssumption
    <2> QED
      BY <2>3, <2>4 DEF IInv
  <1>5. ASSUME NEW i \in Handler, NEW a \in Places \ {"write", "checkpoint_write"},
               NEW t \in JobStatus, UNCHANGED <<row, stored, belief>>,
               h' = [h EXCEPT ![i].at = a, ![i].target = t],
               workflow' \in {"none", "running", "closed"}, failing' \in BOOLEAN,
               tries' \in 1..JobAttempts, awaited' \in JobStatus \cup {"none"},
               current' \in Slot, LiveAttempt'
        PROVE  IInv'
    <2>1. /\ h' \in [Handler -> [at : Places, target : JobStatus, copy : Row]]
          /\ h'[i].at = a
          /\ \A j \in Handler : j # i => h'[j] = h[j]
      BY <1>5 DEF IInv, TypeOK
    <2>2. TypeOK'
      BY <1>5, <2>1, QuietRow DEF IInv, TypeOK
    <2>3. CopiesWereStored'
      BY <1>5, <2>1 DEF IInv, CopiesWereStored
    <2> QED
      BY <1>5, <2>2, <2>3, QuietRow DEF IInv, BeliefWasStored
  <1>6. CASE StartSucceeds
    <2>1. h' = [h EXCEPT ![Api].at = "checkpoint_read", ![Api].target = h[Api].target]
      BY <1>6 DEF StartSucceeds, Goes, IInv, TypeOK
    <2>2. LiveAttempt'
      BY <1>6, <2>1, JobRowAssumption
      DEF StartSucceeds, IInv, TypeOK, LiveAttempt, JobRowAssumption
    <2> QED
      BY <1>5, <1>6, <2>1, <2>2 DEF StartSucceeds, IInv, TypeOK, Places
  <1>7. ASSUME NEW started \in BOOLEAN, StartUnavailable(started) PROVE IInv'
    <2>1. LiveAttempt'
      BY <1>7, JobRowAssumption
      DEF StartUnavailable, IInv, TypeOK, LiveAttempt, JobRowAssumption
    <2> QED
      BY <1>5, <1>7, <2>1 DEF StartUnavailable, IInv, TypeOK, Places, JobStatus
  <1>8. CASE ApiStops
    <2>1. Over(Api) /\ UNCHANGED <<row, stored, wf>>
      BY <1>8 DEF ApiStops
    <2>2. TypeOK' /\ CopiesWereStored' /\ LiveAttempt' /\ BeliefWasStored'
      BY <2>1, OverKeeps, QuietRow, JobRowAssumption
      DEF IInv, TypeOK, CopiesWereStored, LiveAttempt, BeliefWasStored, wf, JobRowAssumption
    <2> QED
      BY <2>1, <2>2, QuietRow DEF IInv
  <1>9. ASSUME NEW o \in Operator, NEW target \in MoveTarget, HandMove(o, target) PROVE IInv'
    <2>1. LiveAttempt'
      BY <1>9, JobRowAssumption
      DEF HandMove, IInv, TypeOK, LiveAttempt, JobRowAssumption, wf
    <2>2. target \in JobStatus
      BY <1>9, JobRowAssumption DEF JobRowAssumption
    <2> QED
      BY <1>5, <1>9, <2>1, <2>2 DEF HandMove, IInv, TypeOK, Places, wf
  <1>10. ASSUME NEW s \in Slot, NEW target \in JobStatus, Ask(s, target) PROVE IInv'
    <2>1. LiveAttempt'
      BY <1>10 DEF Ask, Dispatch, IInv, TypeOK, LiveAttempt
    <2>2. /\ tries' \in 1..JobAttempts /\ awaited' \in JobStatus \cup {"none"}
          /\ current' \in Slot
      BY <1>10, JobRowAssumption DEF Ask, Dispatch, JobRowAssumption
    <2>3. /\ workflow' \in {"none", "running", "closed"} /\ failing' \in BOOLEAN
          /\ s \in Handler /\ "check" \in Places \ {"write", "checkpoint_write"}
      BY <1>10 DEF Ask, IInv, TypeOK, Places
    <2> QED
      BY <1>5, <1>10, <2>1, <2>2, <2>3 DEF Ask, Dispatch
  <1>11. ASSUME NEW s \in Slot, Redeliver(s) PROVE IInv'
    <2>1. LiveAttempt' /\ awaited \in JobStatus
      BY <1>11 DEF Redeliver, Dispatch, IInv, TypeOK, LiveAttempt
    <2>2. tries' \in 1..JobAttempts
      BY <1>11, JobRowAssumption DEF Redeliver, IInv, TypeOK, JobRowAssumption
    <2> QED
      BY <1>5, <1>11, <2>1, <2>2 DEF Redeliver, Dispatch, IInv, TypeOK, Places
  <1>12. CASE GiveUp
    <2>1. TypeOK' /\ LiveAttempt' /\ CopiesWereStored' /\ BeliefWasStored'
      BY <1>12, JobRowAssumption DEF GiveUp, IInv, TypeOK, LiveAttempt, CopiesWereStored,
         BeliefWasStored, JobRowAssumption
    <2> QED
      BY <1>12, <2>1, QuietRow DEF GiveUp, IInv
  <1>13. ASSUME NEW s \in Slot, AttemptCheck(s) PROVE IInv'
    <2>1. CASE row.status = h[s].target
      <3>1. Over(s) /\ Reported(s) /\ UNCHANGED <<row, stored>> /\ h[s].at # "idle"
        BY <1>13, <2>1 DEF AttemptCheck
      <3>2. TypeOK'
        BY <3>1, OverKeeps, ReportedKeeps, QuietRow DEF IInv, TypeOK
      <3>3. CopiesWereStored'
        BY <3>1, OverKeeps DEF IInv, CopiesWereStored
      <3>4. LiveAttempt'
        BY <3>1, OverKeeps, ReportedKeeps DEF IInv, TypeOK, LiveAttempt
      <3>5. BeliefWasStored'
        BY <2>1, <3>1, ReportedKeeps DEF IInv, RowWasStored, BeliefWasStored
      <3> QED
        BY <3>1, <3>2, <3>3, <3>4, <3>5, QuietRow DEF IInv
    <2>2. CASE row.status # h[s].target
      <3>1. h' = [h EXCEPT ![s].at = "read", ![s].target = h[s].target]
        BY <1>13, <2>2 DEF AttemptCheck, Goes, IInv, TypeOK
      <3>2. UNCHANGED <<row, stored, wf>> /\ h[s].at = "check"
        BY <1>13, <2>2 DEF AttemptCheck
      <3>3. LiveAttempt'
        BY <3>1, <3>2 DEF IInv, TypeOK, LiveAttempt, wf
      <3> QED
        BY <1>5, <3>1, <3>2, <3>3 DEF IInv, TypeOK, Places, wf
    <2> QED
      BY <2>1, <2>2
  <1>14. ASSUME NEW s \in Slot, AttemptLost(s) PROVE IInv'
    <2>1. Over(s) /\ UNCHANGED <<row, stored, wf>>
      BY <1>14 DEF AttemptLost
    <2>2. TypeOK' /\ CopiesWereStored' /\ LiveAttempt' /\ BeliefWasStored'
      BY <2>1, OverKeeps, QuietRow
      DEF IInv, TypeOK, CopiesWereStored, LiveAttempt, BeliefWasStored, wf
    <2> QED
      BY <2>1, <2>2, QuietRow DEF IInv
  <1>15. CASE UNCHANGED vars
    <2>1. TypeOK' /\ LiveAttempt' /\ CopiesWereStored' /\ BeliefWasStored'
      BY <1>15 DEF vars, wf, IInv, TypeOK, LiveAttempt, CopiesWereStored, BeliefWasStored
    <2> QED
      BY <1>15, <2>1, QuietRow DEF vars, IInv
  <1> QED
    BY <1>1, <1>2, <1>3, <1>4, <1>6, <1>7, <1>8, <1>9, <1>10, <1>11, <1>12, <1>13,
       <1>14, <1>15 DEF Next

-----------------------------------------------------------------------------

\* The row, its handlers and the workflow's view of them stay well-formed.
THEOREM TypeCorrect == Spec => []TypeOK
  <1>1. IInv => TypeOK
    BY DEF IInv
  <1> QED
    BY <1>1, InitIInv, StepIInv, PTL DEF Spec

\* No interleaving of create_job, hand moves and attempts of transition_job, however
\* stale the row they write back, stores a status whose phases were not stored first.
THEOREM PhasesNeverSkipped == Spec => []NoPhaseSkipped
  <1>1. IInv => NoPhaseSkipped
    BY DEF IInv
  <1> QED
    BY <1>1, InitIInv, StepIInv, PTL DEF Spec

\* The workflow is only ever told a status that transition_job found or put in the row.
THEOREM BeliefsWereStored == Spec => []BeliefWasStored
  <1>1. IInv => BeliefWasStored
    BY DEF IInv
  <1> QED
    BY <1>1, InitIInv, StepIInv, PTL DEF Spec
=============================================================================
