------------------------ MODULE SandboxJobProofs ------------------------
(***************************************************************************)
(* What a sandbox promises of the code it runs, for any set of             *)
(* calculations on either backend.  Neither promise is inductive by        *)
(* itself: that the code is cut off when it starts rests on the probe's    *)
(* count being no more than the chance failures while the network is open, *)
(* and that an answer was earned on what the log of a complete Job holds.  *)
(***************************************************************************)
EXTENDS SandboxJob, TLAPS

\* A calculation that did not pass the screen goes nowhere; one on its way to the API
\* server has no Job yet, and its server is not past the POST.
Placed(r) ==
    /\ code[r] = "forbidden" => pc[r] \in {"idle", "done", "dead"} /\ ~posted[r] /\ job[r] = "none"
    /\ posted[r] => r \in Kube /\ job[r] = "none" /\ pc[r] \in {"starting", "done", "dead"}
    /\ pc[r] = "idle" => job[r] = "none"
    /\ r \in Docker /\ pc[r] = "starting" => job[r] = "none"
    /\ pc[r] \in {"following", "killing"} => r \in Docker

\* The code is started at most once, and then cut off: while the network is open the probe
\* has failed no more often in a row than chance allows.
Isolated(r) ==
    /\ ran[r] \in 0..1
    /\ job[r] \in {"none", "pending", "probing"} => ran[r] = 0
    /\ job[r] \in {"running", "complete"} => ran[r] = 1
    /\ ran[r] = 1 => cut[r]
    /\ ~cut[r] => blocked[r] <= glitches[r]

\* What is left to be read of a calculation, and what the server made of it.
Accounted(r) ==
    /\ job[r] = "complete" =>
          \/ code[r] = "prints" /\ pod[r] \in {"none", "output"}
          \/ code[r] = "floods" /\ pod[r] \in {"none", "flood"}
    /\ job[r] \in {"none", "gone"} \/ r \in Docker => pod[r] = "none"
    /\ pc[r] = "reading_ok" => job[r] \in {"complete", "gone"} /\ ran[r] = 1
    /\ pc[r] \in {"deleting", "killing"} => outcome[r] # "none"
    /\ outcome[r] = "output" => ran[r] = 1 /\ code[r] = "prints"

Sound(r) == Placed(r) /\ Isolated(r) /\ Accounted(r)

IInv == TypeOK /\ \A r \in Run : Sound(r)

\* Before any calculation is screened the invariant holds.
LEMMA InitIInv == Init => IInv
<1> SUFFICES ASSUME Init PROVE IInv  OBVIOUS
<1>1. TypeOK
  BY SandboxAssumption
  DEF Init, TypeOK, SandboxAssumption, Run, Code, Active, Finished, Log, Outcome
<1>2. \A r \in Run : Sound(r)
  BY DEF Init, Sound, Placed, Isolated, Accounted
<1> QED  BY <1>1, <1>2 DEF IInv

\* A step of one calculation: the others are left as they are, and what it makes of its own
\* state has its type.
OfOneRun(r) ==
    /\ code' = code
    /\ pc' \in [Run -> {"idle", "starting", "waiting", "reading_ok", "reading_failed",
                        "deleting", "following", "killing", "done", "dead"}]
    /\ posted' \in [Run -> BOOLEAN]
    /\ job' \in [Run -> {"none", "gone"} \cup Active \cup Finished]
    /\ cut' \in [Run -> BOOLEAN]
    /\ blocked' \in [Run -> 0..2]
    /\ glitches' \in [Run -> 0..Glitch]
    /\ pod' \in [Run -> Log]
    /\ ran' \in [Run -> Nat]
    /\ outcome' \in [Run -> Outcome]
    /\ r \in Docker => job'[r] \in {"none", "gone", "running"}
    /\ pc'[r] = "done" => outcome'[r] # "none"
    /\ \A s \in Run \ {r} :
          /\ pc'[s] = pc[s] /\ posted'[s] = posted[s] /\ job'[s] = job[s] /\ cut'[s] = cut[s]
          /\ blocked'[s] = blocked[s] /\ glitches'[s] = glitches[s] /\ pod'[s] = pod[s]
          /\ ran'[s] = ran[s] /\ outcome'[s] = outcome[s]

\* Such a step is judged on that calculation alone.
LEMMA OneRunKeeps ==
    ASSUME IInv, NEW r \in Run, OfOneRun(r), Sound(r)'
    PROVE  IInv'
<1>1. \A s \in Docker : s \in Run  BY DEF Run
<1>2. \A s \in Docker : job'[s] \in {"none", "gone", "running"}
  BY <1>1 DEF IInv, TypeOK, OfOneRun
<1>3. \A s \in Run : pc'[s] = "done" => outcome'[s] # "none"
  BY DEF IInv, TypeOK, OfOneRun
<1>4. TypeOK'  BY <1>2, <1>3 DEF IInv, TypeOK, OfOneRun
<1>5. ASSUME NEW s \in Run, s # r PROVE Sound(s)'
  <2>1. Sound(s)  BY DEF IInv
  <2> QED  BY <1>5, <2>1 DEF Sound, Placed, Isolated, Accounted, OfOneRun
<1> QED  BY <1>4, <1>5 DEF IInv

\* What the server makes of an output is an answer.
LEMMA AnsweredOps ==
    ASSUME NEW output \in Log
    PROVE  /\ Answered(output) \in Outcome \ {"none"}
           /\ Answered(output) = "output" => output \notin {"flood", "none", "empty"}
  BY DEF Answered, Log, Outcome

\* The server's step from one stage to the next, which leaves the cluster alone.
LEMMA ConcludesKeeps ==
    ASSUME IInv, NEW r \in Run, NEW next, NEW o \in Outcome, Concludes(r, next, o),
           UNCHANGED clusterVars,
           next \in {"waiting", "reading_ok", "reading_failed", "deleting", "killing", "done"},
           next \in {"deleting", "killing", "done"} => o # "none",
           next = "reading_ok" => job[r] = "complete",
           next = "killing" => r \in Docker,
           posted[r] => next = "done",
           code[r] # "forbidden",
           o = "output" => ran[r] = 1 /\ code[r] = "prints"
    PROVE  IInv'
<1>t. TypeOK /\ Sound(r)  BY DEF IInv
<1>1. /\ pc' = [pc EXCEPT ![r] = next] /\ outcome' = [outcome EXCEPT ![r] = o]
      /\ UNCHANGED <<code, posted, job, cut, blocked, glitches, pod, ran>>
  BY DEF Concludes, clusterVars
<1>2. pc'[r] = next /\ outcome'[r] = o  BY <1>1, <1>t DEF TypeOK
<1>3. OfOneRun(r)  BY <1>1, <1>2, <1>t DEF OfOneRun, TypeOK
<1>4. Sound(r)'
  BY <1>1, <1>2, <1>t DEF Sound, Placed, Isolated, Accounted
<1> QED  BY <1>3, <1>4, OneRunKeeps

\* The screen.
LEMMA ScreenKeeps ==
    ASSUME IInv, NEW r \in Run, Screen(r)
    PROVE  IInv'
<1>t. TypeOK /\ Sound(r)  BY DEF IInv
<1>1. /\ pc[r] = "idle"
      /\ UNCHANGED <<code, job, cut, blocked, glitches, pod, ran>>
  BY DEF Screen, clusterVars
<1>2. CASE /\ code[r] # "forbidden"
           /\ pc' = [pc EXCEPT ![r] = "starting"]
           /\ posted' = [posted EXCEPT ![r] = r \in Kube]
           /\ outcome' = outcome
  <2>1. pc'[r] = "starting" /\ posted'[r] = (r \in Kube) /\ outcome'[r] = outcome[r]
    BY <1>2, <1>t DEF TypeOK
  <2>2. OfOneRun(r)  BY <1>1, <1>2, <2>1, <1>t DEF OfOneRun, TypeOK
  <2>3. Sound(r)'  BY <1>1, <1>2, <2>1, <1>t DEF Sound, Placed, Isolated, Accounted
  <2> QED  BY <2>2, <2>3, OneRunKeeps
<1>3. CASE /\ pc' = [pc EXCEPT ![r] = "done"]
           /\ outcome' = [outcome EXCEPT ![r] = "invalid"]
           /\ posted' = posted
  <2>1. pc'[r] = "done" /\ posted'[r] = posted[r] /\ outcome'[r] = "invalid"
    BY <1>3, <1>t DEF TypeOK
  <2>2. OfOneRun(r)  BY <1>1, <1>3, <2>1, <1>t DEF OfOneRun, TypeOK, Outcome
  <2>3. Sound(r)'  BY <1>1, <1>3, <2>1, <1>t DEF Sound, Placed, Isolated, Accounted
  <2> QED  BY <2>2, <2>3, OneRunKeeps
<1> QED  BY <1>2, <1>3 DEF Screen, screen_calculation

\* What the server learns of a Job or a container without touching it.
LEMMA FollowingKeeps ==
    ASSUME IInv, NEW r \in Run,
           \/ PostAnswered(r) \/ PostFails(r) \/ JobSeen(r) \/ FollowingFails(r)
           \/ OutputRead(r) \/ NoRuntime(r) \/ ContainerLate(r)
    PROVE  IInv'
<1>t. TypeOK /\ Placed(r) /\ Isolated(r) /\ Accounted(r)  BY DEF IInv, Sound
<1>o. {"none", "unavailable"} \subseteq Outcome  BY DEF Outcome
<1>1. CASE PostAnswered(r)
  BY <1>1, <1>t, <1>o, ConcludesKeeps DEF PostAnswered, Placed
<1>2. CASE PostFails(r) \/ NoRuntime(r)
  BY <1>2, <1>t, <1>o, ConcludesKeeps DEF PostFails, NoRuntime, Placed
<1>3. CASE JobSeen(r)
  BY <1>3, <1>t, <1>o, ConcludesKeeps DEF JobSeen, Placed
<1>4. CASE FollowingFails(r)
  BY <1>4, <1>t, <1>o, ConcludesKeeps DEF FollowingFails, Placed
<1>5. CASE ContainerLate(r)
  BY <1>5, <1>t, <1>o, ConcludesKeeps DEF ContainerLate, Placed
<1>6. CASE OutputRead(r)
  <2>1. pod[r] \in Log  BY <1>t DEF TypeOK
  <2> DEFINE o == IF pc[r] = "reading_ok" THEN Answered(pod[r]) ELSE "unavailable"
  <2>2. o \in Outcome /\ o # "none"  BY <2>1, AnsweredOps, <1>o
  <2>3. o = "output" => ran[r] = 1 /\ code[r] = "prints"
    <3> SUFFICES ASSUME o = "output" PROVE ran[r] = 1 /\ code[r] = "prints"  OBVIOUS
    <3>1. pc[r] = "reading_ok" /\ Answered(pod[r]) = "output"  OBVIOUS
    <3>2. pod[r] \notin {"flood", "none", "empty"}  BY <2>1, <3>1, AnsweredOps
    <3> QED  BY <1>t, <3>1, <3>2 DEF Accounted
  <2>4. /\ pc[r] \in {"reading_ok", "reading_failed"}
        /\ Concludes(r, "deleting", o) /\ UNCHANGED clusterVars
    BY <1>6 DEF OutputRead
  <2>5. ~posted[r] /\ code[r] # "forbidden"  BY <1>t, <2>4 DEF Placed
  <2> HIDE DEF o
  <2> QED  BY <2>2, <2>3, <2>4, <2>5, ConcludesKeeps
<1> QED  BY <1>1, <1>2, <1>3, <1>4, <1>5, <1>6

\* The deletion of a Job, and the kill of a container, carried out or not.
LEMMA CleaningKeeps ==
    ASSUME IInv, NEW r \in Run, Delete(r) \/ KillContainer(r)
    PROVE  IInv'
<1>t. TypeOK /\ Placed(r) /\ Isolated(r) /\ Accounted(r) /\ Sound(r)  BY DEF IInv, Sound
<1>1. /\ pc[r] \in {"deleting", "killing"} /\ Concludes(r, "done", outcome[r])
      /\ outcome[r] \in Outcome /\ outcome[r] # "none"
      /\ code[r] # "forbidden" /\ ~posted[r]
      /\ outcome[r] = "output" => ran[r] = 1 /\ code[r] = "prints"
  BY <1>t DEF Delete, KillContainer, TypeOK, Placed, Accounted
<1>2. CASE UNCHANGED clusterVars
  BY <1>1, <1>2, ConcludesKeeps
<1>3. CASE /\ job' = [job EXCEPT ![r] = "gone"]
           /\ pod' = [pod EXCEPT ![r] = "none"] \/ (pod' = pod /\ r \in Docker)
           /\ UNCHANGED <<cut, blocked, glitches, ran>>
  <2>1. /\ pc' = [pc EXCEPT ![r] = "done"] /\ outcome' = [outcome EXCEPT ![r] = outcome[r]]
        /\ UNCHANGED <<code, posted>>
    BY <1>1 DEF Concludes
  <2>2. pc'[r] = "done" /\ outcome'[r] = outcome[r] /\ job'[r] = "gone" /\ pod'[r] = "none"
    BY <1>3, <1>t, <2>1 DEF TypeOK, Accounted
  <2>3. OfOneRun(r)  BY <1>1, <1>3, <1>t, <2>1, <2>2 DEF OfOneRun, TypeOK, Log
  <2>4. Sound(r)'
    BY <1>1, <1>3, <1>t, <2>1, <2>2 DEF Sound, Placed, Isolated, Accounted
  <2> QED  BY <2>3, <2>4, OneRunKeeps
<1> QED  BY <1>2, <1>3, <1>t DEF Delete, KillContainer, Placed

\* A container is cut off from the start, and ends with the status of its code.
LEMMA ContainerKeeps ==
    ASSUME IInv, NEW r \in Run, ContainerStarts(r) \/ ContainerEnds(r)
    PROVE  IInv'
<1>t. TypeOK /\ Placed(r) /\ Isolated(r) /\ Accounted(r)  BY DEF IInv, Sound
<1>1. CASE ContainerStarts(r)
  <2>1. /\ r \in Docker /\ pc[r] = "starting"
        /\ job' = [job EXCEPT ![r] = "running"]
        /\ cut' = [cut EXCEPT ![r] = TRUE]
        /\ ran' = [ran EXCEPT ![r] = ran[r] + 1]
        /\ pc' = [pc EXCEPT ![r] = "following"] /\ outcome' = [outcome EXCEPT ![r] = "none"]
        /\ UNCHANGED <<code, posted, blocked, glitches, pod>>
    BY <1>1 DEF ContainerStarts, Concludes
  <2>2. ran[r] = 0 /\ ~posted[r] /\ code[r] # "forbidden"
    BY <1>t, <2>1, SandboxAssumption DEF Placed, Isolated, SandboxAssumption
  <2>3. /\ job'[r] = "running" /\ cut'[r] = TRUE /\ ran'[r] = 1
        /\ pc'[r] = "following" /\ outcome'[r] = "none"
    BY <1>t, <2>1, <2>2 DEF TypeOK
  <2>4. OfOneRun(r)  BY <1>t, <2>1, <2>3 DEF OfOneRun, TypeOK, Outcome, Active
  <2>5. Sound(r)'
    BY <1>t, <2>1, <2>2, <2>3 DEF Sound, Placed, Isolated, Accounted
  <2> QED  BY <2>4, <2>5, OneRunKeeps
<1>2. CASE ContainerEnds(r)
  <2>1. /\ r \in Docker /\ job[r] = "running" /\ code[r] # "hangs"
        /\ job' = [job EXCEPT ![r] = "gone"]
        /\ UNCHANGED <<code, posted, cut, blocked, glitches, pod, ran>>
    BY <1>2 DEF ContainerEnds, Concludes
  <2>2. ran[r] = 1 /\ ~posted[r] /\ code[r] \in {"prints", "floods", "fails"}
    BY <1>t, <2>1 DEF Placed, Isolated, TypeOK, Code
  <2>3. PICK o \in Outcome : /\ o # "none" /\ (o = "output" => code[r] = "prints")
                             /\ \/ /\ pc' = [pc EXCEPT ![r] = "done"]
                                   /\ outcome' = [outcome EXCEPT ![r] = o]
                                \/ pc' = pc /\ outcome' = outcome
    <3>1. CASE pc[r] # "following"
      <4>1. "invalid" \in Outcome  BY DEF Outcome
      <4> QED  BY <1>2, <3>1, <4>1 DEF ContainerEnds
    <3>2. CASE pc[r] = "following" /\ code[r] = "prints"
      <4>1. Concludes(r, "done", "output")
        BY <1>2, <3>2 DEF ContainerEnds, Answered
      <4> QED  BY <3>2, <4>1 DEF Concludes, Outcome
    <3>3. CASE pc[r] = "following" /\ code[r] = "floods"
      <4>1. Concludes(r, "done", "invalid")
        BY <1>2, <3>3 DEF ContainerEnds, Answered
      <4> QED  BY <4>1 DEF Concludes, Outcome
    <3>4. CASE pc[r] = "following" /\ code[r] = "fails"
      <4>1. Concludes(r, "done", "unavailable")
        BY <1>2, <3>4 DEF ContainerEnds
      <4> QED  BY <4>1 DEF Concludes, Outcome
    <3> QED  BY <2>2, <3>1, <3>2, <3>3, <3>4
  <2>4. /\ job'[r] = "gone"
        /\ \/ pc'[r] = "done" /\ outcome'[r] = o
           \/ pc'[r] = pc[r] /\ outcome'[r] = outcome[r]
    BY <1>t, <2>1, <2>3 DEF TypeOK
  <2>5. OfOneRun(r)  BY <1>t, <2>1, <2>3, <2>4 DEF OfOneRun, TypeOK
  <2>6. Sound(r)'
    <3>1. pc[r] \notin {"idle", "starting"}  BY <1>t, <2>1 DEF Placed
    <3> QED  BY <1>t, <2>1, <2>2, <2>3, <2>4, <3>1 DEF Sound, Placed, Isolated, Accounted
  <2> QED  BY <2>5, <2>6, OneRunKeeps
<1> QED  BY <1>1, <1>2

\* A server that dies leaves every Job and container to themselves.
LEMMA DiesKeeps ==
    ASSUME IInv, Dies
    PROVE  IInv'
<1>1. /\ pc' = [r \in Run |-> IF pc[r] = "done" THEN "done" ELSE "dead"]
      /\ UNCHANGED <<code, posted, job, cut, blocked, glitches, pod, ran, outcome>>
  BY DEF Dies, clusterVars
<1>2. TypeOK'  BY <1>1 DEF IInv, TypeOK
<1>3. ASSUME NEW r \in Run PROVE Sound(r)'
  <2>1. Sound(r) /\ pc'[r] \in {"done", "dead"}  BY <1>1 DEF IInv
  <2> QED  BY <1>1, <2>1 DEF Sound, Placed, Isolated, Accounted
<1> QED  BY <1>2, <1>3 DEF IInv

\* A step of the cluster on a Job that is not the code's own: the code is not run by it.
LEMMA JobMoves ==
    ASSUME IInv, NEW r \in Kube, NEW j, NEW p \in Log,
           job' = [job EXCEPT ![r] = j], pod' = [pod EXCEPT ![r] = p],
           UNCHANGED <<code, pc, outcome, posted, cut, blocked, glitches, ran>>,
           job[r] # "none",
           \/ j = "probing" /\ job[r] = "pending"
           \/ j = "failed" /\ job[r] \in Active
           \/ j = "late" /\ job[r] \in Active
           \/ j = "gone" /\ p = "none"
           \/ j = job[r] /\ p = "none"
    PROVE  IInv'
<1>t. TypeOK /\ Sound(r) /\ r \in Run /\ r \notin Docker
  BY SandboxAssumption DEF IInv, Run, SandboxAssumption
<1>1. job'[r] = j /\ pod'[r] = p  BY <1>t DEF TypeOK
<1>2. j \in {"none", "gone"} \cup Active \cup Finished
  BY <1>t DEF TypeOK, Active, Finished
<1>3. OfOneRun(r)  BY <1>1, <1>2, <1>t DEF OfOneRun, TypeOK
<1>4. Sound(r)'
  BY <1>1, <1>t DEF Sound, Placed, Isolated, Accounted, Active
<1> QED  BY <1>3, <1>4, <1>t, OneRunKeeps

\* Its pod started, given up, lost or late, and the Job collected.
LEMMA JobKeeps ==
    ASSUME IInv, NEW r \in Run,
           \/ PodStarts(r) \/ NotIsolated(r) \/ PodLost(r) \/ DeadlineExceeded(r) \/ JobExpires(r)
    PROVE  IInv'
<1>t. TypeOK /\ Accounted(r)  BY DEF IInv, Sound
<1>d. r \notin Kube => job[r] \in {"none", "gone", "running"}  BY <1>t DEF TypeOK, Run
<1>u. UNCHANGED <<code, pc, outcome, posted, cut, blocked, glitches, ran>>
  BY DEF PodStarts, NotIsolated, PodLost, DeadlineExceeded, JobExpires, serverVars
<1>l. {"none", "empty", "not_isolated"} \subseteq Log  BY DEF Log
<1>1. CASE PodStarts(r)
  <2>1. /\ r \in Kube /\ job[r] = "pending"
        /\ job' = [job EXCEPT ![r] = "probing"] /\ pod' = [pod EXCEPT ![r] = "empty"]
    BY <1>1, <1>d DEF PodStarts
  <2> QED  BY <1>u, <1>l, <2>1, JobMoves
<1>2. CASE NotIsolated(r)
  <2>1. /\ r \in Kube /\ job[r] = "probing"
        /\ job' = [job EXCEPT ![r] = "failed"] /\ pod' = [pod EXCEPT ![r] = "not_isolated"]
    BY <1>2, <1>d DEF NotIsolated
  <2> QED  BY <1>u, <1>l, <2>1, JobMoves DEF Active
<1>3. CASE PodLost(r)
  <2>1. /\ r \in Kube /\ pod[r] # "none" /\ pod' = [pod EXCEPT ![r] = "none"]
        /\ job' = [job EXCEPT ![r] = IF job[r] \in Active THEN "failed" ELSE job[r]]
    BY <1>3 DEF PodLost
  <2>2. job[r] # "none"  BY <1>t, <2>1 DEF Accounted
  <2>3. CASE job[r] \in Active  BY <1>u, <1>l, <2>1, <2>2, <2>3, JobMoves
  <2>4. CASE job[r] \notin Active  BY <1>u, <1>l, <2>1, <2>2, <2>4, JobMoves
  <2> QED  BY <2>3, <2>4
<1>4. CASE DeadlineExceeded(r)
  <2>1. /\ r \in Kube /\ job[r] \in Active /\ job[r] # "none"
        /\ job' = [job EXCEPT ![r] = "late"] /\ pod' = [pod EXCEPT ![r] = "none"]
    BY <1>4 DEF DeadlineExceeded, Active
  <2> QED  BY <1>u, <1>l, <2>1, JobMoves
<1>5. CASE JobExpires(r)
  <2>1. /\ r \in Kube /\ job[r] # "none"
        /\ job' = [job EXCEPT ![r] = "gone"] /\ pod' = [pod EXCEPT ![r] = "none"]
    BY <1>5, <1>d DEF JobExpires, Finished
  <2> QED  BY <1>u, <1>l, <2>1, JobMoves
<1> QED  BY <1>1, <1>2, <1>3, <1>4, <1>5

\* The POST lands, or is lost.
LEMMA JobCreatedKeeps ==
    ASSUME IInv, NEW r \in Run, JobCreated(r)
    PROVE  IInv'
<1>t. TypeOK /\ Sound(r)  BY DEF IInv
<1>1. /\ posted[r] /\ posted' = [posted EXCEPT ![r] = FALSE]
      /\ job' = [job EXCEPT ![r] = "pending"] \/ job' = job
      /\ UNCHANGED <<code, pc, outcome, cut, blocked, glitches, pod, ran>>
  BY DEF JobCreated, serverVars
<1>2. /\ r \in Kube /\ r \notin Docker /\ job[r] = "none" /\ pod[r] = "none" /\ ran[r] = 0
      /\ code[r] # "forbidden" /\ pc[r] \in {"starting", "done", "dead"}
  BY <1>t, <1>1, SandboxAssumption
  DEF Sound, Placed, Isolated, Accounted, SandboxAssumption
<1>3. posted'[r] = FALSE /\ job'[r] \in {"none", "pending"}  BY <1>t, <1>1, <1>2 DEF TypeOK
<1>4. OfOneRun(r)  BY <1>t, <1>1, <1>2, <1>3 DEF OfOneRun, TypeOK, Active
<1>5. Sound(r)'
  BY <1>t, <1>1, <1>2, <1>3 DEF Sound, Placed, Isolated, Accounted
<1> QED  BY <1>4, <1>5, OneRunKeeps

\* The probes and the policy: two failures in a row are one more than chance allows.
LEMMA ProbingKeeps ==
    ASSUME IInv, NEW r \in Run, PolicyApplied(r) \/ ProbeBlocked(r) \/ ProbeConnects(r)
    PROVE  IInv'
<1>t. TypeOK /\ Sound(r)  BY DEF IInv
<1>g. /\ Glitch \in 0..1 /\ blocked[r] \in 0..2 /\ glitches[r] \in 0..Glitch
  BY <1>t, SandboxAssumption DEF TypeOK, SandboxAssumption
<1>u. UNCHANGED <<code, pc, outcome, posted, job, pod, ran>>
  BY DEF PolicyApplied, ProbeBlocked, ProbeConnects, serverVars
<1>1. CASE PolicyApplied(r)
  <2>1. cut' = [cut EXCEPT ![r] = TRUE] /\ UNCHANGED <<blocked, glitches>>
    BY <1>1 DEF PolicyApplied
  <2>2. cut'[r] = TRUE  BY <1>t, <2>1 DEF TypeOK
  <2>3. OfOneRun(r)  BY <1>t, <1>u, <2>1, <2>2 DEF OfOneRun, TypeOK
  <2>4. Sound(r)'  BY <1>t, <1>u, <2>1, <2>2 DEF Sound, Placed, Isolated, Accounted
  <2> QED  BY <2>3, <2>4, OneRunKeeps
<1>2. CASE ProbeBlocked(r)
  <2>1. /\ blocked[r] < 2 /\ cut' = cut /\ blocked' = [blocked EXCEPT ![r] = blocked[r] + 1]
        /\ \/ cut[r] /\ glitches' = glitches
           \/ glitches[r] < Glitch /\ glitches' = [glitches EXCEPT ![r] = glitches[r] + 1]
    BY <1>2 DEF ProbeBlocked
  <2>2. /\ blocked'[r] = blocked[r] + 1 /\ blocked'[r] \in 0..2
        /\ glitches'[r] \in 0..Glitch /\ (cut[r] \/ glitches'[r] = glitches[r] + 1)
    BY <1>t, <1>g, <2>1 DEF TypeOK
  <2>3. OfOneRun(r)  BY <1>t, <1>g, <1>u, <2>1, <2>2 DEF OfOneRun, TypeOK
  <2>4. Isolated(r)'
    <3>1. ~cut[r] => blocked'[r] <= glitches'[r]
      BY <1>t, <1>g, <2>2 DEF Sound, Isolated
    <3> QED  BY <1>t, <1>u, <2>1, <3>1 DEF Sound, Isolated
  <2>5. Sound(r)'  BY <1>t, <1>u, <2>4 DEF Sound, Placed, Accounted
  <2> QED  BY <2>3, <2>5, OneRunKeeps
<1>3. CASE ProbeConnects(r)
  <2>1. /\ cut' = cut /\ blocked' = [blocked EXCEPT ![r] = 0]
        /\ glitches' = [glitches EXCEPT ![r] = 0]
    BY <1>3 DEF ProbeConnects
  <2>2. blocked'[r] = 0 /\ glitches'[r] = 0 /\ 0 \in 0..Glitch
    BY <1>t, <1>g, <2>1 DEF TypeOK
  <2>3. OfOneRun(r)  BY <1>t, <1>u, <2>1, <2>2 DEF OfOneRun, TypeOK
  <2>4. Sound(r)'  BY <1>t, <1>u, <2>1, <2>2 DEF Sound, Placed, Isolated, Accounted
  <2> QED  BY <2>3, <2>4, OneRunKeeps
<1> QED  BY <1>1, <1>2, <1>3

\* The code starts once the count is two, so cut off; and a Job ends as its code does.
LEMMA CodeKeeps ==
    ASSUME IInv, NEW r \in Run, CodeStarts(r) \/ CodeEnds(r)
    PROVE  IInv'
<1>t. TypeOK /\ Sound(r)  BY DEF IInv
<1>d. r \in Docker => r \notin Kube /\ job[r] \in {"none", "gone", "running"}
  BY <1>t, SandboxAssumption DEF TypeOK, SandboxAssumption
<1>1. CASE CodeStarts(r)
  <2>1. /\ job[r] = "probing" /\ blocked[r] = 2 /\ r \notin Docker
        /\ job' = [job EXCEPT ![r] = "running"] /\ pod' = [pod EXCEPT ![r] = "partial"]
        /\ ran' = [ran EXCEPT ![r] = ran[r] + 1]
        /\ UNCHANGED <<code, pc, outcome, posted, cut, blocked, glitches>>
    BY <1>1, <1>d DEF CodeStarts, serverVars
  <2>2. ran[r] = 0 /\ cut[r]
    <3>1. glitches[r] \in 0..1 /\ ran[r] = 0
      BY <1>t, <2>1, SandboxAssumption DEF TypeOK, Sound, Isolated, SandboxAssumption
    <3> QED  BY <1>t, <2>1, <3>1 DEF Sound, Isolated
  <2>3. job'[r] = "running" /\ pod'[r] = "partial" /\ ran'[r] = 1
    BY <1>t, <2>1, <2>2 DEF TypeOK
  <2>4. OfOneRun(r)  BY <1>t, <2>1, <2>2, <2>3 DEF OfOneRun, TypeOK, Active, Log
  <2>5. Sound(r)'
    BY <1>t, <2>1, <2>2, <2>3 DEF Sound, Placed, Isolated, Accounted
  <2> QED  BY <2>4, <2>5, OneRunKeeps
<1>2. CASE CodeEnds(r)
  <2>1. /\ r \in Kube /\ r \notin Docker /\ job[r] = "running"
        /\ UNCHANGED <<code, pc, outcome, posted, cut, blocked, glitches, ran>>
    BY <1>2, <1>d DEF CodeEnds, serverVars
  <2>2. CASE /\ code[r] \in {"prints", "floods"}
             /\ job' = [job EXCEPT ![r] = "complete"]
             /\ pod' = [pod EXCEPT ![r] = IF code[r] = "floods" THEN "flood" ELSE "output"]
    <3>1. job'[r] = "complete" /\ pod'[r] = (IF code[r] = "floods" THEN "flood" ELSE "output")
      BY <1>t, <2>2 DEF TypeOK
    <3>2. OfOneRun(r)  BY <1>t, <2>1, <2>2, <3>1 DEF OfOneRun, TypeOK, Finished, Log
    <3>3. Sound(r)'
      BY <1>t, <2>1, <2>2, <3>1 DEF Sound, Placed, Isolated, Accounted
    <3> QED  BY <3>2, <3>3, OneRunKeeps
  <2>3. CASE job' = [job EXCEPT ![r] = "failed"] /\ pod' = pod
    <3>1. job'[r] = "failed"  BY <1>t, <2>3 DEF TypeOK
    <3>2. OfOneRun(r)  BY <1>t, <2>1, <2>3, <3>1 DEF OfOneRun, TypeOK, Finished
    <3>3. Sound(r)'
      BY <1>t, <2>1, <2>3, <3>1 DEF Sound, Placed, Isolated, Accounted
    <3> QED  BY <3>2, <3>3, OneRunKeeps
  <2> QED  BY <1>2, <2>2, <2>3 DEF CodeEnds
<1> QED  BY <1>1, <1>2

\* Every step of the specification keeps the invariant.
LEMMA StepIInv == IInv /\ [Next]_vars => IInv'
<1> SUFFICES ASSUME IInv, [Next]_vars PROVE IInv'  OBVIOUS
<1>1. ASSUME NEW r \in Run, ServerStep(r) PROVE IInv'
  BY <1>1, ScreenKeeps, FollowingKeeps, CleaningKeeps, ContainerKeeps DEF ServerStep
<1>2. ASSUME NEW r \in Run, ClusterStep(r) PROVE IInv'
  BY <1>2, JobCreatedKeeps, JobKeeps, ProbingKeeps, CodeKeeps, ContainerKeeps DEF ClusterStep
<1>3. CASE Dies  BY <1>3, DiesKeeps
<1>4. CASE UNCHANGED vars
  BY <1>4 DEF vars, IInv, TypeOK, Sound, Placed, Isolated, Accounted
<1> QED  BY <1>1, <1>2, <1>3, <1>4 DEF Next

\* The invariant holds in every state of the sandboxes.
LEMMA Inductive == Spec => []IInv
  BY InitIInv, StepIInv, PTL DEF Spec

\* The state has its type; no container waits for its network to be cut, and the server
\* still follows every calculation it has no answer to.
THEOREM TypeCorrect == Spec => []TypeOK
  BY Inductive, PTL DEF IInv

\* The code of a tenant runs at most once, screened and with its network cut off, however
\* many calculations there are and however their probes and policies interleave.
THEOREM CodeAlwaysRunsCutOff == Spec => []CodeRunsCutOff
<1>1. IInv => CodeRunsCutOff
  BY DEF IInv, Sound, Placed, Isolated, CodeRunsCutOff, screen_calculation
<1> QED  BY <1>1, Inductive, PTL

\* Output is answered only from a calculation that ran to its end.
THEOREM AnswersAreAlwaysEarned == Spec => []AnswersAreEarned
<1>1. IInv => AnswersAreEarned
  BY DEF IInv, Sound, Accounted, AnswersAreEarned
<1> QED  BY <1>1, Inductive, PTL
=============================================================================
