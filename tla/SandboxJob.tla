---------------------------- MODULE SandboxJob --------------------------
(***************************************************************************)
(* A calculation of the python-analysis server: sandbox_server.py screens  *)
(* it, and a backend contains it.  KubernetesSandboxBackend posts a Job,   *)
(* polls it, reads its pod's log and deletes it; the pod's own entry point *)
(* waits for the network policy before it runs the code.                   *)
(* DockerSandboxBackend runs one container and kills it when it is late.   *)
(* The server may die at any moment, and any request of it may fail,       *)
(* before or after it was carried out.                                     *)
(***************************************************************************)
EXTENDS Naturals, FiniteSets

CONSTANTS Kube, Docker,  \* calculations, by the backend that runs them
          Glitch         \* failures in a row of a probe nothing stops

Run == Kube \cup Docker

\* ENTRYPOINT asks for two failures in a row: one of them may be chance.
ASSUME SandboxAssumption == Kube \cap Docker = {} /\ Glitch \in 0..1

VARIABLES
    code,      \* what each calculation would do
    pc,        \* where the server is with it
    posted,    \* its POST is on the way to the API server
    job,       \* the Job or the container
    cut,       \* its network is cut off
    blocked,   \* ENTRYPOINT's counter
    glitches,  \* failures of its probe by chance, since it last connected
    pod,       \* what its log holds; None once the pod is gone
    ran,       \* history: how often the code was started
    outcome    \* what the server makes of it: an answer once pc is "done"

vars == <<code, pc, posted, job, cut, blocked, glitches, pod, ran, outcome>>

serverVars == <<code, pc, outcome>>

clusterVars == <<job, cut, blocked, glitches, pod, ran>>

Code == {"forbidden", "prints", "floods", "fails", "hangs"}

Active == {"pending", "probing", "running"}

Finished == {"complete", "failed", "late"}

Log == {"none", "empty", "partial", "output", "flood", "not_isolated"}

Outcome == {"none", "invalid", "unavailable", "output"}

\* The type of the state.  A Docker container never waits for its network to be cut, and
\* the server still follows every calculation it has no answer to.
TypeOK ==
    /\ code \in [Run -> Code]
    /\ pc \in [Run -> {"idle", "starting", "waiting", "reading_ok", "reading_failed",
                       "deleting", "following", "killing", "done", "dead"}]
    /\ posted \in [Run -> BOOLEAN]
    /\ job \in [Run -> {"none", "gone"} \cup Active \cup Finished]
    /\ cut \in [Run -> BOOLEAN]
    /\ blocked \in [Run -> 0..2]
    /\ glitches \in [Run -> 0..Glitch]
    /\ pod \in [Run -> Log]
    /\ ran \in [Run -> Nat]
    /\ outcome \in [Run -> Outcome]
    /\ \A r \in Docker : job[r] \in {"none", "gone", "running"}
    /\ \A r \in Run : pc[r] = "done" => outcome[r] # "none"

Init ==
    /\ code \in [Run -> Code]
    /\ pc = [r \in Run |-> "idle"]
    /\ posted = [r \in Run |-> FALSE]
    /\ job = [r \in Run |-> "none"]
    /\ cut = [r \in Run |-> FALSE]
    /\ blocked = [r \in Run |-> 0]
    /\ glitches = [r \in Run |-> 0]
    /\ pod = [r \in Run |-> "none"]
    /\ ran = [r \in Run |-> 0]
    /\ outcome = [r \in Run |-> "none"]
-----------------------------------------------------------------------------
(* SandboxService.run.                                                      *)

screen_calculation(c) == c # "forbidden"

\* What a backend's output becomes: too much is refused, and none is nothing the gateway's
\* executor can read.
Answered(output) ==
    CASE output = "flood" -> "invalid"
      [] output \in {"none", "empty"} -> "unavailable"
      [] OTHER -> "output"

Screen(r) ==
    /\ pc[r] = "idle"
    /\ \/ /\ screen_calculation(code[r])
          /\ pc' = [pc EXCEPT ![r] = "starting"]
          /\ posted' = [posted EXCEPT ![r] = r \in Kube]
          /\ UNCHANGED outcome
       \/ /\ ~screen_calculation(code[r])
          /\ pc' = [pc EXCEPT ![r] = "done"]
          /\ outcome' = [outcome EXCEPT ![r] = "invalid"]
          /\ UNCHANGED posted
    /\ UNCHANGED <<code, clusterVars>>
-----------------------------------------------------------------------------
(* KubernetesSandboxBackend.run.                                            *)

\* Mutant: the Job is given no deadline.
manifest_endless == [activeDeadlineSeconds |-> FALSE, ttlSecondsAfterFinished |-> TRUE]

\* The two fields by which the cluster ends a Job and collects it.
manifest == [activeDeadlineSeconds |-> TRUE, ttlSecondsAfterFinished |-> TRUE]

Concludes(r, next, o) ==
    /\ pc' = [pc EXCEPT ![r] = next]
    /\ outcome' = [outcome EXCEPT ![r] = o]
    /\ UNCHANGED <<code, posted>>

PostAnswered(r) ==
    /\ r \in Kube /\ pc[r] = "starting" /\ job[r] # "none"
    /\ Concludes(r, "waiting", "none")
    /\ UNCHANGED clusterVars

\* The POST fails, whether or not the Job was or will be created; nothing deletes it.
PostFails(r) ==
    /\ r \in Kube /\ pc[r] = "starting"
    /\ Concludes(r, "done", "unavailable")
    /\ UNCHANGED clusterVars

\* _wait sees a condition of the Job.
JobSeen(r) ==
    /\ pc[r] = "waiting"
    /\ \/ job[r] = "complete" /\ Concludes(r, "reading_ok", "none")
       \/ job[r] = "failed" /\ Concludes(r, "reading_failed", "none")
       \/ job[r] = "late" /\ Concludes(r, "deleting", "unavailable")
    /\ UNCHANGED clusterVars

\* A request fails, the Job is not found, or the server's own deadline passed.
FollowingFails(r) ==
    /\ pc[r] \in {"waiting", "reading_ok", "reading_failed"}
    /\ Concludes(r, "deleting", "unavailable")
    /\ UNCHANGED clusterVars

\* Mutant: a Job that failed is answered with what it printed.
OutputRead_unchecked(r) ==
    /\ pc[r] \in {"reading_ok", "reading_failed"}
    /\ Concludes(r, "deleting", Answered(pod[r]))
    /\ UNCHANGED clusterVars

\* _output, and what run makes of it after the Job is deleted.
OutputRead(r) ==
    /\ pc[r] \in {"reading_ok", "reading_failed"}
    /\ Concludes(r, "deleting",
                 IF pc[r] = "reading_ok" THEN Answered(pod[r]) ELSE "unavailable")
    /\ UNCHANGED clusterVars

\* _delete: a failure is passed over.
Delete(r) ==
    /\ pc[r] = "deleting"
    /\ Concludes(r, "done", outcome[r])
    /\ \/ UNCHANGED clusterVars
       \/ /\ job' = [job EXCEPT ![r] = "gone"]
          /\ pod' = [pod EXCEPT ![r] = "none"]
          /\ UNCHANGED <<cut, blocked, glitches, ran>>
-----------------------------------------------------------------------------
(* DockerSandboxBackend.run.                                                *)

\* The code is run as soon as the container is, under --network none.
ContainerStarts(r) ==
    /\ r \in Docker /\ pc[r] = "starting"
    /\ job' = [job EXCEPT ![r] = "running"]
    /\ cut' = [cut EXCEPT ![r] = TRUE]
    /\ ran' = [ran EXCEPT ![r] = @ + 1]
    /\ Concludes(r, "following", "none")
    /\ UNCHANGED <<blocked, glitches, pod>>

\* OSError: there is no container runtime.
NoRuntime(r) ==
    /\ r \in Docker /\ pc[r] = "starting"
    /\ Concludes(r, "done", "unavailable")
    /\ UNCHANGED clusterVars

\* The container ends, removed by --rm, and its status and output with it.
ContainerEnds(r) ==
    /\ r \in Docker /\ job[r] = "running" /\ code[r] # "hangs"
    /\ job' = [job EXCEPT ![r] = "gone"]
    /\ IF pc[r] = "following"
       THEN Concludes(r, "done", CASE code[r] = "fails" -> "unavailable"
                                   [] code[r] = "floods" -> Answered("flood")
                                   [] code[r] = "prints" -> Answered("output"))
       ELSE UNCHANGED <<code, pc, posted, outcome>>
    /\ UNCHANGED <<cut, blocked, glitches, pod, ran>>

\* TimeoutExpired: the client is gone, the container is not.
ContainerLate(r) ==
    /\ pc[r] = "following"
    /\ Concludes(r, "killing", "unavailable")
    /\ UNCHANGED clusterVars

\* docker kill, whose own failure is not looked at.
KillContainer(r) ==
    /\ pc[r] = "killing"
    /\ Concludes(r, "done", outcome[r])
    /\ \/ UNCHANGED clusterVars
       \/ job' = [job EXCEPT ![r] = "gone"] /\ UNCHANGED <<cut, blocked, glitches, pod, ran>>

Dies ==
    /\ pc' = [r \in Run |-> IF pc[r] = "done" THEN "done" ELSE "dead"]
    /\ \E r \in Run : pc[r] \notin {"idle", "done", "dead"}
    /\ UNCHANGED <<code, posted, clusterVars, outcome>>
-----------------------------------------------------------------------------
(* The cluster, as the manifest instructs it, and ENTRYPOINT.               *)

\* The POST lands, or is lost.
JobCreated(r) ==
    /\ posted[r]
    /\ posted' = [posted EXCEPT ![r] = FALSE]
    /\ job' = [job EXCEPT ![r] = "pending"] \/ UNCHANGED job
    /\ UNCHANGED <<serverVars, cut, blocked, glitches, pod, ran>>

PodStarts(r) ==
    /\ job[r] = "pending"
    /\ job' = [job EXCEPT ![r] = "probing"]
    /\ pod' = [pod EXCEPT ![r] = "empty"]
    /\ UNCHANGED <<serverVars, posted, cut, blocked, glitches, ran>>

\* The network plugin applies the policy to the pod: a moment later, or never.
PolicyApplied(r) ==
    /\ r \in Kube /\ job[r] \in {"probing", "running"} /\ ~cut[r]
    /\ cut' = [cut EXCEPT ![r] = TRUE]
    /\ UNCHANGED <<serverVars, posted, job, blocked, glitches, pod, ran>>

\* Mutant: the loop goes on after two failures.
ProbeBlocked_on(r) ==
    /\ job[r] = "probing"
    /\ \/ cut[r] /\ UNCHANGED glitches
       \/ ~cut[r] /\ glitches[r] < Glitch /\ glitches' = [glitches EXCEPT ![r] = @ + 1]
    /\ blocked' = [blocked EXCEPT ![r] = @ + 1]
    /\ UNCHANGED <<serverVars, posted, job, cut, pod, ran>>

\* A probe fails because the network is cut off, or by chance.
ProbeBlocked(r) ==
    /\ job[r] = "probing" /\ blocked[r] < 2
    /\ \/ cut[r] /\ UNCHANGED glitches
       \/ ~cut[r] /\ glitches[r] < Glitch /\ glitches' = [glitches EXCEPT ![r] = @ + 1]
    /\ blocked' = [blocked EXCEPT ![r] = @ + 1]
    /\ UNCHANGED <<serverVars, posted, job, cut, pod, ran>>

\* Mutant: a probe that connects does not start the count again.
ProbeConnects_counting(r) ==
    /\ job[r] = "probing" /\ blocked[r] < 2 /\ ~cut[r]
    /\ glitches' = [glitches EXCEPT ![r] = 0]
    /\ UNCHANGED <<serverVars, posted, job, cut, blocked, pod, ran>>

ProbeConnects(r) ==
    /\ job[r] = "probing" /\ blocked[r] < 2 /\ ~cut[r]
    /\ glitches' = [glitches EXCEPT ![r] = 0]
    /\ blocked' = [blocked EXCEPT ![r] = 0]
    /\ UNCHANGED <<serverVars, posted, job, cut, pod, ran>>

\* A probe connects past give_up.
NotIsolated(r) ==
    /\ job[r] = "probing" /\ blocked[r] < 2 /\ ~cut[r]
    /\ job' = [job EXCEPT ![r] = "failed"]
    /\ pod' = [pod EXCEPT ![r] = "not_isolated"]
    /\ UNCHANGED <<serverVars, posted, cut, blocked, glitches, ran>>

CodeStarts(r) ==
    /\ job[r] = "probing" /\ blocked[r] = 2
    /\ job' = [job EXCEPT ![r] = "running"]
    /\ pod' = [pod EXCEPT ![r] = "partial"]
    /\ ran' = [ran EXCEPT ![r] = @ + 1]
    /\ UNCHANGED <<serverVars, posted, cut, blocked, glitches>>

\* restartPolicy Never and backoffLimit 0: the Job ends as its pod does.
CodeEnds(r) ==
    /\ r \in Kube /\ job[r] = "running"
    /\ \/ /\ code[r] \in {"prints", "floods"}
          /\ job' = [job EXCEPT ![r] = "complete"]
          /\ pod' = [pod EXCEPT ![r] = IF code[r] = "floods" THEN "flood" ELSE "output"]
       \/ /\ code[r] = "fails"
          /\ job' = [job EXCEPT ![r] = "failed"]
          /\ UNCHANGED pod
    /\ UNCHANGED <<serverVars, posted, cut, blocked, glitches, ran>>

\* The pod is evicted, or collected after it ended; one that ran fails its Job.
PodLost(r) ==
    /\ r \in Kube /\ pod[r] # "none"
    /\ pod' = [pod EXCEPT ![r] = "none"]
    /\ job' = [job EXCEPT ![r] = IF @ \in Active THEN "failed" ELSE @]
    /\ UNCHANGED <<serverVars, posted, cut, blocked, glitches, ran>>

DeadlineExceeded(r) ==
    /\ manifest.activeDeadlineSeconds
    /\ r \in Kube /\ job[r] \in Active
    /\ job' = [job EXCEPT ![r] = "late"]
    /\ pod' = [pod EXCEPT ![r] = "none"]
    /\ UNCHANGED <<serverVars, posted, cut, blocked, glitches, ran>>

JobExpires(r) ==
    /\ manifest.ttlSecondsAfterFinished
    /\ job[r] \in Finished
    /\ job' = [job EXCEPT ![r] = "gone"]
    /\ pod' = [pod EXCEPT ![r] = "none"]
    /\ UNCHANGED <<serverVars, posted, cut, blocked, glitches, ran>>
-----------------------------------------------------------------------------
ServerStep(r) ==
    \/ Screen(r) \/ PostAnswered(r) \/ PostFails(r) \/ JobSeen(r) \/ FollowingFails(r)
    \/ OutputRead(r) \/ Delete(r)
    \/ ContainerStarts(r) \/ NoRuntime(r) \/ ContainerLate(r) \/ KillContainer(r)

ClusterStep(r) ==
    \/ JobCreated(r) \/ PodStarts(r) \/ PolicyApplied(r) \/ ProbeBlocked(r)
    \/ ProbeConnects(r) \/ NotIsolated(r) \/ CodeStarts(r) \/ CodeEnds(r) \/ PodLost(r)
    \/ DeadlineExceeded(r) \/ JobExpires(r) \/ ContainerEnds(r)

Next == Dies \/ \E r \in Run : ServerStep(r) \/ ClusterStep(r)

\* The cluster's controllers keep a Job's deadline and its TTL, whatever the server does;
\* a server that lives follows its container to the end.
Fairness ==
    \A r \in Run :
        /\ WF_vars(DeadlineExceeded(r))
        /\ WF_vars(JobExpires(r))
        /\ WF_vars(ContainerLate(r))
        /\ WF_vars(KillContainer(r))

Spec == Init /\ [][Next]_vars /\ Fairness
-----------------------------------------------------------------------------
\* kubernetes_sandbox.py: the container "starts the calculation only once that fails".  The
\* code a tenant submitted runs at most once for each call, only if it passed the screen,
\* and only where nothing can be reached, however the probes, the policy's arrival and a
\* chance failure are interleaved.
CodeRunsCutOff ==
    \A r \in Run : ran[r] > 0 => ran[r] = 1 /\ cut[r] /\ screen_calculation(code[r])

\* Output is only answered from a calculation that ran to its end: never a failed one's
\* last words, and never the nothing of a pod that is gone.
AnswersAreEarned ==
    \A r \in Run : outcome[r] = "output" => ran[r] = 1 /\ code[r] = "prints"

\* kubernetes_sandbox.py: "a TTL so a Job orphaned by a crash is still collected".  Every Job
\* is gone in the end, also one whose POST the server believes failed, one the server did
\* not live to delete and one whose deletion failed.  A server that lives follows a
\* container until it is gone or its kill was sent.
NothingIsLeftBehind ==
    \A r \in Run :
        job[r] \in Active \cup Finished
          ~> (job[r] = "gone" \/ (r \in Docker /\ pc[r] \in {"done", "dead"}))
=============================================================================
