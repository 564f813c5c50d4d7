# A model of the research platform

TLA+ modules for the core of this repository: a research job, the durable workflow that
drives it, what is recorded of its research and who may read it, the agents' path to MCP
servers, the limits and policies on that path, and the web and sandbox servers at its end.
TLC checks the modules on small instances; TLAPS proves the statements listed under
[Proofs](#proofs) for every value of their constants. `PROJECT.json` maps each definition
to the source lines it translates and lists runs, mutants, hazards, findings and theorems.

    tlc -workers 2 -config Pipeline.cfg ResearchPipeline
    tlapm JobRowProofs.tla

Paths below are relative to `src/src/research_platform/`.

## Inventory

| Component | State | Operations | What makes it correct |
|---|---|---|---|
| Job life cycle (`domain/models.py`) | a job's status | `transition_to` | statuses follow `ALLOWED_TRANSITIONS` |
| Durable workflow (`workflow/orchestration.py`, `research_workflow.py`) | the step awaited, review cycle, plan, evidence in hand, `_review_is_open`, `_reviewer_decisions` | plan, research, collect, analyze, critique, review loop, report, publish, `_fail` | a completed job is published and reviewed; a failed step leaves a terminal status; no review is lost or answered twice |
| Activities (`workflow/activities.py`, `publishing.py`) | nothing of their own | `transition_job`, `add_job_evidence`, `record_job_findings`, `publish_report`, one per agent | safe to run more than once |
| Job service and rows (`application/jobs.py`, `persistence/postgres.py`) | the job row, evidence, findings, publication | create, transition, record_checkpoint, add_evidence, record_findings | concurrent writers do not undo each other or skip a phase |
| API routes (`api/routes.py`, `workflow/starter.py`) | none | `create_job`, `review_job`, `transition_job` | only a reviewer decides; a job with a workflow is moved by it alone |
| Circuit breaker (`mcp/breaker.py`, `persistence/redis_state.py`) | per server: state, failures, when it opened | `ensure_closed`, `record_success`, `record_failure` | opens at the threshold, rests, is probed, resumes |
| Budget ledger (same files) | per job: tool calls, tokens, cost, seconds | `reserve_call`, `ensure_within`, `record_agent_call` | a job spends no more than its budget allows |
| Registry and policy (`mcp/registry.py`, `policy.py`, `opa.py`, `policy/research/authz.rego`) | the capabilities | `register`, `is_visible_to`, `is_executable_by`, `evaluate` | both engines draw one boundary |
| Agent tools (`agents/tools.py`) | none | `build_agent_tools` | tools are what the engine would permit |
| Capability gateway (`mcp/gateway.py`) | none but what it composes | `invoke` | nothing unauthorized, unapproved or unmetered is sent; the trail is true |
| Agent contracts and provenance (`agents/contracts.py`, `checks.py`, `provenance.py`, `flow.py`) | attempts of a correction loop, excerpts read in an activity | `judge`, `verify_claims`, `check_analysis`, `check_review`, `check_report` | no evidence that was not read; no finding that was not judged; no citation that may not be published |
| Publication (`application/publication.py`, `workflow/publishing.py`, `persistence/object_store.py`) | artifacts, the publication record | `derive_findings`, re-reading sources, `build_manifest`, `_publish` | the manifest accounts for the report, also after a redelivery |
| Reading routes (`api/routes.py`) | none | `add_evidence`, `list_evidence`, `list_findings`, `list_invocations`, `get_report`, `get_manifest` | nobody reads above their clearance while the record changes |
| Rate limiter (`mcp/servers/web_boundary.py`, `persistence/redis_state.py`) | hits of each tenant and host | `acquire`, `remaining` | no window holds more than the limit |
| Service tokens and executor (`mcp/service_tokens.py`, `fastmcp_executor.py`) | a cached token | `__call__`, `execute` | a token handed out is good when it arrives, unless issuer and delivery used up the margin |
| Web server (`mcp/servers/web_research.py`, `http_web.py`, `serve.py`) | none | `search`, `fetch` | every hop of a fetch is checked and metered |
| Sandboxes (`mcp/servers/kubernetes_sandbox.py`, `docker_sandbox.py`, `sandbox_server.py`) | Jobs and containers | `run` | code runs once and cut off; only its own output is answered; nothing is left behind |
| Approvals, task graph, other server boundaries, authentication, schema, composition, metrics, evaluation | | | not modelled, see below |

**How they interact.** A route stores a job and starts its Temporal workflow. The workflow
runs deterministic Python that awaits activities; each activity runs in a worker, at least
once, with a timeout and a bounded number of attempts. Activities write the job row the API
reads. Agent activities check the budget ledger, call a model, and give it tools which call
the gateway; the gateway asks the policy engines, claims a tool call in the ledger, asks the
breaker, sends, and writes an audit record. A reviewer's decision goes through a route,
which reads the row, and then as a signal to the workflow, which keeps its own idea of
whether a review is open. Ledger and breaker are either objects of one process behind a
lock, or Redis hashes every worker shares. A call to a server deployed on its own carries
a service token from a cache all calls share; the web server meters it by tenant and host,
and the sandbox server turns it into a Kubernetes Job or a container. What the agents'
answers leave behind, evidence, findings, audit records, artifacts and the publication
record, is read through routes at any moment, each by one or two transactions.

**What is hard.** Read and write of the row are two calls with no version check. An
activity attempt that timed out is not stopped by its replacement, and what it looked up
before may no longer hold when it writes. A signal is delivered
some time after the check that admitted it. Outcomes of calls reach the breaker after it
has changed. Agents check a budget none of them has been charged to yet. Redis keys expire.
One boundary is written in two languages. `publish_report` writes several objects and then
the record under which they are served, and runs again when it was not heard of. A route
that reads twice may see two states. A POST that failed may still land. A token is taken from
a cache and used some time later. The `hazards` list of `PROJECT.json` names these at
their lines; those the code does not withstand, or that no property covers, have a note.

## Modules

| Module | Models | Composes |
|---|---|---|
| `JobModel` | statuses, `ALLOWED_TRANSITIONS`, reviewer statuses and decisions | |
| `ResearchPipeline` | one job's workflow, activities, publication and reviews | `JobModel` |
| `JobRow` | every writer of the job row | `JobModel` |
| `CircuitBreaker` | the breaker, in process or in Redis | |
| `BudgetLedger` | one job's budget and the agents spending it | |
| `AccessPolicy` | registry, registry engine, OPA bundle, agent tools, catalogue | |
| `CapabilityGateway` | concurrent calls through the gateway | instantiates `AccessPolicy`; refines `CircuitBreaker` |
| `AgentContract` | validators and checks of the agents' answers, `derive_findings` | |
| `ResearchRecord` | one task's calls, evidence, findings, publication, and the routes that read them | `AgentContract` |
| `RateLimiter` | the sliding window | |
| `ServiceTokens` | the token cache | |
| `RemoteCall` | calls to the web server, from token to last redirect | `RateLimiter`, `ServiceTokens` |
| `SandboxJob` | calculations in Kubernetes and in Docker | |
| `*Proofs` | theorems about the module they are named after; `BreakerAndLedgerProofs` about `CircuitBreaker` and `BudgetLedger`, which the gateway uses side by side, `RemoteCallProofs` also about `RateLimiter` | |
| `MC*` | small instances of the modules whose constants need definitions | |

Operators whose comment starts with "Mutant:" are wrong versions of the definition that
follows them. Nothing uses them; each shows that a property depends on the code it is
about, because TLC reports the property violated when the definition is replaced.

### ResearchPipeline

The stored state (`status`, `evidence`, `findings`, `artifacts`, `publication`) is what the
database and the object store hold; the rest is the workflow's local state and the requests
in flight. `pc` names the activity or wait the workflow is at, so one value of `pc` is one
`await` in `_run_research_job`, and `Goal` and `After` give the status a transition asks for
and the step that follows it. An activity has three actions: it lands and is reported
(`...Returns`), it lands and the report is lost (`...Unreported`), or it fails
(`...Fails`); the last two retry until `JobAttempts` is spent and `Raise` hands the
exception to `_fail`. `add_job_evidence` looks for the record (`EvidenceLooks`) and inserts
it (`EvidenceLands`) in two steps, because the code does so in two transactions and no
constraint of the table makes the insert look again. An attempt given up on in between
(`EvidenceOvertaken`) runs on beside its replacement and inserts whenever it likes, also
after the job has moved on (`LateInsert`); `raced` counts those attempts of each record,
and `MaxOvertaken` bounds the records that have any. Research tasks end in any order and `Collected` is the rest of
`_collect_evidence`. The review has the route's check (`ReviewAdmitted`), the signal
(`ReviewDelivered`, `ReviewUndelivered`) and the workflow's own take (`DecisionTaken`),
each a step of its own. A request carries `seen`, the round its author saw: the code has
no such field and the model never uses it in a guard.

What an agent answers is a choice: any set of tasks, any result, a review wanted or not, a
report that leaves findings out or not. A pipeline without a publisher, which only unit
tests build, is left out.

### JobRow

`ResearchPipeline` treats an attempt of `transition_job` as one step; this module takes it apart.
Each handler (the `create_job` request, an operator, an attempt in a worker slot) reads the
row, decides, and writes its whole copy back in a later step. Attempts of one transition
overlap once the first has timed out. The workflow is reduced to what it may ask next: any
status the table allows from the one it was last told, and in `_fail` the status failed.

### CircuitBreaker and BudgetLedger

`rest` is the part of the cooldown that is left, counted down by `Tick`. `Shared`, and in the
ledger `UsageShared`, chooses between the two implementations: only in Redis may a record be
lost or a key expire. The breaker's calls are counted, not named. In the ledger, tokens, cost
and seconds are meters that are charged alike, and `UsageExpires` happens only to a parked
job, because every write renews the expiry and nothing else waits thirty days. The ledger's
`LedgerInit`, `LedgerNext` and `LedgerSpec` are so named that both modules can be proved
about in one.

### AccessPolicy

The predicates keep the code's names. `BundleAllows` is the conjunction of the negated deny
rules of `authz.rego`; `RegistryAllows` is `RegistryPolicyEngine.evaluate`. The state is the
registry, so that an invariant is a statement about everything that can be registered. That
`build_agent_tools` raises for a caller who is no agent is left out.

### CapabilityGateway

Each call is a record that goes through the steps of `invoke`: visible, policy, verdict,
reserve, breaker, execute, observe. `EnsureClosed` hands it to the executor, and only
`Send` puts it among the calls that reached a server: the executor may know no such server
or obtain no token for it, so `Failed` happens to calls sent and not. Evaluating the engines and labelling the decision with
their version are two steps, because the label is read from a field all calls share.
`ReserveRefused` and `EnsureClosedRefused` need no guard: a store that cannot be reached refuses at
any time. The worker may die anywhere. The model fixes what the code reads and never uses: an
approval for a capability that requires none, and the version in the audit context before
the decision's replaces it.

### AgentContract and ResearchRecord

An excerpt stands for its normalized text, so it is its own hash and matching is equality;
a record is named by its excerpt, which no other record of a task may repeat. A report is
a set of sentences, each factual or not and with what it cites. `ResearchRecord` follows
one task through one pass of the review loop: the agents' answers are chosen from all
well-formed and ill-formed ones, those the contracts accept take an action of their own
(`ClaimsAccepted`, `AnalysisAccepted`, ...) and any of them may instead be `Refused`, until
the attempts are spent. A research attempt has a ledger of its own, so a retry starts with
none although the audit trail keeps the calls of the first (`ResearchRetried`).
`publish_report` is taken apart into its reads, its re-reading of each cited source and its
writes, in two attempts that overlap, since a timeout does not stop a thread. A request to
a reading route holds what it has read so far in `reader`. The lower-case operators under
"What the repository and the object store do" are the transactions.

### RateLimiter, ServiceTokens and RemoteCall

One clock serves windows, tokens and deliveries. A hit has a name, so two at one instant
are two; `granted` remembers every hit and is what the property speaks of. `acquire` reads
its clock twice under its lock, which is one step here. The cache reckons a token's life
from when the answer came, and with the `expires_in` it was told or, if it was told none,
with `DefaultLifetime` (60 s); the issuer reckons from when it signed, with the life it
granted. Nothing bounds how long an answer or a delivery takes: `httpx`'s 10 s is for each
phase of a request, and a `fetch` may take its 30 s (`mcp/catalogue.py:34`), which is the
whole margin. So a token out of the cache can expire on its way, and
`TokensOutliveTheirCalls` says exactly when: only if the answer and the delivery took more
than the margin together, or the token's whole life. A token whose life was left unsaid
and is shorter than 60 s is outside it: the cache may hand it out after it has expired. A
host stands for a URL of it; `Approved` is what `normalize_source_url` accepts and `Public`
what resolves to public addresses only. A name is taken to resolve alike for the check and
for the request, which the code's own comment says is not guaranteed.

### SandboxJob

The server's steps, the pod's and the cluster's are separate actions. `posted` is a POST
under way: the server may take it for failed and the Job appear afterwards. Any request
fails at any time, before or after it took effect, and the server dies at any time. What
the manifest asks of the cluster, `activeDeadlineSeconds` and `ttlSecondsAfterFinished`,
is what enables `DeadlineExceeded` and `JobExpires`. A probe of the pod's entry point fails
because the policy is in place or by chance, `Glitch` times in a row at most: the code
asks for two failures, so one chance failure is what it is built for, and two in a row
would run the code uncut.

## Runs

| Run | Instance | Shows |
|---|---|---|
| `pipeline` | 2 tasks, 2 people, 2 review rounds, 2 attempts, 2 requests, 1 record with an attempt given up on while it runs | a completed job is published, whole and reviewed; an excerpt is stored again only by an attempt given up on in the middle of its work; reviews are open when shown and answered once; the table never refuses the pipeline's own order; no job stays in a working status with nothing working on it |
| `row` | 2 slots, 2 attempts, 1 operator asking for 2 statuses | stale writers skip no phase, and the workflow is told only what was stored |
| `breaker` | 2 servers, 3 calls each, threshold 2, cooldown 2 | counting, the bound on late failures, the end of a rest |
| `ledger` | 3 agents, 2 meters with limit 2, calls spending up to 2, 2 reviews, counts in Redis | bounds on overshoot and on renewed allowances |
| `access` | every well-formed capability over 2 tenants, 2 roles, 2 agents; every principal | bundle, registry and tools agree |
| `gateway` | 3 calls, an agent and an administrator, a tool and an action, budget 2, threshold 1 | what reaches a server, what the trail says of it, and refinement of the safety part of `CircuitBreaker` |
| `evidence` | 2 calls (an internal document, a restricted query), 2 excerpts, 1 claim, up to 2 verdicts, 2 asks, 2 attempts of `publish_report`, readers of 2 clearances, restricted evidence attached by hand | evidence is what a call of the same attempt returned; findings are well-formed and judged; no route answers above the reader's clearance (the manifest excepted); the manifest accounts for the report |
| `remote` | 2 calls, 3 ticks, limit 1, window 2, margin 1, tokens living 1 or 3 and said to, or taken to live 2, 1 redirect; an approved public host, an approved one that points inside, a public one not approved, the search engine | windows are kept; tokens expire on their way only when the margin was used up; every request leaving the server is entitled to |
| `sandbox` | a Job and a container, each of five kinds of code | code runs once, screened and cut off; answers are earned; no Job is left behind |

The other runs are expected to end in a violation; see [Findings](#findings).

**Bounds.** Two tasks are enough for one to fail beside one that succeeds, in either order.
`MaxReviewCycles` is 1 in the model and 2 in the code: with 1 there are already a first
round, a second one, and the exhausted case after it. Two attempts give a redelivery and
the end of the retries. Two requests are one for each round, or two for one of them. One
record with an attempt given up on leaves another without, and both its attempts may be. A
third slot would add a third stale copy; that any number is harmless is what the theorems
say. An operator asks for `planning`, which races the
workflow's first transition, and for `reporting`, which the table refuses at first; all
nine targets differ from these only in the row of the table they meet. Three calls against
a budget of two are the fewest that both contest the last call and send one after a
failure has opened the circuit. In `evidence` one call returns what may be published and
one what may not; two excerpts let a claim rest on one and be contradicted by the other;
two verdicts judge the one claim twice; two attempts are a redelivery. Two calls are the
fewest that contest a slot of a limit of one and share a cached token; three ticks let
a window pass, a token expire in the cache and after it left, and use up a margin of one
twice over; the lives 1 and 3 are shorter and longer than the 2 taken for an unsaid one. The two calculations of `sandbox` share nothing,
which is the code's doing: each has a name of its own. Symmetry is used for slots, calls,
excerpts and attempts, in runs without liveness properties.

**Fairness.** `ResearchPipeline` assumes weak fairness of the workflow's own steps:
Temporal redelivers workflow and activity tasks until the workflow closes, and every
activity has a timeout. Nothing is assumed of reviewers, so `Settles` counts waiting for
one as settled. `CircuitBreaker` assumes that the clock advances. `SandboxJob` assumes of Kubernetes that
it keeps a Job's deadline and its TTL, and of a living server that `subprocess.run` times
out and that it goes on to the kill; nothing is assumed of the server's requests, of the
pod or of the network policy. So the promise is kept for Jobs whatever happens to the
server, and for a container only while its server lives and its kill succeeds.

**Deadlock** is allowed where the system may stop: a closed workflow, a job with its
budget spent, calls that have all returned. The breaker is checked for it.

## Proofs

Every invariant and action property of the passing runs and the refinement are theorems, for
every value of the constants that the assumptions admit. A proof module defines the
inductive invariant (`IInv`, `BreakerInv`, `LedgerInv`, `IndInv`), proves that it holds at
first (`InitIInv`), has a lemma for each action or group of actions (`...Keeps`), puts them
together (`StepIInv`), and reads the theorems off it. TLC checked each invariant on the
run's instance before it was proved.

| Theorems | For every | Argument |
|---|---|---|
| `ResearchPipelineProofs`: `CompletedJobsArePublished`, `PublicationsAreWhole`, `ReportsAreReviewed`, `EvidenceIsRecognised`, `ShownReviewsAreOpen`, `RoundsAreAnsweredOnce`, `TransitionsAreAllowed` | tasks, people, review cycles, attempts, requests | None is inductive. `IInv` ties the step the workflow is at to what the stores hold: `StatusAt` gives the statuses the row may have there (two where the transition may have landed unreported), `PublicationInStep` how much is published, `ReviewInStep` that an approval of this round was heard, `RoundsInStep` which rounds may have been answered. A redelivery leaves the workflow where it was, so the pairs of step and status are all there are. Of evidence, `RowsInStep` counts the rows with the inserts still to come: an attempt about to insert has found none, or was given up on and is counted in `raced`. |
| `JobRowProofs`: `PhasesNeverSkipped`, `BeliefsWereStored` | slots, operators, attempts | The properties speak of the history only; they are kept because of what is in flight: a copy about to be written was once stored, and the table allows the move from *it* (`CopiesWereStored`), even if the row has long changed. A report is believed because the live attempt is after the awaited status (`LiveAttempt`). |
| `BreakerAndLedgerProofs`: `CircuitsTripAtThreshold`, `LateFailuresStayBounded` | servers, threshold, cooldown, overlap | Inductive together with the types; the step is proved for one server (`Sound`) and the others are unchanged. The failure that opens a circuit is one call fewer in flight. |
| `BreakerAndLedgerProofs`: `OvershootStaysBounded`, `ClaimsStayCounted`, `BudgetKeptInProcess` | finite set of agents, budget, cost of a call | Calls under way are counted as if each had spent the most it can. A parked job has no call under way and has claimed at most what its parks renew, so an expiry takes nothing from the bound; without Redis the history and the count are equal. |
| `AccessPolicyProofs`: `OneBoundary`, `ToolsAreTheRegistrys` | tenants, candidate capabilities | Only well-formed capabilities are registered; the rest is the logic of the two boundaries (`BundleAgrees`). |
| `CapabilityGatewayProofs`: `SentCallsWerePermitted`, `SentCallsAreClaimed`, `TrailsAreTrue` | finite set of calls, callers, catalogue, budget, threshold | What calls share decides nothing of a call's own record, so the invariant is a claim about each call where it is in `invoke` (`Sound`) and one count: calls sent, or past the budget and not yet sent, have each claimed one of `tool_calls` (`Claimants`). |
| `CapabilityGatewayProofs!ImplementsBreaker` | the same | The breaker's `inFlight` is mapped to the number of a server's calls in `execute`; a step of a call changes one such number by one, and maps to the breaker's action of that name or to a stutter. |
| `RemoteCallProofs!WindowsStayWithinLimit`, `CallsStayWithinLimit` | keys, limit, window, clock; any calls using the limiter | All grants younger than a window are still in `hits` (no expiry or pruning takes one), so the window ending now holds at most what `HasRoom` leaves room for; windows that ended earlier gain no grants. Hits are numbered, which makes a new one count as one. |
| `RemoteCallProofs`: `TokensLastTheirCalls`, `OutboundCallsAreEntitled` | calls, hosts, tenants, lifetimes, redirects | `CacheSound` leaves a reusable token the margin to live, less what its answer took; `TokenSound` carries that to the moment it is taken for a call, or has it taken when it came. No bound on either leg is assumed. `SlotsAreHeld` counts the calls that fetch or have fetched against the grants of their key; `TrailSound` says that what is about to be requested has been checked. |
| `SandboxJobProofs`: `CodeAlwaysRunsCutOff`, `AnswersAreAlwaysEarned` | sets of Jobs and containers | While the network is open the probe's counter is at most the chance failures in a row (`Isolated`), fewer than the two it asks for. An answer comes from the log of a complete Job, and `Accounted` says what such a log holds. |
| `ResearchRecordProofs`: `FindingsAreJudged`, `ReadersAreCleared`, `ManifestsAreGrounded`, and the action property `EvidenceAlwaysTraced` | tools, calls, excerpts, claims, attempts of `publish_report`, clearances | Names are unique over what is stored and what is about to be (`EvidenceSound`), so evidence stored later is never what an answer already given, a citation or an audit record refers to (`NamesAreStable`, `AuditedIsStable`). Every attempt lists all that is cited and its report cites the same (`AttemptSound`), so a reader admitted by one publication record may be handed another attempt's report. An attempt lists the trail before its first re-read (`TrailSound`). The verdict kept of a claim is one that was given (`LastVerdictIsGiven`, from the well-foundedness of the naturals), and `most_restrictive` covers every record (`MostRestrictiveCovers`). |

`TypeCorrect` of each module (`BreakerTypeCorrect`, `LedgerTypeCorrect`) states its type
invariant.

They rest on the named assumptions of the modules, which TLC evaluates in the runs:
`PipelineAssumption`, `JobRowAssumption`, `BreakerAssumption`, `LedgerAssumption`,
`PolicyAssumption`, `GatewayAssumption` (finitely many calls; a budget and a threshold
of at least one, which the code enforces, and a positive cooldown, 30 s in the code), `LimiterAssumption`, `TokenAssumption`
(times are naturals; nothing of how they compare), `RemoteAssumption` (`None` is no call and no answer),
`SandboxAssumption` (at most one chance failure in a row) and `RecordAssumption`. The
assumptions say nothing of how many calls, attempts or readers there are.

Model-checked only: the liveness properties `Settles`, `RestEnds` and `NothingIsLeftBehind`,
since fairness is out of the prover's reach; and what the violation runs refute. That
`Placed` finds the plans without cycles is a recursion over data: the proofs take an
accepted plan as it is and need nothing of it.

## Findings

Each is a run that ends in a violation of what a comment of the repository says; the quoted
lines are in `PROJECT.json`.

1. `stale_decision`: a reviewer's decision admitted in one round and delivered in the next
   answers the next. The signal does not say which round it was made for. In the trace one
   reviewer decides twice while round 0 is shown; the second decision approves round 1.
2. `duplicate_evidence`: two attempts of `add_job_evidence`, the first past its timeout,
   both find nothing stored and both insert: one excerpt has two rows, under two names.
3. `manifest_class`: a redelivered `publish_report` writes its manifest over the first
   one's before it writes the record, so in between the manifest is served under the class
   of the first. Restricted evidence attached by hand in the meantime is in it.

Seven properties state what a comment says and do not hold; they are kept in their modules,
and naming one as the INVARIANT of the module's passing cfg shows the trace:

- `JobRow!CheckpointKeepsStatus`: `record_checkpoint` reads and writes the whole row
  (`application/jobs.py:219`) and can put `created` back over `planning`.
- `JobRow!RedeliveryIsSafe`: an attempt that outlived its timeout can write over a later
  status (`workflow/activities.py:307`).
- `BudgetLedger!BudgetNeverExceeded`: a review longer than `USAGE_TTL` gives the job its
  tool-call budget again (`persistence/redis_state.py:41`).
- `AccessPolicy!OfferedIsNotRefused`: the analyst is offered `run_analytical_query`, every
  call of which is refused, because no approval provider is ever given
  (`agents/tools.py:151`).
- `ResearchRecord!ConflictsAreReviewed`: a verdict may call a claim supported and name
  evidence that conflicts with it. `requires_reviewer` looks at the verdict
  (`agents/contracts.py:209`), `derive_findings` at the evidence, so the finding is stored as
  contradicted with no review required, where the comment says "A conflict or a coverage gap
  is for a person to resolve, not the crew."
- `CapabilityGateway!FailedReachedItsServer`: a call that passed the breaker and could not
  be sent, because the executor knows no such server or obtained no token
  (`mcp/fastmcp_executor.py:108` and `131`), is recorded as failed (`mcp/gateway.py:366`),
  where `domain/invocations.py:39` says "FAILED means the call reached the server and did
  not succeed". The trace is `Invoke`, `Evaluate`, `Decide`, `Reserve`, `EnsureClosed`,
  `Failed`, `Observe`; `TrailIsTrue` claims only what does hold.
- `CapabilityGateway!RecordNamesItsPolicy`: an audit record can name the policy version of
  another call's decision (`mcp/opa.py:177`).

The models show a few more places where code and comment differ, which have no run of
their own: a hand move read before `workflow_id` was stored can land while the workflow
runs (`HandMove`, then `ServiceWrite`); the success of a call sent before a circuit opened
closes it unprobed (`record_success` has no guard on the state); agents at work together
overshoot a budget by one call each, where the comment says by one (`OvershootIsBounded` is
the true bound); and nothing keeps a capability from being registered for the planner.
The comment at `workflow/publishing.py:170` has the manifest list the calls of the research
and not the re-reads: that is true of the attempt's own re-reads (`ManifestIsGrounded`) and
not of an earlier attempt's. A plan's dependencies are checked and then not used: all
researchers start together. A fetch takes one slot of the rate limit however many redirects
it follows, where the comment speaks of outbound requests. A Job's `activeDeadlineSeconds` runs from
the Job's start, so scheduling and pulling the image are taken from the calculation's time,
where the comment at `kubernetes_sandbox.py:93` gives them an allowance of their own. A
container outlives a server that dies or a kill that fails. A token provider is said to
return "a currently valid access token" (`mcp/fastmcp_executor.py:34`): the cache's may have
expired if its life was left unsaid, or if the issuer's answer took longer than the margin. A Job that succeeded and whose
pod is gone has no output, which the executor reports as a failure (`AnswersAreEarned`).

## Not modelled

- Approval requests (`domain/approvals.py`): nothing in the running system creates or
  decides one; the gateway takes the outcome of `authorize` as an input.
- The task graph (`domain/tasks.py`): its states and its ordering have no caller.
- Text parsing and filtering (`sql_boundary`, `filesystem_boundary`, `github_boundary`,
  `sanitizer`, the splitting of a report into sentences), where a model would repeat the
  string handling; the backends behind them, which send one request.
- The evidence server, a single read with no filter of its own: which agents may call it
  is `AccessPolicy`'s.
- Token verification and row level security, which are a library's and PostgreSQL's.
- Composition and settings, whose choices are constants here; metrics, tracing and the
  offline evaluation suite, which nothing reads back.
- Overlapping attempts of `record_job_findings`: one given up on would put earlier findings
  back, since the set is swapped unconditionally; in `ResearchPipeline` it lands in one step.
- In the modelled parts: prompts, argument schemas, digests, timestamps, calculations of an
  analysis, Markdown and log lines.

## Plan

Order: first what decides a job's outcome, then what guards the servers, then the rest.

1. Done: life cycle, pipeline, row, breaker, ledger, policy, gateway.
2. Done: agent contracts and the research record, rate limiter, service tokens and remote
   calls, sandboxes.
3. Done: every safety invariant and action property of the runs proved, and the
   refinement of `CircuitBreaker`'s safety part.
4. Next: proofs that say more than the runs do, such as bounds that hold because of two
   modules together (`RemoteCall` as a refinement of `LimiterSpec`; the ledger's count of
   claims seen from the gateway), and theorems for weaker assumptions where a constant's
   bound is more than the argument uses.
