------------------------- MODULE ResearchRecord -------------------------
(***************************************************************************)
(* What is kept of one job's research and who gets to read it: the calls   *)
(* its researcher makes, the evidence, findings and report the agents'     *)
(* answers become, the artifacts and the record publish_report writes, and *)
(* the routes that serve all this while it changes.                        *)
(*                                                                         *)
(* One task and one pass of the review loop, whose cycles and statuses are *)
(* ResearchPipeline's.  Every repository call is a transaction of its own. *)
(* publish_report runs in a thread that its timeout does not stop, so      *)
(* attempts of it overlap; one that dies takes no further step.            *)
(***************************************************************************)
EXTENDS AgentContract

CONSTANTS Call,          \* tool calls the researcher may make
          CapabilityOf,  \* the tool each of them uses
          Attempt,       \* attempts of publish_report
          Clearance,     \* clearances of the tenant members who read
          HandClasses,   \* classes of evidence attached by hand
          Reread,        \* what reading a source again may show, and whether it is audited
          MaxAsks,       \* max_attempts of AgentContractFlow
          MaxVerdicts    \* length of a critique, at least the number of claims

DriftStatus == {"unchanged", "drifted", "unavailable", "not_checked"}

ASSUME RecordAssumption ==
    /\ Reread \subseteq [status : DriftStatus \ {"not_checked"}, audited : BOOLEAN]
    /\ CapabilityOf \in [Call -> Tool]
    /\ Clearance \subseteq AccessClass /\ HandClasses \subseteq AccessClass
    /\ MaxAsks \in Nat \ {0}
    /\ {NoCall, ByHand} \cap (Call \cup Excerpt) = {}

VARIABLES
    stage,        \* the workflow's step
    asks,         \* ContractState.attempts of the answer being asked for
    returned,     \* history: what each successful call returned, until the evidence is stored
    ledger,       \* EvidenceLedger of the research attempt under way: its calls
    trail,        \* tool_invocations
    submitted,    \* verified records not stored yet
    evidence,     \* evidence_records
    analysis,     \* the analysis accepted, until it is judged
    findings,     \* findings
    cited,        \* the report's citations
    attempt,      \* where each attempt of publish_report is, and what it has read
    artifacts,    \* the object store
    publication,  \* report_publications
    reader        \* one request to a reading route

crew   == <<asks, returned, ledger, submitted, analysis, cited>>
stores == <<trail, evidence, findings, artifacts, publication>>
vars   == <<stage, crew, stores, attempt, reader>>

None == [absent |-> TRUE]

Stages == {"plan", "research", "store", "analyze", "critique", "review", "report", "publish",
            "published", "failed"}

Evidence == [id : Excerpt \cup {ByHand}, call : Call \cup {NoCall}, access_class : AccessClass,
             trust_level : {"primary", "secondary", "unverified"}]

\* A re-read is audited under the attempt that made it and the record it was for.
AuditRecord == Call \cup (Attempt \X Excerpt)

TypeOK ==
    /\ stage \in Stages /\ asks \in 0..(MaxAsks - 1)
    /\ returned \in UNION {[k -> SUBSET Excerpt] : k \in SUBSET Call}
    /\ ledger \subseteq Call /\ trail \subseteq AuditRecord
    /\ submitted \subseteq Evidence /\ evidence \subseteq Evidence
    /\ \A r, s \in evidence : r.id = s.id => r = s
    /\ cited \subseteq ids(evidence)
    /\ \A a \in Attempt : attempt[a].pc # "idle" =>
         attempt[a].evidence \subseteq evidence /\ attempt[a].trail \subseteq trail
    /\ publication # None =>
         publication.report_access_class \in AccessClass
         /\ publication.manifest_access_class \in AccessClass

Init ==
    /\ stage = "plan" /\ asks = 0
    /\ returned = <<>> /\ ledger = {} /\ submitted = {}
    /\ analysis = <<>> /\ cited = {}
    /\ trail = {} /\ evidence = {} /\ findings = {}
    /\ attempt = [a \in Attempt |-> [pc |-> "idle"]]
    /\ artifacts = [report |-> None, manifest |-> None, bundle |-> None]
    /\ publication = None
    /\ reader = [at |-> "idle"]

-----------------------------------------------------------------------------
(* What the repository and the object store do, each in one transaction.   *)

add_evidence(r) == evidence' = evidence \cup {r}

\* An audit record is written once, unless the sink fails, which fails nothing else.
record_invocation(i, written) == trail' = IF written THEN trail \cup {i} ELSE trail

\* The whole set is swapped.
replace_findings(latest) == findings' = latest

\* A later publication replaces an earlier one.
record_publication(record) == publication' = record

\* An object of the same name is written over.
put(store, name, content) == [store EXCEPT ![name] = content]

-----------------------------------------------------------------------------
(* The agents.                                                             *)

\* Mutant: the attempt just made is not counted among those spent.
Exhausted_one_more == asks >= MaxAsks

\* The answer just refused was the last one allowed.
Exhausted == asks + 1 >= MaxAsks

\* AgentContractFlow.judge: an answer that does not parse, or that a check refuses, is
\* asked for again until the attempts are spent; then SchemaCorrectionExhausted ends the
\* activity and the job.
Refused ==
    /\ stage \in {"plan", "research", "analyze", "critique", "report"}
    /\ IF Exhausted THEN asks' = 0 /\ stage' = "failed"
                    ELSE asks' = asks + 1 /\ UNCHANGED stage
    /\ UNCHANGED <<returned, ledger, submitted, analysis, cited, stores, attempt, reader>>

\* An accepted answer takes the job on.
Accepted(next) == stage' = next /\ asks' = 0

\* plan: of an accepted plan only its researchers' tasks are used; one without any ends
\* the job.
PlanAccepted(plan) ==
    /\ stage = "plan" /\ ResearchPlan(plan)
    /\ Accepted(IF \E t \in DOMAIN plan : plan[t].assigned_agent = "researcher"
                THEN "research" ELSE "failed")
    /\ UNCHANGED <<returned, ledger, submitted, analysis, cited, stores, attempt, reader>>

\* EvidenceLedger.record.
Observe(c, text) ==
    /\ returned' = [k \in DOMAIN returned \cup {c} |-> IF k = c THEN text ELSE returned[k]]
    /\ ledger' = ledger \cup {c}

\* CapabilityTool._run, of a call that succeeds: it is audited unless the sink fails, and
\* what it returned enters the ledger.  (Of one that does not, only the audit is left.)
ToolCall(c, text, audited) ==
    /\ stage = "research" /\ c \notin DOMAIN returned
    /\ Observe(c, text)
    /\ record_invocation(c, audited)
    /\ UNCHANGED <<stage, asks, submitted, analysis, cited, evidence, findings,
                   artifacts, publication, attempt, reader>>

\* AGENT_RETRY_POLICY: research_task runs again, with a ledger of its own.
ResearchRetried ==
    /\ stage = "research" /\ ledger # {}
    /\ ledger' = {} /\ asks' = 0
    /\ UNCHANGED <<stage, returned, submitted, analysis, cited, stores, attempt, reader>>

\* research: verify_claims accepts the submission, and its records go to the workflow.
ClaimsAccepted(claims) ==
    /\ stage = "research"
    /\ verify_claims(claims, ledger, returned)
    /\ submitted' = {EvidenceRecordCreate(c, CapabilityOf[c.call]) : c \in claims}
    /\ ledger' = {}
    /\ Accepted("store")
    /\ UNCHANGED <<returned, analysis, cited, stores, attempt, reader>>

\* _collect_evidence stores the records one at a time.
AddEvidence(r) ==
    /\ stage = "store" /\ r \in submitted
    /\ add_evidence(r)
    /\ submitted' = submitted \ {r}
    /\ stage' = IF submitted' = {} THEN "analyze" ELSE "store"
    /\ returned' = IF submitted' = {} THEN <<>> ELSE returned
    /\ UNCHANGED <<asks, ledger, analysis, cited, trail, findings, artifacts,
                   publication, attempt, reader>>

\* The workflow's own list: what its researchers brought, not what others attached.
Collected == {r \in evidence : r.trust_level # "unverified"}

AnalysisAccepted(a) ==
    /\ stage = "analyze" /\ check_analysis(a, Collected)
    /\ analysis' = a
    /\ Accepted("critique")
    /\ UNCHANGED <<returned, ledger, submitted, cited, stores, attempt, reader>>

\* critique, and _record_findings of what it judged.
ReviewAccepted(vs, g) ==
    /\ stage = "critique" /\ check_review(vs, analysis, Collected)
    /\ analysis' = <<>>
    /\ LET wanted == requires_reviewer(vs, g) IN
       /\ Accepted(IF wanted THEN "review" ELSE "report")
       /\ replace_findings(
            derive_findings(analysis, vs, IF wanted THEN "pending" ELSE "not_required"))
    /\ UNCHANGED <<returned, ledger, submitted, cited, trail, evidence, artifacts, publication,
                   attempt, reader>>

\* The reviewer approves, or rejects and ends the job.  derive_findings runs again on the
\* same answers, so only the status stored with the findings changes.
Reviewed(status) ==
    /\ stage = "review"
    /\ replace_findings({[f EXCEPT !.reviewer_status = status] : f \in findings})
    /\ stage' = IF status = "approved" THEN "report" ELSE "failed"
    /\ UNCHANGED <<crew, trail, evidence, artifacts, publication, attempt, reader>>

ReportAccepted(report) ==
    /\ stage = "report"
    /\ ResearchReport(report) /\ check_report(report, Collected)
    /\ cited' = cited_evidence_ids(report)
    /\ Accepted("publish")
    /\ UNCHANGED <<returned, ledger, submitted, analysis, stores, attempt, reader>>

-----------------------------------------------------------------------------
(* publish_report.                                                         *)

At(a, step) == attempt[a].pc = step

\* An attempt starts, or the one before it is given up, dead or not; it lists the
\* evidence and the findings (which no longer change).
PublishBegins(a) ==
    /\ stage = "publish" /\ At(a, "idle")
    /\ attempt' = [attempt EXCEPT ![a] =
         [pc |-> "trail", evidence |-> evidence, trail |-> {}, checks |-> <<>>]]
    /\ UNCHANGED <<stage, crew, stores, reader>>

ListInvocations(a) ==
    /\ At(a, "trail")
    /\ attempt' = [attempt EXCEPT ![a].pc = "check", ![a].trail = trail]
    /\ UNCHANGED <<stage, crew, stores, reader>>

\* refetch_arguments: the call behind the record is in the trail and read an address.
Refetchable(a, r) == r.call \in attempt[a].trail /\ CapabilityOf[r.call].addressable

CitedBy(records) == {r \in records : r.id \in cited}

ToCheck(a) == {r \in CitedBy(attempt[a].evidence) : r.id \notin DOMAIN attempt[a].checks}

Checked(a, r, status) ==
    [attempt EXCEPT ![a].checks =
        [i \in DOMAIN @ \cup {r.id} |-> IF i = r.id THEN status ELSE @[i]]]

\* GatewaySourceChecker.check: a source with an address is read again, in a call like any
\* other, refused, failing and unaudited ones included.
CheckSource(a, r, seen) ==
    /\ At(a, "check") /\ r \in ToCheck(a) /\ Refetchable(a, r)
    /\ record_invocation(<<a, r.id>>, seen.audited)
    /\ attempt' = Checked(a, r, seen.status)
    /\ UNCHANGED <<stage, crew, evidence, findings, artifacts, publication, reader>>

\* What has no address is not checked.
SkipSource(a, r) ==
    /\ At(a, "check") /\ r \in ToCheck(a) /\ ~Refetchable(a, r)
    /\ attempt' = Checked(a, r, "not_checked")
    /\ UNCHANGED <<stage, crew, stores, reader>>

\* The sources cited, and for each a note of what re-reading it showed.
render_markdown(a) == [cited |-> cited, notes |-> attempt[a].checks]

\* report.json and report.md.
PutReport(a) ==
    /\ At(a, "check") /\ ToCheck(a) = {}
    /\ artifacts' = put(artifacts, "report", render_markdown(a))
    /\ attempt' = [attempt EXCEPT ![a].pc = "manifest"]
    /\ UNCHANGED <<stage, crew, trail, evidence, findings, publication, reader>>

\* Mutant: the trail is read once the sources have been re-read.
build_manifest_late(a) ==
    [by |-> a, evidence |-> attempt[a].evidence, findings |-> findings, calls |-> trail,
     checks |-> attempt[a].checks]

build_manifest(a) ==
    [by |-> a, evidence |-> attempt[a].evidence, findings |-> findings, calls |-> attempt[a].trail,
     checks |-> attempt[a].checks]

\* The manifest and the bundle of what may be published, over those of any other attempt.
PutManifest(a) ==
    /\ At(a, "manifest")
    /\ artifacts' = put(put(artifacts, "manifest", build_manifest(a)),
                        "bundle", {r \in attempt[a].evidence : is_publishable(r)})
    /\ attempt' = [attempt EXCEPT ![a].pc = "record"]
    /\ UNCHANGED <<stage, crew, trail, evidence, findings, publication, reader>>

ReportPublication(a) ==
    [report_access_class   |-> most_restrictive(CitedBy(attempt[a].evidence)),
     manifest_access_class |-> most_restrictive(attempt[a].evidence),
     drifted |-> {i \in DOMAIN attempt[a].checks : attempt[a].checks[i] = "drifted"}]

\* The record comes last.  The workflow goes on when an attempt reports back, which this
\* one may not live to do.
RecordPublication(a, reported) ==
    /\ At(a, "record")
    /\ record_publication(ReportPublication(a))
    /\ attempt' = [attempt EXCEPT ![a].pc = "done"]
    /\ stage' = IF reported THEN "published" ELSE stage
    /\ UNCHANGED <<crew, trail, evidence, findings, artifacts, reader>>

-----------------------------------------------------------------------------
(* The routes.                                                             *)

\* add_evidence: a tenant member attaches a record, at any time, no more sensitive than
\* their clearance (so of any class someone holds), and unverified whatever they say.
AttachEvidence(class) ==
    /\ \A r \in evidence : r.id # ByHand
    /\ add_evidence([id |-> ByHand, call |-> NoCall, access_class |-> class,
                     trust_level |-> "unverified"])
    /\ UNCHANGED <<stage, crew, trail, findings, artifacts, publication, attempt, reader>>

Answer(route, clearance, content) ==
    reader' = [at |-> "answered", route |-> route, clearance |-> clearance, content |-> content]

\* list_evidence.
GetEvidence(clearance) ==
    /\ reader.at = "idle"
    /\ Answer("evidence", clearance,
              {r \in evidence : clearance_covers(clearance, r.access_class)})
    /\ UNCHANGED <<stage, crew, stores, attempt>>

\* The call behind an audit record.
Audited(i) == IF i \in Call THEN i ELSE (CHOOSE r \in evidence : r.id = i[2]).call

\* list_invocations, and classification_of.
GetInvocations(clearance) ==
    /\ reader.at = "idle"
    /\ Answer("invocations", clearance,
              {i \in trail : clearance_covers(clearance, CapabilityOf[Audited(i)].access_class)})
    /\ UNCHANGED <<stage, crew, stores, attempt>>

\* list_findings lists the findings first.
BeginFindings(clearance) ==
    /\ reader.at = "idle"
    /\ reader' = [at |-> "findings", clearance |-> clearance, read |-> findings]
    /\ UNCHANGED <<stage, crew, stores, attempt>>

\* Mutant: evidence against a claim does not count.
RestsOn_supporting(f) == f.supporting

\* What a finding restates, or is contradicted by.
RestsOn(f) == f.supporting \cup f.contradicting

\* list_findings then lists the evidence, and withholds what rests on hidden records.
GetFindings ==
    /\ reader.at = "findings"
    /\ LET hidden == ids({e \in evidence : ~clearance_covers(reader.clearance, e.access_class)})
       IN  Answer("findings", reader.clearance,
                  {f \in reader.read : hidden \cap RestsOn(f) = {}})
    /\ UNCHANGED <<stage, crew, stores, attempt>>

published == publication # None

\* For the report or the manifest; one who is not cleared is refused.
require_clearance(clearance, route) ==
    clearance_covers(clearance, IF route = "report" THEN publication.report_access_class
                                                    ELSE publication.manifest_access_class)

\* get_report and get_manifest look at the record first.
BeginArtifact(route, clearance) ==
    /\ reader.at = "idle" /\ published /\ require_clearance(clearance, route)
    /\ reader' = [at |-> route, clearance |-> clearance]
    /\ UNCHANGED <<stage, crew, stores, attempt>>

\* stored: the artifact as it is by now.
GetArtifact ==
    /\ reader.at \in {"report", "manifest"}
    /\ Answer(reader.at, reader.clearance, artifacts[reader.at])
    /\ UNCHANGED <<stage, crew, stores, attempt>>

\* The answer is delivered, and another request may come.
Delivered ==
    /\ reader.at = "answered"
    /\ reader' = [at |-> "idle"]
    /\ UNCHANGED <<stage, crew, stores, attempt>>
-----------------------------------------------------------------------------
Ids == Excerpt \cup {ByHand}

\* A sentence that cites one record, or none.
Sentence == [cites : {{}} \cup {{i} : i \in Ids}, factual : BOOLEAN]

\* The agents' answers, right or wrong; a wrong one is Refused.
Answers ==
    \/ stage = "plan" /\ \E plan \in [1..2 -> [assigned_agent : AgentRole, depends_on : SUBSET (1..2)]] :
         PlanAccepted(plan)
    \/ stage = "research" /\ \E claims \in SUBSET [call : Call \cup {NoCall}, excerpt : Excerpt] :
         ClaimsAccepted(claims)
    \/ stage = "analyze" /\ \E proposed \in SUBSET Claim :
         \E a \in [proposed -> [supporting : SUBSET Ids, contradicting : SUBSET Ids]] :
            AnalysisAccepted(a)
    \/ stage = "critique" /\ \E n \in 0..MaxVerdicts, g \in BOOLEAN :
         \E vs \in [1..n -> [claim : Claim, verdict : Verdict, conflicting : SUBSET Ids]] :
            ReviewAccepted(vs, g)
    \/ stage = "report" /\ \E s, t \in Sentence, partial, why \in BOOLEAN :
         ReportAccepted([sentences |-> {s, t}, is_partial |-> partial, omitted_because |-> why])
    \/ Refused

Work ==
    \/ \E c \in Call, x \in SUBSET Excerpt, ok \in BOOLEAN : ToolCall(c, x, ok)
    \/ ResearchRetried
    \/ \E r \in submitted : AddEvidence(r)
    \/ \E s \in {"approved", "rejected"} : Reviewed(s)

Publish(a) ==
    \/ PublishBegins(a) \/ ListInvocations(a) \/ PutReport(a) \/ PutManifest(a)
    \/ \E r \in evidence : SkipSource(a, r) \/ \E seen \in Reread : CheckSource(a, r, seen)
    \/ \E ok \in BOOLEAN : RecordPublication(a, ok)

Routes ==
    \/ \E k \in HandClasses : AttachEvidence(k)
    \/ \E k \in Clearance :
         \/ GetEvidence(k) \/ GetInvocations(k) \/ BeginFindings(k)
         \/ \E route \in {"report", "manifest"} : BeginArtifact(route, k)
    \/ GetFindings \/ GetArtifact \/ Delivered

Next == Answers \/ Work \/ (\E a \in Attempt : Publish(a)) \/ Routes

Spec == Init /\ [][Next]_vars
-----------------------------------------------------------------------------
\* Evidence is taken over only from calls of the very attempt that submits it, never from
\* those of an attempt it replaced; it is stored only as returned, word for word, by the
\* call it names and classed as that call's capability, or as unverified; and the report
\* comes to cite only evidence so stored that is cleared for publication.  (research_task,
\* verify_claims, add_evidence, check_report)
EvidenceIsTraced ==
    [][ /\ \A r \in submitted' \ submitted : r.call \in ledger
        /\ \A r \in evidence' \ evidence :
             \/ r.trust_level = "unverified"
             \/ r.id \in returned[r.call] /\ r.access_class = CapabilityOf[r.call].access_class
        /\ \A i \in cited' : \E r \in evidence :
             r.id = i /\ r.trust_level # "unverified" /\ is_publishable(r) ]_vars

\* Findings stored are ones the Finding model accepts, so that recording them never fails
\* the job; each is judged, and none is called supported against evidence, whatever the
\* critic said, more than once or not at all.  (derive_findings, check_review)
RecordedIsJudged ==
    \A f \in findings :
        /\ WellFormedFinding(f) /\ f.verdict # "pending"
        /\ f.supporting \cup f.contradicting \subseteq ids(Collected)

Cleared(records) == \A r \in records : clearance_covers(reader.clearance, r.access_class)
Named(names) == {r \in evidence : r.id \in names}

\* No answer of a reading route discloses evidence, a claim that rests on or is
\* contradicted by evidence, a report citing it, or a call into data above the reader's
\* clearance, however the reads of one request interleave with the research.  The manifest
\* route is exempt: ManifestReadersAreCleared states the same of it, and does not hold.
AnswersAreCleared ==
    reader.at = "answered" =>
        CASE reader.route = "evidence"    -> Cleared(reader.content)
          [] reader.route = "findings"    -> \A f \in reader.content : Cleared(Named(f.supporting \cup f.contradicting))
          [] reader.route = "report"      -> Cleared(Named(reader.content.cited))
          [] reader.route = "invocations" ->
               \A i \in reader.content :
                  clearance_covers(reader.clearance, CapabilityOf[Audited(i)].access_class)
          [] OTHER -> TRUE

\* The manifest stored accounts for the report: it lists every record cited and, of what
\* it says was read again, the call that first returned it; it never takes the re-reads of
\* the attempt that wrote it for calls of the research.  (_publish, build_manifest)
ManifestIsGrounded ==
    artifacts.manifest # None =>
        LET m == artifacts.manifest IN
        /\ cited \subseteq ids(m.evidence)
        /\ \A r \in m.evidence :
             r.id \in DOMAIN m.checks /\ m.checks[r.id] # "not_checked" => r.call \in m.calls
        /\ \A i \in m.calls : i \in Call \/ i[1] # m.by

\* routes.py, get_manifest: "reading it needs the clearance of the most sensitive" of the
\* sources it names.
ManifestReadersAreCleared ==
    reader.at = "answered" /\ reader.route = "manifest" => Cleared(reader.content.evidence)

\* contracts.py, requires_reviewer: "A conflict or a coverage gap is for a person to
\* resolve, not the crew."  It does not hold: a supported verdict may name conflicting
\* evidence.
ConflictsAreReviewed ==
    \A f \in findings : f.verdict = "contradicted" => f.reviewer_status # "not_required"
=============================================================================
