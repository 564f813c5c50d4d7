-------------------------- MODULE AgentContract -------------------------
(***************************************************************************)
(* What an agent's answer must satisfy before the platform acts on it: the *)
(* schemas (agents/contracts.py), the checks of the identifiers an answer  *)
(* cites (agents/provenance.py, agents/checks.py), and what is made of an  *)
(* accepted answer (application/publication.py).                           *)
(*                                                                         *)
(* An excerpt stands for its normalized text, so it is its own hash.  A    *)
(* record of evidence collected in one task is named by its excerpt, which *)
(* no other record of the task may repeat.                                 *)
(***************************************************************************)
EXTENDS Naturals, Sequences, FiniteSets

CONSTANTS Excerpt,    \* pieces of text a tool may return and an agent may quote
          Claim       \* claims an analyst may propose

AccessClass == {"public", "internal", "restricted"}

ACCESS_CLASS_RANK == [public |-> 0, internal |-> 1, restricted |-> 2]

\* The most sensitive of the classes of the records given; public when there are none.
most_restrictive(records) ==
    LET classes == {r.access_class : r \in records} \cup {"public"} IN
    CHOOSE c \in classes : \A d \in classes : ACCESS_CLASS_RANK[d] <= ACCESS_CLASS_RANK[c]

clearance_covers(clearance, needed) == ACCESS_CLASS_RANK[clearance] >= ACCESS_CLASS_RANK[needed]

is_publishable(record) == record.access_class \in {"public", "internal"}

\* A record attached by hand names no call of the research.
NoCall == "none"
ByHand == "by hand"

\* What a capability's calls return: how sensitive, whether it is a source or describes
\* one, and whether it has an address it can be read at again.
Tool == [access_class : AccessClass, summarises : BOOLEAN, addressable : BOOLEAN]

-----------------------------------------------------------------------------
(* The plan.                                                               *)

\* A plan is a sequence of tasks, each for an agent and after others by their positions.
AgentRole == {"planner", "researcher", "analyst", "critic", "reporter"}

\* The planner plans nothing for itself.
PlannedTask(task) == task.assigned_agent \in AgentRole \ {"planner"}

\* ResearchPlan._reject_cycles: tasks are placed in rounds, each when all it depends on
\* has been.
Placed(plan) ==
    LET tasks == DOMAIN plan
        placed[n \in 0..Cardinality(tasks)] ==
            IF n = 0 THEN {}
            ELSE placed[n - 1] \cup {t \in tasks : plan[t].depends_on \subseteq placed[n - 1]}
    IN  placed[Cardinality(tasks)]

\* Some task, none after itself, none after one that is not there.
ResearchPlan(plan) ==
    /\ plan # <<>>
    /\ \A t \in DOMAIN plan : /\ PlannedTask(plan[t])
                              /\ plan[t].depends_on \subseteq DOMAIN plan \ {t}
    /\ Placed(plan) = DOMAIN plan

-----------------------------------------------------------------------------
(* Evidence.                                                               *)

\* EvidenceSubmission: no excerpt twice.
Distinct(claims) == \A c, d \in claims : c.excerpt = d.excerpt => c = d

\* Mutant: an excerpt is taken on the agent's word once the call it names is real.
verify_claims_unread(claims, ledger, text) ==
    /\ claims # {}
    /\ \A c \in claims : c.call \in ledger
    /\ Distinct(claims)

\* Mutant: an excerpt may be of any call of the task, an attempt's that was replaced too.
verify_claims_any_attempt(claims, ledger, text) ==
    /\ claims # {}
    /\ \A c \in claims : c.call \in DOMAIN text /\ c.excerpt \in text[c.call]
    /\ Distinct(claims)

\* Every excerpt claimed must appear in what the call named returned, in this attempt, and
\* be claimed once; one that does not refuses the whole submission.
verify_claims(claims, ledger, text) ==
    /\ claims # {}
    /\ \A c \in claims : c.call \in ledger /\ c.excerpt \in text[c.call]
    /\ Distinct(claims)

\* The record made of a verified claim: all but the excerpt is the platform's own.
EvidenceRecordCreate(claim, tool) ==
    [id |-> claim.excerpt, call |-> claim.call, access_class |-> tool.access_class,
     trust_level |-> IF tool.summarises THEN "secondary" ELSE "primary"]

-----------------------------------------------------------------------------
(* Analysis and critique.  An analysis maps each claim proposed to the      *)
(* evidence for and against it; a critique is a sequence of verdicts.       *)

Verdict == {"pending", "supported", "unsupported", "contradicted"}

ids(records) == {r.id : r \in records}

\* A claim rests on some evidence, none of it also against the claim.
ProposedFinding(f) == f.supporting # {} /\ f.supporting \cap f.contradicting = {}

\* AnalysisResult and check_analysis: no evidence but what was recorded.
check_analysis(analysis, evidence) ==
    /\ DOMAIN analysis # {}
    /\ \A k \in DOMAIN analysis :
         /\ ProposedFinding(analysis[k])
         /\ analysis[k].supporting \cup analysis[k].contradicting \subseteq ids(evidence)

\* ClaimVerdict.
WellFormedVerdict(v) ==
    /\ v.verdict # "pending"
    /\ v.verdict = "contradicted" => v.conflicting # {}

\* Every claim proposed is judged, and no other, against recorded evidence; a claim with
\* evidence against it cannot be called supported.
check_review(verdicts, analysis, evidence) ==
    /\ verdicts # <<>>
    /\ \A i \in DOMAIN verdicts :
         /\ WellFormedVerdict(verdicts[i])
         /\ verdicts[i].claim \in DOMAIN analysis
         /\ verdicts[i].conflicting \subseteq ids(evidence)
         /\ verdicts[i].verdict = "supported" => analysis[verdicts[i].claim].contradicting = {}
    /\ \A k \in DOMAIN analysis : \E i \in DOMAIN verdicts : verdicts[i].claim = k

requires_reviewer(verdicts, gaps) ==
    gaps \/ \E i \in DOMAIN verdicts : verdicts[i].verdict = "contradicted"

\* The verdict derive_findings keeps for a claim: the last one given.
LastVerdict(verdicts, k) ==
    LET given == {i \in DOMAIN verdicts : verdicts[i].claim = k} IN
    IF given = {} THEN [claim |-> k, verdict |-> "pending", conflicting |-> {}]
    ELSE verdicts[CHOOSE i \in given : \A j \in given : j <= i]

\* Mutant: what the critic holds against a claim is kept as it is.
derive_findings_overlapping(analysis, verdicts, status) ==
    {LET v   == LastVerdict(verdicts, k)
         con == analysis[k].contradicting \cup v.conflicting
     IN  [claim |-> k, supporting |-> analysis[k].supporting, contradicting |-> con,
          verdict |-> IF v.verdict = "supported" /\ con # {} THEN "contradicted" ELSE v.verdict,
          reviewer_status |-> status] : k \in DOMAIN analysis}

\* One finding for each claim proposed: evidence the critic holds against it is kept
\* unless it supports it, and what has evidence against it is not supported.
derive_findings(analysis, verdicts, status) ==
    {LET v   == LastVerdict(verdicts, k)
         con == (analysis[k].contradicting \cup v.conflicting) \ analysis[k].supporting
     IN  [claim |-> k, supporting |-> analysis[k].supporting, contradicting |-> con,
          verdict |-> IF v.verdict = "supported" /\ con # {} THEN "contradicted" ELSE v.verdict,
          reviewer_status |-> status] : k \in DOMAIN analysis}

\* Finding: its validator.
WellFormedFinding(f) ==
    /\ f.supporting # {} /\ f.supporting \cap f.contradicting = {}
    /\ f.verdict = "supported" => f.contradicting = {}

-----------------------------------------------------------------------------
(* The report: its sentences, each a statement of fact or not and with what *)
(* it cites, whether it says it is partial, and whether it says why.        *)

\* A recommendation or an interpretation may stand without a citation.
uncited_sentences(report) == {s \in report.sentences : s.factual /\ s.cites = {}}

cited_evidence_ids(report) == UNION {s.cites : s \in report.sentences}

\* It says something, cites for every fact, and names omissions just if it is partial.
ResearchReport(report) ==
    /\ report.sentences # {} /\ uncited_sentences(report) = {}
    /\ report.is_partial <=> report.omitted_because

\* Only recorded evidence that is cleared for publication is cited.
check_report(report, evidence) ==
    cited_evidence_ids(report) \subseteq ids({r \in evidence : is_publishable(r)})
=============================================================================
