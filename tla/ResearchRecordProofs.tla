---------------------- MODULE ResearchRecordProofs ----------------------
(***************************************************************************)
(* What is kept of a job's research, and who gets to read it, for any      *)
(* tools, excerpts, claims, attempts of publish_report and clearances.     *)
(*                                                                         *)
(* The promises hold together: a reader's answer stays cleared while       *)
(* evidence is added because no record takes a name the answer already     *)
(* refers to; a report may be shown on the strength of the publication     *)
(* record because every attempt cites the same evidence; and a manifest is *)
(* grounded because an attempt lists the trail before it adds to it.       *)
(***************************************************************************)
EXTENDS ResearchRecord, WellFoundedInduction, NaturalsInduction, TLAPS

\* A record is made of a call that was made, classed as its capability, or attached by hand.
Sourced(r) ==
    \/ /\ r.trust_level # "unverified" /\ r.id \in Excerpt /\ r.call \in Call
       /\ r.access_class = CapabilityOf[r.call].access_class
    \/ r.trust_level = "unverified" /\ r.id = ByHand

\* No name is given twice, now or by what is still to be stored; and until it is stored,
\* what its call returned is at hand.
EvidenceSound ==
    /\ \A r, s \in evidence \cup submitted : r.id = s.id => r = s
    /\ \A r \in evidence \cup submitted : Sourced(r)
    /\ \A r \in submitted : /\ r.trust_level # "unverified"
                            /\ r.call \in DOMAIN returned /\ r.id \in returned[r.call]
    /\ stage # "store" => submitted = {}
    /\ stage \in {"plan", "research"} => Collected = {}

\* The calls an answer may quote have returned something; once it is accepted none is left.
LedgerSound == ledger \subseteq DOMAIN returned /\ (stage = "store" => ledger = {})

\* The report cites what was collected and may be published.
CitedSound == \A i \in cited : \E r \in Collected : r.id = i /\ is_publishable(r)

\* What is stored of an answer is what the checks let through.
FindingsSound ==
    /\ stage = "critique" => check_analysis(analysis, Collected)
    /\ RecordedIsJudged
    /\ \A f \in findings : f = [claim |-> f.claim, supporting |-> f.supporting,
                                contradicting |-> f.contradicting, verdict |-> f.verdict,
                                reviewer_status |-> f.reviewer_status]

Publishing == stage \in {"publish", "published"}

\* An attempt has listed all that is cited; it has checked a record only by reading again
\* what a call of the trail it listed first returned, and listed none of its own re-reads.
AttemptSound(a) ==
    LET t == attempt[a] IN
    t.pc # "idle" =>
        /\ Publishing
        /\ t = [pc |-> t.pc, evidence |-> t.evidence, trail |-> t.trail, checks |-> t.checks]
        /\ t.pc \in {"trail", "check", "manifest", "record", "done"}
        /\ t.evidence \subseteq evidence /\ t.trail \subseteq trail
        /\ cited \subseteq ids(t.evidence)
        /\ t.pc = "trail" => DOMAIN t.checks = {}
        /\ \A r \in t.evidence :
              r.id \in DOMAIN t.checks /\ t.checks[r.id] # "not_checked" => r.call \in t.trail
        /\ \A i \in t.trail : i \in Call \/ i[1] # a
        /\ t.pc \in {"manifest", "record", "done"} => artifacts.report.cited = cited

\* The trail holds the research's calls, and re-reads of collected records by attempts that
\* have listed it.
TrailSound ==
    \A i \in trail :
        \/ i \in Call
        \/ /\ i \in Attempt \X Excerpt
           /\ attempt[i[1]].pc \notin {"idle", "trail"}
           /\ i[2] \in ids(Collected)

\* The publication record classes the report as its most sensitive source.
PublicationSound ==
    /\ artifacts = [report |-> artifacts.report, manifest |-> artifacts.manifest,
                    bundle |-> artifacts.bundle]
    /\ artifacts.manifest # None => Publishing
    /\ publication # None =>
          /\ Publishing /\ artifacts.report.cited = cited
          /\ \A r \in Named(cited) :
                clearance_covers(publication.report_access_class, r.access_class)

\* A request in the middle, or an answer: what it names is recorded already, so that
\* nothing stored later can come under the same names.
ReaderSound ==
    /\ reader.at = "findings" =>
          \A f \in reader.read : f.supporting \cup f.contradicting \subseteq ids(evidence)
    /\ reader.at \in {"report", "manifest"} => publication # None
    /\ reader.at = "report" => Cleared(Named(cited))
    /\ reader.at = "answered" =>
          /\ reader.route \in {"evidence", "findings", "report", "manifest", "invocations"}
          /\ reader.route = "findings" =>
                \A f \in reader.content : f.supporting \cup f.contradicting \subseteq ids(evidence)
          /\ reader.route = "report" => reader.content.cited \subseteq ids(evidence)
          /\ reader.route = "invocations" => reader.content \subseteq trail

IInv ==
    /\ TypeOK /\ attempt = [a \in Attempt |-> attempt[a]]
    /\ EvidenceSound /\ LedgerSound /\ CitedSound /\ FindingsSound /\ TrailSound
    /\ \A a \in Attempt : AttemptSound(a)
    /\ PublicationSound /\ ManifestIsGrounded
    /\ ReaderSound /\ AnswersAreCleared

-----------------------------------------------------------------------------
(* The operators the record is built from.                                 *)

\* The ranks of the access classes are numbers, public the least of them.
LEMMA RanksAreNumbers ==
    \A c \in AccessClass : /\ ACCESS_CLASS_RANK[c] \in Nat
                           /\ ACCESS_CLASS_RANK["public"] <= ACCESS_CLASS_RANK[c]
                           /\ ACCESS_CLASS_RANK[c] <= ACCESS_CLASS_RANK["restricted"]
  BY DEF AccessClass, ACCESS_CLASS_RANK

\* clearance_covers is an order: who is cleared for a class is cleared for what it covers.
LEMMA CoversIsTransitive ==
    ASSUME NEW k \in AccessClass, NEW c \in AccessClass, NEW d \in AccessClass,
           clearance_covers(k, c), clearance_covers(c, d)
    PROVE  clearance_covers(k, d)
  BY RanksAreNumbers DEF clearance_covers

\* most_restrictive names a class, one that covers the class of every record given.
LEMMA MostRestrictiveCovers ==
    ASSUME NEW R, \A r \in R : r.access_class \in AccessClass
    PROVE  /\ most_restrictive(R) \in AccessClass
           /\ \A r \in R : clearance_covers(most_restrictive(R), r.access_class)
  <1> DEFINE classes == {r.access_class : r \in R} \cup {"public"}
             Top(c)  == \A d \in classes : ACCESS_CLASS_RANK[d] <= ACCESS_CLASS_RANK[c]
  <1>1. classes \subseteq AccessClass
    BY DEF AccessClass
  <1>2. \E c \in classes : Top(c)
    <2>1. CASE "restricted" \in classes
      <3>1. Top("restricted")
        BY <1>1, RanksAreNumbers
      <3> QED BY <2>1, <3>1
    <2>2. CASE "restricted" \notin classes /\ "internal" \in classes
      <3>1. \A d \in classes : d \in {"public", "internal"}
        BY <1>1, <2>2 DEF AccessClass
      <3>2. Top("internal")
        BY <3>1 DEF ACCESS_CLASS_RANK
      <3> QED BY <2>2, <3>2
    <2>3. CASE "restricted" \notin classes /\ "internal" \notin classes
      <3>1. \A d \in classes : d = "public"
        BY <1>1, <2>3 DEF AccessClass
      <3>2. Top("public")
        BY <3>1 DEF ACCESS_CLASS_RANK
      <3>3. "public" \in classes
        OBVIOUS
      <3> QED BY <3>2, <3>3
    <2> QED BY <2>1, <2>2, <2>3
  <1>3. most_restrictive(R) = CHOOSE c \in classes : Top(c)
    BY DEF most_restrictive
  <1>4. most_restrictive(R) \in classes /\ Top(most_restrictive(R))
    BY <1>2, <1>3
  <1>5. \A r \in R : r.access_class \in classes
    OBVIOUS
  <1>6. ASSUME NEW r \in R
        PROVE  clearance_covers(most_restrictive(R), r.access_class)
    <2>1. ACCESS_CLASS_RANK[r.access_class] <= ACCESS_CLASS_RANK[most_restrictive(R)]
      BY <1>4, <1>5
    <2> HIDE DEF classes
    <2> QED BY <2>1, <1>1, <1>4, <1>5, RanksAreNumbers DEF clearance_covers
  <1> QED BY <1>1, <1>4, <1>6

\* A set of positions of a sequence has a last one.
LEMMA LastExists ==
    ASSUME NEW n \in Nat, NEW S \in SUBSET (1..n), S # {}
    PROVE  \E i \in S : \A j \in S : j <= i
  <1> DEFINE T == {n - i : i \in S}
  <1>1. T \subseteq Nat /\ T # {}
    OBVIOUS
  <1>2. PICK m \in T : \A y \in T : <<y, m>> \notin OpToRel(<, Nat)
    BY <1>1, NatLessThanWellFounded, WFMin
  <1>3. PICK i \in S : m = n - i
    OBVIOUS
  <1>4. ASSUME NEW j \in S PROVE j <= i
    <2>1. n - j \in T /\ n - j \in Nat /\ m \in Nat
      BY <1>1, <1>2
    <2>2. ~(n - j < m)
      BY <1>2, <2>1 DEF OpToRel
    <2> QED BY <2>2, <1>3
  <1> QED BY <1>4

\* The verdict derive_findings keeps is one the critic gave of that claim.
LEMMA LastVerdictIsGiven ==
    ASSUME NEW n \in Nat, NEW vs, DOMAIN vs = 1..n, NEW k,
           \E i \in DOMAIN vs : vs[i].claim = k
    PROVE  \E i \in DOMAIN vs : vs[i].claim = k /\ LastVerdict(vs, k) = vs[i]
  <1> DEFINE given == {i \in DOMAIN vs : vs[i].claim = k}
             last  == CHOOSE i \in given : \A j \in given : j <= i
  <1>1. given # {} /\ given \in SUBSET (1..n)
    OBVIOUS
  <1>2. \E i \in given : \A j \in given : j <= i
    <2> HIDE DEF given
    <2> QED BY <1>1, LastExists
  <1>3. last \in given
    BY <1>2
  <1>4. LastVerdict(vs, k) = vs[last]
    BY <1>1 DEF LastVerdict
  <1> HIDE DEF last
  <1> QED BY <1>3, <1>4

\* Findings derived of a checked analysis and a checked review are well formed, judged,
\* and rest on the evidence both were checked against.
LEMMA DerivedIsJudged ==
    ASSUME NEW n \in Nat, NEW vs, DOMAIN vs = 1..n, NEW an, NEW E, NEW status,
           check_analysis(an, E), check_review(vs, an, E),
           NEW f \in derive_findings(an, vs, status)
    PROVE  /\ WellFormedFinding(f) /\ f.verdict # "pending"
           /\ f.supporting \cup f.contradicting \subseteq ids(E)
           /\ f = [claim |-> f.claim, supporting |-> f.supporting,
                   contradicting |-> f.contradicting, verdict |-> f.verdict,
                   reviewer_status |-> f.reviewer_status]
  <1>1. PICK k \in DOMAIN an :
          LET v   == LastVerdict(vs, k)
              con == (an[k].contradicting \cup v.conflicting) \ an[k].supporting
          IN  f = [claim |-> k, supporting |-> an[k].supporting, contradicting |-> con,
                   verdict |-> IF v.verdict = "supported" /\ con # {} THEN "contradicted"
                               ELSE v.verdict,
                   reviewer_status |-> status]
    BY DEF derive_findings
  <1>2. \E i \in DOMAIN vs : vs[i].claim = k
    BY DEF check_review
  <1>3. PICK i \in DOMAIN vs : vs[i].claim = k /\ LastVerdict(vs, k) = vs[i]
    BY <1>2, LastVerdictIsGiven
  <1>4. /\ vs[i].verdict # "pending" /\ vs[i].conflicting \subseteq ids(E)
        /\ an[k].supporting # {} /\ an[k].supporting \cap an[k].contradicting = {}
        /\ an[k].supporting \cup an[k].contradicting \subseteq ids(E)
    BY DEF check_review, check_analysis, ProposedFinding, WellFormedVerdict
  <1> DEFINE con == (an[k].contradicting \cup vs[i].conflicting) \ an[k].supporting
             ver == IF vs[i].verdict = "supported" /\ con # {} THEN "contradicted"
                    ELSE vs[i].verdict
  <1>5. f = [claim |-> k, supporting |-> an[k].supporting, contradicting |-> con,
             verdict |-> ver, reviewer_status |-> status]
    BY <1>1, <1>3
  <1>6. /\ ver # "pending" /\ (ver = "supported" => con = {})
        /\ an[k].supporting \cap con = {} /\ an[k].supporting \cup con \subseteq ids(E)
    BY <1>4
  <1> HIDE DEF con, ver
  <1>7. /\ f.supporting = an[k].supporting /\ f.contradicting = con /\ f.verdict = ver
        /\ f = [claim |-> f.claim, supporting |-> f.supporting,
                contradicting |-> f.contradicting, verdict |-> f.verdict,
                reviewer_status |-> f.reviewer_status]
    BY <1>5
  <1> QED BY <1>4, <1>6, <1>7 DEF WellFormedFinding

\* When names are unique, storing more records leaves those under a known name as they are.
LEMMA NamesAreStable ==
    ASSUME NEW E, NEW F, E \subseteq F, \A r, s \in F : r.id = s.id => r = s,
           NEW N, N \subseteq ids(E)
    PROVE  \A r \in F : r.id \in N => r \in E
  BY DEF ids

\* A record is found again by its name.
LEMMA NameFinds ==
    ASSUME NEW E, \A r, s \in E : r.id = s.id => r = s, NEW r \in E
    PROVE  (CHOOSE s \in E : s.id = r.id) = r
  OBVIOUS

-----------------------------------------------------------------------------
(* What several steps keep.                                                *)

\* The record holds when the job starts.
LEMMA InitIInv == Init => IInv
  <1> SUFFICES ASSUME Init PROVE IInv
    OBVIOUS
  <1> USE DEF Init, RecordedIsJudged
  <1>1. TypeOK /\ attempt = [a \in Attempt |-> attempt[a]]
    <2>1. \A a \in Attempt : attempt[a].pc = "idle"
      OBVIOUS
    <2>2. returned \in [{} -> SUBSET Excerpt]
      OBVIOUS
    <2>3. returned \in UNION {[k -> SUBSET Excerpt] : k \in SUBSET Call}
      BY <2>2
    <2>4. asks \in 0..(MaxAsks - 1)
      BY RecordAssumption
    <2>5. attempt = [a \in Attempt |-> attempt[a]]
      OBVIOUS
    <2> QED BY <2>1, <2>3, <2>4, <2>5 DEF TypeOK, Stages, ids
  <1>2. EvidenceSound /\ LedgerSound /\ CitedSound /\ FindingsSound /\ TrailSound
    BY DEF EvidenceSound, LedgerSound, CitedSound, FindingsSound, TrailSound, Collected
  <1>3. \A a \in Attempt : AttemptSound(a)
    BY DEF AttemptSound
  <1>4. PublicationSound /\ ManifestIsGrounded
    BY DEF PublicationSound, ManifestIsGrounded
  <1>5. ReaderSound /\ AnswersAreCleared
    BY DEF ReaderSound, AnswersAreCleared
  <1> QED BY <1>1, <1>2, <1>3, <1>4, <1>5 DEF IInv

\* What the types say of a record, before or after a step.
LEMMA RecordsHaveClasses ==
    ASSUME NEW r \in Evidence
    PROVE  r.access_class \in AccessClass /\ r.id \in Excerpt \cup {ByHand}
  BY DEF Evidence

\* The call behind a re-read is that of the record it was for, and storing more records
\* does not change it.
LEMMA AuditedIsStable ==
    ASSUME TypeOK, TrailSound, evidence \subseteq evidence',
           \A r, s \in evidence' : r.id = s.id => r = s,
           NEW i \in trail
    PROVE  Audited(i)' = Audited(i)
  <1>1. CASE i \in Call
    BY <1>1 DEF Audited
  <1>2. CASE i \notin Call
    <2>1. PICK r \in evidence : r.id = i[2]
      BY <1>2 DEF TrailSound, ids, Collected
    <2>2. (CHOOSE s \in evidence : s.id = r.id) = r
      BY <2>1, NameFinds DEF TypeOK
    <2>3. (CHOOSE s \in evidence' : s.id = r.id) = r
      <3>1. r \in evidence'
        BY <2>1
      <3> QED BY <3>1, NameFinds
    <2> QED BY <1>2, <2>1, <2>2, <2>3 DEF Audited
  <1> QED BY <1>1, <1>2

\* A request, and an answer given, stay sound while evidence and trail grow, when what is
\* cited does not change under a reader who was let in.
LEMMA ReaderKeeps ==
    ASSUME IInv, UNCHANGED reader,
           evidence \subseteq evidence', \A r, s \in evidence' : r.id = s.id => r = s,
           trail \subseteq trail',
           publication # None => publication' # None /\ cited' = cited
    PROVE  ReaderSound' /\ AnswersAreCleared'
  <1> USE DEF IInv
  <1>1. ids(evidence) \subseteq ids(evidence')
    BY DEF ids
  <1>2. ASSUME NEW N, N \subseteq ids(evidence), Cleared(Named(N))
        PROVE  \A r \in evidence' : r.id \in N => clearance_covers(reader.clearance, r.access_class)
    <2>1. \A r \in evidence' : r.id \in N => r \in evidence
      BY <1>2, NamesAreStable
    <2> QED BY <2>1, <1>2 DEF Cleared, Named
  <1>3. ReaderSound'
    <2>1. (reader.at = "findings" =>
            \A f \in reader.read : f.supporting \cup f.contradicting \subseteq ids(evidence))'
      BY <1>1 DEF ReaderSound
    <2>2. (reader.at \in {"report", "manifest"} => publication # None)'
      BY DEF ReaderSound
    <2>3. (reader.at = "report" => Cleared(Named(cited)))'
      <3> SUFFICES ASSUME reader.at = "report" PROVE Cleared(Named(cited))'
        OBVIOUS
      <3>1. cited' = cited /\ Cleared(Named(cited)) /\ cited \subseteq ids(evidence)
        BY DEF ReaderSound, TypeOK
      <3>2. \A r \in evidence' : r.id \in cited => clearance_covers(reader.clearance, r.access_class)
        BY <3>1, <1>2
      <3> QED BY <3>1, <3>2 DEF Cleared, Named
    <2>4. (reader.at = "answered" =>
            /\ reader.route \in {"evidence", "findings", "report", "manifest", "invocations"}
            /\ reader.route = "findings" =>
                  \A f \in reader.content : f.supporting \cup f.contradicting \subseteq ids(evidence)
            /\ reader.route = "report" => reader.content.cited \subseteq ids(evidence)
            /\ reader.route = "invocations" => reader.content \subseteq trail)'
      BY <1>1 DEF ReaderSound
    <2> QED BY <2>1, <2>2, <2>3, <2>4 DEF ReaderSound
  <1>4. AnswersAreCleared'
    <2> SUFFICES ASSUME reader.at = "answered" PROVE AnswersAreCleared'
      BY DEF AnswersAreCleared
    <2>1. CASE reader.route = "evidence"
      <3>1. Cleared(reader.content)
        BY <2>1 DEF AnswersAreCleared
      <3> QED BY <2>1, <3>1 DEF AnswersAreCleared, Cleared
    <2>2. CASE reader.route = "findings"
      <3>1. ASSUME NEW f \in reader.content
            PROVE  Cleared(Named(f.supporting \cup f.contradicting))'
        <4>1. /\ f.supporting \cup f.contradicting \subseteq ids(evidence)
              /\ Cleared(Named(f.supporting \cup f.contradicting))
          BY <2>2 DEF AnswersAreCleared, ReaderSound
        <4>2. \A r \in evidence' : r.id \in f.supporting \cup f.contradicting
                => clearance_covers(reader.clearance, r.access_class)
          BY <4>1, <1>2
        <4> QED BY <4>2 DEF Cleared, Named
      <3> QED BY <2>2, <3>1 DEF AnswersAreCleared
    <2>3. CASE reader.route = "report"
      <3>1. reader.content.cited \subseteq ids(evidence) /\ Cleared(Named(reader.content.cited))
        BY <2>3 DEF AnswersAreCleared, ReaderSound
      <3>2. \A r \in evidence' : r.id \in reader.content.cited
              => clearance_covers(reader.clearance, r.access_class)
        BY <3>1, <1>2
      <3>3. Cleared(Named(reader.content.cited))'
        BY <3>2 DEF Cleared, Named
      <3> QED BY <2>3, <3>3 DEF AnswersAreCleared
    <2>4. CASE reader.route = "invocations"
      <3>1. ASSUME NEW i \in reader.content
            PROVE  clearance_covers(reader.clearance, CapabilityOf[Audited(i)'].access_class)
        <4>1. i \in trail /\ clearance_covers(reader.clearance, CapabilityOf[Audited(i)].access_class)
          BY <2>4 DEF AnswersAreCleared, ReaderSound
        <4>2. Audited(i)' = Audited(i)
          BY <4>1, AuditedIsStable
        <4> QED BY <4>1, <4>2
      <3> QED BY <2>4, <3>1 DEF AnswersAreCleared
    <2>5. CASE reader.route = "manifest"
      BY <2>5 DEF AnswersAreCleared
    <2> QED BY <2>1, <2>2, <2>3, <2>4, <2>5 DEF ReaderSound
  <1> QED BY <1>3, <1>4

\* Until the report is published no attempt of it has begun, so a step of the agents that
\* adds evidence under fresh names and calls to the trail leaves publication and readers be.
LEMMA CrewKeeps ==
    ASSUME IInv, ~Publishing, UNCHANGED <<attempt, artifacts, publication, reader>>,
           evidence \subseteq evidence', \A r, s \in evidence' : r.id = s.id => r = s,
           trail \subseteq trail', trail' \subseteq trail \cup Call
    PROVE  /\ TrailSound' /\ \A a \in Attempt : AttemptSound(a)'
           /\ PublicationSound' /\ ManifestIsGrounded'
           /\ ReaderSound' /\ AnswersAreCleared'
           /\ publication = None /\ attempt' = [a \in Attempt |-> attempt'[a]]
           /\ \A a \in Attempt : attempt'[a].pc = "idle"
  <1> USE DEF IInv
  <1>1. \A a \in Attempt : attempt[a].pc = "idle"
    BY DEF AttemptSound
  <1>2. publication = None /\ artifacts.manifest = None
    BY DEF PublicationSound
  <1>3. TrailSound'
    <2>1. trail \subseteq Call
      <3>1. ASSUME NEW i \in trail, i \in Attempt \X Excerpt, attempt[i[1]].pc \notin {"idle", "trail"}
            PROVE  FALSE
        <4>1. i[1] \in Attempt
          BY <3>1
        <4> QED BY <4>1, <3>1, <1>1
      <3> QED BY <3>1 DEF TrailSound
    <2> QED BY <2>1 DEF TrailSound
  <1>4. \A a \in Attempt : AttemptSound(a)'
    BY <1>1 DEF AttemptSound
  <1>5. PublicationSound' /\ ManifestIsGrounded'
    BY <1>2 DEF PublicationSound, ManifestIsGrounded
  <1>6. ReaderSound' /\ AnswersAreCleared'
    BY <1>2, ReaderKeeps
  <1> QED BY <1>1, <1>2, <1>3, <1>4, <1>5, <1>6

\* A step that stores no evidence keeps what is known of it.
LEMMA EvidenceKeeps ==
    ASSUME IInv, UNCHANGED <<evidence, submitted>>,
           UNCHANGED returned \/ submitted = {},
           stage' # "store" => submitted = {},
           stage' \in {"plan", "research"} => stage \in {"plan", "research"}
    PROVE  EvidenceSound'
  <1> USE DEF IInv, EvidenceSound
  <1>1. (\A r, s \in evidence \cup submitted : r.id = s.id => r = s)'
    OBVIOUS
  <1>2. (\A r \in evidence \cup submitted : Sourced(r))'
    BY DEF Sourced
  <1>3. (\A r \in submitted : /\ r.trust_level # "unverified"
                              /\ r.call \in DOMAIN returned /\ r.id \in returned[r.call])'
    OBVIOUS
  <1>4. (stage \in {"plan", "research"} => Collected = {})'
    BY DEF Collected
  <1> QED BY <1>1, <1>2, <1>3, <1>4

\* More evidence takes nothing from what was accepted of the agents' answers.
LEMMA ContentKeeps ==
    ASSUME IInv, UNCHANGED <<findings, cited>>, evidence \subseteq evidence',
           stage' = "critique" => stage = "critique" /\ UNCHANGED analysis
    PROVE  CitedSound' /\ FindingsSound'
  <1> USE DEF IInv
  <1>1. Collected \subseteq Collected' /\ ids(Collected) \subseteq ids(Collected')
    BY DEF Collected, ids
  <1>2. CitedSound'
    BY <1>1 DEF CitedSound
  <1>3. FindingsSound'
    <2>1. (stage = "critique" => check_analysis(analysis, Collected))'
      BY <1>1 DEF FindingsSound, check_analysis
    <2>2. RecordedIsJudged'
      BY <1>1 DEF FindingsSound, RecordedIsJudged
    <2> QED BY <2>1, <2>2 DEF FindingsSound
  <1> QED BY <1>2, <1>3

\* The parts of a step of the agents put together.
LEMMA CrewStep ==
    ASSUME IInv, ~Publishing, UNCHANGED <<attempt, artifacts, publication, reader>>,
           evidence \subseteq evidence', trail \subseteq trail', trail' \subseteq trail \cup Call,
           stage' \in Stages, asks' \in 0..(MaxAsks - 1),
           returned' \in UNION {[k -> SUBSET Excerpt] : k \in SUBSET Call},
           ledger' \subseteq Call, submitted' \subseteq Evidence, evidence' \subseteq Evidence,
           EvidenceSound', LedgerSound', CitedSound', FindingsSound'
    PROVE  IInv'
  <1>1. \A r, s \in evidence' : r.id = s.id => r = s
    BY DEF EvidenceSound
  <1>2. /\ TrailSound' /\ \A a \in Attempt : AttemptSound(a)'
        /\ PublicationSound' /\ ManifestIsGrounded'
        /\ ReaderSound' /\ AnswersAreCleared'
        /\ publication = None /\ attempt' = [a \in Attempt |-> attempt'[a]]
        /\ \A a \in Attempt : attempt'[a].pc = "idle"
    BY <1>1, CrewKeeps
  <1>3. cited' \subseteq ids(evidence')
    BY DEF CitedSound, ids, Collected
  <1>4. trail' \subseteq AuditRecord
    BY DEF IInv, TypeOK, AuditRecord
  <1>5. TypeOK'
    BY <1>1, <1>2, <1>3, <1>4 DEF TypeOK
  <1> QED BY <1>2, <1>5 DEF IInv

-----------------------------------------------------------------------------
(* The agents' steps.                                                      *)

\* A refused answer is asked for again, or ends the job.
LEMMA RefusedKeeps == IInv /\ Refused => IInv'
  <1> SUFFICES ASSUME IInv, Refused PROVE IInv'
    OBVIOUS
  <1> USE DEF IInv, Refused, stores
  <1>1. stage' \in Stages /\ ~Publishing /\ stage' # "store" /\ submitted = {}
    BY DEF TypeOK, Stages, Publishing, EvidenceSound
  <1>2. asks' \in 0..(MaxAsks - 1)
    BY RecordAssumption DEF TypeOK, Exhausted
  <1>3. EvidenceSound'
    BY <1>1, EvidenceKeeps
  <1>4. CitedSound' /\ FindingsSound'
    BY ContentKeeps
  <1> QED BY <1>1, <1>2, <1>3, <1>4, CrewStep DEF TypeOK, LedgerSound

\* A plan stores nothing.
LEMMA PlanAcceptedKeeps == ASSUME NEW plan PROVE IInv /\ PlanAccepted(plan) => IInv'
  <1> SUFFICES ASSUME IInv, PlanAccepted(plan) PROVE IInv'
    OBVIOUS
  <1> USE DEF IInv, PlanAccepted, Accepted, stores
  <1>1. /\ stage' \in {"research", "failed"} /\ stage = "plan" /\ submitted = {}
        /\ UNCHANGED <<returned, ledger, submitted, analysis, cited, trail, evidence, findings,
                       artifacts, publication, attempt, reader>> /\ asks' = 0
    BY DEF EvidenceSound
  <1> HIDE DEF PlanAccepted
  <1>2. EvidenceSound' /\ CitedSound' /\ FindingsSound'
    BY <1>1, EvidenceKeeps, ContentKeeps
  <1>3. asks' \in 0..(MaxAsks - 1) /\ ~Publishing /\ stage' \in Stages
    BY <1>1, RecordAssumption DEF Publishing, Stages
  <1> QED BY <1>1, <1>2, <1>3, CrewStep DEF TypeOK, LedgerSound

\* A call adds to what was returned and to the trail; nothing waits to be stored.
LEMMA ToolCallKeeps ==
    ASSUME NEW c \in Call, NEW x \in SUBSET Excerpt, NEW ok \in BOOLEAN
    PROVE  IInv /\ ToolCall(c, x, ok) => IInv'
  <1> SUFFICES ASSUME IInv, ToolCall(c, x, ok) PROVE IInv'
    OBVIOUS
  <1> USE DEF IInv, ToolCall
  <1>1. submitted = {} /\ ~Publishing /\ stage' = stage
    BY DEF EvidenceSound, Publishing
  <1>2. returned' \in UNION {[k -> SUBSET Excerpt] : k \in SUBSET Call}
    <2>1. PICK k \in SUBSET Call : returned \in [k -> SUBSET Excerpt]
      BY DEF TypeOK
    <2>2. returned' \in [k \cup {c} -> SUBSET Excerpt]
      BY <2>1 DEF Observe
    <2>3. k \cup {c} \in SUBSET Call
      OBVIOUS
    <2> QED BY <2>2, <2>3
  <1>3. trail \subseteq trail' /\ trail' \subseteq trail \cup Call
    BY DEF record_invocation
  <1>4. EvidenceSound' /\ CitedSound' /\ FindingsSound'
    BY <1>1, EvidenceKeeps, ContentKeeps
  <1>5. ledger' \subseteq Call
    BY DEF TypeOK, Observe
  <1>6. LedgerSound'
    BY DEF LedgerSound, Observe
  <1> QED BY <1>1, <1>2, <1>3, <1>4, <1>5, <1>6, CrewStep DEF TypeOK

\* Research that starts over forgets its calls, not what they returned.
LEMMA ResearchRetriedKeeps == IInv /\ ResearchRetried => IInv'
  <1> SUFFICES ASSUME IInv, ResearchRetried PROVE IInv'
    OBVIOUS
  <1> USE DEF IInv, ResearchRetried, stores
  <1>1. submitted = {} /\ ~Publishing /\ stage' = stage /\ asks' \in 0..(MaxAsks - 1)
    BY RecordAssumption DEF EvidenceSound, Publishing
  <1>2. EvidenceSound' /\ CitedSound' /\ FindingsSound'
    BY <1>1, EvidenceKeeps, ContentKeeps
  <1> QED BY <1>1, <1>2, CrewStep DEF TypeOK, LedgerSound

\* What verify_claims accepts becomes records of the calls it names, each under a name of
\* its own; nothing has been collected before.
LEMMA ClaimsAcceptedKeeps ==
    ASSUME NEW claims \in SUBSET [call : Call \cup {NoCall}, excerpt : Excerpt]
    PROVE  IInv /\ ClaimsAccepted(claims) => IInv'
  <1> SUFFICES ASSUME IInv, ClaimsAccepted(claims) PROVE IInv'
    OBVIOUS
  <1> USE DEF IInv
  <1> DEFINE Made(c) == EvidenceRecordCreate(c, CapabilityOf[c.call])
  <1>1. /\ stage = "research" /\ stage' = "store" /\ ledger' = {} /\ asks' = 0
        /\ submitted' = {Made(c) : c \in claims}
        /\ UNCHANGED <<returned, analysis, cited, trail, evidence, findings, artifacts,
                       publication, attempt, reader>>
    BY DEF ClaimsAccepted, Accepted, stores
  <1>2. ASSUME NEW c \in claims
        PROVE  /\ c.call \in Call /\ c.call \in DOMAIN returned /\ c.excerpt \in returned[c.call]
               /\ c.excerpt \in Excerpt /\ CapabilityOf[c.call].access_class \in AccessClass
    <2>1. c.call \in ledger /\ c.excerpt \in returned[c.call] /\ c.call \in Call
      BY DEF ClaimsAccepted, verify_claims, TypeOK
    <2>2. CapabilityOf[c.call] \in Tool
      BY <2>1, RecordAssumption
    <2> QED BY <2>1, <2>2 DEF LedgerSound, Tool
  <1>3. ASSUME NEW c \in claims
        PROVE  /\ Made(c).id = c.excerpt /\ Made(c).call = c.call
               /\ Made(c).access_class = CapabilityOf[c.call].access_class
               /\ Made(c).trust_level \in {"primary", "secondary"}
               /\ Made(c) \in Evidence
    BY <1>2 DEF EvidenceRecordCreate, Evidence
  <1> HIDE DEF Made
  <1>4. \A r \in evidence : r.id = ByHand
    BY <1>1 DEF EvidenceSound, Collected, Sourced
  <1>5. ByHand \notin Excerpt
    BY RecordAssumption
  <1>6. ASSUME NEW r \in submitted', NEW s \in submitted', r.id = s.id PROVE r = s
    <2>1. PICK c \in claims, d \in claims : r = Made(c) /\ s = Made(d)
      BY <1>1
    <2>2. c.excerpt = d.excerpt
      BY <2>1, <1>3, <1>6
    <2>3. Distinct(claims)
      BY DEF ClaimsAccepted, verify_claims
    <2> QED BY <2>1, <2>2, <2>3 DEF Distinct
  <1>7. ASSUME NEW r \in submitted'
        PROVE  /\ Sourced(r) /\ r.trust_level # "unverified" /\ r.id # ByHand
               /\ r.call \in DOMAIN returned /\ r.id \in returned[r.call] /\ r \in Evidence
    <2>1. PICK c \in claims : r = Made(c)
      BY <1>1
    <2> QED BY <2>1, <1>2, <1>3, <1>5 DEF Sourced
  <1>8. EvidenceSound'
    <2>1. (\A r, s \in evidence \cup submitted : r.id = s.id => r = s)'
      BY <1>1, <1>4, <1>6, <1>7 DEF TypeOK
    <2>2. (\A r \in evidence \cup submitted : Sourced(r))'
      <3>1. \A r \in evidence' \cup submitted' : Sourced(r)
        BY <1>1, <1>7 DEF EvidenceSound
      <3> QED BY <3>1 DEF Sourced
    <2>3. (\A r \in submitted : /\ r.trust_level # "unverified"
                                /\ r.call \in DOMAIN returned /\ r.id \in returned[r.call])'
      BY <1>1, <1>7
    <2> QED BY <1>1, <2>1, <2>2, <2>3 DEF EvidenceSound
  <1>9. LedgerSound' /\ CitedSound' /\ FindingsSound'
    BY <1>1, ContentKeeps DEF LedgerSound
  <1>10. /\ submitted' \subseteq Evidence /\ asks' \in 0..(MaxAsks - 1) /\ ~Publishing
         /\ stage' \in Stages
    BY <1>1, <1>7, RecordAssumption DEF Publishing, Stages
  <1> QED BY <1>1, <1>8, <1>9, <1>10, CrewStep DEF TypeOK

\* A record stored is one whose name no other has.
LEMMA AddEvidenceKeeps == ASSUME NEW r \in submitted PROVE IInv /\ AddEvidence(r) => IInv'
  <1> SUFFICES ASSUME IInv, AddEvidence(r) PROVE IInv'
    OBVIOUS
  <1> USE DEF IInv
  <1>1. /\ stage = "store" /\ evidence' = evidence \cup {r} /\ submitted' = submitted \ {r}
        /\ stage' \in {"store", "analyze"} /\ (stage' # "store" => submitted' = {})
        /\ returned' = (IF submitted' = {} THEN <<>> ELSE returned)
        /\ UNCHANGED <<asks, ledger, analysis, cited, trail, findings, artifacts,
                       publication, attempt, reader>>
    BY DEF AddEvidence, add_evidence
  <1>2. evidence' \cup submitted' = evidence \cup submitted
    BY <1>1
  <1>3. EvidenceSound'
    <2>1. (\A q, s \in evidence \cup submitted : q.id = s.id => q = s)'
      BY <1>2 DEF EvidenceSound
    <2>2. (\A q \in evidence \cup submitted : Sourced(q))'
      BY <1>2 DEF EvidenceSound, Sourced
    <2>3. (\A q \in submitted : /\ q.trust_level # "unverified"
                                /\ q.call \in DOMAIN returned /\ q.id \in returned[q.call])'
      BY <1>1 DEF EvidenceSound
    <2> QED BY <1>1, <2>1, <2>2, <2>3 DEF EvidenceSound
  <1>4. returned' \in UNION {[k -> SUBSET Excerpt] : k \in SUBSET Call}
    <2>1. <<>> \in [{} -> SUBSET Excerpt] /\ {} \in SUBSET Call
      OBVIOUS
    <2>2. <<>> \in UNION {[k -> SUBSET Excerpt] : k \in SUBSET Call}
      BY <2>1
    <2> QED BY <1>1, <2>2 DEF TypeOK
  <1>5. LedgerSound' /\ CitedSound' /\ FindingsSound'
    BY <1>1, ContentKeeps DEF LedgerSound
  <1>6. evidence' \subseteq Evidence /\ submitted' \subseteq Evidence /\ ~Publishing /\ stage' \in Stages
    BY <1>1 DEF Publishing, Stages, TypeOK
  <1> QED BY <1>1, <1>3, <1>4, <1>5, <1>6, CrewStep DEF TypeOK

\* An analysis is kept as it was checked.
LEMMA AnalysisAcceptedKeeps == ASSUME NEW a PROVE IInv /\ AnalysisAccepted(a) => IInv'
  <1> SUFFICES ASSUME IInv, AnalysisAccepted(a) PROVE IInv'
    OBVIOUS
  <1> USE DEF IInv
  <1>1. /\ stage = "analyze" /\ stage' = "critique" /\ asks' = 0 /\ analysis' = a
        /\ check_analysis(a, Collected) /\ submitted = {}
        /\ UNCHANGED <<returned, ledger, submitted, cited, trail, evidence, findings,
                       artifacts, publication, attempt, reader>>
    BY DEF AnalysisAccepted, Accepted, stores, EvidenceSound
  <1>2. EvidenceSound' /\ LedgerSound'
    BY <1>1, EvidenceKeeps DEF LedgerSound
  <1>3. Collected' = Collected
    BY <1>1 DEF Collected
  <1>4. CitedSound' /\ FindingsSound'
    BY <1>1, <1>3 DEF CitedSound, FindingsSound, RecordedIsJudged
  <1>5. asks' \in 0..(MaxAsks - 1) /\ ~Publishing /\ stage' \in Stages
    BY <1>1, RecordAssumption DEF Publishing, Stages
  <1> QED BY <1>1, <1>2, <1>4, <1>5, CrewStep DEF TypeOK

\* The findings stored are those derived of checked answers.
LEMMA ReviewAcceptedKeeps ==
    ASSUME NEW n \in Nat, NEW vs, DOMAIN vs = 1..n, NEW g \in BOOLEAN
    PROVE  IInv /\ ReviewAccepted(vs, g) => IInv'
  <1> SUFFICES ASSUME IInv, ReviewAccepted(vs, g) PROVE IInv'
    OBVIOUS
  <1> USE DEF IInv
  <1> DEFINE status == IF requires_reviewer(vs, g) THEN "pending" ELSE "not_required"
  <1>1. /\ stage = "critique" /\ stage' \in {"review", "report"} /\ asks' = 0
        /\ check_review(vs, analysis, Collected) /\ submitted = {}
        /\ findings' = derive_findings(analysis, vs, status)
        /\ UNCHANGED <<returned, ledger, submitted, cited, trail, evidence,
                       artifacts, publication, attempt, reader>>
    BY DEF ReviewAccepted, Accepted, replace_findings, EvidenceSound
  <1> HIDE DEF status
  <1>2. EvidenceSound' /\ LedgerSound'
    BY <1>1, EvidenceKeeps DEF LedgerSound
  <1>3. Collected' = Collected
    BY <1>1 DEF Collected
  <1>4. check_analysis(analysis, Collected)
    BY <1>1 DEF FindingsSound
  <1>5. ASSUME NEW f \in findings'
        PROVE  /\ WellFormedFinding(f) /\ f.verdict # "pending"
               /\ f.supporting \cup f.contradicting \subseteq ids(Collected)
               /\ f = [claim |-> f.claim, supporting |-> f.supporting,
                       contradicting |-> f.contradicting, verdict |-> f.verdict,
                       reviewer_status |-> f.reviewer_status]
    <2>1. f \in derive_findings(analysis, vs, status)
      BY <1>1
    <2> QED BY <1>1, <1>4, <2>1, DerivedIsJudged
  <1>6. CitedSound' /\ FindingsSound'
    <2>1. RecordedIsJudged'
      BY <1>3, <1>5 DEF RecordedIsJudged
    <2> QED BY <1>1, <1>3, <1>5, <2>1 DEF CitedSound, FindingsSound
  <1>7. asks' \in 0..(MaxAsks - 1) /\ ~Publishing /\ stage' \in Stages
    BY <1>1, RecordAssumption DEF Publishing, Stages
  <1> QED BY <1>1, <1>2, <1>6, <1>7, CrewStep DEF TypeOK

\* A reviewer changes no finding but its status.
LEMMA ReviewedKeeps == ASSUME NEW status PROVE IInv /\ Reviewed(status) => IInv'
  <1> SUFFICES ASSUME IInv, Reviewed(status) PROVE IInv'
    OBVIOUS
  <1> USE DEF IInv
  <1>1. /\ stage = "review" /\ stage' \in {"report", "failed"} /\ submitted = {}
        /\ findings' = {[f EXCEPT !.reviewer_status = status] : f \in findings}
        /\ UNCHANGED <<asks, returned, ledger, submitted, analysis, cited, trail, evidence,
                       artifacts, publication, attempt, reader>>
    BY DEF Reviewed, replace_findings, crew, EvidenceSound
  <1>2. EvidenceSound' /\ LedgerSound'
    BY <1>1, EvidenceKeeps DEF LedgerSound
  <1>3. Collected' = Collected
    BY <1>1 DEF Collected
  <1>4. ASSUME NEW f \in findings'
        PROVE  /\ WellFormedFinding(f) /\ f.verdict # "pending"
               /\ f.supporting \cup f.contradicting \subseteq ids(Collected)
               /\ f = [claim |-> f.claim, supporting |-> f.supporting,
                       contradicting |-> f.contradicting, verdict |-> f.verdict,
                       reviewer_status |-> f.reviewer_status]
    <2>1. PICK old \in findings : f = [old EXCEPT !.reviewer_status = status]
      BY <1>1
    <2>2. old = [claim |-> old.claim, supporting |-> old.supporting,
                 contradicting |-> old.contradicting, verdict |-> old.verdict,
                 reviewer_status |-> old.reviewer_status]
      BY DEF FindingsSound
    <2>3. f = [claim |-> old.claim, supporting |-> old.supporting,
               contradicting |-> old.contradicting, verdict |-> old.verdict,
               reviewer_status |-> status]
      BY <2>1, <2>2
    <2>4. /\ WellFormedFinding(old) /\ old.verdict # "pending"
          /\ old.supporting \cup old.contradicting \subseteq ids(Collected)
      BY DEF FindingsSound, RecordedIsJudged
    <2> QED BY <2>3, <2>4 DEF WellFormedFinding
  <1>5. CitedSound' /\ FindingsSound'
    <2>1. RecordedIsJudged'
      BY <1>3, <1>4 DEF RecordedIsJudged
    <2> QED BY <1>1, <1>3, <1>4, <2>1 DEF CitedSound, FindingsSound
  <1>6. ~Publishing /\ stage' \in Stages
    BY <1>1 DEF Publishing, Stages
  <1> QED BY <1>1, <1>2, <1>5, <1>6, CrewStep DEF TypeOK

\* A report accepted cites what check_report found among the publishable records.
LEMMA ReportAcceptedKeeps == ASSUME NEW report PROVE IInv /\ ReportAccepted(report) => IInv'
  <1> SUFFICES ASSUME IInv, ReportAccepted(report) PROVE IInv'
    OBVIOUS
  <1> USE DEF IInv
  <1>1. /\ stage = "report" /\ stage' = "publish" /\ submitted = {} /\ asks' = 0
        /\ cited' \subseteq ids({r \in Collected : is_publishable(r)})
        /\ UNCHANGED <<returned, ledger, submitted, analysis, trail, evidence, findings,
                       artifacts, publication, attempt, reader>>
    BY DEF ReportAccepted, Accepted, check_report, stores, EvidenceSound
  <1>2. EvidenceSound' /\ LedgerSound'
    BY <1>1, EvidenceKeeps DEF LedgerSound
  <1>3. Collected' = Collected
    BY <1>1 DEF Collected
  <1>4. CitedSound'
    BY <1>1, <1>3 DEF CitedSound, ids, is_publishable
  <1>5. FindingsSound'
    BY <1>1, <1>3 DEF FindingsSound, RecordedIsJudged
  <1>6. asks' \in 0..(MaxAsks - 1) /\ ~Publishing /\ stage' \in Stages
    BY <1>1, RecordAssumption DEF Publishing, Stages
  <1> QED BY <1>1, <1>2, <1>4, <1>5, <1>6, CrewStep DEF TypeOK
-----------------------------------------------------------------------------
(* publish_report.                                                         *)

\* A publication record is not the absence of one.
LEMMA RecordIsPresent == ASSUME NEW a PROVE ReportPublication(a) # None
  <1>1. "drifted" \in DOMAIN ReportPublication(a)
    BY DEF ReportPublication
  <1>2. "drifted" \notin DOMAIN None
    BY DEF None
  <1> QED BY <1>1, <1>2

\* The parts of a step of publish_report put together: it touches neither the evidence nor
\* what the agents answered.
LEMMA PublishStep ==
    ASSUME IInv, Publishing, Publishing', attempt' = [b \in Attempt |-> attempt'[b]],
           UNCHANGED <<asks, returned, ledger, submitted, analysis, cited, evidence, findings, reader>>,
           trail \subseteq trail', trail' \subseteq AuditRecord,
           publication # None => publication' # None,
           publication' # None => /\ publication'.report_access_class \in AccessClass
                                  /\ publication'.manifest_access_class \in AccessClass,
           TrailSound', \A b \in Attempt : AttemptSound(b)', PublicationSound', ManifestIsGrounded'
    PROVE  IInv'
  <1> USE DEF IInv
  <1>1. stage' \in Stages /\ stage # "store" /\ stage' # "store" /\ submitted = {} /\ stage' # "critique"
    BY DEF Publishing, Stages, EvidenceSound
  <1>2. EvidenceSound' /\ LedgerSound'
    BY <1>1, EvidenceKeeps DEF LedgerSound, Publishing
  <1>3. CitedSound' /\ FindingsSound'
    BY <1>1, ContentKeeps
  <1>4. ReaderSound' /\ AnswersAreCleared'
    BY ReaderKeeps DEF TypeOK
  <1>5. TypeOK'
    <2>1. (\A b \in Attempt : attempt[b].pc # "idle" =>
             attempt[b].evidence \subseteq evidence /\ attempt[b].trail \subseteq trail)'
      BY DEF AttemptSound
    <2> QED BY <1>1, <2>1 DEF TypeOK
  <1> QED BY <1>2, <1>3, <1>4, <1>5

\* The other attempts are as they were: what is cited does not change, and whichever report
\* is stored cites it.
LEMMA OthersKeep ==
    ASSUME IInv, Publishing', NEW b \in Attempt, attempt'[b] = attempt[b],
           UNCHANGED <<cited, evidence>>, trail \subseteq trail',
           artifacts'.report = artifacts.report \/ artifacts'.report.cited = cited
    PROVE  AttemptSound(b)'
  BY DEF IInv, AttemptSound

\* The trail stays sound while attempts move on and add nothing to it.
LEMMA TrailKeeps ==
    ASSUME IInv, UNCHANGED <<trail, evidence>>, NEW a \in Attempt,
           \A b \in Attempt \ {a} : attempt'[b] = attempt[b],
           attempt'[a].pc \in {"idle", "trail"} => attempt[a].pc \in {"idle", "trail"}
    PROVE  TrailSound'
  <1>1. ASSUME NEW i \in trail, i \notin Call
        PROVE  (/\ i \in Attempt \X Excerpt
                /\ attempt[i[1]].pc \notin {"idle", "trail"}
                /\ i[2] \in ids(Collected))'
    <2>1. /\ i \in Attempt \X Excerpt /\ attempt[i[1]].pc \notin {"idle", "trail"}
          /\ i[2] \in ids(Collected)
      BY <1>1 DEF IInv, TrailSound
    <2>2. i[1] \in Attempt /\ attempt'[i[1]].pc \notin {"idle", "trail"}
      BY <2>1
    <2> QED BY <2>1, <2>2 DEF Collected
  <1> QED BY <1>1 DEF TrailSound

\* An attempt begins with all the evidence, and so with all that is cited.
LEMMA PublishBeginsKeeps == ASSUME NEW a \in Attempt PROVE IInv /\ PublishBegins(a) => IInv'
  <1> SUFFICES ASSUME IInv, PublishBegins(a) PROVE IInv'
    OBVIOUS
  <1> USE DEF IInv
  <1>1. /\ stage = "publish" /\ attempt[a].pc = "idle"
        /\ attempt' = [attempt EXCEPT ![a] =
             [pc |-> "trail", evidence |-> evidence, trail |-> {}, checks |-> <<>>]]
        /\ UNCHANGED <<stage, asks, returned, ledger, submitted, analysis, cited, trail, evidence,
                       findings, artifacts, publication, reader>>
    BY DEF PublishBegins, At, crew, stores
  <1>2. /\ attempt'[a] = [pc |-> "trail", evidence |-> evidence, trail |-> {}, checks |-> <<>>]
        /\ \A b \in Attempt \ {a} : attempt'[b] = attempt[b]
        /\ attempt' = [b \in Attempt |-> attempt'[b]]
    BY <1>1
  <1>3. Publishing /\ Publishing'
    BY <1>1 DEF Publishing
  <1>4. AttemptSound(a)'
    <2>1. cited \subseteq ids(evidence) /\ DOMAIN <<>> = {}
      BY DEF TypeOK
    <2> QED BY <1>1, <1>2, <1>3, <2>1 DEF AttemptSound
  <1>5. \A b \in Attempt : AttemptSound(b)'
    BY <1>1, <1>2, <1>3, <1>4, OthersKeep
  <1>6. TrailSound'
    BY <1>1, <1>2, TrailKeeps
  <1>7. PublicationSound' /\ ManifestIsGrounded'
    BY <1>1, <1>3 DEF PublicationSound, ManifestIsGrounded, Named, Cleared
  <1> QED BY <1>1, <1>2, <1>3, <1>5, <1>6, <1>7, PublishStep DEF TypeOK

\* An attempt lists the trail before it has read any source again.
LEMMA ListInvocationsKeeps == ASSUME NEW a \in Attempt PROVE IInv /\ ListInvocations(a) => IInv'
  <1> SUFFICES ASSUME IInv, ListInvocations(a) PROVE IInv'
    OBVIOUS
  <1> USE DEF IInv
  <1> DEFINE t == attempt[a]
  <1>1. /\ t.pc = "trail"
        /\ attempt' = [attempt EXCEPT ![a].pc = "check", ![a].trail = trail]
        /\ UNCHANGED <<stage, asks, returned, ledger, submitted, analysis, cited, trail, evidence,
                       findings, artifacts, publication, reader>>
    BY DEF ListInvocations, At, crew, stores
  <1>2. /\ Publishing /\ t = [pc |-> t.pc, evidence |-> t.evidence, trail |-> t.trail, checks |-> t.checks]
        /\ t.evidence \subseteq evidence /\ cited \subseteq ids(t.evidence) /\ DOMAIN t.checks = {}
    BY <1>1 DEF AttemptSound
  <1>3. /\ attempt'[a] = [pc |-> "check", evidence |-> t.evidence, trail |-> trail, checks |-> t.checks]
        /\ \A b \in Attempt \ {a} : attempt'[b] = attempt[b]
        /\ attempt' = [b \in Attempt |-> attempt'[b]]
    BY <1>1, <1>2
  <1>4. Publishing'
    BY <1>1, <1>2 DEF Publishing
  <1>5. \A i \in trail : i \in Call \/ i[1] # a
    BY <1>1 DEF TrailSound
  <1>6. AttemptSound(a)'
    BY <1>1, <1>2, <1>3, <1>4, <1>5 DEF AttemptSound
  <1>7. \A b \in Attempt : AttemptSound(b)'
    BY <1>1, <1>3, <1>4, <1>6, OthersKeep
  <1>8. TrailSound'
    BY <1>1, <1>3, TrailKeeps
  <1>9. PublicationSound' /\ ManifestIsGrounded'
    BY <1>1, <1>4 DEF PublicationSound, ManifestIsGrounded, Named, Cleared
  <1> QED BY <1>1, <1>2, <1>3, <1>4, <1>7, <1>8, <1>9, PublishStep DEF TypeOK

\* What an attempt knows of itself stays true when it notes what a source showed, if it was
\* not read again or the call that returned it is in the trail the attempt listed.
LEMMA CheckedKeeps ==
    ASSUME IInv, NEW a \in Attempt, NEW r \in evidence, NEW status, attempt[a].pc = "check",
           r \in attempt[a].evidence, attempt' = Checked(a, r, status),
           status = "not_checked" \/ r.call \in attempt[a].trail,
           UNCHANGED <<stage, cited, evidence, artifacts>>, trail \subseteq trail'
    PROVE  /\ Publishing /\ Publishing'
           /\ \A b \in Attempt : AttemptSound(b)'
           /\ attempt'[a].pc = "check" /\ \A b \in Attempt \ {a} : attempt'[b] = attempt[b]
           /\ attempt' = [b \in Attempt |-> attempt'[b]]
  <1> USE DEF IInv
  <1> DEFINE t      == attempt[a]
             checks == [i \in DOMAIN t.checks \cup {r.id} |-> IF i = r.id THEN status ELSE t.checks[i]]
  <1>1. /\ Publishing /\ t = [pc |-> t.pc, evidence |-> t.evidence, trail |-> t.trail, checks |-> t.checks]
        /\ t.evidence \subseteq evidence /\ cited \subseteq ids(t.evidence) /\ t.trail \subseteq trail
        /\ \A s \in t.evidence :
              s.id \in DOMAIN t.checks /\ t.checks[s.id] # "not_checked" => s.call \in t.trail
        /\ \A i \in t.trail : i \in Call \/ i[1] # a
    BY DEF AttemptSound
  <1>2. attempt' = [attempt EXCEPT ![a].checks = checks]
    BY DEF Checked
  <1>3. DOMAIN checks = DOMAIN t.checks \cup {r.id}
        /\ \A i \in DOMAIN checks : checks[i] = IF i = r.id THEN status ELSE t.checks[i]
    OBVIOUS
  <1> HIDE DEF checks
  <1>4. /\ attempt'[a] = [pc |-> "check", evidence |-> t.evidence, trail |-> t.trail, checks |-> checks]
        /\ \A b \in Attempt \ {a} : attempt'[b] = attempt[b]
        /\ attempt' = [b \in Attempt |-> attempt'[b]]
    BY <1>1, <1>2
  <1>5. Publishing'
    BY <1>1 DEF Publishing
  <1>6. ASSUME NEW s \in t.evidence, s.id \in DOMAIN checks, checks[s.id] # "not_checked"
        PROVE  s.call \in t.trail
    <2>1. CASE s.id = r.id
      <3>1. s = r
        BY <1>1, <2>1 DEF TypeOK
      <3> QED BY <3>1, <1>3, <1>6, <2>1
    <2>2. CASE s.id # r.id
      BY <1>1, <1>3, <1>6, <2>2
    <2> QED BY <2>1, <2>2
  <1>7. AttemptSound(a)'
    BY <1>1, <1>4, <1>5, <1>6 DEF AttemptSound
  <1>8. \A b \in Attempt : AttemptSound(b)'
    BY <1>4, <1>5, <1>7, OthersKeep
  <1> QED BY <1>1, <1>4, <1>5, <1>8

\* A re-read enters the trail under the attempt that made it, which has listed it before.
LEMMA CheckSourceKeeps ==
    ASSUME NEW a \in Attempt, NEW r \in evidence, NEW seen \in Reread
    PROVE  IInv /\ CheckSource(a, r, seen) => IInv'
  <1> SUFFICES ASSUME IInv, CheckSource(a, r, seen) PROVE IInv'
    OBVIOUS
  <1> USE DEF IInv
  <1>1. /\ attempt[a].pc = "check" /\ r \in attempt[a].evidence /\ r.id \in cited
        /\ r.call \in attempt[a].trail
        /\ trail' \in {trail, trail \cup {<<a, r.id>>}}
        /\ attempt' = Checked(a, r, seen.status)
        /\ UNCHANGED <<stage, asks, returned, ledger, submitted, analysis, cited, evidence,
                       findings, artifacts, publication, reader>>
    BY DEF CheckSource, At, ToCheck, CitedBy, Refetchable, record_invocation, crew
  <1>2. /\ Publishing /\ Publishing'
        /\ \A b \in Attempt : AttemptSound(b)'
        /\ attempt'[a].pc = "check" /\ \A b \in Attempt \ {a} : attempt'[b] = attempt[b]
        /\ attempt' = [b \in Attempt |-> attempt'[b]]
    BY <1>1, CheckedKeeps
  <1>3. r.id \in ids(Collected) /\ r.id \in Excerpt
    <2>1. PICK s \in Collected : s.id = r.id
      BY <1>1 DEF CitedSound
    <2>2. Sourced(s) /\ s.trust_level # "unverified"
      BY <2>1 DEF EvidenceSound, Collected
    <2> QED BY <2>1, <2>2 DEF Sourced, ids
  <1>4. TrailSound'
    <2>1. ASSUME NEW i \in trail', i \notin Call
          PROVE  (/\ i \in Attempt \X Excerpt
                  /\ attempt[i[1]].pc \notin {"idle", "trail"}
                  /\ i[2] \in ids(Collected))'
      <3>1. Collected' = Collected
        BY <1>1 DEF Collected
      <3>2. CASE i \in trail
        <4>1. /\ i \in Attempt \X Excerpt /\ attempt[i[1]].pc \notin {"idle", "trail"}
              /\ i[2] \in ids(Collected)
          BY <3>2, <2>1 DEF TrailSound
        <4>2. i[1] \in Attempt /\ attempt'[i[1]].pc \notin {"idle", "trail"}
          BY <4>1, <1>2
        <4> QED BY <4>1, <4>2, <3>1
      <3>3. CASE i = <<a, r.id>>
        <4>1. i \in Attempt \X Excerpt /\ i[1] = a /\ i[2] = r.id
          BY <3>3, <1>3
        <4> QED BY <4>1, <1>2, <1>3, <3>1
      <3> QED BY <1>1, <3>2, <3>3
    <2> QED BY <2>1 DEF TrailSound
  <1>5. PublicationSound' /\ ManifestIsGrounded'
    BY <1>1, <1>2 DEF PublicationSound, ManifestIsGrounded, Named, Cleared
  <1>6. trail \subseteq trail' /\ trail' \subseteq AuditRecord
    BY <1>1, <1>3 DEF TypeOK, AuditRecord
  <1> QED BY <1>1, <1>2, <1>4, <1>5, <1>6, PublishStep DEF TypeOK

\* A source without an address is noted as not checked.
LEMMA SkipSourceKeeps ==
    ASSUME NEW a \in Attempt, NEW r \in evidence PROVE IInv /\ SkipSource(a, r) => IInv'
  <1> SUFFICES ASSUME IInv, SkipSource(a, r) PROVE IInv'
    OBVIOUS
  <1> USE DEF IInv
  <1>1. /\ attempt[a].pc = "check" /\ r \in attempt[a].evidence
        /\ attempt' = Checked(a, r, "not_checked")
        /\ UNCHANGED <<stage, asks, returned, ledger, submitted, analysis, cited, trail, evidence,
                       findings, artifacts, publication, reader>>
    BY DEF SkipSource, At, ToCheck, CitedBy, crew, stores
  <1>2. /\ Publishing /\ Publishing'
        /\ \A b \in Attempt : AttemptSound(b)'
        /\ attempt'[a].pc = "check" /\ \A b \in Attempt \ {a} : attempt'[b] = attempt[b]
        /\ attempt' = [b \in Attempt |-> attempt'[b]]
    BY <1>1, CheckedKeeps
  <1>3. TrailSound'
    BY <1>1, <1>2, TrailKeeps
  <1>4. PublicationSound' /\ ManifestIsGrounded'
    BY <1>1, <1>2 DEF PublicationSound, ManifestIsGrounded, Named, Cleared
  <1> QED BY <1>1, <1>2, <1>3, <1>4, PublishStep DEF TypeOK

\* Any attempt's report cites the same evidence.
LEMMA PutReportKeeps == ASSUME NEW a \in Attempt PROVE IInv /\ PutReport(a) => IInv'
  <1> SUFFICES ASSUME IInv, PutReport(a) PROVE IInv'
    OBVIOUS
  <1> USE DEF IInv
  <1> DEFINE t == attempt[a]
  <1>1. /\ t.pc = "check" /\ attempt' = [attempt EXCEPT ![a].pc = "manifest"]
        /\ artifacts' = [artifacts EXCEPT !["report"] = render_markdown(a)]
        /\ UNCHANGED <<stage, asks, returned, ledger, submitted, analysis, cited, trail, evidence,
                       findings, publication, reader>>
    BY DEF PutReport, At, crew, put
  <1>2. /\ Publishing /\ t = [pc |-> t.pc, evidence |-> t.evidence, trail |-> t.trail, checks |-> t.checks]
        /\ t.evidence \subseteq evidence /\ cited \subseteq ids(t.evidence) /\ t.trail \subseteq trail
        /\ \A r \in t.evidence :
              r.id \in DOMAIN t.checks /\ t.checks[r.id] # "not_checked" => r.call \in t.trail
        /\ \A i \in t.trail : i \in Call \/ i[1] # a
    BY <1>1 DEF AttemptSound
  <1>3. /\ attempt'[a] = [pc |-> "manifest", evidence |-> t.evidence, trail |-> t.trail, checks |-> t.checks]
        /\ \A b \in Attempt \ {a} : attempt'[b] = attempt[b]
        /\ attempt' = [b \in Attempt |-> attempt'[b]]
    BY <1>1, <1>2
  <1>4. /\ artifacts' = [report |-> render_markdown(a), manifest |-> artifacts.manifest,
                         bundle |-> artifacts.bundle]
        /\ render_markdown(a).cited = cited
    BY <1>1 DEF PublicationSound, render_markdown
  <1>5. /\ artifacts'.report.cited = cited /\ artifacts'.manifest = artifacts.manifest
        /\ artifacts' = [report |-> artifacts'.report, manifest |-> artifacts'.manifest,
                         bundle |-> artifacts'.bundle]
    BY <1>4
  <1>6. Publishing'
    BY <1>1, <1>2 DEF Publishing
  <1>7. AttemptSound(a)'
    BY <1>1, <1>2, <1>3, <1>5, <1>6 DEF AttemptSound
  <1>8. \A b \in Attempt : AttemptSound(b)'
    BY <1>1, <1>3, <1>5, <1>6, <1>7, OthersKeep
  <1>9. TrailSound'
    BY <1>1, <1>3, TrailKeeps
  <1>10. PublicationSound' /\ ManifestIsGrounded'
    BY <1>1, <1>5, <1>6 DEF PublicationSound, ManifestIsGrounded, Named, Cleared
  <1> QED BY <1>1, <1>2, <1>3, <1>6, <1>8, <1>9, <1>10, PublishStep DEF TypeOK

\* The manifest is of the evidence, the trail and the checks of one attempt.
LEMMA PutManifestKeeps == ASSUME NEW a \in Attempt PROVE IInv /\ PutManifest(a) => IInv'
  <1> SUFFICES ASSUME IInv, PutManifest(a) PROVE IInv'
    OBVIOUS
  <1> USE DEF IInv
  <1> DEFINE t == attempt[a]
             bundle == {r \in t.evidence : is_publishable(r)}
  <1>1. /\ t.pc = "manifest" /\ attempt' = [attempt EXCEPT ![a].pc = "record"]
        /\ artifacts' = [[artifacts EXCEPT !["manifest"] = build_manifest(a)] EXCEPT !["bundle"] = bundle]
        /\ UNCHANGED <<stage, asks, returned, ledger, submitted, analysis, cited, trail, evidence,
                       findings, publication, reader>>
    BY DEF PutManifest, At, crew, put
  <1> HIDE DEF bundle
  <1>2. /\ Publishing /\ t = [pc |-> t.pc, evidence |-> t.evidence, trail |-> t.trail, checks |-> t.checks]
        /\ cited \subseteq ids(t.evidence) /\ artifacts.report.cited = cited
        /\ \A r \in t.evidence :
              r.id \in DOMAIN t.checks /\ t.checks[r.id] # "not_checked" => r.call \in t.trail
        /\ \A i \in t.trail : i \in Call \/ i[1] # a
    BY <1>1 DEF AttemptSound
  <1>3. /\ attempt'[a] = [pc |-> "record", evidence |-> t.evidence, trail |-> t.trail, checks |-> t.checks]
        /\ \A b \in Attempt \ {a} : attempt'[b] = attempt[b]
        /\ attempt' = [b \in Attempt |-> attempt'[b]]
    BY <1>1, <1>2
  <1>4. artifacts' = [report |-> artifacts.report, manifest |-> build_manifest(a), bundle |-> bundle]
    BY <1>1 DEF PublicationSound
  <1>5. /\ artifacts'.report = artifacts.report /\ artifacts'.manifest = build_manifest(a)
        /\ artifacts' = [report |-> artifacts'.report, manifest |-> artifacts'.manifest,
                         bundle |-> artifacts'.bundle]
    BY <1>4
  <1>6. Publishing'
    BY <1>1, <1>2 DEF Publishing
  <1>7. AttemptSound(a)'
    BY <1>1, <1>2, <1>3, <1>5, <1>6 DEF AttemptSound
  <1>8. \A b \in Attempt : AttemptSound(b)'
    BY <1>1, <1>3, <1>5, <1>6, <1>7, OthersKeep
  <1>9. TrailSound'
    BY <1>1, <1>3, TrailKeeps
  <1>10. PublicationSound'
    BY <1>1, <1>5, <1>6 DEF PublicationSound, Named, Cleared
  <1>11. ManifestIsGrounded'
    <2> DEFINE m == artifacts'.manifest
    <2>1. m.evidence = t.evidence /\ m.checks = t.checks /\ m.calls = t.trail /\ m.by = a
      BY <1>5 DEF build_manifest
    <2>2. /\ cited' \subseteq ids(m.evidence)
          /\ \A r \in m.evidence :
               r.id \in DOMAIN m.checks /\ m.checks[r.id] # "not_checked" => r.call \in m.calls
          /\ \A i \in m.calls : i \in Call \/ i[1] # m.by
      BY <1>1, <1>2, <2>1
    <2> QED BY <2>2 DEF ManifestIsGrounded
  <1> QED BY <1>1, <1>2, <1>3, <1>6, <1>8, <1>9, <1>10, <1>11, PublishStep DEF TypeOK

\* The record classes the report by the cited records of the attempt's list, which are all
\* the cited records there are.
LEMMA RecordPublicationKeeps ==
    ASSUME NEW a \in Attempt, NEW ok \in BOOLEAN PROVE IInv /\ RecordPublication(a, ok) => IInv'
  <1> SUFFICES ASSUME IInv, RecordPublication(a, ok) PROVE IInv'
    OBVIOUS
  <1> USE DEF IInv
  <1> DEFINE t == attempt[a]
             record == ReportPublication(a)
  <1>1. /\ t.pc = "record" /\ attempt' = [attempt EXCEPT ![a].pc = "done"]
        /\ publication' = record /\ stage' \in {stage, "published"}
        /\ UNCHANGED <<asks, returned, ledger, submitted, analysis, cited, trail, evidence,
                       findings, artifacts, reader>>
    BY DEF RecordPublication, At, crew, record_publication
  <1>2. /\ Publishing /\ t = [pc |-> t.pc, evidence |-> t.evidence, trail |-> t.trail, checks |-> t.checks]
        /\ cited \subseteq ids(t.evidence) /\ t.evidence \subseteq evidence
        /\ artifacts.report.cited = cited
    BY <1>1 DEF AttemptSound
  <1>3. /\ attempt'[a] = [pc |-> "done", evidence |-> t.evidence, trail |-> t.trail, checks |-> t.checks]
        /\ \A b \in Attempt \ {a} : attempt'[b] = attempt[b]
        /\ attempt' = [b \in Attempt |-> attempt'[b]]
    BY <1>1, <1>2
  <1>4. Publishing'
    BY <1>1, <1>2 DEF Publishing
  <1>5. AttemptSound(a)'
    BY <1>1, <1>2, <1>3, <1>4 DEF AttemptSound
  <1>6. \A b \in Attempt : AttemptSound(b)'
    BY <1>1, <1>3, <1>4, <1>5, OthersKeep
  <1>7. TrailSound'
    BY <1>1, <1>3, TrailKeeps
  <1>8. /\ record.report_access_class = most_restrictive(CitedBy(t.evidence))
        /\ record.manifest_access_class = most_restrictive(t.evidence)
    BY DEF ReportPublication
  <1> HIDE DEF record
  <1>9. \A r \in evidence : r.access_class \in AccessClass
    BY RecordsHaveClasses DEF TypeOK
  <1>10. /\ record.report_access_class \in AccessClass
         /\ record.manifest_access_class \in AccessClass
         /\ \A r \in CitedBy(t.evidence) : clearance_covers(record.report_access_class, r.access_class)
    <2>1. CitedBy(t.evidence) \subseteq t.evidence
      BY DEF CitedBy
    <2>2. /\ \A r \in CitedBy(t.evidence) : r.access_class \in AccessClass
          /\ \A r \in t.evidence : r.access_class \in AccessClass
      BY <1>2, <1>9, <2>1
    <2> QED BY <1>8, <2>2, MostRestrictiveCovers
  <1>11. Named(cited)' = CitedBy(t.evidence)
    <2>1. \A r, s \in evidence : r.id = s.id => r = s
      BY DEF TypeOK
    <2>2. \A r \in evidence : r.id \in cited => r \in t.evidence
      BY <1>2, <2>1, NamesAreStable
    <2> QED BY <1>1, <1>2, <2>2 DEF Named, CitedBy
  <1>12. PublicationSound' /\ ManifestIsGrounded'
    BY <1>1, <1>2, <1>4, <1>10, <1>11 DEF PublicationSound, ManifestIsGrounded
  <1>13. publication' # None
    BY <1>1, RecordIsPresent DEF record
  <1> QED BY <1>1, <1>2, <1>3, <1>4, <1>6, <1>7, <1>10, <1>12, <1>13, PublishStep DEF TypeOK

-----------------------------------------------------------------------------
(* The routes.                                                             *)

\* A record attached by hand takes a name that nothing refers to.
LEMMA AttachEvidenceKeeps ==
    ASSUME NEW class \in HandClasses PROVE IInv /\ AttachEvidence(class) => IInv'
  <1> SUFFICES ASSUME IInv, AttachEvidence(class) PROVE IInv'
    OBVIOUS
  <1> USE DEF IInv
  <1> DEFINE new == [id |-> ByHand, call |-> NoCall, access_class |-> class,
                     trust_level |-> "unverified"]
  <1>1. /\ \A r \in evidence : r.id # ByHand
        /\ evidence' = evidence \cup {new}
        /\ UNCHANGED <<stage, asks, returned, ledger, submitted, analysis, cited, trail, findings,
                       artifacts, publication, attempt, reader>>
    BY DEF AttachEvidence, add_evidence, crew
  <1>2. new \in Evidence /\ new.id = ByHand /\ new.trust_level = "unverified" /\ Sourced(new)
    BY RecordAssumption DEF Evidence, AccessClass, Sourced
  <1> HIDE DEF new
  <1>3. \A r \in submitted : r.id # ByHand
    BY RecordAssumption DEF EvidenceSound, Sourced
  <1>4. \A r, s \in evidence' \cup submitted' : r.id = s.id => r = s
    BY <1>1, <1>2, <1>3 DEF EvidenceSound
  <1>5. Collected' = Collected
    BY <1>1, <1>2 DEF Collected
  <1>6. EvidenceSound'
    <2>1. (\A r \in evidence \cup submitted : Sourced(r))'
      <3>1. \A r \in evidence' \cup submitted' : Sourced(r)
        BY <1>1, <1>2 DEF EvidenceSound
      <3> QED BY <3>1 DEF Sourced
    <2> QED BY <1>1, <1>4, <1>5, <2>1 DEF EvidenceSound
  <1>7. CitedSound' /\ FindingsSound' /\ LedgerSound'
    BY <1>1, ContentKeeps DEF LedgerSound
  <1>8. TrailSound'
    BY <1>1, <1>5 DEF TrailSound
  <1>9. \A a \in Attempt : AttemptSound(a)'
    BY <1>1 DEF AttemptSound, Publishing
  <1>10. PublicationSound' /\ ManifestIsGrounded'
    <2>1. Named(cited)' = Named(cited)
      <3>1. \A r \in evidence' : r.id \in cited => r \in evidence
        <4>1. /\ evidence \subseteq evidence' /\ cited \subseteq ids(evidence)
              /\ \A r, s \in evidence' : r.id = s.id => r = s
          BY <1>1, <1>4 DEF TypeOK
        <4> QED BY <4>1, NamesAreStable
      <3> QED BY <1>1, <3>1 DEF Named
    <2> QED BY <1>1, <2>1 DEF PublicationSound, ManifestIsGrounded, Publishing
  <1>11. ReaderSound' /\ AnswersAreCleared'
    BY <1>1, <1>4, ReaderKeeps
  <1>12. TypeOK'
    <2>1. (\A a \in Attempt : attempt[a].pc # "idle" =>
             attempt[a].evidence \subseteq evidence /\ attempt[a].trail \subseteq trail)'
      BY <1>1 DEF TypeOK
    <2>2. cited \subseteq ids(evidence')
      BY <1>1 DEF TypeOK, ids
    <2> QED BY <1>1, <1>2, <1>4, <2>1, <2>2 DEF TypeOK
  <1> QED BY <1>1, <1>6, <1>7, <1>8, <1>9, <1>10, <1>11, <1>12

\* A read changes nothing but the request.
LEMMA ReadStep ==
    ASSUME IInv, UNCHANGED <<stage, crew, stores, attempt>>, ReaderSound', AnswersAreCleared'
    PROVE  IInv'
  <1> USE DEF IInv, crew, stores
  <1>1. TypeOK' /\ attempt' = [a \in Attempt |-> attempt'[a]]
    BY DEF TypeOK
  <1>2. EvidenceSound' /\ LedgerSound'
    BY EvidenceKeeps DEF LedgerSound, EvidenceSound
  <1>3. CitedSound' /\ FindingsSound'
    BY ContentKeeps
  <1>4. TrailSound' /\ \A a \in Attempt : AttemptSound(a)'
    BY DEF TrailSound, AttemptSound, Collected, Publishing
  <1>5. PublicationSound' /\ ManifestIsGrounded'
    BY DEF PublicationSound, ManifestIsGrounded, Publishing, Named
  <1> QED BY <1>1, <1>2, <1>3, <1>4, <1>5

\* Every answer, and every request begun, is within what the reader is cleared for.
LEMMA ReadsKeep ==
    ASSUME NEW k \in Clearance, IInv,
           \/ GetEvidence(k) \/ GetInvocations(k) \/ BeginFindings(k)
           \/ \E route \in {"report", "manifest"} : BeginArtifact(route, k)
    PROVE  IInv'
  <1> USE DEF IInv
  <1>1. CASE GetEvidence(k)
    <2> DEFINE shown == {r \in evidence : clearance_covers(k, r.access_class)}
    <2>1. /\ reader' = [at |-> "answered", route |-> "evidence", clearance |-> k, content |-> shown]
          /\ UNCHANGED <<stage, crew, stores, attempt>>
      BY <1>1 DEF GetEvidence, Answer
    <2>2. \A r \in shown : clearance_covers(k, r.access_class)
      OBVIOUS
    <2> HIDE DEF shown
    <2>3. ReaderSound' /\ AnswersAreCleared'
      BY <2>1, <2>2 DEF ReaderSound, AnswersAreCleared, Cleared
    <2> QED BY <2>1, <2>3, ReadStep
  <1>2. CASE GetInvocations(k)
    <2> DEFINE shown == {i \in trail : clearance_covers(k, CapabilityOf[Audited(i)].access_class)}
    <2>1. /\ reader' = [at |-> "answered", route |-> "invocations", clearance |-> k, content |-> shown]
          /\ UNCHANGED <<stage, crew, stores, attempt>>
      BY <1>2 DEF GetInvocations, Answer
    <2>2. shown \subseteq trail
      OBVIOUS
    <2>3. ASSUME NEW i \in shown
          PROVE  clearance_covers(k, CapabilityOf[Audited(i)'].access_class)
      <3>1. Audited(i)' = Audited(i)
        BY <2>1 DEF Audited, stores
      <3> QED BY <3>1
    <2> HIDE DEF shown
    <2>4. ReaderSound' /\ AnswersAreCleared'
      BY <2>1, <2>2, <2>3 DEF ReaderSound, AnswersAreCleared, stores
    <2> QED BY <2>1, <2>4, ReadStep
  <1>3. CASE BeginFindings(k)
    <2>1. /\ reader' = [at |-> "findings", clearance |-> k, read |-> findings]
          /\ UNCHANGED <<stage, crew, stores, attempt>>
      BY <1>3 DEF BeginFindings
    <2>2. \A f \in findings : f.supporting \cup f.contradicting \subseteq ids(evidence)
      BY DEF FindingsSound, RecordedIsJudged, ids, Collected
    <2>3. ReaderSound' /\ AnswersAreCleared'
      BY <2>1, <2>2 DEF ReaderSound, AnswersAreCleared, stores
    <2> QED BY <2>1, <2>3, ReadStep
  <1>4. ASSUME NEW route \in {"report", "manifest"}, BeginArtifact(route, k) PROVE IInv'
    <2>1. /\ reader' = [at |-> route, clearance |-> k] /\ publication # None
          /\ UNCHANGED <<stage, crew, stores, attempt>>
      BY <1>4 DEF BeginArtifact, published
    <2>2. ASSUME route = "report", NEW r \in Named(cited)
          PROVE  clearance_covers(k, r.access_class)
      <3>1. clearance_covers(k, publication.report_access_class)
        BY <1>4, <2>2 DEF BeginArtifact, require_clearance
      <3>2. clearance_covers(publication.report_access_class, r.access_class)
        BY <2>1, <2>2 DEF PublicationSound
      <3>3. /\ k \in AccessClass /\ publication.report_access_class \in AccessClass
            /\ r.access_class \in AccessClass
        <4>1. r \in Evidence
          BY <2>2 DEF Named, TypeOK
        <4> QED BY <2>1, <4>1, RecordsHaveClasses, RecordAssumption DEF TypeOK
      <3> QED BY <3>1, <3>2, <3>3, CoversIsTransitive
    <2>3. reader'.at = route /\ reader'.clearance = k
      BY <2>1
    <2>4. (reader.at = "report" => Cleared(Named(cited)))'
      BY <2>1, <2>2, <2>3 DEF Cleared, Named, crew, stores
    <2>5. ReaderSound' /\ AnswersAreCleared'
      BY <2>1, <2>3, <2>4 DEF ReaderSound, AnswersAreCleared, stores
    <2> QED BY <2>1, <2>5, ReadStep
  <1> QED BY <1>1, <1>2, <1>3, <1>4

\* Findings read first are withheld by the evidence read next, which names all they rest on.
LEMMA GetFindingsKeeps == IInv /\ GetFindings => IInv'
  <1> SUFFICES ASSUME IInv, GetFindings PROVE IInv'
    OBVIOUS
  <1> USE DEF IInv
  <1> DEFINE hidden == ids({e \in evidence : ~clearance_covers(reader.clearance, e.access_class)})
             shown  == {f \in reader.read : hidden \cap RestsOn(f) = {}}
  <1>1. /\ reader.at = "findings"
        /\ reader' = [at |-> "answered", route |-> "findings", clearance |-> reader.clearance,
                      content |-> shown]
        /\ UNCHANGED <<stage, crew, stores, attempt>>
    BY DEF GetFindings, Answer
  <1>2. ASSUME NEW f \in shown
        PROVE  /\ f.supporting \cup f.contradicting \subseteq ids(evidence)
               /\ \A r \in evidence : r.id \in f.supporting \cup f.contradicting
                    => clearance_covers(reader.clearance, r.access_class)
    <2>1. f \in reader.read /\ hidden \cap (f.supporting \cup f.contradicting) = {}
      BY DEF RestsOn
    <2>2. \A r \in evidence : ~clearance_covers(reader.clearance, r.access_class) => r.id \in hidden
      BY DEF ids
    <2> HIDE DEF hidden
    <2> QED BY <1>1, <2>1, <2>2 DEF ReaderSound
  <1> HIDE DEF shown
  <1>3. /\ reader'.at = "answered" /\ reader'.route = "findings" /\ reader'.content = shown
        /\ reader'.clearance = reader.clearance /\ evidence' = evidence
    BY <1>1 DEF stores
  <1>4. ReaderSound'
    BY <1>2, <1>3 DEF ReaderSound
  <1>5. AnswersAreCleared'
    <2>1. \A f \in reader'.content : Cleared(Named(f.supporting \cup f.contradicting))'
      BY <1>2, <1>3 DEF Cleared, Named
    <2> QED BY <1>3, <2>1 DEF AnswersAreCleared
  <1> QED BY <1>1, <1>4, <1>5, ReadStep

\* Whichever report is stored by now, it cites what the reader was cleared for.
LEMMA GetArtifactKeeps == IInv /\ GetArtifact => IInv'
  <1> SUFFICES ASSUME IInv, GetArtifact PROVE IInv'
    OBVIOUS
  <1> USE DEF IInv
  <1>1. /\ reader.at \in {"report", "manifest"} /\ publication # None
        /\ reader' = [at |-> "answered", route |-> reader.at, clearance |-> reader.clearance,
                      content |-> artifacts[reader.at]]
        /\ UNCHANGED <<stage, crew, stores, attempt>>
    BY DEF GetArtifact, Answer, ReaderSound
  <1>2. /\ reader'.at = "answered" /\ reader'.route = reader.at
        /\ reader'.clearance = reader.clearance /\ evidence' = evidence
        /\ reader'.content = artifacts[reader.at]
    BY <1>1 DEF stores
  <1>3. CASE reader.at = "report"
    <2>1. reader'.content.cited = cited
      BY <1>1, <1>2, <1>3 DEF PublicationSound
    <2>2. Cleared(Named(cited)) /\ cited \subseteq ids(evidence)
      BY <1>3 DEF ReaderSound, TypeOK
    <2>3. ReaderSound'
      BY <1>2, <1>3, <2>1, <2>2 DEF ReaderSound
    <2>4. Cleared(Named(reader.content.cited))'
      BY <1>2, <2>1, <2>2 DEF Cleared, Named
    <2>5. AnswersAreCleared'
      BY <1>2, <1>3, <2>4 DEF AnswersAreCleared
    <2> QED BY <1>1, <2>3, <2>5, ReadStep
  <1>4. CASE reader.at = "manifest"
    <2>1. ReaderSound' /\ AnswersAreCleared'
      BY <1>2, <1>4 DEF ReaderSound, AnswersAreCleared
    <2> QED BY <1>1, <2>1, ReadStep
  <1> QED BY <1>1, <1>3, <1>4

\* An answer delivered leaves no request.
LEMMA DeliveredKeeps == IInv /\ Delivered => IInv'
  <1> SUFFICES ASSUME IInv, Delivered PROVE IInv'
    OBVIOUS
  <1>1. reader'.at = "idle" /\ UNCHANGED <<stage, crew, stores, attempt>>
    BY DEF Delivered
  <1>2. ReaderSound' /\ AnswersAreCleared'
    BY <1>1 DEF ReaderSound, AnswersAreCleared
  <1> QED BY <1>1, <1>2, ReadStep

-----------------------------------------------------------------------------
(* Every step, and what follows.                                           *)

\* The record stays sound whatever step comes next.
LEMMA StepIInv == IInv /\ [Next]_vars => IInv'
  <1> SUFFICES ASSUME IInv, [Next]_vars PROVE IInv'
    OBVIOUS
  <1>1. CASE Answers
    <2>1. ASSUME NEW plan, PlanAccepted(plan) PROVE IInv'
      BY <2>1, PlanAcceptedKeeps
    <2>2. ASSUME NEW claims \in SUBSET [call : Call \cup {NoCall}, excerpt : Excerpt],
                 ClaimsAccepted(claims)
          PROVE  IInv'
      BY <2>2, ClaimsAcceptedKeeps
    <2>3. ASSUME NEW a, AnalysisAccepted(a) PROVE IInv'
      BY <2>3, AnalysisAcceptedKeeps
    <2>4. ASSUME NEW n \in 0..MaxVerdicts, NEW g \in BOOLEAN,
                 NEW vs \in [1..n -> [claim : Claim, verdict : Verdict, conflicting : SUBSET Ids]],
                 ReviewAccepted(vs, g)
          PROVE  IInv'
      <3>1. n \in Nat /\ DOMAIN vs = 1..n
        OBVIOUS
      <3> QED BY <2>4, <3>1, ReviewAcceptedKeeps
    <2>5. ASSUME NEW report, ReportAccepted(report) PROVE IInv'
      BY <2>5, ReportAcceptedKeeps
    <2> QED BY <1>1, <2>1, <2>2, <2>3, <2>4, <2>5, RefusedKeeps DEF Answers
  <1>2. CASE Work
    BY <1>2, ToolCallKeeps, ResearchRetriedKeeps, AddEvidenceKeeps, ReviewedKeeps DEF Work
  <1>3. CASE \E a \in Attempt : Publish(a)
    BY <1>3, PublishBeginsKeeps, ListInvocationsKeeps, PutReportKeeps, PutManifestKeeps,
       SkipSourceKeeps, CheckSourceKeeps, RecordPublicationKeeps DEF Publish
  <1>4. CASE Routes
    BY <1>4, AttachEvidenceKeeps, ReadsKeep, GetFindingsKeeps, GetArtifactKeeps, DeliveredKeeps
       DEF Routes
  <1>5. CASE UNCHANGED vars
    <2>1. UNCHANGED <<stage, crew, stores, attempt>> /\ UNCHANGED reader
      BY <1>5 DEF vars
    <2>2. ReaderSound' /\ AnswersAreCleared'
      BY <2>1, ReaderKeeps DEF IInv, TypeOK, crew, stores
    <2> QED BY <2>1, <2>2, ReadStep
  <1> QED BY <1>1, <1>2, <1>3, <1>4, <1>5 DEF Next

\* The record is sound always.
LEMMA RecordIsSound == Spec => []IInv
  BY InitIInv, StepIInv, PTL DEF Spec

\* Evidence is of its type and named once, the report cites recorded evidence, and an
\* attempt of publish_report works from records and calls that are stored.
THEOREM TypeCorrect == Spec => []TypeOK
  <1>1. IInv => TypeOK
    BY DEF IInv
  <1> QED BY <1>1, RecordIsSound, PTL

\* Whatever the analyst and the critic answer, every finding stored is one the Finding model
\* accepts, is judged, and rests on collected evidence.  (derive_findings, check_review)
THEOREM FindingsAreJudged == Spec => []RecordedIsJudged
  <1>1. IInv => RecordedIsJudged
    BY DEF IInv, FindingsSound
  <1> QED BY <1>1, RecordIsSound, PTL

\* No route discloses to a reader more than their clearance covers, however its reads
\* interleave with the research, with attached evidence and with attempts of publish_report.
THEOREM ReadersAreCleared == Spec => []AnswersAreCleared
  <1>1. IInv => AnswersAreCleared
    BY DEF IInv
  <1> QED BY <1>1, RecordIsSound, PTL

\* However many attempts of publish_report overlap, the manifest stored accounts for the
\* report and counts none of its own re-reads as research.
THEOREM ManifestsAreGrounded == Spec => []ManifestIsGrounded
  <1>1. IInv => ManifestIsGrounded
    BY DEF IInv
  <1> QED BY <1>1, RecordIsSound, PTL

\* Only three steps store evidence or choose what is cited.
LEMMA WhoStores ==
    ASSUME [Next]_vars
    PROVE  \/ UNCHANGED <<evidence, cited>>
           \/ \E r \in submitted : AddEvidence(r)
           \/ \E class \in HandClasses : AttachEvidence(class)
           \/ \E report : ReportAccepted(report)
  <1> USE DEF crew, stores
  <1>1. CASE Answers
    BY <1>1 DEF Answers, PlanAccepted, ClaimsAccepted, AnalysisAccepted, ReviewAccepted, Refused
  <1>2. CASE Work
    BY <1>2 DEF Work, ToolCall, ResearchRetried, Reviewed
  <1>3. CASE \E a \in Attempt : Publish(a)
    BY <1>3 DEF Publish, PublishBegins, ListInvocations, PutReport, PutManifest, SkipSource,
                CheckSource, RecordPublication
  <1>4. CASE Routes
    BY <1>4 DEF Routes, GetEvidence, GetInvocations, BeginFindings, BeginArtifact, GetFindings,
                GetArtifact, Delivered
  <1> QED BY <1>1, <1>2, <1>3, <1>4 DEF Next, vars

\* Only an accepted submission hands records over, and only of calls in its own ledger.
LEMMA WhoSubmits ==
    ASSUME [Next]_vars
    PROVE  \A r \in submitted' \ submitted : r.call \in ledger
  <1> USE DEF crew, stores
  <1>1. CASE Answers
    <2>1. ASSUME NEW claims, ClaimsAccepted(claims)
          PROVE  \A r \in submitted' : r.call \in ledger
      BY <2>1 DEF ClaimsAccepted, verify_claims, EvidenceRecordCreate
    <2> QED BY <1>1, <2>1 DEF Answers, PlanAccepted, AnalysisAccepted, ReviewAccepted,
                              ReportAccepted, Refused
  <1>2. CASE Work
    BY <1>2 DEF Work, ToolCall, ResearchRetried, Reviewed, AddEvidence, AttachEvidence
  <1>3. CASE \E a \in Attempt : Publish(a)
    BY <1>3 DEF Publish, PublishBegins, ListInvocations, PutReport, PutManifest, SkipSource,
                CheckSource, RecordPublication
  <1>4. CASE Routes
    BY <1>4 DEF Routes, GetEvidence, GetInvocations, BeginFindings, BeginArtifact, GetFindings,
                GetArtifact, Delivered, AttachEvidence
  <1> QED BY <1>1, <1>2, <1>3, <1>4 DEF Next, vars

\* No step takes evidence over from an attempt that was replaced, or stores evidence that
\* its call did not return or under another class than its capability's, unless as
\* unverified; and none makes the report cite evidence not collected or not publishable.
\* (research_task, verify_claims, add_evidence, check_report)
THEOREM EvidenceAlwaysTraced == Spec => EvidenceIsTraced
  <1> DEFINE Traced ==
        /\ \A r \in submitted' \ submitted : r.call \in ledger
        /\ \A r \in evidence' \ evidence :
             \/ r.trust_level = "unverified"
             \/ r.id \in returned[r.call] /\ r.access_class = CapabilityOf[r.call].access_class
        /\ \A i \in cited' : \E r \in evidence :
             r.id = i /\ r.trust_level # "unverified" /\ is_publishable(r)
  <1>1. IInv /\ [Next]_vars => Traced
    <2> SUFFICES ASSUME IInv, [Next]_vars PROVE Traced
      OBVIOUS
    <2>1. \A i \in cited : \E r \in evidence :
            r.id = i /\ r.trust_level # "unverified" /\ is_publishable(r)
      BY DEF IInv, CitedSound, Collected
    <2>s. \A r \in submitted' \ submitted : r.call \in ledger
      BY WhoSubmits
    <2>2. CASE UNCHANGED <<evidence, cited>>
      BY <2>1, <2>2, <2>s
    <2>3. ASSUME NEW r \in submitted, AddEvidence(r) PROVE Traced
      <3>1. evidence' = evidence \cup {r} /\ cited' = cited
        BY <2>3 DEF AddEvidence, add_evidence
      <3>2. r.id \in returned[r.call] /\ r.access_class = CapabilityOf[r.call].access_class
        BY <2>3 DEF IInv, EvidenceSound, Sourced
      <3> QED BY <2>1, <2>s, <3>1, <3>2
    <2>4. ASSUME NEW class \in HandClasses, AttachEvidence(class) PROVE Traced
      <3>1. \A r \in evidence' \ evidence : r.trust_level = "unverified"
        BY <2>4 DEF AttachEvidence, add_evidence
      <3>2. cited' = cited
        BY <2>4 DEF AttachEvidence, crew
      <3> QED BY <2>1, <2>s, <3>1, <3>2
    <2>5. ASSUME NEW report, ReportAccepted(report) PROVE Traced
      <3>1. evidence' = evidence /\ cited' = cited_evidence_ids(report)
        BY <2>5 DEF ReportAccepted, stores
      <3>2. cited' \subseteq ids({r \in Collected : is_publishable(r)})
        BY <2>5, <3>1 DEF ReportAccepted, check_report
      <3>3. \A i \in cited' : \E r \in evidence :
              r.id = i /\ r.trust_level # "unverified" /\ is_publishable(r)
        BY <3>2 DEF ids, Collected
      <3> QED BY <2>s, <3>1, <3>3
    <2> HIDE DEF Traced
    <2> QED BY <2>2, <2>3, <2>4, <2>5, WhoStores
  <1>2. EvidenceIsTraced <=> [][Traced]_vars
    BY DEF EvidenceIsTraced
  <1> HIDE DEF Traced
  <1> QED BY <1>1, <1>2, RecordIsSound, PTL DEF Spec
=============================================================================
