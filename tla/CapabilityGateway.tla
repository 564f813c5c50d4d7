------------------------ MODULE CapabilityGateway -----------------------
(***************************************************************************)
(* The one path to the MCP servers (mcp/gateway.py): every call of a job   *)
(* is authorized, metered, sent and recorded here, by several threads at   *)
(* once.  It composes the access policy (AccessPolicy), the job's tool     *)
(* call budget (BudgetLedger) and the circuit breaker (CircuitBreaker).    *)
(*                                                                         *)
(* The registry's verdict is a function of the call.  The bundle's comes   *)
(* from the Open Policy Agent, which may not answer, and whose version the *)
(* engine keeps in a field all calls share (mcp/opa.py).                   *)
(***************************************************************************)
EXTENDS Naturals, FiniteSets

CONSTANTS Call,              \* calls made for one job, by any of its agents
          Caller,            \* the principals they are made for
          Catalogue,         \* the registered capabilities
          Tenant, ALL_TENANTS,
          BundleVersion,     \* policy versions the Open Policy Agent may serve
          MaxToolCalls,      \* budget.max_tool_calls
          FailureThreshold, Cooldown

ASSUME GatewayAssumption ==
    /\ IsFiniteSet(Call)
    /\ MaxToolCalls \in Nat \ {0}
    /\ FailureThreshold \in Nat \ {0} /\ Cooldown \in Nat \ {0}

VARIABLES
    call,        \* what each call asks, what was decided on it, where it is in invoke
    opa,         \* OpaPolicyEngine._policy_version, shared
    tool_calls,  \* the ledger's count for the job
    circuit,     \* the breaker's circuits
    sent,        \* history: calls that left for a server
    trail        \* audit records stored

vars == <<call, opa, tool_calls, circuit, sent, trail>>

Policy == INSTANCE AccessPolicy WITH registry <- Catalogue, Candidate <- Catalogue

Server == {Policy!ServerOf(k) : k \in Catalogue}

At(c, step) == call[c].pc = step
ServerAsked(c) == Policy!ServerOf(call[c].capability)

\* Calls between ensure_closed and the outcome recorded in the breaker.
InFlight ==
    [s \in Server |-> Cardinality({c \in Call : At(c, "execute") /\ ServerAsked(c) = s})]

Breaker == INSTANCE CircuitBreaker WITH
               inFlight <- InFlight, MaxInFlight <- Cardinality(Call), Shared <- TRUE

UNAVAILABLE_VERSION == "opa-unavailable"
Versions == BundleVersion \cup {UNAVAILABLE_VERSION}

Active  == {"policy", "verdict", "reserve", "breaker", "execute", "observe"}
Ended   == {"not_found", "crashed", "returned"}
Outcome == {"denied", "failed", "succeeded"}

Idle == [pc |-> "idle"]

\* A call under way.  approved: its approval passes authorize; decider: the version the
\* bundle's answer came with; version: policy_version in its audit context.
Invocation ==
    [pc : Active \cup Ended, by : Caller, capability : Catalogue, approved : BOOLEAN,
     allowed : BOOLEAN, decider : Versions, version : Versions,
     decision : {"allow", "deny"}, outcome : Outcome]

NoRecord == [outcome |-> "none"]
Record   == [decision : {"allow", "deny"}, outcome : Outcome, version : Versions]

TypeOK ==
    /\ call \in [Call -> Invocation \cup {Idle}]
    /\ opa \in Versions
    /\ tool_calls \in 0..MaxToolCalls
    /\ circuit \in [Server -> Breaker!Circuit]
    /\ sent \subseteq Call
    /\ trail \in [Call -> Record \cup {NoRecord}]

Init ==
    /\ call = [c \in Call |-> Idle]
    /\ opa = UNAVAILABLE_VERSION
    /\ tool_calls = 0
    /\ circuit = [s \in Server |-> Breaker!NewCircuit]
    /\ sent = {}
    /\ trail = [c \in Call |-> NoRecord]

-----------------------------------------------------------------------------
Goto(c, step) == call' = [call EXCEPT ![c].pc = step]

\* audit.denied: the call is refused, and only a policy verdict is a denial of access.
Refuse(c, decision) ==
    call' = [call EXCEPT ![c].pc = "observe", ![c].decision = decision,
                         ![c].outcome = "denied"]

\* What the caller may not see is reported as missing.
resolve_for(p, k) == Policy!is_visible_to(k, p)

\* invoke, up to resolve_for.  An approval the capability does not require is never looked
\* at, so none is passed; the version read here is replaced in Decide before any record is
\* made, so it is a fixed one.
Invoke(c, p, k, approved) ==
    /\ call[c] = Idle
    /\ approved => k.requires_approval
    /\ call' = [call EXCEPT ![c] =
         [pc |-> IF resolve_for(p, k) THEN "policy" ELSE "not_found",
          by |-> p, capability |-> k, approved |-> approved, allowed |-> FALSE,
          decider |-> UNAVAILABLE_VERSION, version |-> UNAVAILABLE_VERSION,
          decision |-> "allow", outcome |-> "failed"]]
    /\ UNCHANGED <<opa, tool_calls, circuit, sent, trail>>

\* Mutant: an authorization service that does not answer leaves the registry to decide.
Verdict_fails_open(c, v) ==
    LET i == call[c] IN
    /\ Policy!RegistryAllows(i.capability, i.by)
    /\ v = UNAVAILABLE_VERSION \/ Policy!BundleAllows(i.capability, i.by)

\* AllOfPolicyEngine: both engines permit it, and one that does not answer does not.
Verdict(c, v) ==
    LET i == call[c] IN
    /\ Policy!RegistryAllows(i.capability, i.by)
    /\ v # UNAVAILABLE_VERSION /\ Policy!BundleAllows(i.capability, i.by)

\* Both engines are asked; the answer's version, or its absence, is left in the engine.
Evaluate(c, v) ==
    /\ At(c, "policy")
    /\ opa' = v
    /\ call' = [call EXCEPT ![c].pc = "verdict", ![c].decider = v,
                            ![c].allowed = Verdict(c, v)]
    /\ UNCHANGED <<tool_calls, circuit, sent, trail>>

\* _check_approval.
Approved(c) == call[c].capability.requires_approval => call[c].approved

\* The decision is given the version the engine shows by now, and acted on.
Decide(c) ==
    /\ At(c, "verdict")
    /\ LET allow == call[c].allowed /\ Approved(c) IN
       call' = [call EXCEPT ![c].version = opa,
                            ![c].pc = IF allow THEN "reserve" ELSE "observe",
                            ![c].decision = IF allow THEN "allow" ELSE "deny",
                            ![c].outcome = IF allow THEN "failed" ELSE "denied"]
    /\ UNCHANGED <<opa, tool_calls, circuit, sent, trail>>

-----------------------------------------------------------------------------
\* Mutant: the budget is checked, and the call not counted.
Claim_unwritten(n) == n

\* reserve_call's count once a call is claimed.
Claim(n) == n + 1

\* Mutant: the last call of the budget is claimed twice over.
Affordable_off_by_one(n) == n <= MaxToolCalls

Affordable(n) == n < MaxToolCalls

Reserve(c) ==
    /\ At(c, "reserve") /\ Affordable(tool_calls)
    /\ tool_calls' = Claim(tool_calls)
    /\ Goto(c, "breaker")
    /\ UNCHANGED <<opa, circuit, sent, trail>>

\* The budget is spent, or the store that counts it cannot be reached.
ReserveRefused(c) ==
    /\ At(c, "reserve")
    /\ Refuse(c, "allow")
    /\ UNCHANGED <<opa, tool_calls, circuit, sent, trail>>

\* Mutant: the breaker is not asked.
Admitted_unasked(c) == TRUE

Admitted(c) == Breaker!Admits(circuit[ServerAsked(c)])

\* ensure_closed passes, and the executor has the call.
EnsureClosed(c) ==
    /\ At(c, "breaker") /\ Admitted(c)
    /\ circuit' = [circuit EXCEPT ![ServerAsked(c)] = Breaker!Refreshed(@)]
    /\ Goto(c, "execute")
    /\ UNCHANGED <<opa, tool_calls, sent, trail>>

\* The circuit is open, or the store that keeps it cannot be reached.
EnsureClosedRefused(c) ==
    /\ At(c, "breaker")
    /\ Refuse(c, "allow")
    /\ UNCHANGED <<opa, tool_calls, circuit, sent, trail>>

\* The executor knows the server, has a token for it, and the call leaves.
Send(c) ==
    /\ At(c, "execute") /\ c \notin sent
    /\ sent' = sent \cup {c}
    /\ UNCHANGED <<call, opa, tool_calls, circuit, trail>>

\* The server answers.  A result cut to max_result_bytes is a failure of the call, not
\* of the server; the breaker's own record of it may be lost.
Answered(c, truncated, recorded) ==
    /\ At(c, "execute") /\ c \in sent
    /\ circuit' = IF recorded
                  THEN [circuit EXCEPT ![ServerAsked(c)] = Breaker!NewCircuit] ELSE circuit
    /\ call' = [call EXCEPT ![c].pc = "observe",
                            ![c].outcome = IF truncated THEN "failed" ELSE "succeeded"]
    /\ UNCHANGED <<opa, tool_calls, sent, trail>>

\* UpstreamError: the server fails, refuses or does not answer in time, or nothing was
\* sent to it: the executor does not know it, could not connect, or obtained no token.
Failed(c, recorded) ==
    /\ At(c, "execute")
    /\ circuit' = IF recorded
                  THEN [circuit EXCEPT ![ServerAsked(c)] = Breaker!Failed(@)] ELSE circuit
    /\ call' = [call EXCEPT ![c].pc = "observe", ![c].outcome = "failed"]
    /\ UNCHANGED <<opa, tool_calls, sent, trail>>

\* Mutant: every record is an authorized call that failed.
RecordOf_undecided(c) ==
    [decision |-> "allow", outcome |-> call[c].outcome, version |-> call[c].version]

RecordOf(c) ==
    [decision |-> call[c].decision, outcome |-> call[c].outcome, version |-> call[c].version]

\* _observe: the record goes to the sink, whose failure changes nothing else.
Observe(c, stored) ==
    /\ At(c, "observe")
    /\ trail' = IF stored THEN [trail EXCEPT ![c] = RecordOf(c)] ELSE trail
    /\ Goto(c, "returned")
    /\ UNCHANGED <<opa, tool_calls, circuit, sent>>

\* The worker dies in the middle of a call.
Crash(c) ==
    /\ call[c].pc \in Active
    /\ Goto(c, "crashed")
    /\ UNCHANGED <<opa, tool_calls, circuit, sent, trail>>

\* A cooldown runs down.
Tick ==
    /\ UNCHANGED <<call, opa, tool_calls, sent, trail>>
    /\ Breaker!Tick

\* A circuit's Redis key expires.
Expire(s) ==
    /\ UNCHANGED <<call, opa, tool_calls, sent, trail>>
    /\ Breaker!Expire(s)

Next ==
    \/ \E c \in Call :
         \/ \E p \in Caller, k \in Catalogue, ok \in BOOLEAN : Invoke(c, p, k, ok)
         \/ \E v \in Versions : Evaluate(c, v)
         \/ Decide(c) \/ Reserve(c) \/ ReserveRefused(c) \/ EnsureClosed(c)
         \/ EnsureClosedRefused(c) \/ Send(c)
         \/ \E recorded \in BOOLEAN :
              \/ Failed(c, recorded)
              \/ \E truncated \in BOOLEAN : Answered(c, truncated, recorded)
         \/ \E stored \in BOOLEAN : Observe(c, stored)
         \/ Crash(c)
    \/ \E s \in Server : Expire(s)
    \/ Tick

Spec == Init /\ [][Next]_vars
-----------------------------------------------------------------------------
\* Whatever left for a server was visible to its caller, permitted by both engines, and
\* approved if it has to be; so no agent has caused an external side effect.
SentWasPermitted ==
    \A c \in sent :
        LET i == call[c] IN
        /\ Policy!Allowed(i.capability, i.by)
        /\ i.capability.requires_approval => i.approved
        /\ i.capability.side_effecting => i.by.agent_role = Policy!NoAgent

\* Every call that left for a server, or is about to, holds its own claim on the budget,
\* through crashes and lost stores; the claims fit the budget.
SentIsClaimed ==
    /\ Cardinality(sent \cup {c \in Call : At(c, "breaker") \/ At(c, "execute")}) <= tool_calls
    /\ tool_calls <= MaxToolCalls

\* An audit record tells what happened: it says denied only of calls that reached no
\* server and succeeded only of calls that did, and puts down to access policy exactly
\* those the policy or a missing approval stopped, not those a budget, a circuit or a
\* store did.
TrailIsTrue ==
    \A c \in Call : trail[c] # NoRecord =>
        /\ trail[c].outcome = "denied" => c \notin sent
        /\ trail[c].outcome = "succeeded" => c \in sent
        /\ (trail[c].decision = "deny") <=> ~(call[c].allowed /\ Approved(c))

\* The doc of InvocationOutcome: "FAILED means the call reached the server and did not
\* succeed".  It does not hold: Failed may end a call that was not sent.
FailedReachedItsServer ==
    \A c \in Call : trail[c] # NoRecord /\ trail[c].outcome = "failed" => c \in sent

\* Seen from its circuits, the gateway is a client the breaker's specification covers:
\* it sends nothing past an open circuit, and counts each outcome once (the safety part
\* of the breaker's specification; its fairness is the clock's).
UsesBreaker == Breaker!Init /\ [][Breaker!Next]_(Breaker!vars)

\* authz.rego: the version is "reported back in every audit record, so a decision can be
\* traced to the policy that made it".
RecordNamesItsPolicy ==
    \A c \in Call : trail[c] # NoRecord => trail[c].version = call[c].decider
=============================================================================
