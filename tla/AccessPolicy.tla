-------------------------- MODULE AccessPolicy --------------------------
(***************************************************************************)
(* Who may see and use which MCP capability: the registry and its policy   *)
(* engine (mcp/registry.py, mcp/policy.py), the Open Policy Agent bundle   *)
(* (policy/research/authz.rego), and the tools an agent is handed          *)
(* (agents/tools.py).  The registry and the bundle state one boundary      *)
(* twice, in two languages; a call needs both.                             *)
(***************************************************************************)
EXTENDS Naturals

CONSTANTS Tenant,      \* tenant identifiers
          ALL_TENANTS, \* "*"
          Candidate    \* capabilities an administrator may register

VARIABLE registry      \* CapabilityRegistry._capabilities

Role      == {"requester", "reviewer", "administrator"}
AgentRole == {"planner", "researcher", "analyst", "critic", "reporter"}
NoAgent   == "none"    \* agent_role is None

METADATA_ONLY_AGENTS == {"planner"}

AccessClass == {"public", "internal", "restricted"}

\* ACCESS_CLASS_RANK, and the bundle's own rank.
Rank(class) == CASE class = "public"   -> 0
                 [] class = "internal" -> 1
                 [] OTHER              -> 2

Principal == [tenant_id : Tenant, roles : SUBSET Role,
              agent_role : AgentRole \cup {NoAgent}, clearance : AccessClass]

\* The server a capability's key <<server, name>> names.
ServerOf(c) == c.key[1]

\* Capability: only one that passes its validators can be built.
WellFormed(c) == (c.side_effecting => c.requires_approval) /\ c.tenant_scope # {}

Boundary(key) ==
    [key : key, required_roles : SUBSET Role, allowed_agents : SUBSET AgentRole,
     max_access_class : AccessClass, side_effecting : BOOLEAN,
     requires_approval : BOOLEAN, tenant_scope : SUBSET (Tenant \cup {ALL_TENANTS})]

ASSUME PolicyAssumption ==
    /\ ALL_TENANTS \notin Tenant
    /\ Candidate \subseteq Boundary({c.key : c \in Candidate})
    /\ \A c \in Candidate : WellFormed(c)

TypeOK ==
    /\ registry \subseteq Candidate
    /\ \A c, d \in registry : c.key = d.key => c = d

-----------------------------------------------------------------------------
(* The registry.                                                           *)

is_available_to_tenant(c, p) == ALL_TENANTS \in c.tenant_scope \/ p.tenant_id \in c.tenant_scope

\* Mutant: the comparison is the wrong way round.
clearance_covers_swapped(clearance, required) == Rank(required) >= Rank(clearance)

clearance_covers(clearance, required) == Rank(clearance) >= Rank(required)

has_any_role(p, roles) == p.roles \cap roles # {}

is_visible_to(c, p) ==
    /\ is_available_to_tenant(c, p)
    /\ clearance_covers(p.clearance, c.max_access_class)
    /\ IF p.agent_role # NoAgent
       THEN p.agent_role \in c.allowed_agents \cup METADATA_ONLY_AGENTS
       ELSE has_any_role(p, c.required_roles)

is_executable_by(c, p) ==
    /\ is_visible_to(c, p)
    /\ IF p.agent_role # NoAgent THEN p.agent_role \in c.allowed_agents
                                 ELSE has_any_role(p, c.required_roles)

\* RegistryPolicyEngine.evaluate.
RegistryAllows(c, p) ==
    /\ is_available_to_tenant(c, p)
    /\ clearance_covers(p.clearance, c.max_access_class)
    /\ is_executable_by(c, p)

\* Mutant: a second registration under one name is kept beside the first.
register_again(c) == registry' = registry \cup {c}

\* register: a name is registered once.
register(c) ==
    /\ c.key \notin {r.key : r \in registry}
    /\ registry' = registry \cup {c}

-----------------------------------------------------------------------------
\* The bundle: no deny rule of authz.rego applies.  A principal always has a tenant and
\* the request always names its capability, so those two rules never do.
BundleAllows(c, p) ==
    /\ ALL_TENANTS \in c.tenant_scope \/ p.tenant_id \in c.tenant_scope
    /\ Rank(p.clearance) >= Rank(c.max_access_class)
    /\ p.agent_role # NoAgent => p.agent_role \in c.allowed_agents
    /\ p.agent_role = NoAgent => \E role \in p.roles : role \in c.required_roles
    /\ ~(p.agent_role # NoAgent /\ c.side_effecting)

\* AllOfPolicyEngine over both.
Allowed(c, p) == RegistryAllows(c, p) /\ BundleAllows(c, p)

\* Mutant: every capability the agent may see is handed to it.
Tools_visible(p) == {c \in registry : is_visible_to(c, p)}

\* build_agent_tools: the capabilities an agent is handed as tools.
Tools(p) == {c \in registry : is_visible_to(c, p) /\ is_executable_by(c, p)}

\* no_approval, the only approval provider a worker is given.
ProvidesApproval(c) == FALSE

\* The gateway's verdict on a tool call before it meters it.
Refuses(c, p) == ~Allowed(c, p) \/ (c.requires_approval /\ ~ProvidesApproval(c))

-----------------------------------------------------------------------------
(* DEFAULT_CAPABILITIES: every tenant's, and for people every role's but   *)
(* the last one's.                                                         *)

Offered(key, agents, class, approval) ==
    [key |-> key, required_roles |-> Role, allowed_agents |-> agents,
     max_access_class |-> class, side_effecting |-> FALSE,
     requires_approval |-> approval, tenant_scope |-> {ALL_TENANTS}]

EVIDENCE_READERS == {"critic", "reporter"}

DEFAULT_CAPABILITIES ==
    { Offered(<<"web-research", "search">>, {"researcher"}, "public", FALSE),
      Offered(<<"web-research", "fetch">>, {"researcher"}, "public", FALSE),
      Offered(<<"filesystem", "list_workspace">>, {"researcher"}, "internal", FALSE),
      Offered(<<"filesystem", "read_document">>, {"researcher"} \cup EVIDENCE_READERS, "internal", FALSE),
      Offered(<<"postgres", "describe_schema">>, {"researcher", "analyst"}, "internal", FALSE),
      Offered(<<"postgres", "run_analytical_query">>, {"analyst"}, "restricted", TRUE),
      Offered(<<"github", "read_repository">>, {"researcher"}, "internal", FALSE),
      Offered(<<"github", "read_pull_requests">>, {"researcher"}, "internal", FALSE),
      Offered(<<"python-analysis", "run_calculation">>, {"analyst"}, "public", FALSE),
      Offered(<<"evidence", "retrieve">>, EVIDENCE_READERS \cup {"analyst"}, "internal", FALSE),
      [Offered(<<"registry", "reload_policy">>, {}, "restricted", TRUE)
         EXCEPT !.required_roles = {"administrator"}, !.side_effecting = TRUE] }

Init == registry = {}

Next == \E c \in Candidate : register(c)

Spec == Init /\ [][Next]_registry
-----------------------------------------------------------------------------
\* Whatever is registered, the bundle never permits what the registry refuses, and it
\* narrows the registry in one way only: side effects by agents.
BundleAgreesWithRegistry ==
    \A c \in registry, p \in Principal :
        BundleAllows(c, p) <=>
            RegistryAllows(c, p) /\ ~(p.agent_role # NoAgent /\ c.side_effecting)

\* build_agent_tools filters what discovery shows an agent; the engine decides again
\* when the tool is used.  The two agree: "tool availability tracks the registry
\* exactly", so no tool in hand is refused for want of tenant, clearance or role, and
\* none the agent could use is withheld.
ToolsTrackTheRegistry ==
    \A p \in Principal : Tools(p) = {c \in registry : RegistryAllows(c, p)}

\* build_agent_tools' comment: "a capability the gateway would refuse is never offered
\* to the agent".
OfferedIsNotRefused ==
    \A p \in Principal : p.agent_role # NoAgent => \A c \in Tools(p) : ~Refuses(c, p)
=============================================================================
