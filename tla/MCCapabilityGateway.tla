---------------------- MODULE MCCapabilityGateway -----------------------
(* CapabilityGateway on small instances: a tool the administrator cannot    *)
(* see, and an action with side effects registered for the administrator    *)
(* and, by mistake, for an agent too.                                       *)
EXTENDS CapabilityGateway, TLC

ReadAndAct ==
    { [key |-> <<"web", "fetch">>, required_roles |-> {"reviewer"},
       allowed_agents |-> {"researcher"}, max_access_class |-> "public",
       side_effecting |-> FALSE, requires_approval |-> FALSE,
       tenant_scope |-> {ALL_TENANTS}],
      [key |-> <<"web", "act">>, required_roles |-> {"administrator"},
       allowed_agents |-> {"researcher"}, max_access_class |-> "internal",
       side_effecting |-> TRUE, requires_approval |-> TRUE,
       tenant_scope |-> Tenant] }

ReadOnly == {c \in ReadAndAct : ~c.side_effecting}

Agent(role, clearance) ==
    [tenant_id |-> CHOOSE t \in Tenant : TRUE, roles |-> {}, agent_role |-> role,
     clearance |-> clearance]

Administrator ==
    [tenant_id |-> CHOOSE t \in Tenant : TRUE, roles |-> {"administrator"},
     agent_role |-> Policy!NoAgent, clearance |-> "restricted"]

Everyone == {Agent("researcher", "internal"), Administrator}

Researchers == {Agent("researcher", "internal")}

Interchangeable == Permutations(Call)
=============================================================================
