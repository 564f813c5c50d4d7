------------------------- MODULE MCAccessPolicy -------------------------
(* AccessPolicy on small instances: the catalogue, or every boundary there *)
(* is over two tenants, two roles and two agents, one registered at a time. *)
EXTENDS AccessPolicy

AnyBoundary ==
    {c \in [key : {<<"server", "name">>}, required_roles : SUBSET {"requester", "administrator"},
            allowed_agents : SUBSET {"planner", "analyst"}, max_access_class : AccessClass,
            side_effecting : BOOLEAN, requires_approval : BOOLEAN,
            tenant_scope : SUBSET (Tenant \cup {ALL_TENANTS})] : WellFormed(c)}
=============================================================================
