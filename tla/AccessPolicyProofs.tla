----------------------- MODULE AccessPolicyProofs -----------------------
(***************************************************************************)
(* The registry's boundary and the policy bundle's agree on every          *)
(* capability that can be registered and every principal, not only on      *)
(* those a run enumerates.  That only well-formed capabilities are ever    *)
(* registered is the invariant the rest follows from.                      *)
(***************************************************************************)
EXTENDS AccessPolicy, TLAPS

\* The two ways of asking whether a principal holds a role the capability names.
LEMMA SomeRoleIsHeld ==
    ASSUME NEW c, NEW p
    PROVE  has_any_role(p, c.required_roles) <=> \E role \in p.roles : role \in c.required_roles
  BY DEF has_any_role

\* The bundle permits what the registry permits, side effects by agents excepted.
LEMMA BundleAgrees ==
    ASSUME NEW c, NEW p, c.side_effecting \in BOOLEAN
    PROVE  BundleAllows(c, p) <=>
               RegistryAllows(c, p) /\ ~(p.agent_role # NoAgent /\ c.side_effecting)
<1>1. is_executable_by(c, p) <=>
        /\ is_available_to_tenant(c, p)
        /\ clearance_covers(p.clearance, c.max_access_class)
        /\ p.agent_role # NoAgent => p.agent_role \in c.allowed_agents
        /\ p.agent_role = NoAgent => has_any_role(p, c.required_roles)
  BY DEF is_executable_by, is_visible_to
<1> QED
  BY <1>1, SomeRoleIsHeld
  DEF BundleAllows, RegistryAllows, is_available_to_tenant, clearance_covers

\* Only candidates are registered, each under a name of its own.
THEOREM TypeCorrect == Spec => []TypeOK
<1>1. Init => TypeOK
  BY DEF Init, TypeOK
<1>2. TypeOK /\ [Next]_registry => TypeOK'
  BY DEF TypeOK, Next, register
<1> QED BY <1>1, <1>2, PTL DEF Spec

\* Whatever is registered, registry and bundle draw one boundary.
THEOREM OneBoundary == Spec => []BundleAgreesWithRegistry
<1>1. TypeOK => BundleAgreesWithRegistry
  <2> SUFFICES ASSUME TypeOK, NEW c \in registry, NEW p \in Principal
               PROVE  BundleAllows(c, p) <=>
                        RegistryAllows(c, p) /\ ~(p.agent_role # NoAgent /\ c.side_effecting)
    BY DEF BundleAgreesWithRegistry
  <2>1. c.side_effecting \in BOOLEAN
    BY PolicyAssumption DEF TypeOK, PolicyAssumption, Boundary
  <2> QED BY <2>1, BundleAgrees
<1> QED BY <1>1, TypeCorrect, PTL

\* An agent's tools are the capabilities the engine would let it use.
THEOREM ToolsAreTheRegistrys == Spec => []ToolsTrackTheRegistry
<1>1. ToolsTrackTheRegistry
  BY DEF ToolsTrackTheRegistry, Tools, RegistryAllows, is_executable_by, is_visible_to
<1> QED BY <1>1, PTL
=============================================================================
