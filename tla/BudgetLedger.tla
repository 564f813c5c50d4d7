-------------------------- MODULE BudgetLedger --------------------------
(***************************************************************************)
(* What one research job has spent (mcp/breaker.py), and its copy in Redis *)
(* (persistence/redis_state.py), against the agent calls that spend it     *)
(* (workflow/activities.py, _ask): the researchers of a plan work at the   *)
(* same time, each checks the ledger before it starts and is added to it   *)
(* when it has finished, and claims its tool calls one by one in between.  *)
(*                                                                         *)
(* The ledger's operations are atomic (a lock, or one Redis script).       *)
(* Tokens, cost and working time are counted alike and are Meters here;    *)
(* the counts no limit refers to are left out.                             *)
(***************************************************************************)
EXTENDS Integers, FiniteSets

CONSTANTS AgentCall,      \* agent calls of one job that may run at the same time
          Meter,          \* tokens, cost and seconds
          Limit,          \* the budget of each meter
          MaxToolCalls,   \* budget.max_tool_calls
          MaxSpend,       \* bound: what one agent call adds to a meter
          MaxParks,       \* bound: how often the job is parked for a reviewer
          UsageShared          \* TRUE: the counts are in Redis; FALSE: in this process

ASSUME LedgerAssumption ==
    /\ IsFiniteSet(AgentCall)
    /\ Limit \in [Meter -> Nat \ {0}]
    /\ MaxToolCalls \in Nat \ {0}
    /\ MaxSpend \in Nat
    /\ MaxParks \in Nat
    /\ UsageShared \in BOOLEAN

VARIABLES
    tool_calls,  \* JobUsage.tool_calls
    spent,       \* JobUsage: what each meter shows
    running,     \* agent calls between their check and their record
    parked,      \* the job waits for a reviewer
    parks,       \* how often it has
    claimed      \* history: tool calls the ledger has let the job make

ledgerVars == <<tool_calls, spent, running, parked, parks, claimed>>

LedgerTypeOK ==
    /\ tool_calls \in 0..MaxToolCalls
    /\ spent \in [Meter -> Nat]
    /\ running \subseteq AgentCall
    /\ parked \in BOOLEAN
    /\ parks \in 0..MaxParks
    /\ claimed \in Nat

LedgerInit ==
    /\ tool_calls = 0 /\ spent = [m \in Meter |-> 0]
    /\ running = {} /\ parked = FALSE /\ parks = 0 /\ claimed = 0

-----------------------------------------------------------------------------
\* Mutant: only the first limit is checked.
WithinBudget_any(usage) == \E m \in Meter : usage[m] < Limit[m]

\* ensure_within does not raise.
WithinBudget(usage) == \A m \in Meter : usage[m] < Limit[m]

\* _ask, up to the model being called.
ensure_within(a) ==
    /\ ~parked /\ a \notin running
    /\ WithinBudget(spent)
    /\ running' = running \cup {a}
    /\ UNCHANGED <<tool_calls, spent, parked, parks, claimed>>

\* The allowance is not spent.
Unclaimed(n) == n < MaxToolCalls

\* A tool an agent uses, or a source publish_report reads again, is claimed before the
\* call is made; neither happens while the job is parked.
reserve_call ==
    /\ ~parked
    /\ Unclaimed(tool_calls)
    /\ tool_calls' = tool_calls + 1
    /\ claimed' = claimed + 1
    /\ UNCHANGED <<spent, running, parked, parks>>

\* The call ended, well or badly, and what it spent is added to the job's total.
record_agent_call(a, cost) ==
    /\ a \in running
    /\ running' = running \ {a}
    /\ spent' = [m \in Meter |-> spent[m] + cost[m]]
    /\ UNCHANGED <<tool_calls, parked, parks, claimed>>

\* The worker died in the call, or Redis could not be reached to record it.
RecordLost(a) ==
    /\ a \in running
    /\ running' = running \ {a}
    /\ UNCHANGED <<tool_calls, spent, parked, parks, claimed>>

\* The workflow waits for a reviewer, with no agent at work, and for no set time.
Park ==
    /\ ~parked /\ running = {} /\ parks < MaxParks
    /\ parked' = TRUE /\ parks' = parks + 1
    /\ UNCHANGED <<tool_calls, spent, running, claimed>>

\* The reviewer asks for more research, or approves and the report is written.
Resume ==
    /\ parked
    /\ parked' = FALSE
    /\ UNCHANGED <<tool_calls, spent, running, parks, claimed>>

\* Mutant: the expiry is not refreshed, so a job at work loses its count.
UsageExpires_at_work ==
    /\ UsageShared
    /\ tool_calls' = 0 /\ spent' = [m \in Meter |-> 0]
    /\ UNCHANGED <<running, parked, parks, claimed>>

\* USAGE_TTL has passed since anything was added: only a parked job is idle so long.
UsageExpires ==
    /\ UsageShared /\ parked
    /\ tool_calls' = 0 /\ spent' = [m \in Meter |-> 0]
    /\ UNCHANGED <<running, parked, parks, claimed>>

LedgerNext ==
    \/ \E a \in AgentCall :
         \/ ensure_within(a) \/ RecordLost(a)
         \/ \E cost \in [Meter -> 0..MaxSpend] : record_agent_call(a, cost)
    \/ reserve_call \/ Park \/ Resume \/ UsageExpires

LedgerSpec == LedgerInit /\ [][LedgerNext]_ledgerVars
-----------------------------------------------------------------------------
\* Counts that expire in a review give the job its allowance again, but only once for
\* each time it was parked: while it is at work every claim it makes stays counted
\* (USAGE_TTL is refreshed by every write).
ClaimsFitTheBudget == claimed <= tool_calls + MaxToolCalls * parks

\* However many agents pass the check together, what they can still add is bounded:
\* a meter ends short of its limit plus one call for each of them.
OvershootIsBounded ==
    \A m \in Meter :
        spent[m] + MaxSpend * Cardinality(running)
            < Limit[m] + MaxSpend * Cardinality(AgentCall)

\* BudgetLedger's comment: tool calls are claimed before a call is made, "so that
\* budget is never exceeded"; and USAGE_TTL's: the counts are kept "Long enough to
\* outlast a job parked for a reviewer".
BudgetNeverExceeded == claimed <= MaxToolCalls
=============================================================================
