--------------------- MODULE BreakerAndLedgerProofs ---------------------
(***************************************************************************)
(* The two governors of mcp/breaker.py, which redis_state.py shares among  *)
(* workers: the breaker's counting for every threshold, cooldown and       *)
(* number of overlapping calls, and the ledger's limits for every budget,  *)
(* any number of agents at once and any cost of a call.  They have no      *)
(* state in common.                                                        *)
(***************************************************************************)
EXTENDS CircuitBreaker, BudgetLedger, FiniteSetTheorems, TLAPS

-----------------------------------------------------------------------------
(* The breaker.  Its three invariants are inductive together: the bound on  *)
(* late failures needs to know that a circuit still closed has counted less *)
(* than the threshold, and that the failure which opens it is one call      *)
(* fewer under way.                                                         *)

\* TripsAtThreshold, of one circuit.
Trips(c) == (c.state = CLOSED) <=> (c.failures < FailureThreshold)

BreakerInv == TypeOK /\ TripsAtThreshold /\ LateFailuresAreBounded

\* What _refresh returns: the same counts, and not closed unless it was.
LEMMA RefreshedOps ==
    ASSUME NEW c \in Circuit, Trips(c)
    PROVE  /\ Refreshed(c) \in Circuit
           /\ Trips(Refreshed(c))
           /\ Refreshed(c).failures = c.failures
           /\ Refreshed(c).state = OPEN => c.state = OPEN /\ c.rest > 0
  BY BreakerAssumption
  DEF Circuit, Refreshed, Trips, CLOSED, OPEN, HALF_OPEN, BreakerAssumption

\* What record_failure stores: the count of failures passes the threshold only in a
\* circuit that was resting already.
LEMMA FailedOps ==
    ASSUME NEW c \in Circuit, Trips(c)
    PROVE  /\ Failed(c) \in Circuit
           /\ Trips(Failed(c))
           /\ \/ Failed(c).failures <= FailureThreshold
              \/ c.state = OPEN /\ c.rest > 0 /\ Failed(c).failures = c.failures + 1
<1> DEFINE r == Refreshed(c)
<1>1. r \in Circuit /\ Trips(r) /\ r.failures = c.failures
      /\ (r.state = OPEN => c.state = OPEN /\ c.rest > 0)
  BY RefreshedOps
<1>2. FailureThreshold \in Nat /\ FailureThreshold >= 1 /\ Cooldown \in 0..Cooldown
  BY BreakerAssumption DEF BreakerAssumption
<1>3. Failed(c) = IF r.state = HALF_OPEN
                  THEN [failures |-> FailureThreshold, state |-> OPEN, rest |-> Cooldown]
                  ELSE IF r.failures + 1 < FailureThreshold
                       THEN [r EXCEPT !.failures = r.failures + 1]
                       ELSE [failures |-> r.failures + 1, state |-> OPEN, rest |-> Cooldown]
  BY DEF Failed
<1> HIDE DEF r
<1> QED
  BY <1>1, <1>2, <1>3 DEF Circuit, Trips, CLOSED, OPEN, HALF_OPEN

\* What record_success stores, and what a server starts with: a closed circuit.
LEMMA NewCircuitOps == NewCircuit \in Circuit /\ Trips(NewCircuit) /\ NewCircuit.state = CLOSED
  BY BreakerAssumption DEF NewCircuit, Circuit, Trips, CLOSED, BreakerAssumption

\* Before any call every circuit is new, and the invariant holds.
LEMMA BreakerStarts == Init => BreakerInv
  BY NewCircuitOps, BreakerAssumption
  DEF Init, BreakerInv, TypeOK, TripsAtThreshold, LateFailuresAreBounded, Trips, CLOSED, OPEN,
      BreakerAssumption

\* The invariant's two claims about one server.
Sound(s) ==
    /\ Trips(circuit[s])
    /\ circuit[s].state = OPEN /\ circuit[s].rest > 0 =>
         circuit[s].failures + inFlight[s] < FailureThreshold + MaxInFlight

\* The invariant speaks of every server by itself, so a step on one server's circuit
\* is judged on that circuit alone.
LEMMA BreakerInvIsSound == BreakerInv <=> TypeOK /\ \A s \in Server : Sound(s)
  BY DEF BreakerInv, TripsAtThreshold, LateFailuresAreBounded, Sound, Trips

\* Admissions, outcomes, expiring keys and the clock all keep the invariant.
LEMMA BreakerSteps == BreakerInv /\ [Next]_vars => BreakerInv'
<1> SUFFICES ASSUME BreakerInv, [Next]_vars PROVE BreakerInv'
  OBVIOUS
<1>1. TypeOK /\ \A s \in Server : Sound(s)
  BY BreakerInvIsSound
<1>2. SUFFICES TypeOK' /\ \A t \in Server : Sound(t)'
  BY DEF BreakerInv, TripsAtThreshold, LateFailuresAreBounded, Sound, Trips
<1>3. FailureThreshold \in Nat \ {0} /\ MaxInFlight \in Nat \ {0} /\ Cooldown \in Nat
  BY BreakerAssumption DEF BreakerAssumption
<1>4. \A s \in Server : circuit[s] \in Circuit /\ inFlight[s] \in 0..MaxInFlight /\ Trips(circuit[s])
  BY <1>1 DEF TypeOK, Sound
<1>5. CASE \E s \in Server : ensure_closed(s)
  <2> PICK s \in Server : ensure_closed(s)
    BY <1>5
  <2>1. circuit' = [circuit EXCEPT ![s] = Refreshed(circuit[s])]
        /\ inFlight' = [inFlight EXCEPT ![s] = inFlight[s] + 1]
        /\ inFlight[s] < MaxInFlight /\ Refreshed(circuit[s]).state # OPEN
    BY DEF ensure_closed, Admits
  <2>2. Refreshed(circuit[s]) \in Circuit /\ Trips(Refreshed(circuit[s]))
    BY <1>4, RefreshedOps
  <2>3. TypeOK'
    BY <1>1, <1>3, <1>4, <2>1, <2>2 DEF TypeOK
  <2>4. \A t \in Server : Sound(t)'
    BY <1>1, <2>1, <2>2 DEF Sound, Trips, TypeOK
  <2> QED BY <2>3, <2>4
<1>6. CASE \E s \in Server : record_success(s) \/ record_failure(s) \/ Unrecorded(s)
  <2> PICK s \in Server : record_success(s) \/ record_failure(s) \/ Unrecorded(s)
    BY <1>6
  <2> DEFINE c == circuit[s]
  <2>1. PICK x : /\ circuit' = [circuit EXCEPT ![s] = x]
                 /\ x = NewCircuit \/ x = Failed(c) \/ x = c
    <3>1. circuit = [circuit EXCEPT ![s] = c]
      BY <1>1 DEF TypeOK
    <3> QED BY <3>1 DEF record_success, record_failure, Unrecorded
  <2>2. inFlight' = [inFlight EXCEPT ![s] = inFlight[s] - 1] /\ inFlight[s] > 0
    BY DEF record_success, record_failure, Unrecorded, Ends
  <2>3. /\ x \in Circuit /\ Trips(x)
        /\ \/ x.state = CLOSED \/ x = c \/ x.failures <= FailureThreshold
           \/ c.state = OPEN /\ c.rest > 0 /\ x.failures = c.failures + 1
    BY <1>4, <2>1, NewCircuitOps, FailedOps
  <2>4. TypeOK'
    BY <1>1, <1>3, <1>4, <2>1, <2>2, <2>3 DEF TypeOK
  <2>5. circuit'[s] = x /\ inFlight'[s] = inFlight[s] - 1
    BY <1>1, <2>1, <2>2 DEF TypeOK
  <2>6. Sound(s)'
    <3>1. c \in Circuit /\ inFlight[s] \in 0..MaxInFlight /\ Sound(s)
      BY <1>1, <1>4
    <3> QED BY <1>3, <2>2, <2>3, <2>5, <3>1 DEF Sound, Trips, Circuit, OPEN, CLOSED
  <2>7. \A t \in Server \ {s} : circuit'[t] = circuit[t] /\ inFlight'[t] = inFlight[t]
    BY <1>1, <2>1, <2>2 DEF TypeOK
  <2> QED BY <1>1, <2>4, <2>6, <2>7 DEF Sound, Trips
<1>7. CASE \E s \in Server : Expire(s)
  BY <1>1, <1>7, NewCircuitOps DEF Expire, Sound, Trips, TypeOK, OPEN, CLOSED
<1>8. CASE Tick
  <2>1. \A t \in Server : /\ circuit'[t] \in Circuit
                          /\ circuit'[t].state = circuit[t].state
                          /\ circuit'[t].failures = circuit[t].failures
                          /\ circuit'[t].rest > 0 => circuit[t].rest > 0
    BY <1>3, <1>4, <1>8 DEF Tick, Circuit
  <2>2. TypeOK'
    BY <1>1, <1>8, <2>1 DEF TypeOK, Tick
  <2> QED BY <1>1, <1>8, <2>1, <2>2 DEF Sound, Trips, Tick
<1>9. CASE UNCHANGED vars
  BY <1>1, <1>9 DEF vars, TypeOK, Sound, Trips
<1> QED BY <1>5, <1>6, <1>7, <1>8, <1>9 DEF Next

\* The invariant holds in every state of the breaker.
LEMMA BreakerInductive == Spec => []BreakerInv
  BY BreakerStarts, BreakerSteps, PTL DEF Spec

\* A circuit is away from closed exactly when its failures reach the threshold.
THEOREM CircuitsTripAtThreshold == Spec => []TripsAtThreshold
  BY BreakerInductive, PTL DEF BreakerInv

\* A resting server gets no new call: failures beyond the threshold were under way.
THEOREM LateFailuresStayBounded == Spec => []LateFailuresAreBounded
  BY BreakerInductive, PTL DEF BreakerInv

\* The circuits and the calls in flight keep their types.
THEOREM BreakerTypeCorrect == Spec => []TypeOK
  BY BreakerInductive, PTL DEF BreakerInv

-----------------------------------------------------------------------------
(* The ledger.  OvershootIsBounded is inductive because it counts the calls *)
(* under way as if each had already spent the most it can: a call that      *)
(* starts finds every meter short of its limit, one that ends trades its    *)
(* reservation for what it spent.  ClaimsFitTheBudget survives an expiry    *)
(* because a parked job has no call under way, and all it claimed fits its  *)
(* parks already.                                                           *)

\* What the job's parks may have renewed of its allowance.
Renewed == MaxToolCalls * parks

LedgerInv ==
    /\ LedgerTypeOK
    /\ OvershootIsBounded
    /\ claimed <= tool_calls + Renewed
    /\ parked => running = {} /\ claimed <= Renewed
    /\ ~UsageShared => claimed = tool_calls

\* The number of calls under way is a natural number, at most that of all of them.
LEMMA RunningIsFinite ==
    ASSUME NEW S, S \subseteq AgentCall
    PROVE  /\ IsFiniteSet(S) /\ Cardinality(S) \in Nat /\ Cardinality(AgentCall) \in Nat
           /\ Cardinality(S) <= Cardinality(AgentCall)
  BY LedgerAssumption, FS_Subset, FS_CardinalityType DEF LedgerAssumption

\* What the calls under way can still spend, when one starts and when one ends.
LEMMA StartedAndEnded ==
    ASSUME NEW S, S \subseteq AgentCall, NEW a \in AgentCall
    PROVE  /\ MaxSpend * Cardinality(S) <= MaxSpend * Cardinality(AgentCall)
           /\ a \in S => MaxSpend * Cardinality(S \ {a}) = MaxSpend * Cardinality(S) - MaxSpend
<1>1. MaxSpend \in Nat
  BY LedgerAssumption DEF LedgerAssumption
<1>2. /\ IsFiniteSet(S) /\ Cardinality(S) \in Nat /\ Cardinality(AgentCall) \in Nat
      /\ Cardinality(S) <= Cardinality(AgentCall)
  BY RunningIsFinite
<1>3. a \in S => Cardinality(S \ {a}) = Cardinality(S) - 1
  BY <1>2, FS_RemoveElement
<1>4. \A m, n, k \in Nat : n <= k => m * n <= m * k
  BY SMT
<1>5. \A m, n \in Int : m * (n - 1) = m * n - m
  BY SMT
<1> QED BY <1>1, <1>2, <1>3, <1>4, <1>5

\* A job that has spent nothing satisfies the invariant (a fresh JobUsage).
LEMMA LedgerStarts == LedgerInit => LedgerInv
<1> SUFFICES ASSUME LedgerInit PROVE LedgerInv
  OBVIOUS
<1>1. /\ MaxToolCalls \in Nat \ {0} /\ MaxSpend \in Nat /\ MaxParks \in Nat
      /\ Limit \in [Meter -> Nat \ {0}]
  BY LedgerAssumption DEF LedgerAssumption
<1>2. Cardinality(running) = 0 /\ Cardinality(AgentCall) \in Nat
  BY RunningIsFinite, FS_EmptySet DEF LedgerInit
<1>3. MaxSpend * 0 = 0 /\ MaxSpend * Cardinality(AgentCall) \in Nat /\ MaxToolCalls * 0 = 0
  BY <1>1, <1>2, SMT
<1>4. OvershootIsBounded
  BY <1>1, <1>2, <1>3 DEF LedgerInit, OvershootIsBounded
<1>5. LedgerTypeOK
  <2>1. parked \in BOOLEAN /\ running \subseteq AgentCall
    BY Zenon DEF LedgerInit
  <2>2. tool_calls = 0 /\ parks = 0 /\ claimed = 0 /\ spent = [m \in Meter |-> 0]
    BY DEF LedgerInit
  <2>3. spent \in [Meter -> Nat]
    BY <2>2
  <2>4. tool_calls \in 0..MaxToolCalls /\ parks \in 0..MaxParks /\ claimed \in Nat
    BY <1>1, <2>2
  <2> QED BY <2>1, <2>3, <2>4 DEF LedgerTypeOK
<1>6. claimed <= tool_calls + Renewed
  BY <1>1, <1>3 DEF LedgerInit, Renewed
<1> QED BY <1>4, <1>5, <1>6 DEF LedgerInit, LedgerInv

\* The invariant is kept by every step.
LEMMA LedgerSteps == LedgerInv /\ [LedgerNext]_ledgerVars => LedgerInv'
<1> SUFFICES ASSUME LedgerInv, [LedgerNext]_ledgerVars PROVE LedgerInv'
  OBVIOUS
<1>1. /\ MaxToolCalls \in Nat \ {0} /\ MaxSpend \in Nat /\ MaxParks \in Nat
      /\ Limit \in [Meter -> Nat \ {0}]
  BY LedgerAssumption DEF LedgerAssumption
<1>2. /\ Cardinality(AgentCall) \in Nat /\ Cardinality(running) \in Nat
      /\ running \subseteq AgentCall /\ spent \in [Meter -> Nat] /\ parks \in Nat
  BY RunningIsFinite DEF LedgerInv, LedgerTypeOK
<1>3. ASSUME NEW a \in AgentCall, ensure_within(a) PROVE LedgerInv'
  <2>1. running' \subseteq AgentCall
    BY <1>2, <1>3 DEF ensure_within
  <2>2. MaxSpend * Cardinality(running') <= MaxSpend * Cardinality(AgentCall)
    BY <2>1, StartedAndEnded
  <2>3. OvershootIsBounded'
    <3>1. /\ Cardinality(running') \in Nat /\ spent' = spent
          /\ \A m \in Meter : spent[m] < Limit[m]
      BY <2>1, <1>3, RunningIsFinite DEF ensure_within, WithinBudget
    <3>2. MaxSpend * Cardinality(running') \in Nat /\ MaxSpend * Cardinality(AgentCall) \in Nat
      BY <1>1, <1>2, <3>1, SMT
    <3> QED BY <1>1, <1>2, <2>2, <3>1, <3>2 DEF OvershootIsBounded
  <2>4. LedgerTypeOK'
    BY <1>3, <2>1 DEF LedgerInv, LedgerTypeOK, ensure_within
  <2> QED BY <1>3, <2>3, <2>4 DEF LedgerInv, ensure_within, Renewed
<1>4. ASSUME reserve_call PROVE LedgerInv'
  <2>1. LedgerTypeOK'
    BY <1>1, <1>4 DEF LedgerInv, LedgerTypeOK, reserve_call, Unclaimed
  <2>2. OvershootIsBounded'
    BY <1>4 DEF LedgerInv, OvershootIsBounded, reserve_call
  <2>3. Renewed \in Nat /\ Renewed' = Renewed
    BY <1>1, <1>2, <1>4, SMT DEF Renewed, reserve_call
  <2> QED BY <1>4, <2>1, <2>2, <2>3 DEF LedgerInv, LedgerTypeOK, reserve_call
<1>5. ASSUME NEW a \in AgentCall, a \in running, running' = running \ {a},
             NEW cost \in [Meter -> 0..MaxSpend],
             spent' = spent \/ spent' = [m \in Meter |-> spent[m] + cost[m]],
             UNCHANGED <<tool_calls, parked, parks, claimed>>
      PROVE  LedgerInv'
  <2>1. LedgerTypeOK'
    BY <1>2, <1>5 DEF LedgerInv, LedgerTypeOK
  <2>2. MaxSpend * Cardinality(running') = MaxSpend * Cardinality(running) - MaxSpend
    BY <1>2, <1>5, StartedAndEnded
  <2>3. \A m \in Meter : spent'[m] \in Nat /\ spent'[m] <= spent[m] + MaxSpend
    BY <1>1, <1>2, <1>5
  <2>4. MaxSpend * Cardinality(running) \in Nat /\ MaxSpend * Cardinality(AgentCall) \in Nat
    BY <1>1, <1>2, SMT
  <2>5. OvershootIsBounded'
    BY <1>1, <1>2, <2>2, <2>3, <2>4 DEF LedgerInv, OvershootIsBounded
  <2> QED BY <1>5, <2>1, <2>5 DEF LedgerInv, Renewed
<1>6. CASE Park
  <2>1. Renewed \in Nat /\ Renewed' = Renewed + MaxToolCalls
    <3>1. parks' = parks + 1
      BY <1>6 DEF Park
    <3>2. \A m, n \in Nat : m * (n + 1) = m * n + m /\ m * n \in Nat
      BY SMT
    <3> QED BY <1>1, <1>2, <3>1, <3>2 DEF Renewed
  <2>2. LedgerTypeOK' /\ OvershootIsBounded'
    BY <1>1, <1>2, <1>6 DEF Park, LedgerInv, LedgerTypeOK, OvershootIsBounded
  <2>3. claimed <= Renewed' /\ claimed <= tool_calls + Renewed'
    BY <1>1, <2>1 DEF LedgerInv, LedgerTypeOK
  <2> QED BY <1>6, <2>2, <2>3 DEF LedgerInv, Park
<1>7. CASE Resume
  BY <1>7 DEF Resume, LedgerInv, LedgerTypeOK, OvershootIsBounded, Renewed
<1>8. CASE UsageExpires
  <2>1. LedgerTypeOK'
    BY <1>1, <1>8 DEF UsageExpires, LedgerInv, LedgerTypeOK
  <2>2. OvershootIsBounded'
    <3>1. \A m \in Meter : spent'[m] = 0 /\ spent[m] >= 0 /\ running' = running
      BY <1>2, <1>8 DEF UsageExpires
    <3>2. MaxSpend * Cardinality(running) \in Nat /\ MaxSpend * Cardinality(AgentCall) \in Nat
      BY <1>1, <1>2, SMT
    <3> QED BY <1>1, <1>2, <3>1, <3>2 DEF LedgerInv, OvershootIsBounded
  <2>3. Renewed' = Renewed /\ claimed' <= tool_calls' + Renewed'
    <3>1. Renewed \in Nat
      BY <1>1, <1>2, SMT DEF Renewed
    <3> QED BY <1>8, <3>1 DEF LedgerInv, LedgerTypeOK, UsageExpires, Renewed
  <2> QED BY <1>8, <2>1, <2>2, <2>3 DEF LedgerInv, UsageExpires
<1>9. CASE UNCHANGED ledgerVars
  BY <1>9 DEF ledgerVars, LedgerInv, LedgerTypeOK, OvershootIsBounded, Renewed
<1>10. ASSUME NEW a \in AgentCall, RecordLost(a) PROVE LedgerInv'
  <2>1. [m \in Meter |-> 0] \in [Meter -> 0..MaxSpend]
    BY <1>1
  <2> QED BY <1>5, <1>10, <2>1 DEF RecordLost
<1>11. ASSUME NEW a \in AgentCall, NEW cost \in [Meter -> 0..MaxSpend],
              record_agent_call(a, cost)
       PROVE  LedgerInv'
  BY <1>5, <1>11 DEF record_agent_call
<1> QED BY <1>3, <1>4, <1>6, <1>7, <1>8, <1>9, <1>10, <1>11 DEF LedgerNext

\* The invariant holds in every state of the ledger.
LEMMA LedgerInductive == LedgerSpec => []LedgerInv
  BY LedgerStarts, LedgerSteps, PTL DEF LedgerSpec

\* The counts and the calls under way keep their types.
THEOREM LedgerTypeCorrect == LedgerSpec => []LedgerTypeOK
  BY LedgerInductive, PTL DEF LedgerInv

\* Parallel agents overshoot a limit by at most one call each, whatever a call costs.
THEOREM OvershootStaysBounded == LedgerSpec => []OvershootIsBounded
  BY LedgerInductive, PTL DEF LedgerInv

\* Counts that expire renew the allowance at most once for each review.
THEOREM ClaimsStayCounted == LedgerSpec => []ClaimsFitTheBudget
  BY LedgerInductive, PTL DEF LedgerInv, ClaimsFitTheBudget, Renewed

\* Kept in the worker's own process, the counts never let a job exceed its budget.
THEOREM BudgetKeptInProcess == ASSUME ~UsageShared PROVE LedgerSpec => []BudgetNeverExceeded
<1>1. LedgerInv => BudgetNeverExceeded
  BY LedgerAssumption DEF LedgerInv, LedgerTypeOK, BudgetNeverExceeded, LedgerAssumption
<1> QED BY <1>1, LedgerInductive, PTL
=============================================================================
