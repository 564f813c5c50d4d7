------------------------- MODULE CircuitBreaker -------------------------
(***************************************************************************)
(* The breaker that rests a failing MCP server (mcp/breaker.py), and its   *)
(* copy shared by every worker through Redis (persistence/redis_state.py). *)
(* Each of its operations runs under a lock, or as one Redis script, so    *)
(* each is one step; the calls it guards overlap, and report their         *)
(* outcome whenever they end.                                              *)
(*                                                                         *)
(* Time is kept as what is left of each server's cooldown: opened_at is    *)
(* only ever compared with now - cooldown.                                 *)
(***************************************************************************)
EXTENDS Naturals

CONSTANTS Server,            \* MCP servers
          FailureThreshold,  \* failure_threshold
          Cooldown,          \* cooldown, in ticks
          MaxInFlight,       \* bound: calls to one server at a time
          Shared             \* TRUE: the state is in Redis; FALSE: in this process

ASSUME BreakerAssumption ==
    /\ FailureThreshold \in Nat \ {0}
    /\ Cooldown \in Nat \ {0}
    /\ MaxInFlight \in Nat \ {0}
    /\ Shared \in BOOLEAN

VARIABLES circuit,   \* the circuit of each server
          inFlight   \* calls sent to each server that have not ended

vars == <<circuit, inFlight>>

CLOSED    == "closed"
OPEN      == "open"
HALF_OPEN == "half_open"

\* _Circuit, with opened_at as the cooldown left.
Circuit == [failures : Nat, state : {CLOSED, OPEN, HALF_OPEN}, rest : 0..Cooldown]

NewCircuit == [failures |-> 0, state |-> CLOSED, rest |-> 0]

TypeOK ==
    /\ circuit \in [Server -> Circuit]
    /\ inFlight \in [Server -> 0..MaxInFlight]

Init ==
    /\ circuit = [s \in Server |-> NewCircuit]
    /\ inFlight = [s \in Server |-> 0]

-----------------------------------------------------------------------------
\* Mutant: the cooldown is never compared with the clock.
Refreshed_never(c) == c

\* _refresh: an open circuit whose cooldown is over is half open.
Refreshed(c) ==
    IF c.state = OPEN /\ c.rest = 0 THEN [c EXCEPT !.state = HALF_OPEN] ELSE c

\* Mutant: a call is let through while the server rests.
Admits_resting(c) == TRUE

\* ensure_closed does not raise.
Admits(c) == Refreshed(c).state # OPEN

\* Mutant: a failed probe restarts the count below the threshold.
Failed_forgets(c) ==
    LET r == Refreshed(c) IN
    IF r.state = HALF_OPEN THEN [failures |-> 1, state |-> OPEN, rest |-> Cooldown]
    ELSE IF r.failures + 1 < FailureThreshold THEN [r EXCEPT !.failures = @ + 1]
    ELSE [failures |-> r.failures + 1, state |-> OPEN, rest |-> Cooldown]

\* The circuit record_failure stores: a failed probe reopens it, and so does the
\* failure that reaches the threshold; one more while it is open extends its rest.
Failed(c) ==
    LET r == Refreshed(c) IN
    IF r.state = HALF_OPEN
    THEN [failures |-> FailureThreshold, state |-> OPEN, rest |-> Cooldown]
    ELSE IF r.failures + 1 < FailureThreshold THEN [r EXCEPT !.failures = @ + 1]
    ELSE [failures |-> r.failures + 1, state |-> OPEN, rest |-> Cooldown]

-----------------------------------------------------------------------------
\* ensure_closed lets a call go to the server.
ensure_closed(s) ==
    /\ Admits(circuit[s]) /\ inFlight[s] < MaxInFlight
    /\ circuit' = [circuit EXCEPT ![s] = Refreshed(@)]
    /\ inFlight' = [inFlight EXCEPT ![s] = @ + 1]

Ends(s) == inFlight[s] > 0 /\ inFlight' = [inFlight EXCEPT ![s] = @ - 1]

record_success(s) == Ends(s) /\ circuit' = [circuit EXCEPT ![s] = NewCircuit]

record_failure(s) == Ends(s) /\ circuit' = [circuit EXCEPT ![s] = Failed(@)]

\* The outcome is not recorded: Redis could not be reached, or the worker died.
Unrecorded(s) == Ends(s) /\ UNCHANGED circuit

\* The Redis key of a circuit expires a day after the last failure recorded in it.
Expire(s) ==
    /\ Shared /\ circuit[s] # NewCircuit /\ circuit[s].rest = 0
    /\ circuit' = [circuit EXCEPT ![s] = NewCircuit]
    /\ UNCHANGED inFlight

Tick ==
    /\ \E s \in Server : circuit[s].rest > 0
    /\ circuit' = [s \in Server |->
                     [circuit[s] EXCEPT !.rest = IF @ > 0 THEN @ - 1 ELSE 0]]
    /\ UNCHANGED inFlight

Next ==
    \/ \E s \in Server :
         \/ ensure_closed(s) \/ record_success(s) \/ record_failure(s)
         \/ Unrecorded(s) \/ Expire(s)
    \/ Tick

\* Clocks advance whatever the platform does.
Spec == Init /\ [][Next]_vars /\ WF_vars(Tick)
-----------------------------------------------------------------------------
\* A circuit is away from closed exactly when the failures counted in it reach the
\* threshold, however late the outcomes of overlapping calls are recorded.
TripsAtThreshold ==
    \A s \in Server :
        (circuit[s].state = CLOSED) <=> (circuit[s].failures < FailureThreshold)

\* A server that rests gets no new call, so what is counted beyond the threshold are
\* the calls that were already under way.
LateFailuresAreBounded ==
    \A s \in Server : circuit[s].state = OPEN /\ circuit[s].rest > 0 =>
        circuit[s].failures + inFlight[s] < FailureThreshold + MaxInFlight

\* A rest ends: late failures restart the cooldown, but only those of calls already
\* under way, so an open circuit is at last open to a probe (ensure_closed).
RestEnds == \A s \in Server : ~Admits(circuit[s]) ~> Admits(circuit[s])
=============================================================================
