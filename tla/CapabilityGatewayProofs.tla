--------------------- MODULE CapabilityGatewayProofs --------------------
(***************************************************************************)
(* The gateway's promises for any number of overlapping calls, any callers *)
(* and catalogue, and any budget: what a server received was permitted and *)
(* is paid for, what the audit trail says is what happened, and seen from  *)
(* its circuits the gateway is a client of the breaker's specification.    *)
(*                                                                         *)
(* A call shares with the others the budget, the circuits and the engine's *)
(* version, and nothing of these decides what becomes of its own record:   *)
(* so the invariant is one claim about each call by itself, Sound, and one *)
(* about all of them together, SentIsClaimed.                              *)
(***************************************************************************)
EXTENDS CapabilityGateway, FiniteSetTheorems, TLAPS

\* The engines permitted the invocation, and it is approved if it has to be.
Permitted(i) == i.allowed /\ (i.capability.requires_approval => i.approved)

\* What is known of an invocation by where it is in invoke, given whether it left for a
\* server and what is recorded of it.
Sound(i, reached, record) ==
    /\ i.pc # "idle" /\ i.allowed => Policy!Allowed(i.capability, i.by)
    /\ i.pc \in {"reserve", "breaker", "execute"} => Permitted(i) /\ i.decision = "allow"
    /\ i.pc \in {"idle", "policy", "verdict", "reserve", "breaker", "not_found"} => ~reached
    /\ reached => Permitted(i)
    /\ i.pc = "observe" =>
         /\ i.outcome = "denied" => ~reached
         /\ i.outcome = "succeeded" => reached
         /\ (i.decision = "deny") <=> ~Permitted(i)
    /\ record # NoRecord =>
         /\ i.pc = "returned"
         /\ record.outcome = "denied" => ~reached
         /\ record.outcome = "succeeded" => reached
         /\ (record.decision = "deny") <=> ~Permitted(i)

CallsAreSound == \A c \in Call : Sound(call[c], c \in sent, trail[c])

IInv == TypeOK /\ CallsAreSound /\ SentIsClaimed
-----------------------------------------------------------------------------

\* Calls that hold a claim on the budget they have used or are about to.
Claimants == sent \cup {c \in Call : At(c, "breaker") \/ At(c, "execute")}

\* One more element makes a finite set at most one larger.
LEMMA OneMore ==
    ASSUME NEW S, NEW x, IsFiniteSet(S)
    PROVE  /\ IsFiniteSet(S \cup {x})
           /\ Cardinality(S \cup {x}) \in Nat
           /\ Cardinality(S \cup {x}) <= Cardinality(S) + 1
<1>1. Cardinality(S) \in Nat  BY FS_CardinalityType
<1>2. CASE x \in S
  <2>1. S \cup {x} = S  BY <1>2
  <2>2. Cardinality(S) <= Cardinality(S) + 1  BY <1>1
  <2> QED  BY <1>1, <2>1, <2>2, Zenon
<1>3. CASE x \notin S
  <2>1. IsFiniteSet(S \cup {x}) /\ Cardinality(S \cup {x}) = Cardinality(S) + 1
    BY <1>3, FS_AddElement
  <2> QED  BY <1>1, <2>1
<1> QED  BY <1>2, <1>3

\* The claimants are some of finitely many calls.
LEMMA ClaimantsFinite ==
    ASSUME TypeOK
    PROVE  IsFiniteSet(Claimants) /\ Cardinality(Claimants) \in Nat
<1>1. Claimants \subseteq Call  BY DEF Claimants, TypeOK
<1>2. IsFiniteSet(Claimants)  BY <1>1, GatewayAssumption, FS_Subset DEF GatewayAssumption
<1> QED  BY <1>2, FS_CardinalityType

\* The breaker's operations return circuits.
LEMMA CircuitOps ==
    /\ Breaker!NewCircuit \in Breaker!Circuit
    /\ \A k \in Breaker!Circuit : Breaker!Refreshed(k) \in Breaker!Circuit
    /\ \A k \in Breaker!Circuit : Breaker!Failed(k) \in Breaker!Circuit
<1> USE GatewayAssumption
    DEF GatewayAssumption, Breaker!Circuit, Breaker!CLOSED, Breaker!OPEN, Breaker!HALF_OPEN
<1>1. Breaker!NewCircuit \in Breaker!Circuit  BY DEF Breaker!NewCircuit
<1>2. \A k \in Breaker!Circuit : Breaker!Refreshed(k) \in Breaker!Circuit
  BY DEF Breaker!Refreshed
<1>3. \A k \in Breaker!Circuit : Breaker!Failed(k) \in Breaker!Circuit
  <2> TAKE k \in Breaker!Circuit
  <2> DEFINE r == Breaker!Refreshed(k)
  <2>1. r \in Breaker!Circuit  BY <1>2
  <2>2. Breaker!Failed(k) = IF r.state = "half_open"
                 THEN [failures |-> FailureThreshold, state |-> "open", rest |-> Cooldown]
                 ELSE IF r.failures + 1 < FailureThreshold
                      THEN [r EXCEPT !.failures = r.failures + 1]
                      ELSE [failures |-> r.failures + 1, state |-> "open", rest |-> Cooldown]
    BY DEF Breaker!Failed
  <2> HIDE DEF r
  <2> QED  BY <2>1, <2>2
<1> QED  BY <1>1, <1>2, <1>3

\* A call that is under way asks for a registered capability, on a server there is.
LEMMA AskedServer ==
    ASSUME TypeOK, NEW c \in Call, call[c].pc # "idle"
    PROVE  call[c] \in Invocation /\ ServerAsked(c) \in Server
  BY DEF TypeOK, Idle, Invocation, ServerAsked, Server

\* A step of one call is judged on that call alone, and on what it does to the budget.
LEMMA OneCallKeeps ==
    ASSUME IInv, NEW c \in Call, NEW x \in Invocation,
           call' = [call EXCEPT ![c] = x],
           opa' \in Versions, circuit' \in [Server -> Breaker!Circuit],
           sent' \in {sent, sent \cup {c}},
           trail' \in [Call -> Record \cup {NoRecord}],
           \A d \in Call : d # c => trail'[d] = trail[d],
           Sound(x, c \in sent', trail'[c]),
           \/ /\ tool_calls' = tool_calls
              /\ x.pc \in {"breaker", "execute"} \/ c \in sent' => c \in Claimants
           \/ /\ tool_calls < MaxToolCalls /\ tool_calls' = tool_calls + 1
    PROVE  IInv'
<1>1. TypeOK'
  <2>1. tool_calls' \in 0..MaxToolCalls
    BY GatewayAssumption DEF IInv, TypeOK, GatewayAssumption
  <2>2. sent' \subseteq Call /\ call' \in [Call -> Invocation \cup {Idle}]
    BY DEF IInv, TypeOK
  <2> QED  BY <2>1, <2>2 DEF TypeOK
<1>2. CallsAreSound'
  <2> SUFFICES ASSUME NEW d \in Call PROVE Sound(call'[d], d \in sent', trail'[d])
    BY DEF CallsAreSound
  <2>1. CASE d = c
    <3>1. call'[d] = x  BY <2>1 DEF IInv, TypeOK
    <3> QED  BY <2>1, <3>1
  <2>2. CASE d # c
    <3>1. call'[d] = call[d] /\ trail'[d] = trail[d] /\ (d \in sent' <=> d \in sent)
      BY <2>2 DEF IInv, TypeOK
    <3> QED  BY <3>1 DEF IInv, CallsAreSound, Sound
  <2> QED  BY <2>1, <2>2
<1>3. SentIsClaimed'
  <2>1. \A d \in Call \ {c} : d \in Claimants' => d \in Claimants
    BY DEF Claimants, At, IInv, TypeOK
  <2>2. c \in Claimants' <=> x.pc \in {"breaker", "execute"} \/ c \in sent'
    BY DEF Claimants, At, IInv, TypeOK
  <2>3. Claimants' \subseteq Call  BY <1>1 DEF Claimants, TypeOK
  <2>4. /\ IsFiniteSet(Claimants) /\ Cardinality(Claimants) \in Nat
        /\ IsFiniteSet(Claimants') /\ Cardinality(Claimants') \in Nat
    <3>1. IsFiniteSet(Claimants')
      BY <2>3, GatewayAssumption, FS_Subset DEF GatewayAssumption
    <3> QED  BY <3>1, ClaimantsFinite, FS_CardinalityType DEF IInv
  <2>5. Cardinality(Claimants) <= tool_calls /\ tool_calls <= MaxToolCalls
        /\ tool_calls \in Nat /\ MaxToolCalls \in Nat
    BY GatewayAssumption DEF IInv, SentIsClaimed, Claimants, TypeOK, GatewayAssumption
  <2>6. CASE tool_calls' = tool_calls /\ (x.pc \in {"breaker", "execute"} \/ c \in sent' => c \in Claimants)
    <3>1. Claimants' \subseteq Claimants  BY <2>1, <2>2, <2>3, <2>6
    <3>2. Cardinality(Claimants') <= Cardinality(Claimants)  BY <2>4, <3>1, FS_Subset
    <3> QED  BY <2>4, <2>5, <2>6, <3>2 DEF SentIsClaimed, Claimants
  <2>7. CASE tool_calls < MaxToolCalls /\ tool_calls' = tool_calls + 1
    <3>1. Claimants' \subseteq Claimants \cup {c}  BY <2>1, <2>3
    <3>2. IsFiniteSet(Claimants \cup {c}) /\ Cardinality(Claimants \cup {c}) \in Nat
          /\ Cardinality(Claimants \cup {c}) <= Cardinality(Claimants) + 1
      BY <2>4, OneMore
    <3>3. Cardinality(Claimants') <= Cardinality(Claimants \cup {c})  BY <3>1, <3>2, FS_Subset
    <3>4. Cardinality(Claimants') <= tool_calls'  BY <2>4, <2>5, <2>7, <3>2, <3>3
    <3> QED  BY <2>5, <2>7, <3>4 DEF SentIsClaimed, Claimants
  <2> QED  BY <2>6, <2>7
<1> QED  BY <1>1, <1>2, <1>3 DEF IInv

-----------------------------------------------------------------------------

\* Nothing was asked, sent, counted or recorded yet.
LEMMA InitIInv == Init => IInv
<1> SUFFICES ASSUME Init PROVE IInv  OBVIOUS
<1>1. TypeOK
  BY CircuitOps, GatewayAssumption DEF Init, TypeOK, Versions, GatewayAssumption
<1>2. CallsAreSound
  BY DEF Init, CallsAreSound, Sound, Idle
<1>3. SentIsClaimed
  <2>1. sent \cup {c \in Call : At(c, "breaker") \/ At(c, "execute")} = {}  BY DEF Init, At, Idle
  <2> QED  BY <2>1, FS_EmptySet, GatewayAssumption DEF SentIsClaimed, Init, GatewayAssumption
<1> QED  BY <1>1, <1>2, <1>3 DEF IInv

\* invoke up to the policy: nothing is decided, and nothing has left.
LEMMA InvokeKeeps ==
    ASSUME IInv, NEW c \in Call, NEW p \in Caller, NEW k \in Catalogue, NEW ok \in BOOLEAN,
           Invoke(c, p, k, ok)
    PROVE  IInv'
<1> DEFINE x == [pc |-> IF resolve_for(p, k) THEN "policy" ELSE "not_found",
                 by |-> p, capability |-> k, approved |-> ok, allowed |-> FALSE,
                 decider |-> UNAVAILABLE_VERSION, version |-> UNAVAILABLE_VERSION,
                 decision |-> "allow", outcome |-> "failed"]
<1>1. x \in Invocation
  BY DEF Invocation, Active, Ended, Versions, Outcome
<1>2. call' = [call EXCEPT ![c] = x] /\ UNCHANGED <<opa, tool_calls, circuit, sent, trail>>
  BY DEF Invoke
<1>3. call[c].pc = "idle" /\ c \notin sent /\ trail[c] = NoRecord
  BY DEF Invoke, Idle, IInv, CallsAreSound, Sound
<1>4. Sound(x, c \in sent, trail[c]) /\ x.pc \notin {"breaker", "execute"}
  BY <1>3 DEF Sound
<1> HIDE DEF x
<1> QED  BY <1>1, <1>2, <1>3, <1>4, OneCallKeeps DEF IInv, TypeOK

\* The verdict kept is the engines' own, whatever version is shown by then.
LEMMA EvaluateKeeps ==
    ASSUME IInv, NEW c \in Call, NEW v \in Versions, Evaluate(c, v)
    PROVE  IInv'
<1> DEFINE x == [call[c] EXCEPT !.pc = "verdict", !.decider = v, !.allowed = Verdict(c, v)]
<1>1. call[c] \in Invocation /\ call[c].pc = "policy"
  BY AskedServer DEF IInv, Evaluate, At
<1>2. Verdict(c, v) \in BOOLEAN  BY DEF Verdict
<1>3. x \in Invocation /\ x.pc = "verdict" /\ x.allowed = Verdict(c, v)
      /\ x.capability = call[c].capability /\ x.by = call[c].by
  BY <1>1, <1>2 DEF Invocation, Active
<1>4. call' = [call EXCEPT ![c] = x] /\ opa' = v /\ UNCHANGED <<tool_calls, circuit, sent, trail>>
  BY DEF Evaluate
<1>5. c \notin sent /\ trail[c] = NoRecord
  BY <1>1 DEF IInv, CallsAreSound, Sound
<1>6. Sound(x, c \in sent, trail[c])
  BY <1>3, <1>5 DEF Sound, Verdict, Policy!Allowed
<1> HIDE DEF x
<1> QED  BY <1>3, <1>4, <1>5, <1>6, OneCallKeeps DEF IInv, TypeOK

\* A call goes on only if the policy allowed it and any approval it needs was given.
LEMMA DecideKeeps ==
    ASSUME IInv, NEW c \in Call, Decide(c)
    PROVE  IInv'
<1> DEFINE allow == call[c].allowed /\ Approved(c)
           x == [call[c] EXCEPT !.version = opa, !.pc = IF allow THEN "reserve" ELSE "observe",
                                !.decision = IF allow THEN "allow" ELSE "deny",
                                !.outcome = IF allow THEN "failed" ELSE "denied"]
<1>1. call[c] \in Invocation /\ call[c].pc = "verdict"
  BY AskedServer DEF IInv, Decide, At
<1>2. /\ x \in Invocation /\ x.pc = (IF allow THEN "reserve" ELSE "observe")
      /\ x.decision = (IF allow THEN "allow" ELSE "deny")
      /\ x.outcome = (IF allow THEN "failed" ELSE "denied")
      /\ x.capability = call[c].capability /\ x.by = call[c].by
      /\ x.allowed = call[c].allowed /\ x.approved = call[c].approved
  BY <1>1 DEF Invocation, Active, Outcome, IInv, TypeOK
<1>3. call' = [call EXCEPT ![c] = x] /\ UNCHANGED <<opa, tool_calls, circuit, sent, trail>>
  BY DEF Decide
<1>4. c \notin sent /\ trail[c] = NoRecord /\ Sound(call[c], c \in sent, trail[c])
  BY <1>1 DEF IInv, CallsAreSound, Sound
<1>5. allow <=> Permitted(x)
  BY <1>2 DEF Permitted, Approved
<1> HIDE DEF x, allow
<1>6. Sound(x, c \in sent, trail[c]) /\ x.pc \notin {"breaker", "execute"}
  BY <1>1, <1>2, <1>4, <1>5 DEF Sound
<1> QED  BY <1>2, <1>3, <1>4, <1>6, OneCallKeeps DEF IInv, TypeOK

\* A claim is counted before the call goes on.
LEMMA ReserveKeeps ==
    ASSUME IInv, NEW c \in Call, Reserve(c)
    PROVE  IInv'
<1> DEFINE x == [call[c] EXCEPT !.pc = "breaker"]
<1>1. call[c] \in Invocation /\ call[c].pc = "reserve"
  BY AskedServer DEF IInv, Reserve, At
<1>2. /\ x \in Invocation /\ x.pc = "breaker" /\ x.decision = call[c].decision
      /\ x.capability = call[c].capability /\ x.by = call[c].by
      /\ x.allowed = call[c].allowed /\ x.approved = call[c].approved
  BY <1>1 DEF Invocation, Active
<1>3. /\ call' = [call EXCEPT ![c] = x] /\ UNCHANGED <<opa, circuit, sent, trail>>
      /\ tool_calls < MaxToolCalls /\ tool_calls' = tool_calls + 1
  BY DEF Reserve, Goto, Affordable, Claim
<1>4. c \notin sent /\ trail[c] = NoRecord /\ Sound(call[c], c \in sent, trail[c])
  BY <1>1 DEF IInv, CallsAreSound, Sound
<1> HIDE DEF x
<1>5. Sound(x, c \in sent, trail[c])
  BY <1>1, <1>2, <1>4 DEF Sound, Permitted
<1> QED  BY <1>2, <1>3, <1>5, OneCallKeeps DEF IInv, TypeOK

\* A refusal by the budget, a circuit or a store reaches no server, and is no denial of
\* access.
LEMMA RefusedKeeps ==
    ASSUME IInv, NEW c \in Call, ReserveRefused(c) \/ EnsureClosedRefused(c)
    PROVE  IInv'
<1> DEFINE x == [call[c] EXCEPT !.pc = "observe", !.decision = "allow", !.outcome = "denied"]
<1>1. call[c] \in Invocation /\ call[c].pc \in {"reserve", "breaker"}
  BY AskedServer DEF IInv, ReserveRefused, EnsureClosedRefused, At
<1>2. /\ x \in Invocation /\ x.pc = "observe" /\ x.decision = "allow" /\ x.outcome = "denied"
      /\ x.capability = call[c].capability /\ x.by = call[c].by
      /\ x.allowed = call[c].allowed /\ x.approved = call[c].approved
  BY <1>1 DEF Invocation, Active, Outcome
<1>3. call' = [call EXCEPT ![c] = x] /\ UNCHANGED <<opa, tool_calls, circuit, sent, trail>>
  BY DEF ReserveRefused, EnsureClosedRefused, Refuse
<1>4. c \notin sent /\ trail[c] = NoRecord /\ Sound(call[c], c \in sent, trail[c])
  BY <1>1 DEF IInv, CallsAreSound, Sound
<1> HIDE DEF x
<1>5. Sound(x, c \in sent, trail[c])
  BY <1>1, <1>2, <1>4 DEF Sound, Permitted
<1> QED  BY <1>2, <1>3, <1>4, <1>5, OneCallKeeps DEF IInv, TypeOK

\* What the breaker admits was claimed.
LEMMA EnsureClosedKeeps ==
    ASSUME IInv, NEW c \in Call, EnsureClosed(c)
    PROVE  IInv'
<1> DEFINE x == [call[c] EXCEPT !.pc = "execute"]
<1>1. call[c] \in Invocation /\ call[c].pc = "breaker" /\ ServerAsked(c) \in Server
  BY AskedServer DEF IInv, EnsureClosed, At
<1>2. /\ x \in Invocation /\ x.pc = "execute" /\ x.decision = call[c].decision
      /\ x.capability = call[c].capability /\ x.by = call[c].by
      /\ x.allowed = call[c].allowed /\ x.approved = call[c].approved
  BY <1>1 DEF Invocation, Active
<1>3. /\ call' = [call EXCEPT ![c] = x] /\ UNCHANGED <<opa, tool_calls, sent, trail>>
      /\ circuit' = [circuit EXCEPT ![ServerAsked(c)] = Breaker!Refreshed(circuit[ServerAsked(c)])]
  BY DEF EnsureClosed, Goto
<1>4. circuit' \in [Server -> Breaker!Circuit]
  BY <1>1, <1>3, CircuitOps DEF IInv, TypeOK
<1>5. c \in Claimants /\ trail[c] = NoRecord /\ Sound(call[c], c \in sent, trail[c])
  BY <1>1 DEF IInv, CallsAreSound, Sound, Claimants, At
<1> HIDE DEF x
<1>6. Sound(x, c \in sent, trail[c])
  BY <1>1, <1>2, <1>3, <1>5 DEF Sound, Permitted
<1> QED  BY <1>2, <1>3, <1>4, <1>5, <1>6, OneCallKeeps DEF IInv, TypeOK

\* What leaves for its server was permitted, and claimed.
LEMMA SendKeeps ==
    ASSUME IInv, NEW c \in Call, Send(c)
    PROVE  IInv'
<1>1. call[c] \in Invocation /\ call[c].pc = "execute"
  BY AskedServer DEF IInv, Send, At
<1>2. sent' = sent \cup {c} /\ UNCHANGED <<call, opa, tool_calls, circuit, trail>>
  BY DEF Send
<1>3. call' = [call EXCEPT ![c] = call[c]]  BY <1>2 DEF IInv, TypeOK
<1>4. c \in Claimants /\ Sound(call[c], c \in sent, trail[c])
  BY <1>1 DEF IInv, CallsAreSound, Claimants, At
<1>5. Sound(call[c], c \in sent', trail[c])
  BY <1>1, <1>2, <1>4 DEF Sound
<1> QED  BY <1>1, <1>2, <1>3, <1>4, <1>5, OneCallKeeps DEF IInv, TypeOK

\* The server answers, fails or is not heard of.
LEMMA OutcomeKeeps ==
    ASSUME IInv, NEW c \in Call, NEW recorded \in BOOLEAN, NEW truncated \in BOOLEAN,
           Answered(c, truncated, recorded) \/ Failed(c, recorded)
    PROVE  IInv'
<1>1. call[c] \in Invocation /\ call[c].pc = "execute" /\ ServerAsked(c) \in Server
  BY AskedServer DEF IInv, Answered, Failed, At
<1>2. PICK o \in {"failed", "succeeded"} :
        /\ call' = [call EXCEPT ![c] = [call[c] EXCEPT !.pc = "observe", !.outcome = o]]
        /\ o = "succeeded" => c \in sent
  BY DEF Answered, Failed
<1> DEFINE x == [call[c] EXCEPT !.pc = "observe", !.outcome = o]
<1>3. /\ x \in Invocation /\ x.pc = "observe" /\ x.decision = call[c].decision
      /\ x.outcome = o
      /\ x.capability = call[c].capability /\ x.by = call[c].by
      /\ x.allowed = call[c].allowed /\ x.approved = call[c].approved
  BY <1>1 DEF Invocation, Active, Outcome
<1>4. UNCHANGED <<opa, tool_calls, sent, trail>>
  BY DEF Answered, Failed
<1>5. circuit' \in [Server -> Breaker!Circuit]
  BY <1>1, CircuitOps DEF IInv, TypeOK, Answered, Failed
<1>6. c \in Claimants /\ trail[c] = NoRecord /\ Sound(call[c], c \in sent, trail[c])
  BY <1>1 DEF IInv, CallsAreSound, Sound, Claimants, At
<1> HIDE DEF x
<1>7. Sound(x, c \in sent, trail[c])
  BY <1>1, <1>2, <1>3, <1>6 DEF Sound, Permitted
<1>8. call' = [call EXCEPT ![c] = x]  BY <1>2 DEF x
<1> QED  BY <1>3, <1>4, <1>5, <1>6, <1>7, <1>8, OneCallKeeps DEF IInv, TypeOK

\* The record says what the call carries.
LEMMA ObserveKeeps ==
    ASSUME IInv, NEW c \in Call, NEW stored \in BOOLEAN, Observe(c, stored)
    PROVE  IInv'
<1> DEFINE x == [call[c] EXCEPT !.pc = "returned"]
<1>1. call[c] \in Invocation /\ call[c].pc = "observe"
  BY AskedServer DEF IInv, Observe, At
<1>2. /\ x \in Invocation /\ x.pc = "returned"
      /\ x.capability = call[c].capability /\ x.by = call[c].by
      /\ x.allowed = call[c].allowed /\ x.approved = call[c].approved
  BY <1>1 DEF Invocation, Ended
<1>3. /\ call' = [call EXCEPT ![c] = x] /\ UNCHANGED <<opa, tool_calls, circuit, sent>>
      /\ trail' = IF stored THEN [trail EXCEPT ![c] = RecordOf(c)] ELSE trail
  BY DEF Observe, Goto
<1>4. RecordOf(c) \in Record /\ RecordOf(c).outcome = call[c].outcome
      /\ RecordOf(c).decision = call[c].decision
  BY <1>1 DEF RecordOf, Record, Invocation
<1>5. trail' \in [Call -> Record \cup {NoRecord}]
      /\ trail'[c] \in {RecordOf(c), trail[c]} /\ \A d \in Call : d # c => trail'[d] = trail[d]
  BY <1>3, <1>4 DEF IInv, TypeOK
<1>6. trail[c] = NoRecord /\ Sound(call[c], c \in sent, trail[c])
  BY <1>1 DEF IInv, CallsAreSound, Sound
<1> HIDE DEF x
<1>7. Sound(x, c \in sent, trail'[c])
  BY <1>1, <1>2, <1>4, <1>5, <1>6 DEF Sound, Permitted
<1> QED  BY <1>2, <1>3, <1>5, <1>7, OneCallKeeps DEF IInv, TypeOK, Claimants

\* A worker that dies leaves its claim, what it sent and no record.
LEMMA CrashKeeps ==
    ASSUME IInv, NEW c \in Call, Crash(c)
    PROVE  IInv'
<1> DEFINE x == [call[c] EXCEPT !.pc = "crashed"]
<1>1. call[c] \in Invocation /\ call[c].pc \in Active
  BY AskedServer DEF IInv, Crash, Active
<1>2. /\ x \in Invocation /\ x.pc = "crashed"
      /\ x.capability = call[c].capability /\ x.by = call[c].by
      /\ x.allowed = call[c].allowed /\ x.approved = call[c].approved
  BY <1>1 DEF Invocation, Ended
<1>3. call' = [call EXCEPT ![c] = x] /\ UNCHANGED <<opa, tool_calls, circuit, sent, trail>>
  BY DEF Crash, Goto
<1>4. trail[c] = NoRecord /\ Sound(call[c], c \in sent, trail[c])
  BY <1>1 DEF IInv, CallsAreSound, Sound, Active
<1> HIDE DEF x
<1>5. Sound(x, c \in sent, trail[c])
  BY <1>1, <1>2, <1>4 DEF Sound, Permitted, Active
<1> QED  BY <1>2, <1>3, <1>5, OneCallKeeps DEF IInv, TypeOK, Claimants

\* Clocks and expiring keys touch the circuits only.
LEMMA CircuitsAloneKeep ==
    ASSUME IInv, Tick \/ \E s \in Server : Expire(s)
    PROVE  IInv'
<1>1. UNCHANGED <<call, opa, tool_calls, sent, trail>>  BY DEF Tick, Expire
<1>2. circuit' \in [Server -> Breaker!Circuit]
  <2>1. CASE \E s \in Server : Expire(s)
    BY <2>1, CircuitOps DEF Expire, Breaker!Expire, IInv, TypeOK
  <2>2. CASE Tick
    <3>1. circuit' = [s \in Server |-> [circuit[s] EXCEPT !.rest =
                          IF circuit[s].rest > 0 THEN circuit[s].rest - 1 ELSE 0]]
      BY <2>2 DEF Tick, Breaker!Tick
    <3>2. \A s \in Server : circuit[s] \in Breaker!Circuit  BY DEF IInv, TypeOK
    <3> QED  BY <3>1, <3>2, GatewayAssumption DEF Breaker!Circuit, GatewayAssumption
  <2> QED  BY <2>1, <2>2
<1> QED
  BY <1>1, <1>2 DEF IInv, TypeOK, CallsAreSound, Sound, Permitted, SentIsClaimed, At

\* Every step of a call, the clock and Redis keeps the invariant.
LEMMA StepIInv == IInv /\ [Next]_vars => IInv'
<1> SUFFICES ASSUME IInv, [Next]_vars PROVE IInv'  OBVIOUS
<1>1. ASSUME NEW c \in Call, NEW p \in Caller, NEW k \in Catalogue, NEW ok \in BOOLEAN,
             Invoke(c, p, k, ok)
      PROVE  IInv'
  BY <1>1, InvokeKeeps
<1>2. ASSUME NEW c \in Call, NEW v \in Versions, Evaluate(c, v) PROVE IInv'
  BY <1>2, EvaluateKeeps
<1>3. ASSUME NEW c \in Call, Decide(c) PROVE IInv'  BY <1>3, DecideKeeps
<1>4. ASSUME NEW c \in Call, Reserve(c) PROVE IInv'  BY <1>4, ReserveKeeps
<1>5. ASSUME NEW c \in Call, ReserveRefused(c) \/ EnsureClosedRefused(c) PROVE IInv'
  BY <1>5, RefusedKeeps
<1>6. ASSUME NEW c \in Call, EnsureClosed(c) \/ Send(c) PROVE IInv'
  BY <1>6, EnsureClosedKeeps, SendKeeps
<1>7. ASSUME NEW c \in Call, NEW recorded \in BOOLEAN, NEW truncated \in BOOLEAN,
             Answered(c, truncated, recorded) \/ Failed(c, recorded)
      PROVE  IInv'
  BY <1>7, OutcomeKeeps
<1>8. ASSUME NEW c \in Call, NEW stored \in BOOLEAN, Observe(c, stored) PROVE IInv'
  BY <1>8, ObserveKeeps
<1>9. ASSUME NEW c \in Call, Crash(c) PROVE IInv'  BY <1>9, CrashKeeps
<1>10. CASE Tick \/ \E s \in Server : Expire(s)  BY <1>10, CircuitsAloneKeep
<1>11. CASE UNCHANGED vars
  BY <1>11 DEF vars, IInv, TypeOK, CallsAreSound, Sound, Permitted, SentIsClaimed, At
<1> QED
  BY <1>1, <1>2, <1>3, <1>4, <1>5, <1>6, <1>7, <1>8, <1>9, <1>10, <1>11 DEF Next

\* The invariant holds in every state of the gateway.
LEMMA Inductive == Spec => []IInv
  BY InitIInv, StepIInv, PTL DEF Spec

\* Calls, circuits, counts and records keep their types.
THEOREM TypeCorrect == Spec => []TypeOK
  BY Inductive, PTL DEF IInv

\* Nothing leaves for a server that an engine refused, that lacks its approval, or that would
\* let an agent cause a side effect, however the calls overlap and whoever does not answer.
THEOREM SentCallsWerePermitted == Spec => []SentWasPermitted
<1>1. IInv => SentWasPermitted
  <2> SUFFICES ASSUME IInv, NEW c \in sent
               PROVE  /\ Policy!Allowed(call[c].capability, call[c].by)
                      /\ call[c].capability.requires_approval => call[c].approved
                      /\ call[c].capability.side_effecting => call[c].by.agent_role = Policy!NoAgent
    BY DEF SentWasPermitted
  <2>1. c \in Call /\ Permitted(call[c]) /\ Policy!Allowed(call[c].capability, call[c].by)
    BY DEF IInv, TypeOK, CallsAreSound, Sound, Permitted
  <2>2. Policy!BundleAllows(call[c].capability, call[c].by)  BY <2>1 DEF Policy!Allowed
  <2> QED  BY <2>1, <2>2 DEF Permitted, Policy!BundleAllows
<1> QED  BY <1>1, Inductive, PTL

\* Each call that left for a server holds its own claim, and the claims fit the budget.
THEOREM SentCallsAreClaimed == Spec => []SentIsClaimed
  BY Inductive, PTL DEF IInv

\* The audit trail says denied of nothing that left for a server and succeeded of nothing
\* that did not, and puts down to policy exactly what policy or a missing approval stopped.
THEOREM TrailsAreTrue == Spec => []TrailIsTrue
<1>1. IInv => TrailIsTrue
  BY DEF IInv, CallsAreSound, Sound, Permitted, Approved, TrailIsTrue
<1> QED  BY <1>1, Inductive, PTL
-----------------------------------------------------------------------------
(* The gateway as a client of the breaker: its calls under way to a server *)
(* are the breaker's calls in flight.                                      *)

Executing(s) == {c \in Call : At(c, "execute") /\ ServerAsked(c) = s}

\* The calls in flight are counted by server, and are some of finitely many.
LEMMA InFlightCounts ==
    /\ InFlight = [s \in Server |-> Cardinality(Executing(s))]
    /\ InFlight' = [s \in Server |-> Cardinality(Executing(s)')]
    /\ \A s \in Server :
         /\ IsFiniteSet(Executing(s)) /\ IsFiniteSet(Executing(s)')
         /\ InFlight[s] = Cardinality(Executing(s)) /\ InFlight[s] \in Nat
<1>1. /\ InFlight = [s \in Server |-> Cardinality(Executing(s))]
      /\ InFlight' = [s \in Server |-> Cardinality(Executing(s)')]
  BY DEF InFlight, Executing
<1>2. \A s \in Server : IsFiniteSet(Executing(s)) /\ IsFiniteSet(Executing(s)')
  <2> TAKE s \in Server
  <2>1. Executing(s) \subseteq Call /\ Executing(s)' \subseteq Call  BY DEF Executing
  <2> QED  BY <2>1, GatewayAssumption, FS_Subset DEF GatewayAssumption
<1> QED  BY <1>1, <1>2, FS_CardinalityType

\* A call that neither was nor is under way does not change what is in flight.
LEMMA NothingInFlightMoves ==
    ASSUME NEW c \in Call, \A d \in Call : d # c => call'[d] = call[d],
           call[c].pc # "execute", call'[c].pc # "execute"
    PROVE  InFlight' = InFlight
<1>1. \A s \in Server : Executing(s)' = Executing(s)
  BY DEF Executing, At, ServerAsked
<1> QED  BY <1>1, InFlightCounts

\* A call that ends, answered or not, is one fewer in flight to its server.
LEMMA EndsInFlight ==
    ASSUME TypeOK, NEW c \in Call, \A d \in Call : d # c => call'[d] = call[d],
           call[c].pc = "execute", call'[c].pc # "execute"
    PROVE  ServerAsked(c) \in Server /\ Breaker!Ends(ServerAsked(c))
<1>1. PICK s \in Server : s = ServerAsked(c)  BY AskedServer
<1>2. c \in Executing(s) /\ Executing(s)' = Executing(s) \ {c}
  BY <1>1 DEF Executing, At, ServerAsked
<1>3. \A t \in Server : t # s => Executing(t)' = Executing(t)
  BY <1>1 DEF Executing, At, ServerAsked
<1>4. Cardinality(Executing(s)') = Cardinality(Executing(s)) - 1 /\ Cardinality(Executing(s)) > 0
  <2>1. IsFiniteSet(Executing(s)) /\ Cardinality(Executing(s)) \in Nat
    BY <1>1, InFlightCounts
  <2>2. Cardinality(Executing(s) \ {c}) = Cardinality(Executing(s)) - 1
    BY <1>2, <2>1, FS_RemoveElement
  <2>3. Cardinality(Executing(s)) # 0  BY <1>2, <2>1, FS_EmptySet
  <2> QED  BY <1>2, <2>1, <2>2, <2>3
<1>5. InFlight' = [InFlight EXCEPT ![s] = InFlight[s] - 1] /\ InFlight[s] > 0
  BY <1>1, <1>3, <1>4, InFlightCounts
<1> QED  BY <1>1, <1>5 DEF Breaker!Ends

\* A call that leaves for its server is one more, and there are no more than all.
LEMMA SendsInFlight ==
    ASSUME TypeOK, NEW c \in Call, \A d \in Call : d # c => call'[d] = call[d],
           call[c].pc = "breaker", call'[c].pc = "execute",
           call'[c].capability = call[c].capability
    PROVE  LET s == ServerAsked(c) IN
           /\ s \in Server /\ InFlight[s] < Cardinality(Call)
           /\ InFlight' = [InFlight EXCEPT ![s] = InFlight[s] + 1]
<1>1. PICK s \in Server : s = ServerAsked(c)  BY AskedServer
<1>2. c \notin Executing(s) /\ Executing(s)' = Executing(s) \cup {c}
  BY <1>1 DEF Executing, At, ServerAsked
<1>3. \A t \in Server : t # s => Executing(t)' = Executing(t)
  BY <1>1 DEF Executing, At, ServerAsked
<1>4. IsFiniteSet(Executing(s)) /\ Cardinality(Executing(s)) \in Nat
  BY <1>1, InFlightCounts
<1>5. Cardinality(Executing(s)') = Cardinality(Executing(s)) + 1
  BY <1>2, <1>4, FS_AddElement
<1>6. Cardinality(Executing(s)) < Cardinality(Call)
  <2>1. IsFiniteSet(Call) /\ Executing(s)' \subseteq Call
    BY <1>2, GatewayAssumption DEF GatewayAssumption, Executing
  <2>2. Cardinality(Executing(s)') <= Cardinality(Call) /\ Cardinality(Call) \in Nat
    BY <2>1, FS_Subset, FS_CardinalityType
  <2> QED  BY <1>4, <1>5, <2>2
<1>7. InFlight' = [InFlight EXCEPT ![s] = InFlight[s] + 1] /\ InFlight[s] < Cardinality(Call)
  BY <1>1, <1>3, <1>5, <1>6, InFlightCounts
<1> QED  BY <1>1, <1>7

\* Each step of the gateway is one of the breaker's, or leaves circuits and calls in
\* flight as they are.
LEMMA StepUsesBreaker ==
    ASSUME IInv, [Next]_vars
    PROVE  [Breaker!Next]_(Breaker!vars)
<1> DEFINE Same == circuit' = circuit /\ InFlight' = InFlight
<1> SUFFICES Same \/ Breaker!Next  BY DEF Breaker!vars
<1>t. TypeOK /\ call \in [Call -> Invocation \cup {Idle}]  BY DEF IInv, TypeOK
<1>q. ASSUME NEW c \in Call, call[c].pc # "execute", call'[c].pc # "execute",
             \A d \in Call : d # c => call'[d] = call[d], circuit' = circuit
      PROVE  Same
  BY <1>q, NothingInFlightMoves
<1>i. ASSUME NEW c \in Call, NEW p \in Caller, NEW k \in Catalogue, NEW ok \in BOOLEAN,
             Invoke(c, p, k, ok)
      PROVE  Same
  <2>1. call[c].pc = "idle"  BY <1>i DEF Invoke, Idle
  <2>2. call'[c].pc \in {"policy", "not_found"} /\ \A d \in Call : d # c => call'[d] = call[d]
    BY <1>i, <1>t DEF Invoke
  <2> QED  BY <1>i, <1>q, <2>1, <2>2 DEF Invoke
<1>e. ASSUME NEW c \in Call, NEW v \in Versions, Evaluate(c, v) PROVE Same
  <2>1. call[c] \in Invocation /\ call[c].pc = "policy"
    BY <1>e, <1>t, AskedServer DEF Evaluate, At
  <2>2. call'[c].pc = "verdict" /\ \A d \in Call : d # c => call'[d] = call[d]
    BY <1>e, <1>t, <2>1 DEF Evaluate, Invocation
  <2> QED  BY <1>e, <1>q, <2>1, <2>2 DEF Evaluate
<1>d. ASSUME NEW c \in Call, Decide(c) PROVE Same
  <2>1. call[c] \in Invocation /\ call[c].pc = "verdict"
    BY <1>d, <1>t, AskedServer DEF Decide, At
  <2>2. call'[c].pc \in {"reserve", "observe"} /\ \A d \in Call : d # c => call'[d] = call[d]
    BY <1>d, <1>t, <2>1 DEF Decide, Invocation
  <2> QED  BY <1>d, <1>q, <2>1, <2>2 DEF Decide
<1>r. ASSUME NEW c \in Call, Reserve(c) \/ ReserveRefused(c) \/ EnsureClosedRefused(c) PROVE Same
  <2>1. call[c] \in Invocation /\ call[c].pc \in {"reserve", "breaker"}
    BY <1>r, <1>t, AskedServer DEF Reserve, ReserveRefused, EnsureClosedRefused, At
  <2>2. call'[c].pc \in {"breaker", "observe"} /\ \A d \in Call : d # c => call'[d] = call[d]
    BY <1>r, <1>t, <2>1 DEF Reserve, ReserveRefused, EnsureClosedRefused, Goto, Refuse, Invocation
  <2> QED  BY <1>r, <1>q, <2>1, <2>2 DEF Reserve, ReserveRefused, EnsureClosedRefused
<1>o. ASSUME NEW c \in Call, NEW stored \in BOOLEAN, Observe(c, stored) PROVE Same
  <2>1. call[c] \in Invocation /\ call[c].pc = "observe"
    BY <1>o, <1>t, AskedServer DEF Observe, At
  <2>2. call'[c].pc = "returned" /\ \A d \in Call : d # c => call'[d] = call[d]
    BY <1>o, <1>t, <2>1 DEF Observe, Goto, Invocation
  <2> QED  BY <1>o, <1>q, <2>1, <2>2 DEF Observe
<1>2. ASSUME NEW c \in Call, EnsureClosed(c) PROVE Breaker!Next
  <2> DEFINE s == ServerAsked(c)
  <2>1. call[c].pc = "breaker" /\ call[c] \in Invocation
    BY <1>2, <1>t, AskedServer DEF EnsureClosed, At
  <2>2. /\ call'[c].pc = "execute" /\ call'[c].capability = call[c].capability
        /\ \A d \in Call : d # c => call'[d] = call[d]
    BY <1>2, <1>t, <2>1 DEF EnsureClosed, Goto, Invocation
  <2>3. /\ s \in Server /\ InFlight[s] < Cardinality(Call)
        /\ InFlight' = [InFlight EXCEPT ![s] = InFlight[s] + 1]
    BY <1>t, <2>1, <2>2, SendsInFlight
  <2>4. Breaker!Admits(circuit[s]) /\ circuit' = [circuit EXCEPT ![s] = Breaker!Refreshed(circuit[s])]
    BY <1>2 DEF EnsureClosed, Admitted
  <2> HIDE DEF s
  <2>5. Breaker!ensure_closed(s)  BY <2>3, <2>4 DEF Breaker!ensure_closed
  <2> QED  BY <2>3, <2>5 DEF Breaker!Next
<1>s. ASSUME NEW c \in Call, Send(c) PROVE Same
  BY <1>s DEF Send, InFlight, At, ServerAsked
<1>3. ASSUME NEW c \in Call, NEW recorded \in BOOLEAN, NEW truncated \in BOOLEAN,
             Answered(c, truncated, recorded) \/ Failed(c, recorded)
      PROVE  Breaker!Next
  <2> DEFINE s == ServerAsked(c)
  <2>1. call[c].pc = "execute" /\ call[c] \in Invocation
    BY <1>3, <1>t, AskedServer DEF Answered, Failed, At
  <2>2. call'[c].pc = "observe" /\ \A d \in Call : d # c => call'[d] = call[d]
    BY <1>3, <1>t, <2>1 DEF Answered, Failed, Invocation
  <2>3. s \in Server /\ Breaker!Ends(s)
    BY <1>t, <2>1, <2>2, EndsInFlight
  <2>4. \/ circuit' = [circuit EXCEPT ![s] = Breaker!NewCircuit]
        \/ circuit' = [circuit EXCEPT ![s] = Breaker!Failed(circuit[s])]
        \/ circuit' = circuit
    BY <1>3 DEF Answered, Failed
  <2> HIDE DEF s
  <2>5. Breaker!record_success(s) \/ Breaker!record_failure(s) \/ Breaker!Unrecorded(s)
    BY <2>3, <2>4 DEF Breaker!record_success, Breaker!record_failure, Breaker!Unrecorded
  <2> QED  BY <2>3, <2>5 DEF Breaker!Next
<1>4. ASSUME NEW c \in Call, Crash(c) PROVE Same \/ Breaker!Next
  <2>1. call[c] \in Invocation  BY <1>4, <1>t, AskedServer DEF Crash, Active
  <2>2. /\ circuit' = circuit /\ call'[c].pc = "crashed"
        /\ \A d \in Call : d # c => call'[d] = call[d]
    BY <1>4, <1>t, <2>1 DEF Crash, Goto, Invocation
  <2>3. CASE call[c].pc = "execute"
    <3>1. ServerAsked(c) \in Server /\ Breaker!Unrecorded(ServerAsked(c))
      BY <1>t, <2>2, <2>3, EndsInFlight DEF Breaker!Unrecorded
    <3> QED  BY <3>1 DEF Breaker!Next
  <2>4. CASE call[c].pc # "execute"
    BY <2>2, <2>4, NothingInFlightMoves
  <2> QED  BY <2>3, <2>4
<1>5. CASE Tick \/ \E s \in Server : Expire(s)
  BY <1>5 DEF Tick, Expire, Breaker!Next
<1>6. CASE UNCHANGED vars
  BY <1>6 DEF vars, InFlight, At, ServerAsked
<1> QED  BY <1>i, <1>e, <1>d, <1>r, <1>o, <1>2, <1>s, <1>3, <1>4, <1>5, <1>6 DEF Next

\* The gateway implements the breaker's specification, its clock's fairness apart: it sends
\* nothing past an open circuit and counts each outcome at most once.
THEOREM ImplementsBreaker == Spec => UsesBreaker
<1>1. Init => Breaker!Init
  <2> SUFFICES ASSUME Init PROVE Breaker!Init  OBVIOUS
  <2>1. \A s \in Server : Executing(s) = {}  BY DEF Init, Executing, At, Idle
  <2>2. InFlight = [s \in Server |-> 0]  BY <2>1, InFlightCounts, FS_EmptySet
  <2> QED  BY <2>2 DEF Init, Breaker!Init
<1>2. IInv /\ [Next]_vars => [Breaker!Next]_(Breaker!vars)  BY StepUsesBreaker
<1> QED  BY <1>1, <1>2, Inductive, PTL DEF Spec, UsesBreaker
=============================================================================
