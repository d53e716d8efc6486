--------------------------- MODULE ExecutionProofs ---------------------------
(***************************************************************************)
(* Theorems about ExecutionLog, for every set of goals, gates, scopes and  *)
(* workers, every clock the callers inject and every length of the log;    *)
(* then about ExecutionDispatch, for any finite number of clients and any  *)
(* number of calls, retries and lost answers.                              *)
(***************************************************************************)
EXTENDS ExecutionDispatch, FiniteSetTheorems, TLAPS

(* The operations that are given a fence token. *)
FencedOps == {"gate_declared", "evidence_receipt", "gate_transition", "goal_transition"}

(* A request some caller can make. *)
Typed(r) ==
  /\ r.op \in Ops /\ r.goal \in Goals /\ r.args \in ArgsOf(r.op)
  /\ r.id \in Nat /\ r.now \in Nat /\ r.token \in Nat /\ r.expected \in Nat
  /\ r.op \notin FencedOps => r.token = 0

(* The records callers pass. *)
Requested == [op : Ops, goal : Goals, id : Nat, args : Args, now : Nat, token : Nat,
              expected : Nat]

(* What a caller supplies to a fenced operation makes a well-formed request. *)
LEMMA FencedRequestIsTyped ==
  ASSUME NEW op \in FencedOps, NEW g \in Goals, NEW id \in Nat, fence[g] \in Nat,
         NEW argsets \in SUBSET ArgsOf(op), NEW r \in FencedRequests(op, g, id, argsets)
  PROVE  Typed(r) /\ r \in Requested /\ r.goal = g /\ r.id = id
<1>1. PICK a \in argsets, now \in Moments, t \in 0 .. fence[g] :
        r = [Request(op, g, id, a, now) EXCEPT !.token = t]
  BY DEF FencedRequests
<1>2. r = [op |-> op, goal |-> g, id |-> id, args |-> a, now |-> now, token |-> t, expected |-> 0]
  BY <1>1 DEF Request
<1>3. now \in Nat /\ t \in Nat /\ a \in ArgsOf(op)
  BY <1>1, ExecutionAssumption
<1>4. op \in Ops /\ a \in Args
  BY <1>3 DEF Args, ArgsOf, Ops, FencedOps
<1>5. QED
  BY <1>2, <1>3, <1>4 DEF Typed, Requested

(* Every set of requests a caller draws from holds well-formed requests. *)
LEMMA RequestsAreTyped ==
  ASSUME TypeOK, NEW g \in Goals, NEW id \in Nat,
         NEW r \in GoalDeclareRequests(g, id) \union AssessRecordRequests(g, id)
                   \union GateDeclareRequests(g, id) \union ReceiptRecordRequests(g, id)
                   \union GateTransitionRequests(g, id) \union GoalTransitionRequests(g, id)
                   \union LeaseAcquireRequests(g, id) \union LeaseReleaseRequests(g, id)
  PROVE  Typed(r) /\ r \in Requested /\ r.goal = g /\ r.id = id
<1>1. Lines \subseteq Nat /\ fence[g] \in Nat
  BY DEF TypeOK, Lines
<1>2. CASE r \in GoalDeclareRequests(g, id)
  BY <1>2 DEF GoalDeclareRequests, Request, Typed, Requested, Args, Ops, FencedOps, ArgsOf
<1>3. CASE r \in AssessRecordRequests(g, id)
  BY <1>3 DEF AssessRecordRequests, Request, Typed, Requested, Args, Ops, FencedOps, ArgsOf
<1>4. CASE r \in GateDeclareRequests(g, id)
  <2> DEFINE A == [gate : Gates, scope : Scopes, required : BOOLEAN]
  <2>1. "gate_declared" \in FencedOps /\ A \in SUBSET ArgsOf("gate_declared")
    BY DEF FencedOps, ArgsOf
  <2>2. r \in FencedRequests("gate_declared", g, id, A)
    BY <1>4 DEF GateDeclareRequests
  <2> HIDE DEF A
  <2>3. QED
    BY <1>1, <2>1, <2>2, FencedRequestIsTyped
<1>5. CASE r \in ReceiptRecordRequests(g, id)
  <2> DEFINE A == [gate : Gates, verdict : Verdicts]
  <2>1. "evidence_receipt" \in FencedOps /\ A \in SUBSET ArgsOf("evidence_receipt")
    BY ExecutionAssumption DEF FencedOps, ArgsOf
  <2>2. r \in FencedRequests("evidence_receipt", g, id, A)
    BY <1>5 DEF ReceiptRecordRequests
  <2> HIDE DEF A
  <2>3. QED
    BY <1>1, <2>1, <2>2, FencedRequestIsTyped
<1>6. CASE r \in GateTransitionRequests(g, id)
  <2> DEFINE A == {a \in [gate : Gates, to : Targets, receipt : {0} \union Lines,
                          reason : BOOLEAN, human : BOOLEAN] :
                     /\ a.receipt # 0 => a.to \in {"passed", "failed"}
                     /\ a.reason => a.to \in {"passed", "pending"}
                     /\ a.human => a.to = "waived"}
  <2>1. "gate_transition" \in FencedOps
    BY DEF FencedOps
  <2>2. Targets \subseteq GateStatus \ {"undeclared"} /\ {0} \union Lines \subseteq Nat
    BY ExecutionAssumption, <1>1 DEF GateStatus
  <2>3. A \in SUBSET ArgsOf("gate_transition")
    BY <2>2 DEF ArgsOf
  <2>4. r \in FencedRequests("gate_transition", g, id, A)
    BY <1>6 DEF GateTransitionRequests
  <2> HIDE DEF A
  <2>5. QED
    BY <1>1, <2>1, <2>3, <2>4, FencedRequestIsTyped
<1>7. CASE r \in GoalTransitionRequests(g, id)
  <2>1. "goal_transition" \in FencedOps
          /\ {a \in [to : {"satisfied", "abandoned"}, reason : BOOLEAN] :
                a.reason => a.to = "abandoned"} \in SUBSET ArgsOf("goal_transition")
    BY DEF FencedOps, ArgsOf
  <2>2. QED
    BY <1>1, <1>7, <2>1, FencedRequestIsTyped DEF GoalTransitionRequests
<1>8. CASE r \in LeaseAcquireRequests(g, id)
  <2>1. PICK a \in [scope : LeaseScopes, holder : Holders, ttl : Ttls],
             now \in Moments, t \in 0 .. fence[g] :
          r = [Request("lease_grant", g, id, a, now) EXCEPT !.expected = t]
    BY <1>8 DEF LeaseAcquireRequests
  <2>2. a \in [scope : Scopes, holder : Holders, ttl : Nat] /\ now \in Nat /\ t \in Nat
    BY <1>1, <2>1, ExecutionAssumption
  <2>3. r = [op |-> "lease_grant", goal |-> g, id |-> id, args |-> a, now |-> now,
             token |-> 0, expected |-> t]
    BY <2>1 DEF Request
  <2>4. QED
    BY <2>2, <2>3 DEF Typed, Requested, Args, Ops, FencedOps, ArgsOf
<1>9. CASE r \in LeaseReleaseRequests(g, id)
  <2>1. PICK now \in Moments,
             a \in [scope : LeaseScopes, lease : Lines, by : Holders \union {Nobody}] :
          r = Request("lease_release", g, id, a, now)
    BY <1>9 DEF LeaseReleaseRequests
  <2>2. a \in [scope : Scopes, lease : Nat, by : Holders \union {Nobody}] /\ now \in Nat
    BY <1>1, <2>1, ExecutionAssumption
  <2>3. QED
    BY <2>1, <2>2 DEF Typed, Requested, Args, Ops, FencedOps, ArgsOf, Request
<1>10. QED
  BY <1>2, <1>3, <1>4, <1>5, <1>6, <1>7, <1>8, <1>9

(* Every step appends the line of one well-formed request or forgets a goal. *)
LEMMA NextIsOneWrite ==
  ASSUME TypeOK, Next
  PROVE  \/ \E r : Typed(r) /\ Write(r)
         \/ \E g \in Goals : ForgetGoal(g)
<1>1. PICK g \in Goals : \/ GoalDeclare(g) \/ GateDeclare(g) \/ ReceiptRecord(g)
                         \/ GateTransition(g) \/ GoalTransition(g)
                         \/ LeaseAcquire(g) \/ LeaseRelease(g)
                         \/ AssessRecord(g) \/ ForgetGoal(g)
  BY DEF Next
<1>2. Ids \subseteq Nat
  BY DEF TypeOK, Ids
<1>3. CASE ForgetGoal(g)
  BY <1>3
<1>4. CASE ~ForgetGoal(g)
  <2>1. PICK id \in Ids :
          \E r \in GoalDeclareRequests(g, id) \union AssessRecordRequests(g, id)
                   \union GateDeclareRequests(g, id) \union ReceiptRecordRequests(g, id)
                   \union GateTransitionRequests(g, id) \union GoalTransitionRequests(g, id)
                   \union LeaseAcquireRequests(g, id) \union LeaseReleaseRequests(g, id) :
            Write(r)
    BY <1>1, <1>4 DEF GoalDeclare, GateDeclare, ReceiptRecord, GateTransition, GoalTransition,
       LeaseAcquire, LeaseRelease, AssessRecord
  <2>2. QED
    BY <1>2, <2>1, RequestsAreTyped
<1>5. QED
  BY <1>3, <1>4

-----------------------------------------------------------------------------
(* The line a well-formed request becomes. *)

LEMMA LineIsTyped ==
  ASSUME TypeOK, NEW r, Typed(r)
  PROVE  /\ LineOf(r) \in Line
         /\ LineOf(r).args \in ArgsOf(LineOf(r).op)
         /\ LineOf(r).seq = Len(log) + 1
         /\ LineOf(r).op = r.op /\ LineOf(r).goal = r.goal /\ LineOf(r).args = r.args
         /\ LineOf(r).id = r.id /\ LineOf(r).token = r.token /\ LineOf(r).now = r.now
         /\ LineOf(r).scope = LineScope(r)
<1> USE DEF Typed
<1>1. FenceScope(r) \in Scopes \union {NoScope}
  <2>1. CASE r.op = "gate_declared"
    BY <2>1 DEF FenceScope, ArgsOf
  <2>2. CASE r.op \in {"evidence_receipt", "gate_transition"}
    <3>1. r.args.gate \in Gates
      BY <2>2 DEF ArgsOf
    <3>2. full[r.goal].gates[r.args.gate] \in Gate
      BY <3>1 DEF TypeOK, Projection
    <3>3. QED
      BY <2>2, <3>2 DEF FenceScope, Gate
  <2>3. CASE r.op = "goal_transition"
    BY <2>3, ExecutionAssumption DEF FenceScope
  <2>4. CASE r.op \in {"goal_declared", "lease_grant", "lease_release", "run_assessment"}
    BY <2>4 DEF FenceScope
  <2>5. QED
    BY <2>1, <2>2, <2>3, <2>4 DEF Ops
<1>2. LineScope(r) \in Scopes \union {NoScope}
  BY <1>1 DEF LineScope, ArgsOf, Ops, LeaseOps
<1>3. Watermark(r) \in Nat
  <2>1. CASE r.op = "gate_transition"
    <3>1. r.args.gate \in Gates
      BY <2>1 DEF ArgsOf
    <3>2. full[r.goal].gates[r.args.gate] \in Gate
      BY <3>1 DEF TypeOK, Projection
    <3>3. QED
      BY <2>1, <3>2 DEF Watermark, Gate
  <2>2. QED
    BY <2>1 DEF Watermark
<1>4. r.args \in Args
  BY DEF Args, ArgsOf, Ops
<1>5. Len(log) \in Nat /\ fence[r.goal] \in Nat
  BY DEF TypeOK
<1>6. SupersedeReason(r) \in {"none", "released_by_holder", "expired"}
  BY DEF SupersedeReason
<1>7. QED
  BY <1>2, <1>3, <1>4, <1>5, <1>6 DEF LineOf, Line, HighWater

LEMMA WriteAppends ==
  ASSUME TypeOK, NEW r, Typed(r), Write(r)
  PROVE  /\ log' = Append(log, LineOf(r))
         /\ Len(log) \in Nat /\ Len(log') = Len(log) + 1
         /\ Lines = 1 .. Len(log) /\ Lines' = 1 .. Len(log) + 1
         /\ \A i \in Lines : log'[i] = log[i]
         /\ log'[Len(log) + 1] = LineOf(r)
         /\ log' \in Seq(Line)
<1>1. log' = Append(log, LineOf(r)) /\ LineOf(r) \in Line /\ log \in Seq(Line)
  BY LineIsTyped DEF Write, TypeOK
<1>2. QED
  BY <1>1 DEF Lines

(* Folding a line keeps a projection a projection. *)
LEMMA FoldLineIsTyped ==
  ASSUME NEW p \in Projection, NEW e \in Line, e.args \in ArgsOf(e.op)
  PROVE  FoldLine(p, e) \in Projection
<1>1. FoldGoal(p, e) \in GoalStatus
  BY DEF FoldGoal, Projection, GoalStatus, ArgsOf, Line, Ops
<1>2. FoldGates(p, e) \in [Gates -> Gate]
  <2>1. CASE e.op = "gate_declared" /\ p.gates[e.args.gate].status = "undeclared"
    <3>1. [status |-> "pending", scope |-> e.scope, required |-> e.args.required, reopened |-> 0] \in Gate
      BY <2>1 DEF Gate, GateStatus, ArgsOf, Line
    <3>2. QED
      BY <2>1, <3>1 DEF FoldGates, Projection
  <2>2. CASE e.op = "gate_transition" /\ ~Rejected(p, e)
    <3>1. e.args.gate \in Gates /\ e.args.to \in GateStatus /\ e.seq \in Nat
      BY <2>2 DEF ArgsOf, Line
    <3>2. MoveGate(p.gates[e.args.gate], e.args.to, e.seq) \in Gate
      BY <3>1 DEF MoveGate, Projection, Gate
    <3>3. QED
      BY <2>2, <3>2 DEF FoldGates, Projection
  <2>3. CASE /\ ~(e.op = "gate_declared" /\ p.gates[e.args.gate].status = "undeclared")
             /\ ~(e.op = "gate_transition" /\ ~Rejected(p, e))
    BY <2>3 DEF FoldGates, Projection
  <2>4. QED BY <2>1, <2>2, <2>3
<1>4. e.seq \in Nat
  BY DEF Line
<1>5. (p.bad \/ Rejected(p, e)) \in BOOLEAN
  OBVIOUS
<1>6. QED
  <2>1. ASSUME NEW a \in GoalStatus, NEW b \in [Gates -> Gate], NEW c \in BOOLEAN, NEW d \in Nat
        PROVE  [goal |-> a, gates |-> b, bad |-> c, seq |-> d] \in Projection
    BY DEF Projection
  <2>2. FoldLine(p, e) = [goal |-> FoldGoal(p, e), gates |-> FoldGates(p, e),
                          bad |-> (p.bad \/ Rejected(p, e)), seq |-> e.seq]
    BY DEF FoldLine
  <2>3. QED
    BY <1>1, <1>2, <1>4, <1>5, <2>1, <2>2, Zenon

LEMMA FoldLeasesIsTyped ==
  ASSUME NEW held \in [Scopes -> Lease], NEW e \in Line, e.args \in ArgsOf(e.op)
  PROVE  FoldLeases(held, e) \in [Scopes -> Lease]
<1>1. CASE e.op = "lease_grant"
  <2>1. e.args.scope \in Scopes /\ e.args.holder \in Holders /\ e.args.ttl \in Nat
        /\ e.seq \in Nat /\ e.fence \in Nat /\ e.now \in Nat
    BY <1>1 DEF ArgsOf, Line
  <2>2. FoldLease(held[e.args.scope], e) \in Lease
    BY <1>1, <2>1 DEF FoldLease, Lease
  <2>3. QED
    BY <1>1, <2>1, <2>2 DEF FoldLeases, LeaseOps
<1>2. CASE e.op = "lease_release"
  <2>1. e.args.scope \in Scopes
    BY <1>2 DEF ArgsOf
  <2>2. FoldLease(held[e.args.scope], e) \in Lease
    BY <1>2, <2>1 DEF FoldLease, Lease
  <2>3. QED
    BY <1>2, <2>1, <2>2 DEF FoldLeases, LeaseOps
<1>3. QED
  BY <1>1, <1>2 DEF FoldLeases, LeaseOps

-----------------------------------------------------------------------------
(* Type correctness. *)

LEMMA WriteKeepsTypes ==
  ASSUME TypeOK, NEW r, Typed(r), Write(r)
  PROVE  TypeOK'
<1> DEFINE e == LineOf(r)
<1>1. e \in Line /\ e.args \in ArgsOf(e.op) /\ e.seq = Len(log) + 1
      /\ e.op = r.op /\ e.args = r.args /\ r.goal \in Goals
  BY LineIsTyped DEF Typed
<1>2. log' \in Seq(Line)
  BY WriteAppends
<1>3. \A i \in Lines' : log'[i].seq = i /\ log'[i].args \in ArgsOf(log'[i].op)
  <2> SUFFICES ASSUME NEW i \in Lines'
               PROVE  log'[i].seq = i /\ log'[i].args \in ArgsOf(log'[i].op)
    OBVIOUS
  <2>1. CASE i \in Lines
    BY <2>1, WriteAppends DEF TypeOK
  <2>2. CASE i = Len(log) + 1
    BY <2>2, WriteAppends, <1>1
  <2>3. QED
    BY <2>1, <2>2, WriteAppends
<1>4. full' \in [Goals -> Projection] /\ seen' \in [Goals -> Projection]
  <2>1. FoldLine(full[r.goal], e) \in Projection /\ FoldLine(seen[r.goal], e) \in Projection
    BY <1>1, FoldLineIsTyped DEF TypeOK
  <2>2. full' = [full EXCEPT ![r.goal] = FoldLine(@, e)]
        /\ seen' = [seen EXCEPT ![r.goal] = FoldLine(@, e)]
    BY DEF Write
  <2> HIDE DEF e
  <2>3. QED
    BY <1>1, <2>1, <2>2 DEF TypeOK
<1>5. leases' \in [Goals -> [Scopes -> Lease]]
  <2>1. FoldLeases(leases[r.goal], e) \in [Scopes -> Lease]
    BY <1>1, FoldLeasesIsTyped DEF TypeOK
  <2>2. leases' = [leases EXCEPT ![r.goal] = FoldLeases(@, e)]
    BY DEF Write
  <2> HIDE DEF e
  <2>3. QED
    BY <1>1, <2>1, <2>2 DEF TypeOK
<1>6. fence' \in [Goals -> Nat]
  <2>1. e.fence \in Nat
    BY <1>1 DEF Line
  <2>2. fence' = IF r.op = "lease_grant" THEN [fence EXCEPT ![r.goal] = e.fence] ELSE fence
    BY DEF Write
  <2> HIDE DEF e
  <2>3. QED
    BY <1>1, <2>1, <2>2 DEF TypeOK
<1>7. QED
  BY <1>2, <1>3, <1>4, <1>5, <1>6 DEF TypeOK

LEMMA ForgetKeepsTypes ==
  ASSUME TypeOK, NEW g \in Goals, ForgetGoal(g)
  PROVE  TypeOK'
<1>1. NothingProjected \in Projection
  BY DEF NothingProjected, NoGate, Projection, Gate, GoalStatus, GateStatus
<1>2. seen' \in [Goals -> Projection]
  BY <1>1 DEF ForgetGoal, TypeOK
<1>3. QED
  BY <1>2 DEF ForgetGoal, TypeOK, Lines

(* The log, both projections, the leases and the fences keep their types, and *)
(* event_seq stays the place of the line, whatever the callers ask for.       *)
THEOREM TypeOKAlways == Spec => []TypeOK
<1>1. Init => TypeOK
  <2>1. NothingProjected \in Projection
    BY DEF NothingProjected, NoGate, Projection, Gate, GoalStatus, GateStatus
  <2>2. NeverLeased \in Lease
    BY DEF NeverLeased, Lease
  <2>3. QED
    BY <2>1, <2>2 DEF Init, TypeOK, Lines
<1>2. TypeOK /\ [Next]_vars => TypeOK'
  <2> SUFFICES ASSUME TypeOK, [Next]_vars PROVE TypeOK'
    OBVIOUS
  <2>1. CASE Next
    BY <2>1, NextIsOneWrite, WriteKeepsTypes, ForgetKeepsTypes
  <2>2. CASE UNCHANGED vars
    BY <2>2 DEF vars, TypeOK, Lines
  <2>3. QED
    BY <2>1, <2>2
<1>3. QED
  BY <1>1, <1>2, PTL DEF Spec

-----------------------------------------------------------------------------
(* What a step does to the log and to one gate. *)

LEMMA StepIsWriteOrNone ==
  ASSUME TypeOK, [Next]_vars
  PROVE  \/ \E r : Typed(r) /\ Write(r)
         \/ UNCHANGED <<log, full, leases, fence>>
BY NextIsOneWrite DEF vars, ForgetGoal

LEMMA WriteMovesOneGate ==
  ASSUME TypeOK, NEW r, Typed(r), Write(r), NEW g \in Goals, NEW k \in Gates
  PROVE  \/ /\ r.op = "gate_declared" /\ r.goal = g /\ r.args.gate = k
            /\ full[g].gates[k].status = "undeclared"
            /\ full'[g].gates[k] = [status |-> "pending", scope |-> r.args.scope,
                                    required |-> r.args.required, reopened |-> 0]
         \/ /\ r.op = "gate_transition" /\ r.goal = g /\ r.args.gate = k
            /\ <<full[g].gates[k].status, r.args.to>> \in GateMoves
            /\ full'[g].gates[k] = MoveGate(full[g].gates[k], r.args.to, Len(log) + 1)
         \/ /\ ~(/\ r.op \in {"gate_declared", "gate_transition"}
                /\ r.goal = g /\ r.args.gate = k)
            /\ full'[g].gates[k] = full[g].gates[k]
<1> DEFINE e == LineOf(r)
<1>1. /\ e.op = r.op /\ e.goal = r.goal /\ e.args = r.args /\ e.seq = Len(log) + 1
      /\ e.scope = LineScope(r) /\ r.goal \in Goals
  BY LineIsTyped DEF Typed
<1>2. full' = [full EXCEPT ![r.goal] = FoldLine(@, e)]
  BY DEF Write
<1> HIDE DEF e
<1>3. full'[r.goal].gates = FoldGates(full[r.goal], e)
  BY <1>1, <1>2 DEF TypeOK, FoldLine
<1>4. CASE r.goal # g
  BY <1>1, <1>2, <1>4 DEF TypeOK
<1>5. CASE r.goal = g /\ r.op = "gate_declared"
  <2>1. full[g].gates[r.args.gate].status = "undeclared" /\ r.args.gate \in Gates
    BY <1>5 DEF Write, Applies, Declared, Typed, ArgsOf
  <2>2. e.scope = r.args.scope
    BY <1>1, <1>5 DEF LineScope, LeaseOps, FenceScope
  <2>3. FoldGates(full[g], e) =
          [full[g].gates EXCEPT ![r.args.gate] =
             [status |-> "pending", scope |-> r.args.scope, required |-> r.args.required,
              reopened |-> 0]]
    BY <1>1, <1>5, <2>1, <2>2 DEF FoldGates
  <2>4. full[g].gates \in [Gates -> Gate]
    BY DEF TypeOK, Projection
  <2>5. QED
    BY <1>3, <1>5, <2>1, <2>3, <2>4
<1>6. CASE r.goal = g /\ r.op = "gate_transition"
  <2>1. <<full[g].gates[r.args.gate].status, r.args.to>> \in GateMoves /\ r.args.gate \in Gates
    BY <1>6 DEF Write, Applies, GuardHolds, MayMoveGate, Typed, ArgsOf
  <2>2. ~Rejected(full[g], e)
    BY <1>1, <1>6, <2>1 DEF Rejected
  <2>3. FoldGates(full[g], e) =
          [full[g].gates EXCEPT ![r.args.gate] = MoveGate(@, r.args.to, Len(log) + 1)]
    BY <1>1, <1>6, <2>2 DEF FoldGates
  <2>4. full[g].gates \in [Gates -> Gate]
    BY DEF TypeOK, Projection
  <2>5. QED
    BY <1>3, <1>6, <2>1, <2>3, <2>4
<1>7. CASE r.goal = g /\ r.op \notin {"gate_declared", "gate_transition"}
  BY <1>1, <1>3, <1>7 DEF FoldGates
<1>8. QED
  BY <1>4, <1>5, <1>6, <1>7

-----------------------------------------------------------------------------
(* Idempotency. *)

LEMMA WriteKeepsOneLine ==
  ASSUME TypeOK, OneLinePerOperation, NEW r, Typed(r), Write(r)
  PROVE  OneLinePerOperation'
<1>1. \A i \in Lines : log[i].id # r.id
  BY DEF Write, Applies, KnownOperation
<1>2. log'[Len(log) + 1].id = r.id
  BY WriteAppends, LineIsTyped
<1>3. QED
  BY <1>1, <1>2, WriteAppends DEF OneLinePerOperation

(* No two lines carry the same operation_id, however calls are retried. *)
THEOREM OneLinePerOperationAlways == Spec => []OneLinePerOperation
<1>1. Init => OneLinePerOperation
  BY DEF Init, OneLinePerOperation, Lines
<1>2. TypeOK /\ OneLinePerOperation /\ [Next]_vars => OneLinePerOperation'
  <2> SUFFICES ASSUME TypeOK, OneLinePerOperation, [Next]_vars
               PROVE  OneLinePerOperation'
    OBVIOUS
  <2>1. CASE UNCHANGED <<log, full, leases, fence>>
    BY <2>1 DEF OneLinePerOperation, Lines
  <2>2. QED
    BY <2>1, WriteKeepsOneLine, StepIsWriteOrNone
<1>3. QED
  BY <1>1, <1>2, TypeOKAlways, PTL DEF Spec

-----------------------------------------------------------------------------
(* Fencing. *)

(* The inductive part: no token is above the goal's fence, and a declared    *)
(* gate has a scope, so that a write to it is fenced.                        *)
GrantsAreCounted == \A i \in Lines : \A g \in Goals : IsGrant(i, g) => log[i].fence <= fence[g]
GatesAreScoped ==
  \A g \in Goals, k \in Gates :
    full[g].gates[k].status # "undeclared" => full[g].gates[k].scope # NoScope

FencesInv == GrantsAreCounted /\ GatesAreScoped /\ FencesIncrease /\ SupersededTokensNeverWrite

LEMMA WriteKeepsFences ==
  ASSUME TypeOK, FencesInv, NEW r, Typed(r), Write(r)
  PROVE  FencesInv'
<1> DEFINE n == Len(log) + 1
<1>1. /\ log'[n].op = r.op /\ log'[n].goal = r.goal /\ log'[n].token = r.token
      /\ r.goal \in Goals /\ r.token \in Nat
  BY LineIsTyped, WriteAppends DEF Typed
<1>2. log'[n].fence = IF r.op = "lease_grant" THEN fence[r.goal] + 1 ELSE 0
  <2>1. LineOf(r).fence = IF r.op = "lease_grant" THEN fence[r.goal] + 1 ELSE 0
    BY DEF LineOf
  <2>2. log'[n] = LineOf(r)
    BY WriteAppends
  <2>3. QED
    BY <2>1, <2>2
<1>3. fence' = IF r.op = "lease_grant" THEN [fence EXCEPT ![r.goal] = @ + 1] ELSE fence
  BY DEF Write, LineOf
<1>4. \A g \in Goals : fence[g] \in Nat
  BY DEF TypeOK
<1>5. \A i \in Lines : log[i].fence \in Nat /\ log[i].token \in Nat /\ log[i].goal \in Goals
  <2>1. \A i \in Lines : log[i] \in Line
    BY DEF TypeOK, Lines
  <2>2. QED
    BY <2>1 DEF Line
<1> HIDE DEF n
<1>6. /\ Lines' = Lines \union {n} /\ n \notin Lines /\ n \in Nat
      /\ \A i \in Lines : i \in Nat /\ i < n /\ log'[i] = log[i]
  BY WriteAppends DEF n
<1>7. GrantsAreCounted'
  <2> SUFFICES ASSUME NEW i \in Lines', NEW g \in Goals, IsGrant(i, g)'
               PROVE  log'[i].fence <= fence'[g]
    BY DEF GrantsAreCounted
  <2>1. fence[g] <= fence'[g]
    BY <1>1, <1>3, <1>4 DEF TypeOK
  <2>2. fence'[g] \in Nat
    BY WriteKeepsTypes DEF TypeOK
  <2>3. CASE i \in Lines
    <3>1. log[i].fence <= fence[g] /\ log[i].fence \in Nat
      BY <1>5, <1>6, <2>3 DEF FencesInv, GrantsAreCounted, IsGrant
    <3>2. QED
      BY <1>4, <1>6, <2>1, <2>2, <2>3, <3>1
  <2>4. CASE i = n
    BY <1>1, <1>2, <1>3, <1>4, <2>4 DEF IsGrant, TypeOK
  <2>5. QED
    BY <1>6, <2>3, <2>4
<1>8. GatesAreScoped'
  <2> SUFFICES ASSUME NEW g \in Goals, NEW k \in Gates,
                      full'[g].gates[k].status # "undeclared"
               PROVE  full'[g].gates[k].scope # NoScope
    BY DEF GatesAreScoped
  <2>1. full[g].gates[k] \in Gate
    BY DEF TypeOK, Projection
  <2>2. CASE full'[g].gates[k] = full[g].gates[k]
    BY <2>2 DEF FencesInv, GatesAreScoped
  <2>3. CASE r.op = "gate_declared" /\ full'[g].gates[k].scope = r.args.scope
    BY <2>3, ExecutionAssumption DEF Typed, ArgsOf
  <2>4. CASE /\ <<full[g].gates[k].status, r.args.to>> \in GateMoves
             /\ full'[g].gates[k] = MoveGate(full[g].gates[k], r.args.to, Len(log) + 1)
    <3>1. full[g].gates[k].status # "undeclared"
      BY <2>4 DEF GateMoves
    <3>2. full'[g].gates[k].scope = full[g].gates[k].scope
      BY <2>1, <2>4 DEF MoveGate, Gate
    <3>3. QED
      BY <3>1, <3>2 DEF FencesInv, GatesAreScoped
  <2>5. CASE /\ r.op = "gate_declared"
             /\ full'[g].gates[k] = [status |-> "pending", scope |-> r.args.scope,
                                     required |-> r.args.required, reopened |-> 0]
    BY <2>3, <2>5
  <2>6. QED
    BY <2>2, <2>4, <2>5, WriteMovesOneGate
<1>9. FencesIncrease'
  <2> SUFFICES ASSUME NEW i \in Lines', NEW j \in Lines', NEW g \in Goals,
                      i < j, IsGrant(i, g)', IsGrant(j, g)'
               PROVE  log'[i].fence < log'[j].fence
    BY DEF FencesIncrease
  <2>1. CASE j \in Lines
    <3>1. i \in Lines
      BY <1>6, <2>1
    <3>2. QED
      BY <1>6, <2>1, <3>1 DEF FencesInv, FencesIncrease, IsGrant
  <2>2. CASE j = n
    <3>1. i \in Lines /\ log'[i] = log[i]
      BY <1>6, <2>2
    <3>2. IsGrant(i, g)
      BY <3>1 DEF IsGrant
    <3>3. log[i].fence <= fence[g] /\ log[i].fence \in Nat
      BY <1>5, <3>1, <3>2 DEF FencesInv, GrantsAreCounted
    <3>4. r.op = "lease_grant" /\ r.goal = g
      BY <1>1, <2>2 DEF IsGrant
    <3>5. log'[n].fence = fence[g] + 1
      BY <1>2, <3>4
    <3>6. QED
      BY <1>4, <2>2, <3>1, <3>3, <3>5
  <2>3. QED
    BY <1>6, <2>1, <2>2
<1>10. SupersededTokensNeverWrite'
  <2> SUFFICES ASSUME NEW i \in Lines', NEW j \in Lines',
                      j < i, log'[i].token # 0, IsGrant(j, log[i].goal)'
               PROVE  log'[j].fence <= log'[i].token
    BY DEF SupersededTokensNeverWrite
  <2>1. CASE i \in Lines
    <3>1. j \in Lines
      BY <1>6, <2>1
    <3>2. QED
      BY <1>6, <2>1, <3>1 DEF FencesInv, SupersededTokensNeverWrite, IsGrant
  <2>2. CASE i = n
    <3>1. j \in Lines /\ IsGrant(j, r.goal)
      <4>1. j \in Lines
        BY <1>6, <2>2
      <4>2. log'[j].op = "lease_grant" /\ log'[j].goal = log'[n].goal
        BY <2>2 DEF IsGrant
      <4>3. QED
        BY <1>1, <1>6, <4>1, <4>2 DEF IsGrant
    <3>2. log[j].fence <= fence[r.goal] /\ log[j].fence \in Nat
      BY <1>1, <1>5, <3>1 DEF FencesInv, GrantsAreCounted
    <3>3. r.op \in FencedOps /\ r.token # 0
      BY <1>1, <2>2 DEF Typed
    <3>4. FenceScope(r) # NoScope
      <4>1. CASE r.op = "gate_declared"
        BY <4>1, ExecutionAssumption DEF FenceScope, Typed, ArgsOf
      <4>2. CASE r.op = "goal_transition"
        BY <4>2, ExecutionAssumption DEF FenceScope
      <4>3. CASE r.op \in {"evidence_receipt", "gate_transition"}
        <5>1. r.args.gate \in Gates
          BY <4>3 DEF Typed, ArgsOf
        <5>2. full[r.goal].gates[r.args.gate].status # "undeclared"
          BY <4>3 DEF Write, Applies, Declared
        <5>3. QED
          BY <1>1, <4>3, <5>1, <5>2 DEF FencesInv, GatesAreScoped, FenceScope
      <4>4. QED
        BY <3>3, <4>1, <4>2, <4>3 DEF FencedOps
    <3>5. r.token >= fence[r.goal]
      BY <3>3, <3>4 DEF Write, Applies, FencePasses
    <3>6. QED
      BY <1>1, <1>4, <1>6, <2>2, <3>1, <3>2, <3>5
  <2>3. QED
    BY <1>6, <2>1, <2>2
<1>11. QED
  BY <1>7, <1>8, <1>9, <1>10 DEF FencesInv

LEMMA FencesAlways == Spec => []FencesInv
<1>1. Init => FencesInv
  BY DEF Init, FencesInv, GrantsAreCounted, GatesAreScoped, FencesIncrease,
     SupersededTokensNeverWrite, Lines, NothingProjected, NoGate
<1>2. TypeOK /\ FencesInv /\ [Next]_vars => FencesInv'
  <2> SUFFICES ASSUME TypeOK, FencesInv, [Next]_vars PROVE FencesInv'
    OBVIOUS
  <2>1. CASE UNCHANGED <<log, full, leases, fence>>
    BY <2>1 DEF FencesInv, GrantsAreCounted, GatesAreScoped, FencesIncrease,
       SupersededTokensNeverWrite, Lines, IsGrant
  <2>2. QED
    BY <2>1, WriteKeepsFences, StepIsWriteOrNone
<1>3. QED
  BY <1>1, <1>2, TypeOKAlways, PTL DEF Spec

(* Fence tokens of a goal grow with the log, across all its scopes. *)
THEOREM FencesIncreaseAlways == Spec => []FencesIncrease
<1>1. FencesInv => FencesIncrease
  BY DEF FencesInv
<1>2. QED
  BY <1>1, FencesAlways, PTL

(* A token that any later grant of the goal superseded never writes again. *)
THEOREM SupersededTokensNeverWriteAlways == Spec => []SupersededTokensNeverWrite
<1>1. FencesInv => SupersededTokensNeverWrite
  BY DEF FencesInv
<1>2. QED
  BY <1>1, FencesAlways, PTL

-----------------------------------------------------------------------------
(* Evidence. *)

(* The inductive part: a gate's watermark is not below any of its reopens,    *)
(* and a gate that was ever moved is declared, so nothing resets it.          *)
ReopensAreCounted ==
  \A i \in Lines : \A g \in Goals, k \in Gates :
    IsReopen(i, g, k) => i <= full[g].gates[k].reopened
MovedGatesAreDeclared ==
  \A i \in Lines : \A g \in Goals, k \in Gates :
    IsMove(i, g, k) => full[g].gates[k].status # "undeclared"

EvidenceInv == ReopensAreCounted /\ MovedGatesAreDeclared /\ EvidenceIsFresh

LEMMA WriteKeepsReopens ==
  ASSUME TypeOK, EvidenceInv, NEW r, Typed(r), Write(r)
  PROVE  ReopensAreCounted' /\ MovedGatesAreDeclared'
<1> DEFINE n == Len(log) + 1
<1>1. log'[n].op = r.op /\ log'[n].goal = r.goal /\ log'[n].args = r.args
  BY LineIsTyped, WriteAppends
<1> HIDE DEF n
<1>2. /\ Lines' = Lines \union {n} /\ n \in Nat /\ n = Len(log) + 1
      /\ \A i \in Lines : i \in Nat /\ i < n /\ log'[i] = log[i]
  BY WriteAppends DEF n
<1> SUFFICES ASSUME NEW i \in Lines', NEW g \in Goals, NEW k \in Gates, IsMove(i, g, k)'
             PROVE  /\ IsReopen(i, g, k)' => i <= full'[g].gates[k].reopened
                    /\ full'[g].gates[k].status # "undeclared"
  BY DEF ReopensAreCounted, MovedGatesAreDeclared, IsReopen
<1>3. full[g].gates[k] \in Gate
  BY DEF TypeOK, Projection
<1>4. i \in Lines => IsMove(i, g, k) /\ (IsReopen(i, g, k)' <=> IsReopen(i, g, k))
  BY <1>2 DEF IsMove, IsReopen
<1>5. i = n => r.op = "gate_transition" /\ r.goal = g /\ r.args.gate = k
               /\ (IsReopen(i, g, k)' <=> r.args.to = "pending")
  BY <1>1 DEF IsMove, IsReopen
<1>6. CASE r.op = "gate_declared" /\ full[g].gates[k].status = "undeclared"
  BY <1>2, <1>4, <1>5, <1>6 DEF EvidenceInv, MovedGatesAreDeclared
<1>7. CASE /\ <<full[g].gates[k].status, r.args.to>> \in GateMoves
           /\ full'[g].gates[k] = MoveGate(full[g].gates[k], r.args.to, n)
  <2>1. full'[g].gates[k].status = r.args.to /\ r.args.to # "undeclared"
    BY <1>3, <1>7 DEF MoveGate, Gate, GateMoves
  <2>2. full'[g].gates[k].reopened = IF r.args.to = "pending" THEN n
                                     ELSE full[g].gates[k].reopened
    BY <1>3, <1>7 DEF MoveGate, Gate
  <2>3. IsReopen(i, g, k)' => i <= full'[g].gates[k].reopened
    <3>1. CASE i = n
      BY <1>2, <1>5, <2>2, <3>1
    <3>2. CASE i \in Lines
      BY <1>2, <1>4, <2>2, <3>2 DEF EvidenceInv, ReopensAreCounted
    <3>3. QED
      BY <1>2, <3>1, <3>2
  <2>4. QED
    BY <2>1, <2>3
<1>8. CASE /\ ~(/\ r.op \in {"gate_declared", "gate_transition"}
                /\ r.goal = g /\ r.args.gate = k)
           /\ full'[g].gates[k] = full[g].gates[k]
  BY <1>2, <1>4, <1>5, <1>8 DEF EvidenceInv, ReopensAreCounted, MovedGatesAreDeclared
<1>9. QED
  <2>1. \/ /\ r.op = "gate_declared" /\ r.goal = g /\ r.args.gate = k
           /\ full[g].gates[k].status = "undeclared"
           /\ full'[g].gates[k] = [status |-> "pending", scope |-> r.args.scope,
                                   required |-> r.args.required, reopened |-> 0]
        \/ /\ r.op = "gate_transition" /\ r.goal = g /\ r.args.gate = k
           /\ <<full[g].gates[k].status, r.args.to>> \in GateMoves
           /\ full'[g].gates[k] = MoveGate(full[g].gates[k], r.args.to, n)
        \/ /\ ~(/\ r.op \in {"gate_declared", "gate_transition"}
                /\ r.goal = g /\ r.args.gate = k)
           /\ full'[g].gates[k] = full[g].gates[k]
    BY WriteMovesOneGate DEF n
  <2>2. QED
    BY <1>6, <1>7, <1>8, <2>1

LEMMA WriteKeepsEvidenceFresh ==
  ASSUME TypeOK, EvidenceInv, NEW r, Typed(r), Write(r)
  PROVE  EvidenceIsFresh'
<1> DEFINE n == Len(log) + 1
<1>1. log'[n].op = r.op /\ log'[n].goal = r.goal /\ log'[n].args = r.args
  BY LineIsTyped, WriteAppends
<1> HIDE DEF n
<1>2. /\ Lines' = Lines \union {n} /\ n \in Nat /\ Lines = 1 .. n - 1
      /\ \A i \in Lines : i \in Nat /\ i < n /\ log'[i] = log[i] /\ log[i].seq = i
  BY WriteAppends DEF n, TypeOK
<1> SUFFICES ASSUME NEW i \in Lines', NEW g \in Goals, NEW k \in Gates, IsMove(i, g, k)',
                    VerdictFor(log'[i].args.to) # "none"
             PROVE  \E j \in 1 .. i - 1 :
                      /\ IsReceipt(j, g, k, VerdictFor(log[i].args.to))'
                      /\ \A m \in j .. i : ~IsReopen(m, g, k)'
  BY DEF EvidenceIsFresh
<1>3. CASE i \in Lines
  <2>1. IsMove(i, g, k) /\ VerdictFor(log[i].args.to) # "none" /\ log'[i] = log[i]
    BY <1>2, <1>3 DEF IsMove
  <2>2. PICK j \in 1 .. i - 1 : /\ IsReceipt(j, g, k, VerdictFor(log[i].args.to))
                                 /\ \A m \in j .. i : ~IsReopen(m, g, k)
    BY <1>3, <2>1 DEF EvidenceInv, EvidenceIsFresh
  <2>3. j .. i \subseteq Lines /\ j \in Lines
    BY <1>2, <1>3
  <2>4. IsReceipt(j, g, k, VerdictFor(log[i].args.to))'
    BY <1>2, <2>1, <2>2, <2>3 DEF IsReceipt
  <2>5. \A m \in j .. i : ~IsReopen(m, g, k)'
    BY <1>2, <2>2, <2>3 DEF IsReopen, IsMove
  <2>6. QED
    BY <2>4, <2>5
<1>4. CASE i = n
  <2>1. r.op = "gate_transition" /\ r.goal = g /\ r.args.gate = k /\ VerdictFor(r.args.to) # "none"
    BY <1>1, <1>4 DEF IsMove
  <2>2. EvidenceFor(r)
    BY <2>1 DEF Write, Applies, GuardHolds, MayMoveGate
  <2>3. PICK j \in Lines : /\ IsReceipt(j, g, k, VerdictFor(r.args.to))
                            /\ log[j].seq > full[g].gates[k].reopened
    BY <2>1, <2>2 DEF EvidenceFor, IsReceipt
  <2>4. \A m \in j .. n - 1 : ~IsReopen(m, g, k)
    <3>1. full[g].gates[k].reopened \in Nat
      BY DEF TypeOK, Projection, Gate
    <3>2. QED
      BY <1>2, <2>3, <3>1 DEF EvidenceInv, ReopensAreCounted
  <2>5. ~IsReopen(i, g, k)'
    BY <1>1, <1>4, <2>1 DEF IsReopen, VerdictFor
  <2>6. \A m \in j .. i : ~IsReopen(m, g, k)'
    <3> SUFFICES ASSUME NEW m \in j .. i PROVE ~IsReopen(m, g, k)'
      OBVIOUS
    <3>1. CASE m = i
      BY <2>5, <3>1
    <3>2. CASE m # i
      <4>1. m \in Lines /\ m \in j .. n - 1
        BY <1>2, <1>4, <3>2
      <4>2. QED
        BY <1>2, <2>4, <4>1 DEF IsReopen, IsMove
    <3>3. QED
      BY <3>1, <3>2
  <2>7. IsReceipt(j, g, k, VerdictFor(log[i].args.to))'
    BY <1>1, <1>2, <1>4, <2>3 DEF IsReceipt
  <2>8. j \in 1 .. i - 1
    BY <1>2, <1>4
  <2>9. QED
    BY <1>4, <2>6, <2>7, <2>8
<1>5. QED
  BY <1>2, <1>3, <1>4

LEMMA EvidenceAlways == Spec => []EvidenceInv
<1>1. Init => EvidenceInv
  BY DEF Init, EvidenceInv, ReopensAreCounted, MovedGatesAreDeclared, EvidenceIsFresh, Lines
<1>2. TypeOK /\ EvidenceInv /\ [Next]_vars => EvidenceInv'
  <2> SUFFICES ASSUME TypeOK, EvidenceInv, [Next]_vars PROVE EvidenceInv'
    OBVIOUS
  <2>1. CASE UNCHANGED <<log, full, leases, fence>>
    BY <2>1 DEF EvidenceInv, ReopensAreCounted, MovedGatesAreDeclared, EvidenceIsFresh, Lines,
       IsMove, IsReopen, IsReceipt
  <2>2. QED
    BY <2>1, WriteKeepsReopens, WriteKeepsEvidenceFresh, StepIsWriteOrNone DEF EvidenceInv
<1>3. QED
  BY <1>1, <1>2, TypeOKAlways, PTL DEF Spec

(* A gate passes or fails only on a receipt recorded after its last reopen. *)
THEOREM EvidenceIsFreshAlways == Spec => []EvidenceIsFresh
<1>1. EvidenceInv => EvidenceIsFresh
  BY DEF EvidenceInv
<1>2. QED
  BY <1>1, EvidenceAlways, PTL

-----------------------------------------------------------------------------
(* The completion barrier. *)

IsDeclaration(d, g, k) ==
  log[d].op = "gate_declared" /\ log[d].goal = g /\ log[d].args.gate = k

(* Between lines d and n the gate was settled and not moved again. *)
SettledBetween(d, n, g, k) ==
  \E m \in d + 1 .. n : /\ IsMove(m, g, k) /\ log[m].args.to \in Settled
                        /\ \A q \in m + 1 .. n : ~IsMove(q, g, k)

(* The inductive part: the projection knows what a declaration required, and *)
(* a gate it calls settled was moved there after its declaration, last.      *)
DeclarationsAreProjected ==
  \A d \in Lines : \A g \in Goals, k \in Gates : IsDeclaration(d, g, k) =>
    /\ full[g].gates[k].status # "undeclared"
    /\ full[g].gates[k].required = log[d].args.required
SettledGatesWereMoved ==
  \A d \in Lines : \A g \in Goals, k \in Gates :
    IsDeclaration(d, g, k) /\ full[g].gates[k].status \in Settled
      => SettledBetween(d, Len(log), g, k)

EarnedInv == DeclarationsAreProjected /\ SettledGatesWereMoved /\ SatisfiedWasEarned

LEMMA WriteKeepsDeclarations ==
  ASSUME TypeOK, EarnedInv, NEW r, Typed(r), Write(r)
  PROVE  DeclarationsAreProjected' /\ SettledGatesWereMoved'
<1> DEFINE n == Len(log) + 1
<1>1. log'[n].op = r.op /\ log'[n].goal = r.goal /\ log'[n].args = r.args
  BY LineIsTyped, WriteAppends
<1> HIDE DEF n
<1>2. /\ Lines' = Lines \union {n} /\ n \in Nat /\ n = Len(log) + 1 /\ Lines = 1 .. n - 1
      /\ Len(log') = n /\ Len(log) = n - 1
      /\ \A i \in Lines : i \in Nat /\ i < n /\ log'[i] = log[i]
  BY WriteAppends DEF n
<1> SUFFICES ASSUME NEW d \in Lines', NEW g \in Goals, NEW k \in Gates, IsDeclaration(d, g, k)'
             PROVE  /\ full'[g].gates[k].status # "undeclared"
                    /\ full'[g].gates[k].required = log'[d].args.required
                    /\ full'[g].gates[k].status \in Settled => SettledBetween(d, Len(log), g, k)'
  BY DEF DeclarationsAreProjected, SettledGatesWereMoved
<1>3. full[g].gates[k] \in Gate
  BY DEF TypeOK, Projection
<1>4. d \in Lines => /\ IsDeclaration(d, g, k) /\ full[g].gates[k].status # "undeclared"
                     /\ full[g].gates[k].required = log'[d].args.required
  BY <1>2 DEF IsDeclaration, EarnedInv, DeclarationsAreProjected
<1>5. d = n => r.op = "gate_declared" /\ r.goal = g /\ r.args.gate = k
  BY <1>1 DEF IsDeclaration
<1>6. CASE /\ r.op = "gate_declared" /\ r.goal = g /\ r.args.gate = k
           /\ full[g].gates[k].status = "undeclared"
           /\ full'[g].gates[k] = [status |-> "pending", scope |-> r.args.scope,
                                   required |-> r.args.required, reopened |-> 0]
  <2>1. d = n
    BY <1>2, <1>4, <1>6
  <2>2. full'[g].gates[k].status = "pending" /\ full'[g].gates[k].required = r.args.required
    BY <1>6
  <2>3. QED
    BY <1>1, <2>1, <2>2 DEF Settled
<1>7. CASE /\ r.op = "gate_transition" /\ r.goal = g /\ r.args.gate = k
           /\ <<full[g].gates[k].status, r.args.to>> \in GateMoves
           /\ full'[g].gates[k] = MoveGate(full[g].gates[k], r.args.to, n)
  <2>1. d \in Lines
    BY <1>2, <1>5, <1>7
  <2>2. full'[g].gates[k].status = r.args.to /\ r.args.to # "undeclared"
    BY <1>3, <1>7 DEF MoveGate, Gate, GateMoves
  <2>3. full'[g].gates[k].required = full[g].gates[k].required
    BY <1>3, <1>7 DEF MoveGate, Gate
  <2>4. ASSUME r.args.to \in Settled PROVE SettledBetween(d, Len(log), g, k)'
    <3>1. n \in d + 1 .. Len(log') /\ n + 1 .. Len(log') = {}
      BY <1>2, <2>1
    <3>2. log'[n].op = "gate_transition" /\ log'[n].goal = g /\ log'[n].args.gate = k
          /\ log'[n].args.to \in Settled
      BY <1>1, <1>7, <2>4
    <3>3. QED
      BY <3>1, <3>2 DEF SettledBetween, IsMove
  <2>5. QED
    BY <1>4, <2>1, <2>2, <2>3, <2>4
<1>8. CASE /\ ~(/\ r.op \in {"gate_declared", "gate_transition"}
                /\ r.goal = g /\ r.args.gate = k)
           /\ full'[g].gates[k] = full[g].gates[k]
  <2>1. d \in Lines
    BY <1>2, <1>5, <1>8
  <2>2. ASSUME full[g].gates[k].status \in Settled PROVE SettledBetween(d, Len(log), g, k)'
    <3>1. PICK m \in d + 1 .. Len(log) : /\ IsMove(m, g, k) /\ log[m].args.to \in Settled
                                         /\ \A q \in m + 1 .. Len(log) : ~IsMove(q, g, k)
      BY <1>4, <2>1, <2>2 DEF EarnedInv, SettledGatesWereMoved, SettledBetween
    <3>2. m \in Lines /\ m \in d + 1 .. Len(log')
      BY <1>2, <2>1
    <3>3. log'[m] = log[m]
      BY <1>2, <3>2
    <3>4. ASSUME NEW q \in m + 1 .. Len(log')
          PROVE  ~(log'[q].op = "gate_transition" /\ log'[q].goal = g /\ log'[q].args.gate = k)
      <4>1. CASE q = n
        BY <1>1, <1>8, <4>1
      <4>2. CASE q # n
        <5>1. q \in Lines /\ q \in m + 1 .. Len(log)
          BY <1>2, <3>2, <4>2
        <5>2. QED
          BY <1>2, <3>1, <5>1 DEF IsMove
      <4>3. QED
        BY <4>1, <4>2
    <3>5. QED
      BY <3>1, <3>2, <3>3, <3>4 DEF SettledBetween, IsMove
  <2>3. QED
    BY <1>4, <1>8, <2>1, <2>2
<1>9. QED
  <2>1. \/ /\ r.op = "gate_declared" /\ r.goal = g /\ r.args.gate = k
           /\ full[g].gates[k].status = "undeclared"
           /\ full'[g].gates[k] = [status |-> "pending", scope |-> r.args.scope,
                                   required |-> r.args.required, reopened |-> 0]
        \/ /\ r.op = "gate_transition" /\ r.goal = g /\ r.args.gate = k
           /\ <<full[g].gates[k].status, r.args.to>> \in GateMoves
           /\ full'[g].gates[k] = MoveGate(full[g].gates[k], r.args.to, n)
        \/ /\ ~(/\ r.op \in {"gate_declared", "gate_transition"}
                /\ r.goal = g /\ r.args.gate = k)
           /\ full'[g].gates[k] = full[g].gates[k]
    BY WriteMovesOneGate DEF n
  <2>2. QED
    BY <1>6, <1>7, <1>8, <2>1

(* What SatisfiedWasEarned says of line i. *)
Earned(i) ==
  log[i].op = "goal_transition" /\ log[i].args.to = "satisfied" =>
    \A d \in 1 .. i - 1 :
      log[d].op = "gate_declared" /\ log[d].goal = log[i].goal /\ log[d].args.required =>
        SettledBetween(d, i - 1, log[i].goal, log[d].args.gate)

LEMMA EarnedLineByLine == SatisfiedWasEarned <=> \A i \in Lines : Earned(i)
BY DEF SatisfiedWasEarned, Earned, SettledBetween

LEMMA WriteKeepsEarned ==
  ASSUME TypeOK, EarnedInv, NEW r, Typed(r), Write(r)
  PROVE  SatisfiedWasEarned'
<1> DEFINE n == Len(log) + 1
<1>1. log'[n].op = r.op /\ log'[n].goal = r.goal /\ log'[n].args = r.args
  BY LineIsTyped, WriteAppends
<1> HIDE DEF n
<1>2. /\ Lines' = Lines \union {n} /\ n \in Nat /\ Lines = 1 .. n - 1 /\ Len(log) = n - 1
      /\ \A i \in Lines : i \in Nat /\ i < n /\ log'[i] = log[i]
  BY WriteAppends DEF n
<1> SUFFICES ASSUME NEW i \in Lines', NEW d \in 1 .. i - 1,
                    log'[i].op = "goal_transition", log'[i].args.to = "satisfied",
                    log'[d].op = "gate_declared", log'[d].goal = log'[i].goal,
                    log'[d].args.required
             PROVE  SettledBetween(d, i - 1, log[i].goal, log[d].args.gate)'
  BY DEF SatisfiedWasEarned, SettledBetween
<1>3. d \in Lines /\ log'[d] = log[d] /\ d .. i - 1 \subseteq Lines
  BY <1>2
<1>4. SettledBetween(d, i - 1, log'[i].goal, log[d].args.gate)
  <2>1. CASE i \in Lines
    <3>1. log'[i] = log[i]
      BY <1>2, <2>1
    <3>2. Earned(i)
      BY <2>1, EarnedLineByLine DEF EarnedInv
    <3>3. QED
      BY <1>3, <3>1, <3>2 DEF Earned
  <2>2. CASE i = n
    <3>1. r.op = "goal_transition" /\ r.args.to = "satisfied" /\ log'[i].goal = r.goal
      BY <1>1, <2>2
    <3>2. AllSettled(r.goal) /\ r.goal \in Goals
      BY <3>1 DEF Write, Applies, GuardHolds, MayMoveGoal, Typed
    <3>3. log[d].args.gate \in Gates
      <4>1. log[d].op = "gate_declared" /\ log[d].args \in ArgsOf(log[d].op)
        BY <1>3 DEF TypeOK
      <4>2. log[d].args \in [gate : Gates, scope : Scopes, required : BOOLEAN]
        BY <4>1 DEF ArgsOf
      <4>3. QED
        BY <4>2
    <3>4. IsDeclaration(d, r.goal, log[d].args.gate)
      BY <1>3, <3>1 DEF IsDeclaration
    <3>5. full[r.goal].gates[log[d].args.gate].status \in Settled
      BY <1>3, <3>2, <3>3, <3>4 DEF EarnedInv, DeclarationsAreProjected, AllSettled
    <3>6. QED
      BY <1>2, <1>3, <2>2, <3>1, <3>2, <3>3, <3>4, <3>5 DEF EarnedInv, SettledGatesWereMoved
  <2>3. QED
    BY <1>2, <2>1, <2>2
<1>5. QED
  <2>1. PICK m \in d + 1 .. i - 1 :
          /\ IsMove(m, log'[i].goal, log[d].args.gate) /\ log[m].args.to \in Settled
          /\ \A q \in m + 1 .. i - 1 : ~IsMove(q, log'[i].goal, log[d].args.gate)
    BY <1>4 DEF SettledBetween
  <2>2. m \in Lines /\ m + 1 .. i - 1 \subseteq Lines
    BY <1>2, <1>3
  <2>3. QED
    BY <1>2, <1>3, <2>1, <2>2 DEF SettledBetween, IsMove

LEMMA EarnedAlways == Spec => []EarnedInv
<1>1. Init => EarnedInv
  BY DEF Init, EarnedInv, DeclarationsAreProjected, SettledGatesWereMoved, SatisfiedWasEarned, Lines
<1>2. TypeOK /\ EarnedInv /\ [Next]_vars => EarnedInv'
  <2> SUFFICES ASSUME TypeOK, EarnedInv, [Next]_vars PROVE EarnedInv'
    OBVIOUS
  <2>1. CASE UNCHANGED <<log, full, leases, fence>>
    BY <2>1 DEF EarnedInv, DeclarationsAreProjected, SettledGatesWereMoved, SatisfiedWasEarned,
       Lines, IsDeclaration, IsMove, SettledBetween
  <2>2. QED
    BY <2>1, WriteKeepsDeclarations, WriteKeepsEarned, StepIsWriteOrNone DEF EarnedInv
<1>3. QED
  BY <1>1, <1>2, TypeOKAlways, PTL DEF Spec

(* I-E7: a goal is satisfied only over settled required gates. *)
THEOREM SatisfiedWasEarnedAlways == Spec => []SatisfiedWasEarned
<1>1. EarnedInv => SatisfiedWasEarned
  BY DEF EarnedInv
<1>2. QED
  BY <1>1, EarnedAlways, PTL
-----------------------------------------------------------------------------
(* Leases. *)

(* The grant on line i was released by a later line. *)
ReleasedAfter(i) ==
  \E m \in i + 1 .. Len(log) : log[m].op = "lease_release" /\ log[m].args.lease = i

(* The inductive part: what the kernel remembers of a scope's lease is what  *)
(* the log says of its last grant, and whether a release names that grant.   *)
NewestGrantIsHeld ==
  \A i \in Lines : \A g \in Goals, s \in Scopes : IsGrantOf(i, g, s) => i <= leases[g][s].grant
HeldLeaseIsALine ==
  \A g \in Goals, s \in Scopes : LET last == leases[g][s] IN
    last.grant # 0 =>
      /\ last.grant \in Lines /\ IsGrantOf(last.grant, g, s)
      /\ last.holder = log[last.grant].args.holder
      /\ last.expires = log[last.grant].now + log[last.grant].args.ttl
      /\ last.released <=> ReleasedAfter(last.grant)

LeasesInv == NewestGrantIsHeld /\ HeldLeaseIsALine /\ LeasesAreHonoured

(* What a call does to one scope's lease: it grants it, releases it or       *)
(* leaves it alone.                                                          *)
LEMMA WriteMovesOneLease ==
  ASSUME TypeOK, NEW r, Typed(r), Write(r), NEW g \in Goals, NEW s \in Scopes
  PROVE  \/ /\ r.op = "lease_grant" /\ r.goal = g /\ r.args.scope = s
            /\ leases'[g][s] = [grant |-> Len(log) + 1, holder |-> r.args.holder,
                                token |-> fence[g] + 1, expires |-> r.now + r.args.ttl,
                                released |-> FALSE]
         \/ /\ r.op = "lease_release" /\ r.goal = g /\ r.args.scope = s
            /\ leases[g][s].grant # 0 /\ leases[g][s].grant = r.args.lease
            /\ leases'[g][s] = [leases[g][s] EXCEPT !.released = TRUE]
         \/ /\ ~(r.op \in LeaseOps /\ r.goal = g /\ r.args.scope = s)
            /\ leases'[g][s] = leases[g][s]
<1> DEFINE e == LineOf(r)
<1>1. /\ e.op = r.op /\ e.args = r.args /\ e.seq = Len(log) + 1 /\ e.now = r.now
      /\ r.goal \in Goals
  BY LineIsTyped DEF Typed
<1>2. r.op = "lease_grant" => e.fence = fence[r.goal] + 1
  BY DEF LineOf
<1>3. leases' = [leases EXCEPT ![r.goal] = FoldLeases(@, e)]
  BY DEF Write
<1> HIDE DEF e
<1>4. leases[r.goal] \in [Scopes -> Lease]
  BY <1>1 DEF TypeOK
<1>5. leases'[r.goal] = FoldLeases(leases[r.goal], e)
  BY <1>1, <1>3 DEF TypeOK
<1>6. CASE r.goal # g
  BY <1>1, <1>3, <1>6 DEF TypeOK
<1>7. CASE r.goal = g /\ r.op \notin LeaseOps
  BY <1>1, <1>5, <1>7 DEF FoldLeases
<1>8. CASE r.goal = g /\ r.op \in LeaseOps
  <2>1. r.args.scope \in Scopes
    BY <1>8 DEF Typed, ArgsOf, LeaseOps
  <2>2. leases'[g] = [leases[g] EXCEPT ![r.args.scope] = FoldLease(@, e)]
    BY <1>1, <1>5, <1>8 DEF FoldLeases
  <2>3. CASE r.args.scope # s
    BY <1>4, <1>8, <2>1, <2>2, <2>3
  <2>4. CASE r.args.scope = s
    <3>1. leases'[g][s] = FoldLease(leases[g][s], e)
      BY <1>4, <1>8, <2>1, <2>2, <2>4
    <3>2. CASE r.op = "lease_grant"
      BY <1>1, <1>2, <1>8, <2>4, <3>1, <3>2 DEF FoldLease
    <3>3. CASE r.op = "lease_release"
      <4>1. leases[g][s].grant # 0 /\ leases[g][s].grant = r.args.lease
        BY <1>8, <2>4, <3>3 DEF Write, Applies, GuardHolds, MayRelease
      <4>2. FoldLease(leases[g][s], e) = [leases[g][s] EXCEPT !.released = TRUE]
        BY <1>1, <3>3, <4>1 DEF FoldLease
      <4>3. QED
        BY <1>8, <2>4, <3>1, <3>3, <4>1, <4>2
    <3>4. QED
      BY <1>8, <3>2, <3>3 DEF LeaseOps
  <2>5. QED
    BY <2>3, <2>4
<1>9. QED
  BY <1>6, <1>7, <1>8

(* The types of what the log and a lease say about a grant. *)
LEMMA GrantIsTyped ==
  ASSUME TypeOK, NEW i \in Lines, NEW g \in Goals, NEW s, IsGrantOf(i, g, s)
  PROVE  s \in Scopes /\ log[i].args.holder \in Holders
         /\ log[i].args.ttl \in Nat /\ log[i].now \in Nat
<1>1. log[i].args \in ArgsOf("lease_grant") /\ log[i] \in Line
  BY DEF TypeOK, IsGrantOf, IsGrant, Lines
<1>2. log[i].args \in [scope : Scopes, holder : Holders, ttl : Nat]
  BY <1>1 DEF ArgsOf
<1>3. QED
  BY <1>1, <1>2 DEF IsGrantOf, Line

LEMMA WriteKeepsHeldLeases ==
  ASSUME TypeOK, LeasesInv, NEW r, Typed(r), Write(r)
  PROVE  NewestGrantIsHeld' /\ HeldLeaseIsALine'
<1> PICK n \in Nat : n = Len(log) + 1
  BY DEF TypeOK
<1>1. /\ log'[n].op = r.op /\ log'[n].goal = r.goal /\ log'[n].args = r.args
      /\ log'[n].now = r.now /\ r.goal \in Goals
  BY LineIsTyped, WriteAppends DEF Typed
<1>2. /\ Lines' = Lines \union {n} /\ n \in Nat /\ n = Len(log) + 1 /\ Lines = 1 .. n - 1
      /\ Len(log') = n /\ Len(log) = n - 1
      /\ \A i \in Lines : i \in Nat /\ i < n /\ log'[i] = log[i]
  BY WriteAppends
<1> SUFFICES ASSUME NEW g \in Goals, NEW s \in Scopes
             PROVE  /\ \A i \in Lines' : IsGrantOf(i, g, s)' => i <= leases'[g][s].grant
                    /\ leases'[g][s].grant # 0 =>
                         /\ leases'[g][s].grant \in Lines'
                         /\ IsGrantOf(leases[g][s].grant, g, s)'
                         /\ leases'[g][s].holder = log'[leases'[g][s].grant].args.holder
                         /\ leases'[g][s].expires = log'[leases'[g][s].grant].now
                                                    + log'[leases'[g][s].grant].args.ttl
                         /\ leases'[g][s].released <=> ReleasedAfter(leases[g][s].grant)'
  BY DEF NewestGrantIsHeld, HeldLeaseIsALine
<1>3. leases[g][s] \in Lease
  BY DEF TypeOK
<1>4. \A i \in Lines : IsGrantOf(i, g, s)' <=> IsGrantOf(i, g, s)
  BY <1>2 DEF IsGrantOf, IsGrant
<1>5. IsGrantOf(n, g, s)' <=> r.op = "lease_grant" /\ r.goal = g /\ r.args.scope = s
  BY <1>1 DEF IsGrantOf, IsGrant
<1>6. \A i \in Lines : IsGrantOf(i, g, s) => i <= leases[g][s].grant
  BY DEF LeasesInv, NewestGrantIsHeld
<1>7. leases[g][s].grant # 0 =>
        /\ leases[g][s].grant \in Lines /\ IsGrantOf(leases[g][s].grant, g, s)
        /\ leases[g][s].holder = log[leases[g][s].grant].args.holder
        /\ leases[g][s].expires = log[leases[g][s].grant].now + log[leases[g][s].grant].args.ttl
        /\ leases[g][s].released <=> ReleasedAfter(leases[g][s].grant)
  BY DEF LeasesInv, HeldLeaseIsALine
<1>8. \A i \in Lines : ReleasedAfter(i)' <=>
        ReleasedAfter(i) \/ (r.op = "lease_release" /\ r.args.lease = i)
  <2> SUFFICES ASSUME NEW i \in Lines
               PROVE  ReleasedAfter(i)' <=>
                        ReleasedAfter(i) \/ (r.op = "lease_release" /\ r.args.lease = i)
    OBVIOUS
  <2>1. i + 1 .. n = (i + 1 .. n - 1) \union {n} /\ i + 1 .. n - 1 \subseteq Lines
    BY <1>2
  <2>2. QED
    BY <1>1, <1>2, <2>1 DEF ReleasedAfter
<1>9. CASE /\ r.op = "lease_grant" /\ r.goal = g /\ r.args.scope = s
           /\ leases'[g][s] = [grant |-> n, holder |-> r.args.holder,
                               token |-> fence[g] + 1, expires |-> r.now + r.args.ttl,
                               released |-> FALSE]
  <2>1. /\ leases'[g][s].grant = n /\ leases'[g][s].holder = r.args.holder
        /\ leases'[g][s].expires = r.now + r.args.ttl /\ leases'[g][s].released = FALSE
    BY <1>9
  <2>2. ~ReleasedAfter(leases[g][s].grant)'
    BY <1>2, <2>1 DEF ReleasedAfter
  <2>3. IsGrantOf(leases[g][s].grant, g, s)'
    BY <1>1, <1>9, <2>1 DEF IsGrantOf, IsGrant
  <2>4. QED
    BY <1>1, <1>2, <2>1, <2>2, <2>3
<1>10. CASE /\ r.op = "lease_release" /\ r.goal = g /\ r.args.scope = s
            /\ leases[g][s].grant # 0 /\ leases[g][s].grant = r.args.lease
            /\ leases'[g][s] = [leases[g][s] EXCEPT !.released = TRUE]
  <2>1. /\ leases'[g][s].grant = leases[g][s].grant /\ leases'[g][s].holder = leases[g][s].holder
        /\ leases'[g][s].expires = leases[g][s].expires /\ leases'[g][s].released = TRUE
    BY <1>3, <1>10 DEF Lease
  <2>2. \A i \in Lines' : IsGrantOf(i, g, s)' => i <= leases'[g][s].grant
    BY <1>2, <1>4, <1>5, <1>6, <1>10, <2>1
  <2>3. IsGrantOf(leases[g][s].grant, g, s)' /\ ReleasedAfter(leases[g][s].grant)'
    <3>1. \A i \in Lines : i = leases[g][s].grant => IsGrantOf(i, g, s)' /\ ReleasedAfter(i)'
      BY <1>4, <1>7, <1>8, <1>10
    <3>2. leases[g][s].grant \in Lines
      BY <1>7, <1>10
    <3>3. IsGrantOf(leases[g][s].grant, g, s) /\ leases'[g][s].grant = leases[g][s].grant
      BY <1>7, <1>10, <2>1
    <3>4. /\ log'[leases'[g][s].grant] = log[leases[g][s].grant]
      BY <1>2, <3>2, <3>3
    <3>5. \E m \in leases[g][s].grant + 1 .. n :
             log'[m].op = "lease_release" /\ log'[m].args.lease = leases[g][s].grant
      BY <1>1, <1>2, <1>10, <3>2
    <3>6. QED
      BY <1>2, <3>3, <3>4, <3>5 DEF IsGrantOf, IsGrant, ReleasedAfter
  <2>4. QED
    BY <1>2, <1>7, <1>10, <2>1, <2>2, <2>3
<1>11. CASE /\ ~(r.op \in LeaseOps /\ r.goal = g /\ r.args.scope = s)
            /\ leases'[g][s] = leases[g][s]
  <2>1. \A i \in Lines' : IsGrantOf(i, g, s)' => i <= leases'[g][s].grant
    BY <1>2, <1>4, <1>5, <1>6, <1>11 DEF LeaseOps
  <2>2. ASSUME leases[g][s].grant # 0, r.op = "lease_release", r.args.lease = leases[g][s].grant
        PROVE  FALSE
    <3>1. r.args.scope \in Scopes
      BY <2>2 DEF Typed, ArgsOf
    <3>2. leases[r.goal][r.args.scope].grant = r.args.lease
      BY <2>2 DEF Write, Applies, GuardHolds, MayRelease
    <3>3. IsGrantOf(r.args.lease, r.goal, r.args.scope)
      BY <1>1, <2>2, <3>1, <3>2 DEF LeasesInv, HeldLeaseIsALine
    <3>4. IsGrantOf(r.args.lease, g, s)
      BY <1>7, <2>2
    <3>5. QED
      BY <1>11, <2>2, <3>3, <3>4 DEF IsGrantOf, IsGrant, LeaseOps
  <2>3. ASSUME leases[g][s].grant # 0
        PROVE  /\ IsGrantOf(leases[g][s].grant, g, s)'
               /\ leases[g][s].released <=> ReleasedAfter(leases[g][s].grant)'
    <3>1. leases[g][s].grant \in Lines /\ IsGrantOf(leases[g][s].grant, g, s)
          /\ (leases[g][s].released <=> ReleasedAfter(leases[g][s].grant))
      BY <1>7, <2>3
    <3>2. log'[leases'[g][s].grant] = log[leases[g][s].grant]
      BY <1>2, <1>11, <3>1
    <3>3. leases[g][s].grant + 1 .. n = (leases[g][s].grant + 1 .. n - 1) \union {n}
          /\ leases[g][s].grant + 1 .. n - 1 \subseteq Lines
      BY <1>2, <3>1
    <3>4. (\E m \in leases[g][s].grant + 1 .. n :
             log'[m].op = "lease_release" /\ log'[m].args.lease = leases[g][s].grant)
          <=> ReleasedAfter(leases[g][s].grant)
      BY <1>1, <1>2, <2>2, <2>3, <3>3 DEF ReleasedAfter
    <3>5. ReleasedAfter(leases[g][s].grant)' <=> ReleasedAfter(leases[g][s].grant)
      BY <1>2, <1>11, <3>4 DEF ReleasedAfter
    <3>6. QED
      BY <3>1, <3>2, <3>5, <1>11 DEF IsGrantOf, IsGrant
  <2>4. QED
    BY <1>2, <1>7, <1>11, <2>1, <2>3
<1>12. QED
  <2>1. \/ /\ r.op = "lease_grant" /\ r.goal = g /\ r.args.scope = s
           /\ leases'[g][s] = [grant |-> n, holder |-> r.args.holder,
                               token |-> fence[g] + 1, expires |-> r.now + r.args.ttl,
                               released |-> FALSE]
        \/ /\ r.op = "lease_release" /\ r.goal = g /\ r.args.scope = s
           /\ leases[g][s].grant # 0 /\ leases[g][s].grant = r.args.lease
           /\ leases'[g][s] = [leases[g][s] EXCEPT !.released = TRUE]
        \/ /\ ~(r.op \in LeaseOps /\ r.goal = g /\ r.args.scope = s)
           /\ leases'[g][s] = leases[g][s]
    BY WriteMovesOneLease
  <2>2. QED
    BY <1>9, <1>10, <1>11, <2>1

LEMMA WriteKeepsLeasedScopesFenced ==
  ASSUME TypeOK, LeasesInv, NEW r, Typed(r), Write(r)
  PROVE  LeasedScopesAreFenced'
<1> PICK n \in Nat : n = Len(log) + 1
  BY DEF TypeOK
<1>1. /\ log'[n].op = r.op /\ log'[n].goal = r.goal /\ log'[n].now = r.now
      /\ log'[n].token = r.token /\ log'[n].scope = LineScope(r) /\ r.goal \in Goals
  BY LineIsTyped, WriteAppends DEF Typed
<1>2. /\ Lines' = Lines \union {n} /\ Lines = 1 .. n - 1
      /\ \A i \in Lines : i \in Nat /\ i < n /\ log'[i] = log[i]
      /\ Len(log) = n - 1
  BY WriteAppends
<1> SUFFICES ASSUME NEW i \in Lines', NEW j \in Lines', i < j,
                    log'[i].op = "lease_grant", log'[i].goal = log'[j].goal,
                    log'[i].args.scope = log'[j].scope,
                    log'[j].op \notin LeaseOps, log'[j].token = 0
             PROVE  \/ log'[i].now + log'[i].args.ttl <= log'[j].now
                    \/ \E m \in i + 1 .. j - 1 :
                         \/ IsGrantOf(m, log[j].goal, log[j].scope)'
                         \/ log'[m].op = "lease_release" /\ log'[m].args.lease = i
  BY DEF LeasedScopesAreFenced, IsGrantOf, IsGrant
<1>3. i \in Lines /\ log'[i] = log[i] /\ i + 1 .. j - 1 \subseteq Lines
  BY <1>2
<1>4. CASE j \in Lines
  <2>1. log'[j] = log[j]
    BY <1>2, <1>4
  <2>2. IsGrantOf(i, log[j].goal, log[j].scope)
    BY <1>3, <2>1 DEF IsGrantOf, IsGrant
  <2>3. \/ log[i].now + log[i].args.ttl <= log[j].now
        \/ \E m \in i + 1 .. j - 1 :
             \/ IsGrantOf(m, log[j].goal, log[j].scope)
             \/ log[m].op = "lease_release" /\ log[m].args.lease = i
    BY <1>3, <1>4, <2>1, <2>2 DEF LeasesInv, LeasesAreHonoured, LeasedScopesAreFenced
  <2>4. ASSUME NEW m \in i + 1 .. j - 1
        PROVE  /\ log'[m] = log[m]
               /\ IsGrantOf(m, log[j].goal, log[j].scope)
                    => IsGrantOf(m, log[j].goal, log[j].scope)'
    <3>1. log'[m] = log[m]
      BY <1>2, <1>3
    <3>2. QED
      BY <2>1, <3>1 DEF IsGrantOf, IsGrant
  <2>5. QED
    BY <1>3, <2>1, <2>3, <2>4
<1>5. CASE j = n
  <2> DEFINE g == r.goal
             s == LineScope(r)
             last == leases[r.goal][LineScope(r)]
  <2>1. r.op \notin LeaseOps /\ r.token = 0 /\ s = FenceScope(r)
    BY <1>1, <1>5 DEF LineScope
  <2>2. IsGrantOf(i, g, s)
    BY <1>1, <1>3, <1>5 DEF IsGrantOf, IsGrant
  <2>3. s \in Scopes /\ s # NoScope /\ log[i].now \in Nat /\ log[i].args.ttl \in Nat
    BY <1>1, <1>3, <2>2, GrantIsTyped, ExecutionAssumption
  <2>4. ~IsActive(last, r.now)
    <3>1. FencePasses(r) /\ FenceScope(r) # NoScope
      BY <2>1, <2>3 DEF Write, Applies
    <3>2. QED
      BY <2>1, <3>1 DEF FencePasses
  <2>5. i <= last.grant /\ last.grant \in Nat /\ last.grant # 0
    <3>1. last \in Lease
      BY <1>1, <2>3 DEF TypeOK
    <3>2. i <= last.grant /\ last.grant \in Nat
      BY <1>1, <1>3, <2>2, <2>3, <3>1 DEF LeasesInv, NewestGrantIsHeld, Lease
    <3>3. QED
      BY <1>2, <1>3, <3>2
  <2>6. /\ last.grant \in Lines /\ IsGrantOf(last.grant, g, s)
        /\ last.expires = log[last.grant].now + log[last.grant].args.ttl
        /\ last.released <=> ReleasedAfter(last.grant)
    BY <1>1, <2>3, <2>5 DEF LeasesInv, HeldLeaseIsALine
  <2> HIDE DEF last, g, s
  <2>7. CASE i # last.grant
    <3>1. last.grant \in i + 1 .. j - 1
      BY <1>2, <1>3, <1>5, <2>5, <2>6, <2>7
    <3>2. log'[last.grant].op = "lease_grant" /\ log'[last.grant].goal = log'[j].goal
          /\ log'[last.grant].args.scope = log'[j].scope
      BY <1>1, <1>2, <1>5, <2>6 DEF IsGrantOf, IsGrant, g, s
    <3>3. \A m \in i + 1 .. j - 1 : m = last.grant => IsGrantOf(m, log[j].goal, log[j].scope)'
      BY <3>2 DEF IsGrantOf, IsGrant
    <3>4. QED
      BY <3>1, <3>3
  <2>8. CASE i = last.grant
    <3>1. CASE last.released
      <4>1. PICK m \in i + 1 .. n - 1 : log[m].op = "lease_release" /\ log[m].args.lease = i
        BY <1>2, <2>6, <2>8, <3>1 DEF ReleasedAfter
      <4>2. QED
        BY <1>2, <1>3, <1>5, <4>1
    <3>2. CASE ~last.released
      <4>1. ~(last.expires > r.now)
        BY <2>4, <2>5, <3>2 DEF IsActive
      <4>2. r.now \in Nat
        BY DEF Typed
      <4>3. QED
        BY <1>1, <1>3, <1>5, <2>3, <2>6, <2>8, <4>1, <4>2
    <3>3. QED
      BY <3>1, <3>2
  <2>9. QED
    BY <2>7, <2>8
<1>6. QED
  BY <1>2, <1>4, <1>5

LEMMA WriteKeepsHandoversHonest ==
  ASSUME TypeOK, LeasesInv, NEW r, Typed(r), Write(r)
  PROVE  HandoversAreHonest'
<1> PICK n \in Nat : n = Len(log) + 1
  BY DEF TypeOK
<1>1. /\ log'[n].op = r.op /\ log'[n].goal = r.goal /\ log'[n].now = r.now
      /\ log'[n].args = r.args /\ r.goal \in Goals
  BY LineIsTyped, WriteAppends DEF Typed
<1>2. /\ Lines' = Lines \union {n} /\ Lines = 1 .. n - 1
      /\ \A i \in Lines : i \in Nat /\ i < n /\ log'[i] = log[i]
      /\ Len(log) = n - 1
  BY WriteAppends
<1> SUFFICES ASSUME NEW j \in Lines', NEW g \in Goals, NEW s \in Scopes, IsGrantOf(j, g, s)',
                    NEW i \in 1 .. j - 1, IsGrantOf(i, g, s)',
                    \A m \in i + 1 .. j - 1 : ~IsGrantOf(m, g, s)'
             PROVE  LET released == \E m \in i + 1 .. j - 1 :
                                      log'[m].op = "lease_release" /\ log'[m].args.lease = i
                    IN \/ /\ log'[j].reason = "expired" /\ ~released
                          /\ log'[i].now + log'[i].args.ttl <= log'[j].now
                       \/ /\ log'[j].reason = "released_by_holder"
                          /\ released \/ log'[i].args.holder = log'[j].args.holder
  BY DEF HandoversAreHonest
<1>3. i \in Lines /\ log'[i] = log[i] /\ i + 1 .. j - 1 \subseteq Lines
  BY <1>2
<1>4. IsGrantOf(i, g, s) /\ \A m \in i + 1 .. j - 1 : ~IsGrantOf(m, g, s)
  BY <1>2, <1>3 DEF IsGrantOf, IsGrant
<1> DEFINE released == \E m \in i + 1 .. j - 1 :
                         log[m].op = "lease_release" /\ log[m].args.lease = i
<1>5. released <=> \E m \in i + 1 .. j - 1 :
                     log'[m].op = "lease_release" /\ log'[m].args.lease = i
  BY <1>2, <1>3
<1>6. \/ /\ log'[j].reason = "expired" /\ ~released
         /\ log[i].now + log[i].args.ttl <= log'[j].now
      \/ /\ log'[j].reason = "released_by_holder"
         /\ released \/ log[i].args.holder = log'[j].args.holder
  <2>1. CASE j \in Lines
    <3>1. IsGrantOf(j, g, s) /\ log'[j] = log[j]
      BY <1>2, <2>1 DEF IsGrantOf, IsGrant
    <3>2. QED
      BY <1>4, <2>1, <3>1 DEF LeasesInv, LeasesAreHonoured, HandoversAreHonest
  <2>2. CASE j = n
    <3> DEFINE last == leases[g][s]
    <3>1. r.op = "lease_grant" /\ r.goal = g /\ r.args.scope = s
      BY <1>1, <2>2 DEF IsGrantOf, IsGrant
    <3>2. log'[n].reason = SupersedeReason(r)
      <4>1. LineOf(r).reason = SupersedeReason(r)
        BY <3>1 DEF LineOf
      <4>2. QED
        BY <4>1, WriteAppends
    <3>3. last \in Lease
      BY DEF TypeOK
    <3>4. i <= last.grant /\ last.grant \in Nat /\ last.grant # 0
      BY <1>2, <1>3, <1>4, <3>3 DEF LeasesInv, NewestGrantIsHeld, Lease
    <3>5. /\ last.grant \in Lines /\ IsGrantOf(last.grant, g, s)
          /\ last.holder = log[last.grant].args.holder
          /\ last.expires = log[last.grant].now + log[last.grant].args.ttl
          /\ last.released <=> ReleasedAfter(last.grant)
      BY <3>4 DEF LeasesInv, HeldLeaseIsALine
    <3>6. last.grant = i
      BY <1>2, <1>4, <2>2, <3>4, <3>5
    <3>7. last.released <=> released
      BY <1>2, <2>2, <3>5, <3>6 DEF ReleasedAfter
    <3>8. SupersedeReason(r) = IF IsActive(last, r.now) \/ last.released
                               THEN "released_by_holder" ELSE "expired"
      BY <3>1, <3>4 DEF SupersedeReason
    <3>9. IsActive(last, r.now) => last.holder = r.args.holder
      BY <3>1 DEF Write, Applies, GuardHolds, MayAcquire
    <3>10. ~IsActive(last, r.now) /\ ~last.released => last.expires <= r.now
      BY <3>3, <3>4 DEF IsActive, Typed, Lease
    <3> HIDE DEF last, released
    <3>11. QED
      BY <1>1, <2>2, <3>2, <3>5, <3>6, <3>7, <3>8, <3>9, <3>10
  <2>3. QED
    BY <1>2, <2>1, <2>2
<1> HIDE DEF released
<1>7. QED
  BY <1>3, <1>5, <1>6

LEMMA LeasesAlways == Spec => []LeasesInv
<1>1. Init => LeasesInv
  BY DEF Init, LeasesInv, NewestGrantIsHeld, HeldLeaseIsALine, LeasesAreHonoured,
     LeasedScopesAreFenced, HandoversAreHonest, Lines, NeverLeased
<1>2. TypeOK /\ LeasesInv /\ [Next]_vars => LeasesInv'
  <2> SUFFICES ASSUME TypeOK, LeasesInv, [Next]_vars PROVE LeasesInv'
    OBVIOUS
  <2>1. CASE UNCHANGED <<log, full, leases, fence>>
    BY <2>1 DEF LeasesInv, NewestGrantIsHeld, HeldLeaseIsALine, LeasesAreHonoured,
       LeasedScopesAreFenced, HandoversAreHonest, Lines, ReleasedAfter, IsGrantOf, IsGrant
  <2>2. ASSUME NEW r, Typed(r), Write(r) PROVE LeasesInv'
    BY <2>2, WriteKeepsHeldLeases, WriteKeepsLeasedScopesFenced, WriteKeepsHandoversHonest
       DEF LeasesInv, LeasesAreHonoured
  <2>3. QED
    BY <2>1, <2>2, StepIsWriteOrNone
<1>3. QED
  BY <1>1, <1>2, TypeOKAlways, PTL DEF Spec

(* A leased scope takes no write without a token while the lease stands, and *)
(* changes hands only when it was released, expired or renewed: whatever the *)
(* clocks of the callers say, in any order.                                  *)
THEOREM LeasesAreHonouredAlways == Spec => []LeasesAreHonoured
<1>1. LeasesInv => LeasesAreHonoured
  BY DEF LeasesInv
<1>2. QED
  BY <1>1, LeasesAlways, PTL

-----------------------------------------------------------------------------
(* The folds. *)

(* The inductive part: a gate that has a move in the log is declared, so     *)
(* that no later declaration resets it, and a watermark is a line.           *)
WatermarksAreLines ==
  \A g \in Goals, k \in Gates : full[g].gates[k].reopened \in {0} \union Lines
FoldsInv == MovedGatesAreDeclared /\ WatermarksAreLines /\ FoldsAgreeWithTheLog

(* What ProjectionReadsTheLog says of one gate. *)
GateReadsTheLog(g, k) ==
  LET gate == full[g].gates[k] IN
    /\ \A i \in Lines : IsMove(i, g, k) /\ (\A j \in i + 1 .. Len(log) : ~IsMove(j, g, k))
         => gate.status = log[i].args.to
    /\ \A i \in Lines : IsReopen(i, g, k) => i <= gate.reopened
    /\ gate.reopened # 0 => IsReopen(gate.reopened, g, k)

LEMMA ProjectionGateByGate ==
  ProjectionReadsTheLog <=> \A g \in Goals, k \in Gates : GateReadsTheLog(g, k)
BY DEF ProjectionReadsTheLog, GateReadsTheLog

LEMMA WriteKeepsProjections ==
  ASSUME TypeOK, FoldsInv, NEW r, Typed(r), Write(r)
  PROVE  ProjectionReadsTheLog'
<1> PICK n \in Nat : n = Len(log) + 1
  BY DEF TypeOK
<1>1. log'[n].op = r.op /\ log'[n].goal = r.goal /\ log'[n].args = r.args
  BY LineIsTyped, WriteAppends
<1>2. /\ Lines' = Lines \union {n} /\ Lines = 1 .. n - 1
      /\ \A i \in Lines : i \in Nat /\ i < n /\ log'[i] = log[i]
      /\ Len(log) = n - 1 /\ Len(log') = n
  BY WriteAppends
<1> SUFFICES ASSUME NEW g \in Goals, NEW k \in Gates PROVE GateReadsTheLog(g, k)'
  BY DEF ProjectionReadsTheLog, GateReadsTheLog
<1>3. full[g].gates[k] \in Gate
  BY DEF TypeOK, Projection
<1>4. GateReadsTheLog(g, k)
  BY ProjectionGateByGate DEF FoldsInv, FoldsAgreeWithTheLog
<1>5. \A i \in Lines : /\ IsMove(i, g, k)' <=> IsMove(i, g, k)
                       /\ IsReopen(i, g, k)' <=> IsReopen(i, g, k)
  BY <1>2 DEF IsMove, IsReopen
<1>6. /\ IsMove(n, g, k)' <=> r.op = "gate_transition" /\ r.goal = g /\ r.args.gate = k
      /\ IsReopen(n, g, k)' <=> /\ r.op = "gate_transition" /\ r.goal = g /\ r.args.gate = k
                                /\ r.args.to = "pending"
  BY <1>1 DEF IsMove, IsReopen
<1>7. \A i \in Lines : IsMove(i, g, k) => full[g].gates[k].status # "undeclared"
  BY DEF FoldsInv, MovedGatesAreDeclared
<1>8. CASE /\ r.op = "gate_declared" /\ r.goal = g /\ r.args.gate = k
           /\ full[g].gates[k].status = "undeclared"
           /\ full'[g].gates[k] = [status |-> "pending", scope |-> r.args.scope,
                                   required |-> r.args.required, reopened |-> 0]
  <2>1. full'[g].gates[k].reopened = 0
    BY <1>8
  <2>2. \A i \in Lines' : ~IsMove(i, g, k)' /\ ~IsReopen(i, g, k)'
    BY <1>2, <1>5, <1>6, <1>7, <1>8 DEF IsReopen
  <2>3. QED
    BY <2>1, <2>2 DEF GateReadsTheLog
<1>9. CASE /\ r.op = "gate_transition" /\ r.goal = g /\ r.args.gate = k
           /\ <<full[g].gates[k].status, r.args.to>> \in GateMoves
           /\ full'[g].gates[k] = MoveGate(full[g].gates[k], r.args.to, n)
  <2>1. full'[g].gates[k].status = r.args.to
    BY <1>3, <1>9 DEF MoveGate, Gate
  <2>2. full'[g].gates[k].reopened = IF r.args.to = "pending" THEN n
                                     ELSE full[g].gates[k].reopened
    BY <1>3, <1>9 DEF MoveGate, Gate
  <2>3. ASSUME NEW i \in Lines', IsMove(i, g, k)', \A j \in i + 1 .. n : ~IsMove(j, g, k)'
        PROVE  i = n
    BY <1>2, <1>6, <1>9, <2>3
  <2>4. ASSUME NEW i \in Lines', IsReopen(i, g, k)'
        PROVE  i <= full'[g].gates[k].reopened
    <3>1. CASE i = n
      BY <1>2, <1>6, <2>2, <2>4, <3>1
    <3>2. CASE i \in Lines
      BY <1>2, <1>4, <1>5, <2>2, <2>4, <3>2 DEF GateReadsTheLog
    <3>3. QED
      BY <1>2, <3>1, <3>2
  <2>5. ASSUME full'[g].gates[k].reopened # 0
        PROVE  IsReopen(full[g].gates[k].reopened, g, k)'
    <3>1. CASE r.args.to = "pending"
      BY <1>1, <1>9, <2>2, <3>1 DEF IsReopen, IsMove
    <3>2. CASE r.args.to # "pending"
      <4>1. full'[g].gates[k].reopened = full[g].gates[k].reopened
        BY <2>2, <3>2
      <4>2. IsReopen(full[g].gates[k].reopened, g, k)
        BY <1>4, <2>5, <4>1 DEF GateReadsTheLog
      <4>3. full[g].gates[k].reopened \in Lines
        BY <2>5, <4>1 DEF FoldsInv, WatermarksAreLines
      <4>4. QED
        BY <1>2, <4>1, <4>2, <4>3 DEF IsReopen, IsMove
    <3>3. QED
      BY <3>1, <3>2
  <2>6. QED
    BY <1>1, <1>2, <1>9, <2>1, <2>3, <2>4, <2>5 DEF GateReadsTheLog
<1>10. CASE /\ ~(/\ r.op \in {"gate_declared", "gate_transition"}
                 /\ r.goal = g /\ r.args.gate = k)
            /\ full'[g].gates[k] = full[g].gates[k]
  <2>1. ~IsMove(n, g, k)' /\ ~IsReopen(n, g, k)'
    BY <1>6, <1>10
  <2>2. ASSUME NEW i \in Lines', IsMove(i, g, k)', \A j \in i + 1 .. n : ~IsMove(j, g, k)'
        PROVE  full[g].gates[k].status = log'[i].args.to
    <3>1. i \in Lines /\ IsMove(i, g, k) /\ log'[i] = log[i]
      BY <1>2, <1>5, <2>1, <2>2
    <3>2. \A j \in i + 1 .. Len(log) : ~IsMove(j, g, k)
      BY <1>2, <1>5, <2>2, <3>1
    <3>3. QED
      BY <1>4, <3>1, <3>2 DEF GateReadsTheLog
  <2>3. ASSUME NEW i \in Lines', IsReopen(i, g, k)'
        PROVE  i <= full[g].gates[k].reopened
    BY <1>2, <1>4, <1>5, <2>1, <2>3 DEF GateReadsTheLog
  <2>4. ASSUME full[g].gates[k].reopened # 0
        PROVE  IsReopen(full[g].gates[k].reopened, g, k)'
    <3>1. full[g].gates[k].reopened \in Lines /\ IsReopen(full[g].gates[k].reopened, g, k)
      BY <1>4, <2>4 DEF GateReadsTheLog, FoldsInv, WatermarksAreLines
    <3>2. log'[full'[g].gates[k].reopened] = log[full[g].gates[k].reopened]
      BY <1>2, <1>10, <3>1
    <3>3. QED
      BY <3>1, <3>2 DEF IsReopen, IsMove
  <2>5. QED
    BY <1>2, <1>10, <2>2, <2>3, <2>4 DEF GateReadsTheLog
<1>11. QED
  <2>1. \/ /\ r.op = "gate_declared" /\ r.goal = g /\ r.args.gate = k
           /\ full[g].gates[k].status = "undeclared"
           /\ full'[g].gates[k] = [status |-> "pending", scope |-> r.args.scope,
                                   required |-> r.args.required, reopened |-> 0]
        \/ /\ r.op = "gate_transition" /\ r.goal = g /\ r.args.gate = k
           /\ <<full[g].gates[k].status, r.args.to>> \in GateMoves
           /\ full'[g].gates[k] = MoveGate(full[g].gates[k], r.args.to, n)
        \/ /\ ~(/\ r.op \in {"gate_declared", "gate_transition"}
                /\ r.goal = g /\ r.args.gate = k)
           /\ full'[g].gates[k] = full[g].gates[k]
    BY WriteMovesOneGate
  <2>2. QED
    BY <1>8, <1>9, <1>10, <2>1

LEMMA WriteKeepsWatermarks ==
  ASSUME TypeOK, FoldsInv, NEW r, Typed(r), Write(r)
  PROVE  WatermarksAreLines' /\ MovedGatesAreDeclared'
<1> PICK n \in Nat : n = Len(log) + 1
  BY DEF TypeOK
<1>1. log'[n].op = r.op /\ log'[n].goal = r.goal /\ log'[n].args = r.args
  BY LineIsTyped, WriteAppends
<1>2. /\ Lines' = Lines \union {n} /\ \A i \in Lines : i \in Nat /\ log'[i] = log[i]
  BY WriteAppends
<1> SUFFICES ASSUME NEW g \in Goals, NEW k \in Gates
             PROVE  /\ full'[g].gates[k].reopened \in {0} \union Lines'
                    /\ \A i \in Lines' : IsMove(i, g, k)' => full'[g].gates[k].status # "undeclared"
  BY DEF WatermarksAreLines, MovedGatesAreDeclared
<1>3. full[g].gates[k] \in Gate /\ full[g].gates[k].reopened \in {0} \union Lines
  BY DEF TypeOK, Projection, FoldsInv, WatermarksAreLines
<1>4. \A i \in Lines : IsMove(i, g, k)' => full[g].gates[k].status # "undeclared"
  BY <1>2 DEF IsMove, FoldsInv, MovedGatesAreDeclared
<1>5. IsMove(n, g, k)' <=> r.op = "gate_transition" /\ r.goal = g /\ r.args.gate = k
  BY <1>1 DEF IsMove
<1>6. CASE /\ r.op = "gate_declared" /\ r.goal = g /\ r.args.gate = k
           /\ full[g].gates[k].status = "undeclared"
           /\ full'[g].gates[k] = [status |-> "pending", scope |-> r.args.scope,
                                   required |-> r.args.required, reopened |-> 0]
  BY <1>6
<1>7. CASE /\ r.op = "gate_transition" /\ r.goal = g /\ r.args.gate = k
           /\ <<full[g].gates[k].status, r.args.to>> \in GateMoves
           /\ full'[g].gates[k] = MoveGate(full[g].gates[k], r.args.to, n)
  BY <1>2, <1>3, <1>7 DEF MoveGate, Gate, GateMoves
<1>8. CASE /\ ~(/\ r.op \in {"gate_declared", "gate_transition"}
                /\ r.goal = g /\ r.args.gate = k)
           /\ full'[g].gates[k] = full[g].gates[k]
  BY <1>2, <1>3, <1>4, <1>5, <1>8
<1>9. QED
  <2>1. \/ /\ r.op = "gate_declared" /\ r.goal = g /\ r.args.gate = k
           /\ full[g].gates[k].status = "undeclared"
           /\ full'[g].gates[k] = [status |-> "pending", scope |-> r.args.scope,
                                   required |-> r.args.required, reopened |-> 0]
        \/ /\ r.op = "gate_transition" /\ r.goal = g /\ r.args.gate = k
           /\ <<full[g].gates[k].status, r.args.to>> \in GateMoves
           /\ full'[g].gates[k] = MoveGate(full[g].gates[k], r.args.to, n)
        \/ /\ ~(/\ r.op \in {"gate_declared", "gate_transition"}
                /\ r.goal = g /\ r.args.gate = k)
           /\ full'[g].gates[k] = full[g].gates[k]
    BY WriteMovesOneGate
  <2>2. QED
    BY <1>6, <1>7, <1>8, <2>1

(* What the writer's guard let through, the fold accepts. *)
LEMMA WriteFoldsCleanly ==
  ASSUME TypeOK, FoldsInv, NEW r, Typed(r), Write(r)
  PROVE  WritersFoldCleanly'
<1> DEFINE e == LineOf(r)
<1>1. e.op = r.op /\ e.args = r.args /\ r.goal \in Goals
  BY LineIsTyped DEF Typed
<1>2. full' = [full EXCEPT ![r.goal] = FoldLine(@, e)]
  BY DEF Write
<1> HIDE DEF e
<1>3. ~Rejected(full[r.goal], e)
  BY <1>1 DEF Write, Applies, GuardHolds, MayMoveGate, MayMoveGoal, Rejected
<1>4. \A g \in Goals : ~full[g].bad
  BY DEF FoldsInv, FoldsAgreeWithTheLog, WritersFoldCleanly
<1>5. ~FoldLine(full[r.goal], e).bad
  BY <1>1, <1>3, <1>4 DEF FoldLine
<1>6. QED
  BY <1>1, <1>2, <1>4, <1>5 DEF WritersFoldCleanly, TypeOK

LEMMA FoldsAlways == Spec => []FoldsInv
<1>1. Init => FoldsInv
  BY DEF Init, FoldsInv, MovedGatesAreDeclared, WatermarksAreLines, FoldsAgreeWithTheLog,
     ProjectionReadsTheLog, WritersFoldCleanly, Lines, NothingProjected, NoGate
<1>2. TypeOK /\ FoldsInv /\ [Next]_vars => FoldsInv'
  <2> SUFFICES ASSUME TypeOK, FoldsInv, [Next]_vars PROVE FoldsInv'
    OBVIOUS
  <2>1. CASE UNCHANGED <<log, full, leases, fence>>
    <3>1. Lines' = Lines
      BY <2>1 DEF Lines
    <3>2. \A i \in Lines, g \in Goals, k \in Gates :
            (IsMove(i, g, k)' <=> IsMove(i, g, k)) /\ (IsReopen(i, g, k)' <=> IsReopen(i, g, k))
      BY <2>1 DEF IsMove, IsReopen
    <3>3. MovedGatesAreDeclared' /\ WatermarksAreLines'
      BY <2>1, <3>1, <3>2 DEF FoldsInv, MovedGatesAreDeclared, WatermarksAreLines
    <3>4. ProjectionReadsTheLog'
      BY <2>1 DEF FoldsInv, FoldsAgreeWithTheLog, ProjectionReadsTheLog, Lines, IsMove, IsReopen
    <3>5. WritersFoldCleanly'
      BY <2>1 DEF FoldsInv, FoldsAgreeWithTheLog, WritersFoldCleanly
    <3>6. QED BY <3>3, <3>4, <3>5 DEF FoldsInv, FoldsAgreeWithTheLog
  <2>2. ASSUME NEW r, Typed(r), Write(r) PROVE FoldsInv'
    BY <2>2, WriteKeepsWatermarks, WriteKeepsProjections, WriteFoldsCleanly
       DEF FoldsInv, FoldsAgreeWithTheLog
  <2>3. QED
    BY <2>1, <2>2, StepIsWriteOrNone
<1>3. QED
  BY <1>1, <1>2, TypeOKAlways, PTL DEF Spec

(* What a gate's projection says is what the log's lines say, and no writer  *)
(* ever appends a transition that the fold of a later reader rejects.        *)
THEOREM FoldsAgreeWithTheLogAlways == Spec => []FoldsAgreeWithTheLog
<1>1. FoldsInv => FoldsAgreeWithTheLog
  BY DEF FoldsInv
<1>2. QED
  BY <1>1, FoldsAlways, PTL

-----------------------------------------------------------------------------
(* Retries. *)

(* The inductive part: a line about a gate is about a declared one, and only *)
(* a gate transition carries a watermark.                                    *)
GateLinesAreDeclared ==
  \A i \in Lines : log[i].op \in {"evidence_receipt", "gate_transition"} =>
    full[log[i].goal].gates[log[i].args.gate].status # "undeclared"
OnlyMovesAreWatermarked ==
  \A i \in Lines : log[i].op # "gate_transition" => log[i].water = 0

RetriesInv == GateLinesAreDeclared /\ OnlyMovesAreWatermarked

LEMMA RetriesAreAcknowledged ==
  ASSUME TypeOK, GatesAreScoped, RetriesInv
  PROVE  UnfencedRetriesAreAcknowledged
<1> SUFFICES ASSUME NEW i \in Lines, FenceScope(log[i]) = NoScope
             PROVE  Acknowledged(log[i])
  BY DEF UnfencedRetriesAreAcknowledged
<1>1. log[i].args \in ArgsOf(log[i].op) /\ log[i].goal \in Goals
  <2>1. log[i] \in Line
    BY DEF TypeOK, Lines
  <2>2. QED
    BY <2>1 DEF TypeOK, Line
<1>2. FencePasses(log[i])
  BY DEF FencePasses
<1>3. log[i].op # "gate_transition"
  <2> SUFFICES ASSUME log[i].op = "gate_transition" PROVE FALSE
    OBVIOUS
  <2>1. log[i].args.gate \in Gates
    BY <1>1 DEF ArgsOf
  <2>2. full[log[i].goal].gates[log[i].args.gate].status # "undeclared"
    BY DEF RetriesInv, GateLinesAreDeclared
  <2>3. QED
    BY <1>1, <2>1, <2>2 DEF GatesAreScoped, FenceScope
<1>4. SameFingerprint(log[i], log[i])
  BY <1>3 DEF SameFingerprint, Watermark, RetriesInv, OnlyMovesAreWatermarked
<1>5. QED
  BY <1>2, <1>4 DEF Acknowledged

LEMMA WriteKeepsRetries ==
  ASSUME TypeOK, RetriesInv, NEW r, Typed(r), Write(r)
  PROVE  RetriesInv'
<1> PICK n \in Nat : n = Len(log) + 1
  BY DEF TypeOK
<1>1. log'[n].op = r.op /\ log'[n].goal = r.goal /\ log'[n].args = r.args
  BY LineIsTyped, WriteAppends
<1>2. log'[n].water = Watermark(r)
  <2>1. LineOf(r).water = Watermark(r)
    BY DEF LineOf
  <2>2. QED
    BY <2>1, WriteAppends
<1>3. Lines' = Lines \union {n} /\ \A i \in Lines : log'[i] = log[i]
  BY WriteAppends
<1>4. ASSUME NEW g \in Goals, NEW k \in Gates, full[g].gates[k].status # "undeclared"
      PROVE  full'[g].gates[k].status # "undeclared"
  <2>1. full[g].gates[k] \in Gate
    BY DEF TypeOK, Projection
  <2>2. ASSUME <<full[g].gates[k].status, r.args.to>> \in GateMoves
        PROVE  MoveGate(full[g].gates[k], r.args.to, n).status # "undeclared"
    BY <2>1, <2>2 DEF MoveGate, Gate, GateMoves
  <2>3. \/ /\ <<full[g].gates[k].status, r.args.to>> \in GateMoves
           /\ full'[g].gates[k] = MoveGate(full[g].gates[k], r.args.to, Len(log) + 1)
        \/ full'[g].gates[k] = full[g].gates[k]
        \/ full[g].gates[k].status = "undeclared"
    BY WriteMovesOneGate, ZenonT(60)
  <2>4. QED
    BY <1>4, <2>2, <2>3
<1>5. GateLinesAreDeclared'
  <2> SUFFICES ASSUME NEW i \in Lines', log'[i].op \in {"evidence_receipt", "gate_transition"}
               PROVE  full'[log'[i].goal].gates[log'[i].args.gate].status # "undeclared"
    BY DEF GateLinesAreDeclared
  <2>1. /\ log'[i].goal \in Goals /\ log'[i].args.gate \in Gates
        /\ full[log'[i].goal].gates[log'[i].args.gate].status # "undeclared"
    <3>1. CASE i \in Lines
      <4>1. log'[i] = log[i] /\ log[i].args \in ArgsOf(log[i].op) /\ log[i] \in Line
        BY <1>3, <3>1 DEF TypeOK, Lines
      <4>2. log[i].goal \in Goals /\ log[i].args.gate \in Gates
        BY <4>1 DEF ArgsOf, Line
      <4>3. QED
        BY <3>1, <4>1, <4>2 DEF RetriesInv, GateLinesAreDeclared
    <3>2. CASE i = n
      BY <1>1, <3>2 DEF Typed, ArgsOf, Write, Applies, Declared
    <3>3. QED
      BY <1>3, <3>1, <3>2
  <2>2. QED
    BY <1>4, <2>1
<1>6. OnlyMovesAreWatermarked'
  BY <1>1, <1>2, <1>3 DEF RetriesInv, OnlyMovesAreWatermarked, Watermark
<1>7. QED
  BY <1>5, <1>6 DEF RetriesInv

(* A call that is not fenced is acknowledged when it is retried with the     *)
(* same operation_id, however long after and whatever happened since.        *)
THEOREM UnfencedRetriesAreAcknowledgedAlways == Spec => []UnfencedRetriesAreAcknowledged
<1>1. Init => RetriesInv
  BY DEF Init, RetriesInv, GateLinesAreDeclared, OnlyMovesAreWatermarked, Lines
<1>2. TypeOK /\ RetriesInv /\ [Next]_vars => RetriesInv'
  <2> SUFFICES ASSUME TypeOK, RetriesInv, [Next]_vars PROVE RetriesInv'
    OBVIOUS
  <2>1. CASE UNCHANGED <<log, full, leases, fence>>
    BY <2>1 DEF RetriesInv, GateLinesAreDeclared, OnlyMovesAreWatermarked, Lines
  <2>2. QED
    BY <2>1, WriteKeepsRetries, StepIsWriteOrNone
<1>3. TypeOK /\ FencesInv /\ RetriesInv => UnfencedRetriesAreAcknowledged
  BY RetriesAreAcknowledged DEF FencesInv
<1>4. QED
  BY <1>1, <1>2, <1>3, TypeOKAlways, FencesAlways, PTL DEF Spec

-----------------------------------------------------------------------------
(* Dispatch. *)

(* A client's record of its current call.  The request of a call that was    *)
(* sent is one the registry admits, under an id of its own.                  *)
Call ==
  [st : {"idle", "sent", "checked", "unknown"},
   req : [op : Ops \union {"none"}, goal : Goals \union {CHOOSE g \in Goals : TRUE},
          id : Nat, args : Args, now : Nat, token : Nat, expected : Nat],
   seq : Nat \union {Unset}, state : GateStatus \union GoalStatus \union {Unset},
   tries : 0 .. 2,
   answer : {"none", "applied", "already_applied", "refused", "busy"}]

CallsAreTyped ==
  /\ call \in [Clients -> Call] /\ formed \in Nat /\ flying \in [Goals -> Int]
  /\ \A c \in Clients :
       /\ call[c].tries # 0 => Typed(call[c].req) /\ call[c].req.id \in 1 .. formed
       /\ call[c].tries = 0 => call[c].st = "idle" /\ call[c].answer = "none"
       /\ call[c].st # "idle" => call[c].answer = "none"

(* Operation ids belong to one call, and a line to the call with its id. *)
IdsAreOwned ==
  /\ \A c, d \in Clients :
       call[c].tries # 0 /\ call[d].tries # 0 /\ call[c].req.id = call[d].req.id => c = d
  /\ \A i \in Lines : log[i].id \in 1 .. formed
LinesAreTheirRequests ==
  \A c \in Clients, i \in Lines : LET r == call[c].req IN
    call[c].tries # 0 /\ log[i].id = r.id =>
      log[i].op = r.op /\ log[i].goal = r.goal /\ log[i].args = r.args
FirstAttemptsAreUnwritten ==
  \A c \in Clients :
    call[c].tries = 1 /\ (call[c].st \in {"sent", "checked"} \/ call[c].answer = "refused")
      => ~KnownOperation(call[c].req)

(* The requests past their check are counted from the moment the projection  *)
(* they were checked against became inconsistent.                            *)
FlyingCalls ==
  \A g \in Goals : IF seen[g].bad THEN flying[g] >= Cardinality(Checked(g)) ELSE flying[g] = 0

KernelInv == /\ TypeOK /\ OneLinePerOperation /\ FencesInv /\ EvidenceInv /\ EarnedInv
             /\ LeasesInv /\ FoldsInv /\ RetriesInv
DispatchInv == /\ KernelInv /\ CallsAreTyped /\ IdsAreOwned /\ LinesAreTheirRequests
               /\ FirstAttemptsAreUnwritten /\ AnswersAreTrue /\ FlyingCalls

LEMMA KernelStarts == Init => KernelInv
<1> SUFFICES ASSUME Init PROVE KernelInv
  OBVIOUS
<1>1. TypeOK
  <2>1. NothingProjected \in Projection
    BY DEF NothingProjected, NoGate, Projection, Gate, GoalStatus, GateStatus
  <2>2. NeverLeased \in Lease
    BY DEF NeverLeased, Lease
  <2>3. QED
    BY <2>1, <2>2 DEF Init, TypeOK, Lines
<1>2. OneLinePerOperation /\ FencesInv
  BY DEF Init, OneLinePerOperation, Lines, FencesInv, GrantsAreCounted, GatesAreScoped, FencesIncrease,
     SupersededTokensNeverWrite, NothingProjected, NoGate
<1>3. EvidenceInv /\ EarnedInv
  BY DEF Init, EvidenceInv, ReopensAreCounted, MovedGatesAreDeclared, EvidenceIsFresh, Lines,
     EarnedInv, DeclarationsAreProjected, SettledGatesWereMoved, SatisfiedWasEarned
<1>4. LeasesInv
  BY DEF Init, LeasesInv, NewestGrantIsHeld, HeldLeaseIsALine, LeasesAreHonoured,
     LeasedScopesAreFenced, HandoversAreHonest, Lines, NeverLeased
<1>5. FoldsInv /\ RetriesInv
  BY DEF Init, FoldsInv, MovedGatesAreDeclared, WatermarksAreLines, FoldsAgreeWithTheLog,
     ProjectionReadsTheLog, WritersFoldCleanly, Lines, NothingProjected, NoGate,
     RetriesInv, GateLinesAreDeclared, OnlyMovesAreWatermarked
<1>6. QED
  BY <1>1, <1>2, <1>3, <1>4, <1>5 DEF KernelInv

LEMMA WriteKeepsKernel ==
  ASSUME KernelInv, NEW r, Typed(r), Write(r)
  PROVE  KernelInv'
<1>1. TypeOK' /\ OneLinePerOperation' /\ FencesInv'
  BY WriteKeepsTypes, WriteKeepsOneLine, WriteKeepsFences DEF KernelInv
<1>2. EvidenceInv' /\ EarnedInv'
  BY WriteKeepsReopens, WriteKeepsEvidenceFresh, WriteKeepsDeclarations, WriteKeepsEarned
     DEF KernelInv, EvidenceInv, EarnedInv
<1>3. LeasesInv'
  BY WriteKeepsHeldLeases, WriteKeepsLeasedScopesFenced, WriteKeepsHandoversHonest
     DEF KernelInv, LeasesInv, LeasesAreHonoured
<1>4. FoldsInv' /\ RetriesInv'
  BY WriteKeepsWatermarks, WriteKeepsProjections, WriteFoldsCleanly, WriteKeepsRetries
     DEF KernelInv, FoldsInv, FoldsAgreeWithTheLog
<1>5. QED
  BY <1>1, <1>2, <1>3, <1>4 DEF KernelInv

LEMMA OtherStepsKeepKernel ==
  ASSUME KernelInv, UNCHANGED <<log, full, leases, fence>>, TypeOK'
  PROVE  KernelInv'
<1>1. OneLinePerOperation' /\ FencesInv'
  BY DEF KernelInv, OneLinePerOperation, FencesInv, GrantsAreCounted, GatesAreScoped, FencesIncrease,
     SupersededTokensNeverWrite, Lines, IsGrant
<1>2. EvidenceInv' /\ EarnedInv'
  BY DEF KernelInv, EvidenceInv, ReopensAreCounted, MovedGatesAreDeclared, EvidenceIsFresh, Lines,
     IsMove, IsReopen, IsReceipt, EarnedInv, DeclarationsAreProjected, SettledGatesWereMoved,
     SatisfiedWasEarned, IsDeclaration, SettledBetween
<1>3. LeasesInv'
  BY DEF KernelInv, LeasesInv, NewestGrantIsHeld, HeldLeaseIsALine, LeasesAreHonoured,
     LeasedScopesAreFenced, HandoversAreHonest, Lines, ReleasedAfter, IsGrantOf, IsGrant
<1>4. FoldsInv' /\ RetriesInv'
  <2>1. MovedGatesAreDeclared' /\ WatermarksAreLines'
    BY DEF KernelInv, FoldsInv, MovedGatesAreDeclared, WatermarksAreLines, Lines, IsMove
  <2>2. ProjectionReadsTheLog'
    BY DEF KernelInv, FoldsInv, FoldsAgreeWithTheLog, ProjectionReadsTheLog, Lines, IsMove, IsReopen
  <2>3. WritersFoldCleanly'
    BY DEF KernelInv, FoldsInv, FoldsAgreeWithTheLog, WritersFoldCleanly
  <2>4. RetriesInv'
    BY DEF KernelInv, RetriesInv, GateLinesAreDeclared, OnlyMovesAreWatermarked, Lines
  <2>5. QED BY <2>1, <2>2, <2>3, <2>4 DEF FoldsInv, FoldsAgreeWithTheLog
<1>5. QED
  BY <1>1, <1>2, <1>3, <1>4 DEF KernelInv

-----------------------------------------------------------------------------
(* What a step does to the calls. *)

(* How far the call of client c got, and what it was told, before and after. *)
MovesOn(c, from, to, answer) ==
  /\ call[c].st = from /\ call'[c].st = to /\ call'[c].answer = answer
  /\ call'[c].tries = call[c].tries

QuietStep(c) ==
  /\ UNCHANGED <<kernel, flying>>
  /\ \/ MovesOn(c, "sent", "checked", "none") /\ PreconditionsHold(c)
     \/ MovesOn(c, "sent", "idle", "refused") /\ ~PreconditionsHold(c)
     \/ MovesOn(c, "checked", "idle", "already_applied") /\ Acknowledged(call[c].req)
     \/ /\ MovesOn(c, "checked", "idle", "refused")
        /\ ~Applies(call[c].req) /\ ~Acknowledged(call[c].req)
     \/ MovesOn(c, "checked", "idle", "busy")
     \/ MovesOn(c, "sent", "unknown", "none")
     \/ MovesOn(c, "checked", "unknown", "none")
     \/ /\ call[c].st = "unknown" /\ call'[c].st = "sent" /\ call'[c].answer = "none"
        /\ call[c].tries = 1 /\ call'[c].tries = 2
WritingStep(c) ==
  /\ WriteFor(c)
  /\ \/ MovesOn(c, "checked", "idle", "applied")
     \/ MovesOn(c, "checked", "unknown", "none")

LEMMA OneCallMoves ==
  ASSUME CallsAreTyped, NEW c \in Clients,
         \/ Check(c) \/ ApplyWrites(c) \/ ApplyRefused(c) \/ StoreBusy(c)
         \/ LoseCall(c) \/ ApplyAndLoseAnswer(c) \/ Retry(c)
  PROVE  /\ (QuietStep(c) \/ WritingStep(c)) /\ formed' = formed
         /\ call' \in [Clients -> Call]
         /\ \A d \in Clients : d # c => call'[d] = call[d]
         /\ call'[c].req = call[c].req /\ call[c].tries # 0 /\ call'[c].tries # 0
<1>1. call[c] \in Call /\ (call[c].tries = 0 => call[c].st = "idle")
      /\ (call[c].st # "idle" => call[c].answer = "none")
  BY DEF CallsAreTyped
<1>2. ASSUME NEW a \in {"applied", "already_applied", "refused", "busy"}, Answer(c, a),
             call[c].st # "idle"
      PROVE  /\ call' \in [Clients -> Call]
             /\ \A d \in Clients : d # c => call'[d] = call[d]
             /\ call'[c].req = call[c].req /\ call[c].tries # 0 /\ call'[c].tries # 0
             /\ call'[c].st = "idle" /\ call'[c].answer = a /\ call'[c].tries = call[c].tries
  <2> DEFINE new == [st |-> "idle", req |-> call[c].req, seq |-> Unset, state |-> Unset,
                     tries |-> call[c].tries, answer |-> a]
  <2>1. call' = [call EXCEPT ![c] = new]
    BY <1>2 DEF Answer, CallsAreTyped
  <2>2. new \in Call
    BY <1>1, <1>2 DEF Call
  <2>3. call' \in [Clients -> Call] /\ call'[c] = new
        /\ \A d \in Clients : d # c => call'[d] = call[d]
    BY <2>1, <2>2 DEF CallsAreTyped
  <2>4. QED
    BY <1>1, <1>2, <2>3
<1>3. ASSUME NEW s \in {"sent", "checked", "unknown"}, GoesTo(c, s), call[c].st # "idle"
      PROVE  /\ call' \in [Clients -> Call]
             /\ \A d \in Clients : d # c => call'[d] = call[d]
             /\ call'[c].req = call[c].req /\ call[c].tries # 0 /\ call'[c].tries # 0
             /\ call'[c].st = s /\ call'[c].answer = "none" /\ call'[c].tries = call[c].tries
  <2>1. call' = [call EXCEPT ![c] = [call[c] EXCEPT !.st = s]]
    BY <1>3 DEF GoesTo, CallsAreTyped
  <2>2. [call[c] EXCEPT !.st = s] \in Call
    BY <1>1, <1>3 DEF Call
  <2>3. QED
    BY <1>1, <1>3, <2>1, <2>2 DEF CallsAreTyped, Call
<1>4. CASE Check(c)
  BY <1>2, <1>3, <1>4 DEF Check, QuietStep, WritingStep, MovesOn
<1>5. CASE ApplyWrites(c)
  BY <1>2, <1>5 DEF ApplyWrites, QuietStep, WritingStep, MovesOn
<1>6. CASE ApplyRefused(c)
  BY <1>2, <1>6 DEF ApplyRefused, QuietStep, WritingStep, MovesOn
<1>7. CASE StoreBusy(c)
  BY <1>2, <1>7 DEF StoreBusy, QuietStep, WritingStep, MovesOn
<1>8. CASE LoseCall(c)
  BY <1>3, <1>8 DEF LoseCall, QuietStep, WritingStep, MovesOn
<1>9. CASE ApplyAndLoseAnswer(c)
  BY <1>3, <1>9 DEF ApplyAndLoseAnswer, QuietStep, WritingStep, MovesOn
<1>10. CASE Retry(c)
  <2> DEFINE again == [call EXCEPT ![c].st = "sent"]
  <2>1. again \in [Clients -> Call] /\ again[c] = [call[c] EXCEPT !.st = "sent"]
        /\ \A d \in Clients : d # c => again[d] = call[d]
    BY <1>1 DEF CallsAreTyped, Call
  <2>2. /\ again[c].req = call[c].req /\ again[c].st = "sent"
        /\ again[c].answer = call[c].answer
    BY <1>1, <2>1 DEF Call
  <2>3. \A q, w : q \in Call /\ w = [q EXCEPT !.tries = 2] =>
          /\ w \in Call /\ w.tries = 2
          /\ w.req = q.req /\ w.st = q.st /\ w.answer = q.answer
    BY DEF Call
  <2>4. call' = [again EXCEPT ![c].tries = 2]
    BY <1>10 DEF Retry
  <2> HIDE DEF again
  <2>5. call'[c] = [again[c] EXCEPT !.tries = 2]
        /\ \A d \in Clients : d # c => call'[d] = call[d]
    BY <2>1, <2>4
  <2>6. /\ call'[c] \in Call /\ call'[c].tries = 2 /\ call'[c].req = call[c].req
        /\ call'[c].st = "sent" /\ call'[c].answer = call[c].answer
    <3>1. again[c] \in Call
      BY <2>1
    <3>2. /\ call'[c] \in Call /\ call'[c].tries = 2 /\ call'[c].req = again[c].req
          /\ call'[c].st = again[c].st /\ call'[c].answer = again[c].answer
      BY <2>3, <2>5, <3>1
    <3>3. QED
      BY <2>2, <3>2
  <2>7. call' \in [Clients -> Call]
    BY <2>1, <2>3, <2>4
  <2>8. QED
    BY <1>1, <1>10, <2>5, <2>6, <2>7 DEF Retry, QuietStep, WritingStep
<1>11. QED
  BY <1>4, <1>5, <1>6, <1>7, <1>8, <1>9, <1>10

LEMMA SendAddsACall ==
  ASSUME TypeOK, CallsAreTyped, NEW c \in Clients, Send(c)
  PROVE  /\ formed' = formed + 1 /\ UNCHANGED <<kernel, flying>>
         /\ call' \in [Clients -> Call]
         /\ \A d \in Clients : d # c => call'[d] = call[d]
         /\ Typed(call'[c].req) /\ call'[c].req.id = formed + 1 /\ call'[c].tries = 1
         /\ call[c].st = "idle" /\ call'[c].st = "sent" /\ call'[c].answer = "none"
<1>1. PICK g \in Goals : \E r \in RequestsOf(g, formed + 1) :
        \E n \in {Unset, seen[g].seq}, st \in {Unset, StateOf(r)} :
          /\ call[c].st = "idle" /\ formed < MaxCalls
          /\ formed' = formed + 1
          /\ call' = [call EXCEPT ![c] = [st |-> "sent", req |-> r, seq |-> n, state |-> st,
                                          tries |-> 1, answer |-> "none"]]
          /\ UNCHANGED <<kernel, flying>>
  BY DEF Send
<1>2. PICK r \in RequestsOf(g, formed + 1) :
        \E n \in {Unset, seen[g].seq}, st \in {Unset, StateOf(r)} :
          /\ call[c].st = "idle" /\ formed < MaxCalls
          /\ formed' = formed + 1
          /\ call' = [call EXCEPT ![c] = [st |-> "sent", req |-> r, seq |-> n, state |-> st,
                                          tries |-> 1, answer |-> "none"]]
          /\ UNCHANGED <<kernel, flying>>
  BY <1>1
<1>3. PICK n \in {Unset, seen[g].seq}, st \in {Unset, StateOf(r)} :
          /\ call[c].st = "idle" /\ formed < MaxCalls
          /\ formed' = formed + 1
          /\ call' = [call EXCEPT ![c] = [st |-> "sent", req |-> r, seq |-> n, state |-> st,
                                          tries |-> 1, answer |-> "none"]]
          /\ UNCHANGED <<kernel, flying>>
  BY <1>2
<1>4. Typed(r) /\ r \in Requested /\ r.goal = g /\ r.id = formed + 1
  BY RequestsAreTyped DEF RequestsOf, CallsAreTyped
<1>5. n \in Nat \union {Unset} /\ st \in GateStatus \union GoalStatus \union {Unset}
  <2>1. seen[g] \in Projection
    BY DEF TypeOK
  <2>2. r.op = "gate_transition" => seen[g].gates[r.args.gate] \in Gate
    BY <1>4, <2>1 DEF Typed, ArgsOf, Projection
  <2>3. QED
    BY <1>3, <1>4, <2>1, <2>2 DEF StateOf, Projection, Gate
<1> DEFINE new == [st |-> "sent", req |-> r, seq |-> n, state |-> st, tries |-> 1,
                   answer |-> "none"]
<1>6. new \in Call
  BY <1>4, <1>5 DEF Call, Requested
<1>7. call' = [call EXCEPT ![c] = new] /\ new.req = r /\ new.st = "sent" /\ new.tries = 1
      /\ new.answer = "none"
  BY <1>3
<1> HIDE DEF new
<1>8. QED
  BY <1>3, <1>4, <1>6, <1>7 DEF CallsAreTyped

-----------------------------------------------------------------------------
(* A step of a call keeps the invariant. *)

OtherAction(c) ==
  \/ Check(c) \/ ApplyWrites(c) \/ ApplyRefused(c) \/ StoreBusy(c)
  \/ LoseCall(c) \/ ApplyAndLoseAnswer(c) \/ Retry(c)

LEMMA CheckedIsFinite ==
  ASSUME NEW g, NEW c
  PROVE  /\ IsFiniteSet(Checked(g)) /\ Cardinality(Checked(g)) \in Nat
         /\ Cardinality(Checked(g) \ {c}) \in Nat
<1>1. Checked(g) \in SUBSET Clients /\ Checked(g) \ {c} \in SUBSET Clients
  BY DEF Checked
<1>2. QED
  BY <1>1, DispatchAssumption, FS_Subset, FS_CardinalityType

LEMMA CallKeepsKernel ==
  ASSUME KernelInv, CallsAreTyped, NEW c \in Clients, OtherAction(c)
  PROVE  KernelInv'
<1>1. (QuietStep(c) \/ WritingStep(c)) /\ Typed(call[c].req)
  BY OneCallMoves DEF OtherAction, CallsAreTyped
<1>2. CASE WritingStep(c)
  BY <1>1, <1>2, WriteKeepsKernel DEF WritingStep, WriteFor
<1>3. CASE QuietStep(c)
  <2>1. TypeOK'
    BY <1>3 DEF QuietStep, kernel, KernelInv, TypeOK, Lines
  <2>2. QED
    BY <1>3, <2>1, OtherStepsKeepKernel DEF QuietStep, kernel
<1>4. QED
  BY <1>1, <1>2, <1>3

LEMMA CallKeepsTypes ==
  ASSUME TypeOK, CallsAreTyped, NEW c \in Clients, OtherAction(c)
  PROVE  CallsAreTyped'
<1>1. /\ (QuietStep(c) \/ WritingStep(c)) /\ formed' = formed /\ call' \in [Clients -> Call]
      /\ \A d \in Clients : d # c => call'[d] = call[d]
      /\ call'[c].req = call[c].req /\ call[c].tries # 0 /\ call'[c].tries # 0
  BY OneCallMoves DEF OtherAction
<1>2. call'[c].st # "idle" => call'[c].answer = "none"
  BY <1>1 DEF QuietStep, WritingStep, MovesOn
<1>3. flying' \in [Goals -> Int]
  <2>1. CASE WritingStep(c)
    <3>1. Cardinality(Checked(call[c].req.goal) \ {c}) \in Nat
      BY CheckedIsFinite
    <3>2. PICK v : /\ flying' = [flying EXCEPT ![call[c].req.goal] = v]
                   /\ v \in {flying[call[c].req.goal] - 1,
                            Cardinality(Checked(call[c].req.goal) \ {c}), 0}
      BY <2>1 DEF WritingStep, WriteFor
    <3>3. flying \in [Goals -> Int] /\ call[c].req.goal \in Goals
      BY <1>1 DEF CallsAreTyped, Typed
    <3>4. v \in Int
      BY <3>1, <3>2, <3>3
    <3>5. QED
      BY <3>2, <3>3, <3>4
  <2>2. CASE QuietStep(c)
    BY <2>2 DEF QuietStep, CallsAreTyped
  <2>3. QED
    BY <1>1, <2>1, <2>2
<1>4. QED
  BY <1>1, <1>2, <1>3 DEF CallsAreTyped

(* The line a call writes is its request's. *)
LEMMA CallWritesItsLine ==
  ASSUME TypeOK, CallsAreTyped, NEW c \in Clients, call[c].tries # 0, WriteFor(c)
  PROVE  LET n == Len(log) + 1  r == call[c].req IN
         /\ n \in Lines' /\ Lines' = Lines \union {n} /\ n \notin Lines
         /\ log'[n].id = r.id /\ log'[n].op = r.op /\ log'[n].goal = r.goal
         /\ log'[n].args = r.args
         /\ \A i \in Lines : log'[i] = log[i]
<1>1. Typed(call[c].req) /\ Write(call[c].req)
  BY DEF CallsAreTyped, WriteFor
<1>2. QED
  BY <1>1, WriteAppends, LineIsTyped

LEMMA CallKeepsOwnership ==
  ASSUME TypeOK, CallsAreTyped, IdsAreOwned, LinesAreTheirRequests,
         NEW c \in Clients, OtherAction(c)
  PROVE  IdsAreOwned' /\ LinesAreTheirRequests'
<1>1. /\ (QuietStep(c) \/ WritingStep(c)) /\ formed' = formed
      /\ \A d \in Clients : d # c => call'[d] = call[d]
      /\ call'[c].req = call[c].req /\ call[c].tries # 0 /\ call'[c].tries # 0
  BY OneCallMoves DEF OtherAction
<1>2. \A d \in Clients : /\ call'[d].req = call[d].req
                         /\ call'[d].tries # 0 <=> call[d].tries # 0
  BY <1>1
<1>3. CASE QuietStep(c)
  BY <1>1, <1>2, <1>3 DEF QuietStep, kernel, IdsAreOwned, LinesAreTheirRequests, Lines
<1>4. CASE WritingStep(c)
  <2> PICK n : n = Len(log) + 1
    OBVIOUS
  <2>1. /\ n \in Lines' /\ Lines' = Lines \union {n}
        /\ log'[n].id = call[c].req.id /\ log'[n].op = call[c].req.op
        /\ log'[n].goal = call[c].req.goal /\ log'[n].args = call[c].req.args
        /\ \A i \in Lines : log'[i] = log[i]
    BY <1>1, <1>4, CallWritesItsLine DEF WritingStep
  <2>2. call[c].req.id \in 1 .. formed
    BY <1>1 DEF CallsAreTyped
  <2>3. IdsAreOwned'
    BY <1>1, <1>2, <2>1, <2>2 DEF IdsAreOwned
  <2>4. ASSUME NEW d \in Clients, NEW i \in Lines', call'[d].tries # 0,
               log'[i].id = call'[d].req.id
        PROVE  /\ log'[i].op = call'[d].req.op /\ log'[i].goal = call'[d].req.goal
               /\ log'[i].args = call'[d].req.args
    <3>1. CASE i \in Lines
      BY <1>2, <2>1, <2>4, <3>1 DEF LinesAreTheirRequests
    <3>2. CASE i = n
      BY <1>1, <1>2, <2>1, <2>4, <3>2 DEF IdsAreOwned
    <3>3. QED
      BY <2>1, <3>1, <3>2
  <2>5. QED
    BY <2>3, <2>4 DEF LinesAreTheirRequests
<1>5. QED
  BY <1>1, <1>3, <1>4

LEMMA CallKeepsAnswers ==
  ASSUME TypeOK, CallsAreTyped, IdsAreOwned, FirstAttemptsAreUnwritten, AnswersAreTrue,
         NEW c \in Clients, OtherAction(c)
  PROVE  FirstAttemptsAreUnwritten' /\ AnswersAreTrue'
<1>1. /\ (QuietStep(c) \/ WritingStep(c))
      /\ \A d \in Clients : d # c => call'[d] = call[d]
      /\ call'[c].req = call[c].req /\ call[c].tries # 0 /\ call'[c].tries # 0
  BY OneCallMoves DEF OtherAction
<1>2. CASE QuietStep(c)
  <2>1. log' = log /\ Lines' = Lines
    BY <1>2 DEF QuietStep, kernel, Lines
  <2>2. \A d \in Clients : KnownOperation(call[d].req)' <=> KnownOperation(call[d].req)
    BY <1>1, <2>1 DEF KnownOperation
  <2>3. FirstAttemptsAreUnwritten'
    <3> SUFFICES ASSUME NEW d \in Clients, call'[d].tries = 1,
                        call'[d].st \in {"sent", "checked"} \/ call'[d].answer = "refused"
                 PROVE  ~KnownOperation(call[d].req)
      BY <2>2 DEF FirstAttemptsAreUnwritten
    <3>1. CASE d # c
      BY <1>1, <3>1 DEF FirstAttemptsAreUnwritten
    <3>2. CASE d = c
      <4>1. call[c].tries = 1 /\ call[c].st \in {"sent", "checked"}
        BY <1>1, <1>2, <3>2 DEF QuietStep, MovesOn
      <4>2. QED
        BY <3>2, <4>1 DEF FirstAttemptsAreUnwritten
    <3>3. QED
      BY <3>1, <3>2
  <2>4. AnswersAreTrue'
    <3> SUFFICES ASSUME NEW d \in Clients
                 PROVE  /\ call'[d].answer \in {"applied", "already_applied"} =>
                            \E i \in Lines : /\ log[i].id = call'[d].req.id
                                             /\ log[i].op = call'[d].req.op
                                             /\ log[i].args = call'[d].req.args
                        /\ call'[d].answer = "refused" /\ call'[d].tries = 1
                             => ~KnownOperation(call[d].req)'
      BY <2>1 DEF AnswersAreTrue
    <3>1. CASE d # c
      BY <1>1, <2>2, <3>1 DEF AnswersAreTrue
    <3>2. CASE d = c
      <4>2. call'[c].answer \in {"applied", "already_applied"} => Acknowledged(call[c].req)
        BY <1>2 DEF QuietStep, MovesOn
      <4>3. Acknowledged(call[c].req) =>
              \E i \in Lines : /\ log[i].id = call[c].req.id /\ log[i].op = call[c].req.op
                               /\ log[i].args = call[c].req.args
        BY DEF Acknowledged, SameFingerprint
      <4>4. call'[c].answer = "refused" /\ call'[c].tries = 1 => ~KnownOperation(call[c].req)'
        BY <1>1, <2>3 DEF FirstAttemptsAreUnwritten
      <4>5. QED
        BY <1>1, <3>2, <4>2, <4>3, <4>4
    <3>3. QED
      BY <3>1, <3>2
  <2>5. QED
    BY <2>3, <2>4
<1>3. CASE WritingStep(c)
  <2> PICK n : n = Len(log) + 1
    OBVIOUS
  <2>1. /\ n \in Lines' /\ Lines' = Lines \union {n}
        /\ log'[n].id = call[c].req.id /\ log'[n].op = call[c].req.op
        /\ log'[n].args = call[c].req.args
        /\ \A i \in Lines : log'[i] = log[i]
    BY <1>1, <1>3, CallWritesItsLine DEF WritingStep
  <2>2. ASSUME NEW d \in Clients, d # c, call[d].tries # 0, ~KnownOperation(call[d].req)
        PROVE  ~KnownOperation(call[d].req)'
    <3>1. call[d].req.id # call[c].req.id /\ call'[d] = call[d]
      BY <1>1, <2>2 DEF IdsAreOwned
    <3>2. QED
      BY <2>1, <2>2, <3>1 DEF KnownOperation
  <2>3. /\ call'[c].answer # "refused" /\ call'[c].st \notin {"sent", "checked"}
    BY <1>3 DEF WritingStep, MovesOn
  <2>4. FirstAttemptsAreUnwritten'
    <3> SUFFICES ASSUME NEW d \in Clients, call'[d].tries = 1,
                        call'[d].st \in {"sent", "checked"} \/ call'[d].answer = "refused"
                 PROVE  ~KnownOperation(call[d].req)'
      BY DEF FirstAttemptsAreUnwritten
    <3>1. d # c /\ call'[d] = call[d]
      BY <1>1, <2>3
    <3>2. QED
      BY <2>2, <3>1 DEF FirstAttemptsAreUnwritten
  <2>5. AnswersAreTrue'
    <3> SUFFICES ASSUME NEW d \in Clients
                 PROVE  /\ call'[d].answer \in {"applied", "already_applied"} =>
                            \E i \in Lines' : /\ log'[i].id = call'[d].req.id
                                              /\ log'[i].op = call'[d].req.op
                                              /\ log'[i].args = call'[d].req.args
                        /\ call'[d].answer = "refused" /\ call'[d].tries = 1
                             => ~KnownOperation(call[d].req)'
      BY DEF AnswersAreTrue
    <3>1. CASE d # c
      BY <1>1, <2>1, <2>2, <3>1 DEF AnswersAreTrue
    <3>2. CASE d = c
      BY <1>1, <2>1, <2>3, <3>2
    <3>3. QED
      BY <3>1, <3>2
  <2>6. QED
    BY <2>4, <2>5
<1>4. QED
  BY <1>1, <1>2, <1>3

(* Requests past their check are never more than the count allows. *)
LEMMA CallKeepsFlying ==
  ASSUME TypeOK, CallsAreTyped, FlyingCalls, NEW c \in Clients, OtherAction(c)
  PROVE  FlyingCalls'
<1>1. /\ (QuietStep(c) \/ WritingStep(c))
      /\ \A d \in Clients : d # c => call'[d] = call[d]
      /\ call'[c].req = call[c].req /\ Typed(call[c].req)
  BY OneCallMoves DEF OtherAction, CallsAreTyped
<1> SUFFICES ASSUME NEW g \in Goals
             PROVE  IF seen'[g].bad THEN flying'[g] >= Cardinality(Checked(g)')
                    ELSE flying'[g] = 0
  BY DEF FlyingCalls, Checked
<1> DEFINE mine == call[c].req.goal
<1>2. IsFiniteSet(Checked(g)) /\ Cardinality(Checked(g)) \in Nat /\ flying[g] \in Int
  BY CheckedIsFinite DEF CallsAreTyped
<1>3. CASE QuietStep(c)
  <2>1. ASSUME seen[g].bad PROVE Checked(g)' \in SUBSET Checked(g)
    <3>1. ~(PreconditionsHold(c) /\ call[c].req.goal = g)
      BY <2>1 DEF PreconditionsHold
    <3>2. c \in Checked(g)' => c \in Checked(g)
      BY <1>1, <1>3, <3>1 DEF QuietStep, MovesOn, Checked
    <3>3. QED
      BY <1>1, <3>2 DEF Checked
  <2>2. seen[g].bad => Cardinality(Checked(g)') <= Cardinality(Checked(g))
                       /\ Cardinality(Checked(g)') \in Nat
    BY <1>2, <2>1, FS_Subset, FS_CardinalityType
  <2>3. QED
    BY <1>2, <1>3, <2>2 DEF FlyingCalls, QuietStep, kernel
<1>4. CASE WritingStep(c)
  <2>1. mine \in Goals /\ seen[mine] \in Projection
    BY <1>1 DEF Typed, TypeOK
  <2>2. c \notin Checked(g)' /\ Checked(g)' = Checked(g) \ {c}
    BY <1>1, <1>4 DEF WritingStep, Checked, MovesOn
  <2>3. seen' = [seen EXCEPT ![mine] = FoldLine(@, LineOf(call[c].req))]
    BY <1>4 DEF WritingStep, WriteFor, Write
  <2>4. seen[mine].bad => seen'[mine].bad
    BY <2>1, <2>3 DEF FoldLine, TypeOK
  <2>5. flying' = [flying EXCEPT ![mine] =
          IF seen[mine].bad THEN @ - 1
          ELSE IF seen'[mine].bad THEN Cardinality(Checked(mine) \ {c}) ELSE 0]
    BY <1>4 DEF WritingStep, WriteFor
  <2>6. c \in Checked(mine)
    BY <1>4 DEF WritingStep, Checked, MovesOn
  <2>7. Cardinality(Checked(g) \ {c}) = IF c \in Checked(g) THEN Cardinality(Checked(g)) - 1
                                        ELSE Cardinality(Checked(g))
    BY <1>2, FS_RemoveElement
  <2>8. flying \in [Goals -> Int] /\ seen \in [Goals -> Projection]
    BY DEF CallsAreTyped, TypeOK
  <2>9. CASE g = mine
    <3>1. flying'[g] = IF seen[g].bad THEN flying[g] - 1
                       ELSE IF seen'[g].bad THEN Cardinality(Checked(g) \ {c}) ELSE 0
      BY <2>1, <2>5, <2>8, <2>9
    <3>2. QED
      BY <1>2, <2>2, <2>4, <2>6, <2>7, <2>9, <3>1 DEF FlyingCalls
  <2>10. CASE g # mine
    <3>1. flying'[g] = flying[g] /\ seen'[g] = seen[g] /\ c \notin Checked(g)
      BY <2>1, <2>3, <2>5, <2>8, <2>10 DEF Checked
    <3>2. QED
      BY <2>2, <2>7, <3>1 DEF FlyingCalls
  <2>11. QED
    BY <2>9, <2>10
<1>5. QED
  BY <1>1, <1>3, <1>4

-----------------------------------------------------------------------------
(* A new request, and a goal that is forgotten, keep the invariant. *)

LEMMA SendKeepsInv ==
  ASSUME DispatchInv, NEW c \in Clients, Send(c)
  PROVE  DispatchInv'
<1>1. TypeOK /\ CallsAreTyped
  BY DEF DispatchInv, KernelInv
<1>2. /\ formed' = formed + 1 /\ UNCHANGED <<kernel, flying>>
      /\ call' \in [Clients -> Call]
      /\ \A d \in Clients : d # c => call'[d] = call[d]
      /\ Typed(call'[c].req) /\ call'[c].req.id = formed + 1 /\ call'[c].tries = 1
      /\ call[c].st = "idle" /\ call'[c].st = "sent" /\ call'[c].answer = "none"
  BY <1>1, SendAddsACall
<1>3. log' = log /\ Lines' = Lines /\ seen' = seen /\ formed \in Nat
  BY <1>1, <1>2 DEF kernel, Lines, CallsAreTyped
<1>4. KernelInv'
  <2>1. TypeOK'
    BY <1>1, <1>2 DEF kernel, TypeOK, Lines
  <2>2. QED
    BY <1>2, <2>1, OtherStepsKeepKernel DEF kernel, DispatchInv
<1>5. CallsAreTyped'
  <2> SUFFICES ASSUME NEW d \in Clients
               PROVE  /\ call'[d].tries # 0 => /\ Typed(call'[d].req)
                                               /\ call'[d].req.id \in 1 .. formed'
                      /\ call'[d].tries = 0 => call'[d].st = "idle" /\ call'[d].answer = "none"
                      /\ call'[d].st # "idle" => call'[d].answer = "none"
    BY <1>1, <1>2, <1>3 DEF CallsAreTyped
  <2>1. CASE d = c
    BY <1>2, <1>3, <2>1
  <2>2. CASE d # c
    BY <1>1, <1>2, <1>3, <2>2 DEF CallsAreTyped
  <2>3. QED
    BY <2>1, <2>2
<1>6. \A i \in Lines : log[i].id \in 1 .. formed
  BY DEF DispatchInv, IdsAreOwned
<1>7. \A d \in Clients : d # c /\ call'[d].tries # 0 => call'[d].req.id \in 1 .. formed
  BY <1>1, <1>2 DEF CallsAreTyped
<1>8. IdsAreOwned'
  <2>1. \A i \in Lines' : log'[i].id \in 1 .. formed'
    BY <1>2, <1>3, <1>6
  <2>2. ASSUME NEW d \in Clients, NEW e \in Clients, call'[d].tries # 0, call'[e].tries # 0,
               call'[d].req.id = call'[e].req.id
        PROVE  d = e
    <3>1. CASE d # c /\ e # c
      BY <1>2, <2>2, <3>1 DEF DispatchInv, IdsAreOwned
    <3>2. CASE d = c \/ e = c
      BY <1>2, <1>3, <1>7, <2>2, <3>2
    <3>3. QED
      BY <3>1, <3>2
  <2>3. QED
    BY <2>1, <2>2 DEF IdsAreOwned
<1>9. \A i \in Lines : log[i].id # call'[c].req.id
  BY <1>2, <1>3, <1>6
<1>10. LinesAreTheirRequests'
  BY <1>2, <1>3, <1>9 DEF DispatchInv, LinesAreTheirRequests
<1>11. \A d \in Clients : d # c => (KnownOperation(call[d].req)' <=> KnownOperation(call[d].req))
  BY <1>2, <1>3 DEF KnownOperation
<1>12. ~KnownOperation(call[c].req)'
  BY <1>3, <1>9 DEF KnownOperation
<1>13. FirstAttemptsAreUnwritten'
  BY <1>2, <1>11, <1>12 DEF DispatchInv, FirstAttemptsAreUnwritten
<1>14. AnswersAreTrue'
  <2> SUFFICES ASSUME NEW d \in Clients
               PROVE  /\ call'[d].answer \in {"applied", "already_applied"} =>
                          \E i \in Lines : /\ log[i].id = call'[d].req.id
                                           /\ log[i].op = call'[d].req.op
                                           /\ log[i].args = call'[d].req.args
                      /\ call'[d].answer = "refused" /\ call'[d].tries = 1
                           => ~KnownOperation(call[d].req)'
    BY <1>3 DEF AnswersAreTrue
  <2>1. CASE d = c
    BY <1>2, <2>1
  <2>2. CASE d # c
    BY <1>2, <1>11, <2>2 DEF DispatchInv, AnswersAreTrue
  <2>3. QED
    BY <2>1, <2>2
<1>15. FlyingCalls'
  <2>1. \A g \in Goals : Checked(g)' = Checked(g)
    BY <1>2 DEF Checked
  <2>2. QED
    BY <1>2, <1>3, <2>1 DEF DispatchInv, FlyingCalls
<1>16. QED
  BY <1>4, <1>5, <1>8, <1>10, <1>13, <1>14, <1>15 DEF DispatchInv

LEMMA ForgetKeepsInv ==
  ASSUME DispatchInv, NEW g \in Goals, Forget(g)
  PROVE  DispatchInv'
<1>1. TypeOK /\ CallsAreTyped /\ ForgetGoal(g) /\ UNCHANGED <<call, formed>>
      /\ flying' = [flying EXCEPT ![g] = 0]
  BY DEF DispatchInv, KernelInv, Forget
<1>2. KernelInv'
  <2>1. TypeOK'
    BY <1>1, ForgetKeepsTypes
  <2>2. QED
    BY <1>1, <2>1, OtherStepsKeepKernel DEF ForgetGoal, DispatchInv
<1>3. log' = log /\ Lines' = Lines /\ seen' = [seen EXCEPT ![g] = NothingProjected]
  BY <1>1 DEF ForgetGoal, Lines
<1>4. CallsAreTyped' /\ IdsAreOwned' /\ LinesAreTheirRequests'
  BY <1>1, <1>3 DEF DispatchInv, CallsAreTyped, IdsAreOwned, LinesAreTheirRequests
<1>5. FirstAttemptsAreUnwritten' /\ AnswersAreTrue'
  BY <1>1, <1>3 DEF DispatchInv, FirstAttemptsAreUnwritten, AnswersAreTrue, KnownOperation
<1>6. FlyingCalls'
  <2>1. \A h \in Goals : Checked(h)' = Checked(h)
    BY <1>1 DEF Checked
  <2>2. ~NothingProjected.bad
    BY DEF NothingProjected
  <2>3. \A h \in Goals : IF h = g THEN ~seen'[h].bad /\ flying'[h] = 0
                         ELSE seen'[h] = seen[h] /\ flying'[h] = flying[h]
    BY <1>1, <1>3, <2>2 DEF TypeOK, CallsAreTyped
  <2>4. QED
    BY <2>1, <2>3 DEF DispatchInv, FlyingCalls
<1>7. QED
  BY <1>2, <1>4, <1>5, <1>6 DEF DispatchInv

LEMMA DispatchStarts == DInit => DispatchInv
<1> SUFFICES ASSUME DInit PROVE DispatchInv
  OBVIOUS
<1>1. KernelInv /\ Init
  BY KernelStarts DEF DInit
<1>2. /\ call = [c \in Clients |-> Idle] /\ formed = 0 /\ flying = [g \in Goals |-> 0]
      /\ log = <<>> /\ seen = [g \in Goals |-> NothingProjected]
  BY DEF DInit, Init
<1>3. Idle \in Call /\ Idle.tries = 0 /\ Idle.st = "idle" /\ Idle.answer = "none"
  <2>1. NoRequest \in [op : Ops \union {"none"}, goal : Goals \union {CHOOSE g \in Goals : TRUE},
                       id : Nat, args : Args, now : Nat, token : Nat, expected : Nat]
    BY DEF NoRequest, Request, Args
  <2>2. QED
    BY <2>1 DEF Idle, Call
<1> HIDE DEF Idle
<1>4. CallsAreTyped /\ IdsAreOwned /\ LinesAreTheirRequests
  BY <1>2, <1>3 DEF CallsAreTyped, IdsAreOwned, LinesAreTheirRequests, Lines
<1>5. FirstAttemptsAreUnwritten /\ AnswersAreTrue
  BY <1>2, <1>3 DEF FirstAttemptsAreUnwritten, AnswersAreTrue
<1>6. FlyingCalls
  BY <1>2 DEF FlyingCalls, NothingProjected
<1>7. QED
  BY <1>1, <1>4, <1>5, <1>6 DEF DispatchInv

LEMMA DispatchStepKeepsInv ==
  ASSUME DispatchInv, [DNext]_dvars
  PROVE  DispatchInv'
<1>1. CASE \E c \in Clients : Send(c)
  BY <1>1, SendKeepsInv
<1>2. CASE \E c \in Clients : OtherAction(c)
  BY <1>2, CallKeepsKernel, CallKeepsTypes, CallKeepsOwnership, CallKeepsAnswers,
     CallKeepsFlying DEF DispatchInv, KernelInv
<1>3. CASE \E g \in Goals : Forget(g)
  BY <1>3, ForgetKeepsInv
<1>4. CASE UNCHANGED dvars
  <2>1. TypeOK'
    BY <1>4 DEF dvars, DispatchInv, KernelInv, TypeOK, Lines
  <2>2. KernelInv'
    BY <1>4, <2>1, OtherStepsKeepKernel DEF dvars, DispatchInv
  <2>3. QED
    BY <1>4, <2>2 DEF dvars, DispatchInv, CallsAreTyped, IdsAreOwned, LinesAreTheirRequests,
       FirstAttemptsAreUnwritten, AnswersAreTrue, KnownOperation, FlyingCalls, Checked, Lines
<1>5. QED
  BY <1>1, <1>2, <1>3, <1>4 DEF DNext, OtherAction

LEMMA DispatchInvAlways == DSpec => []DispatchInv
<1>1. DispatchInv /\ [DNext]_dvars => DispatchInv'
  BY DispatchStepKeepsInv
<1>2. QED
  BY <1>1, DispatchStarts, PTL DEF DSpec

(* A client that is told "applied" finds its own line; one refused on its    *)
(* first attempt left none: for any number of clients, calls and retries.    *)
THEOREM AnswersAreTrueAlways == DSpec => []AnswersAreTrue
<1>1. DispatchInv => AnswersAreTrue
  BY DEF DispatchInv
<1>2. QED
  BY <1>1, DispatchInvAlways, PTL

(* A goal whose projection is inconsistent takes at most one line from each  *)
(* request that was past its check, whoever sends how much afterwards.       *)
THEOREM InconsistencyLatchesAlways == DSpec => []InconsistencyLatches
<1>1. DispatchInv => InconsistencyLatches
  <2> SUFFICES ASSUME DispatchInv, NEW g \in Goals PROVE flying[g] >= 0
    BY DEF InconsistencyLatches
  <2>1. Cardinality(Checked(g)) \in Nat /\ flying[g] \in Int
    BY CheckedIsFinite DEF DispatchInv, CallsAreTyped
  <2>2. QED
    BY <2>1 DEF DispatchInv, FlyingCalls
<1>2. QED
  BY <1>1, DispatchInvAlways, PTL

(* Behind the dispatcher, whose ids and interleavings Next does not have,    *)
(* the kernel keeps its promises to any number of concurrent clients.        *)
THEOREM KernelKeepsItsPromises ==
  DSpec => [](/\ OneLinePerOperation /\ FencesIncrease /\ SupersededTokensNeverWrite
              /\ EvidenceIsFresh /\ SatisfiedWasEarned /\ LeasesAreHonoured
              /\ FoldsAgreeWithTheLog /\ UnfencedRetriesAreAcknowledged)
<1>1. DispatchInv =>
        /\ OneLinePerOperation /\ FencesIncrease /\ SupersededTokensNeverWrite
        /\ EvidenceIsFresh /\ SatisfiedWasEarned /\ LeasesAreHonoured
        /\ FoldsAgreeWithTheLog /\ UnfencedRetriesAreAcknowledged
  BY RetriesAreAcknowledged DEF DispatchInv, KernelInv, FencesInv, EvidenceInv, EarnedInv,
     LeasesInv, FoldsInv
<1>2. QED
  BY <1>1, DispatchInvAlways, PTL

(* A bare retry of a recorded request is refused for a listed reason only. *)
RefusedForAReason ==
  \A c \in Clients : LET r == call[c].req IN
    /\ call[c].st \in {"sent", "checked"} /\ call'[c].answer = "refused"
    /\ KnownOperation(r)
    => \/ seen[r.goal].bad \/ ~FencePasses(r) \/ Reopened(r)
       \/ call[c].seq # Unset \/ call[c].state # Unset

LEMMA RefusalsHaveReasons ==
  ASSUME DispatchInv, [DNext]_dvars
  PROVE  RefusedForAReason
<1>1. TypeOK /\ CallsAreTyped /\ RetriesInv /\ LinesAreTheirRequests
  BY DEF DispatchInv, KernelInv
<1> SUFFICES ASSUME NEW c \in Clients,
                    call[c].st \in {"sent", "checked"}, call'[c].answer = "refused",
                    KnownOperation(call[c].req)
             PROVE  \/ seen[call[c].req.goal].bad \/ ~FencePasses(call[c].req)
                    \/ Reopened(call[c].req) \/ call[c].seq # Unset \/ call[c].state # Unset
  BY DEF RefusedForAReason
<1>2. call[c].answer = "none" /\ call[c].tries # 0
  BY <1>1 DEF CallsAreTyped
<1>3. OtherAction(c)
  <2>1. CASE \E d \in Clients : Send(d)
    BY <1>1, <1>2, <2>1, SendAddsACall
  <2>2. CASE \E d \in Clients : OtherAction(d)
    BY <1>1, <1>2, <2>2, OneCallMoves DEF OtherAction
  <2>3. CASE \E g \in Goals : Forget(g)
    BY <1>2, <2>3 DEF Forget
  <2>4. CASE UNCHANGED dvars
    BY <1>2, <2>4 DEF dvars
  <2>5. QED
    BY <2>1, <2>2, <2>3, <2>4 DEF DNext, OtherAction
<1>4. \/ ~PreconditionsHold(c)
      \/ ~Acknowledged(call[c].req)
  BY <1>1, <1>3, OneCallMoves DEF OtherAction, QuietStep, WritingStep, MovesOn
<1>5. CASE ~PreconditionsHold(c)
  BY <1>5 DEF PreconditionsHold
<1>6. CASE ~Acknowledged(call[c].req) /\ FencePasses(call[c].req)
  <2> DEFINE r == call[c].req
  <2>1. \A i \in Lines : log[i].id = r.id =>
          /\ log[i].op = r.op /\ log[i].goal = r.goal /\ log[i].args = r.args
    BY <1>1, <1>2 DEF LinesAreTheirRequests
  <2>2. \A i \in Lines : log[i].id = r.id => log[i].water # Watermark(r)
    BY <1>6, <2>1 DEF Acknowledged, SameFingerprint
  <2>3. PICK i \in Lines : log[i].id = r.id
    BY DEF KnownOperation
  <2>4. r.op = "gate_transition"
    BY <1>1, <2>1, <2>2, <2>3 DEF RetriesInv, OnlyMovesAreWatermarked, Watermark
  <2>5. QED
    BY <2>2, <2>4 DEF Reopened
<1>7. QED
  BY <1>4, <1>5, <1>6

(* A retry of a request whose line is in the log is refused only for its     *)
(* goal's inconsistency, its token, its preconditions or a reopen.           *)
THEOREM BareRetriesAreAcknowledgedAlways == DSpec => BareRetriesAreAcknowledged
<1>1. DispatchInv /\ [DNext]_dvars => [RefusedForAReason]_dvars
  BY RefusalsHaveReasons
<1>2. DSpec => [][RefusedForAReason]_dvars
  BY <1>1, DispatchInvAlways, PTL DEF DSpec
<1>3. QED
  BY <1>2 DEF BareRetriesAreAcknowledged, RefusedForAReason
=============================================================================
