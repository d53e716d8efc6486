---------------------------- MODULE ExecutionLog ----------------------------
(***************************************************************************)
(* The execution kernel (execution_state.py, execution_projection.py): one *)
(* append-only log of goals, gates, receipts, transitions and leases.      *)
(*                                                                         *)
(* Every write goes through _execution_append, which holds the governance  *)
(* lock from its read of the log to its append, so a call is one step.  A  *)
(* call that is refused, or that finds its operation_id in the log, writes *)
(* nothing and is a stuttering step.  Two folds of the log are kept up to  *)
(* date line by line instead of being recomputed by each call: `full` is   *)
(* what a writer projects (include_tombstoned=True), `seen` what a reader  *)
(* projects.  The caller injects `now`, which need not grow from one call  *)
(* to the next.                                                            *)
(*                                                                         *)
(* A record id is the event_seq of its line: both are minted once a line.  *)
(* Operation ids are opaque and are numbered in the order of first use.    *)
(***************************************************************************)
EXTENDS Integers, Sequences, FiniteSets

CONSTANTS
  Goals, Gates,
  Scopes,      \* scope keys, GoalScope among them
  GoalScope,   \* the literal "goal", under which a goal's own moves are fenced
  LeaseScopes, \* the scopes some worker leases
  Holders,     \* workers that take leases
  Moments,     \* values of the injected now
  Ttls,        \* lease durations
  Verdicts,    \* verdicts that receipts carry
  Targets,     \* gate statuses that callers ask for
  Forgotten,   \* goals that someone may delete
  MaxSeq,      \* bound: lines of the log
  MaxGates, MaxLeases,  \* the caps of a goal
  NoScope, Nobody

ASSUME ExecutionAssumption ==
  /\ GoalScope \in Scopes /\ LeaseScopes \subseteq Scopes
  /\ NoScope \notin Scopes /\ Nobody \notin Holders
  /\ Verdicts \subseteq {"pass", "fail"} /\ Forgotten \subseteq Goals
  /\ Targets \subseteq {"pending", "passed", "failed", "waived"}
  /\ Moments \subseteq Nat /\ Ttls \subseteq Nat \ {0}
  /\ {MaxSeq, MaxGates, MaxLeases} \subseteq Nat

VARIABLES
  log,     \* the lines of events.jsonl
  full,    \* per goal: the projection of every line, tombstoned or not
  seen,    \* per goal: the projection of the lines a reader is shown
  leases,  \* per goal and scope: the most recent grant and how it ended
  fence    \* per goal: the highest fence token ever minted

vars == <<log, full, seen, leases, fence>>

GoalStatus == {"undeclared", "open", "satisfied", "abandoned"}
GateStatus == {"undeclared", "pending", "passed", "failed", "waived"}

Gate == [status : GateStatus, scope : Scopes \union {NoScope}, required : BOOLEAN,
         reopened : Nat]
Projection == [goal : GoalStatus, gates : [Gates -> Gate], bad : BOOLEAN, seq : Nat]
Lease == [grant : Nat, holder : Holders \union {Nobody}, token : Nat,
          expires : Nat, released : BOOLEAN]

(* What a caller passes to each operation, and the line the kernel makes of it. *)
Ops == {"goal_declared", "gate_declared", "evidence_receipt", "gate_transition",
        "goal_transition", "lease_grant", "lease_release", "run_assessment"}
LeaseOps == {"lease_grant", "lease_release"}
ArgsOf(op) ==
  CASE op = "gate_declared"    -> [gate : Gates, scope : Scopes, required : BOOLEAN]
    [] op = "evidence_receipt" -> [gate : Gates, verdict : {"pass", "fail"}]
    [] op = "gate_transition"  -> [gate : Gates, to : GateStatus \ {"undeclared"},
                                   receipt : Nat, reason : BOOLEAN, human : BOOLEAN]
    [] op = "goal_transition"  -> [to : {"satisfied", "abandoned"}, reason : BOOLEAN]
    [] op = "lease_grant"      -> [scope : Scopes, holder : Holders, ttl : Nat]
    [] op = "lease_release"    -> [scope : Scopes, lease : Nat, by : Holders \union {Nobody}]
    [] OTHER -> {<<>>}
Args == ArgsOf("gate_declared") \union ArgsOf("evidence_receipt")
        \union ArgsOf("gate_transition") \union ArgsOf("goal_transition")
        \union ArgsOf("lease_grant") \union ArgsOf("lease_release") \union {<<>>}
Line ==
  [op : Ops, goal : Goals, id : Nat, args : Args, now : Nat, token : Nat,
   scope : Scopes \union {NoScope}, water : Nat, seq : Nat, fence : Nat,
   reason : {"none", "released_by_holder", "expired"}]

NoGate == [status |-> "undeclared", scope |-> NoScope, required |-> FALSE, reopened |-> 0]
NothingProjected == [goal |-> "undeclared", gates |-> [k \in Gates |-> NoGate],
                     bad |-> FALSE, seq |-> 0]
NeverLeased == [grant |-> 0, holder |-> Nobody, token |-> 0, expires |-> 0,
                released |-> FALSE]

Lines == DOMAIN log

-----------------------------------------------------------------------------
(* The projection: one line folded into the state of its goal. *)

(* _TRANSITIONS.  Every triple that is not listed is rejected. *)
GoalMoves == {<<"open", "satisfied">>, <<"open", "abandoned">>}
GateMoves == {<<"pending", "passed">>, <<"pending", "failed">>, <<"pending", "waived">>,
              <<"passed", "pending">>, <<"failed", "pending">>, <<"failed", "passed">>,
              <<"failed", "waived">>}

Settled == {"passed", "waived"}
NeedsReason(from, to) == to = "pending" \/ <<from, to>> = <<"failed", "passed">>
VerdictFor(to) == CASE to = "passed" -> "pass" [] to = "failed" -> "fail" [] OTHER -> "none"

(* Mutant: project no longer moves the evidence watermark on a reopen. *)
MoveGate_ForgetsReopen(gate, to, seq) == [gate EXCEPT !.status = to]

MoveGate(gate, to, seq) ==
  [gate EXCEPT !.status = to, !.reopened = IF to = "pending" THEN seq ELSE @]

(* project, its loop body: the first declaration of an identity wins, and a *)
(* transition that is not in the table marks the goal inconsistent.         *)
Rejected(p, e) ==
  \/ e.op = "gate_transition" /\ <<p.gates[e.args.gate].status, e.args.to>> \notin GateMoves
  \/ e.op = "goal_transition" /\ <<p.goal, e.args.to>> \notin GoalMoves

FoldGoal(p, e) ==
  CASE e.op = "goal_declared" /\ p.goal = "undeclared" -> "open"
    [] e.op = "goal_transition" /\ ~Rejected(p, e) -> e.args.to
    [] OTHER -> p.goal

FoldGates(p, e) ==
  CASE e.op = "gate_declared" /\ p.gates[e.args.gate].status = "undeclared" ->
         [p.gates EXCEPT ![e.args.gate] = [status |-> "pending", scope |-> e.scope,
                                           required |-> e.args.required, reopened |-> 0]]
    [] e.op = "gate_transition" /\ ~Rejected(p, e) ->
         [p.gates EXCEPT ![e.args.gate] = MoveGate(@, e.args.to, e.seq)]
    [] OTHER -> p.gates

FoldLine(p, e) ==
  [goal |-> FoldGoal(p, e), gates |-> FoldGates(p, e),
   bad |-> p.bad \/ Rejected(p, e), seq |-> e.seq]

(* project_leases, its loop body, for the scope the line names. *)
FoldLease(held, e) ==
  CASE e.op = "lease_grant" ->
         [grant |-> e.seq, holder |-> e.args.holder, token |-> e.fence,
          expires |-> e.now + e.args.ttl, released |-> FALSE]
    [] e.op = "lease_release" /\ held.grant = e.args.lease -> [held EXCEPT !.released = TRUE]
    [] OTHER -> held

FoldLeases(held, e) ==
  IF e.op \in LeaseOps THEN [held EXCEPT ![e.args.scope] = FoldLease(@, e)] ELSE held

IsActive(lease, now) == lease.grant # 0 /\ ~lease.released /\ lease.expires > now
ActiveScopes(g, now) == {s \in Scopes : IsActive(leases[g][s], now)}

-----------------------------------------------------------------------------
(* _execution_append: what lets a request through. *)

(* _fence, and _gate_scope: a gate's writes are fenced under the scope its *)
(* declaration fixed.                                                      *)
FenceScope(r) ==
  CASE r.op = "gate_declared" -> r.args.scope
    [] r.op \in {"evidence_receipt", "gate_transition"} -> full[r.goal].gates[r.args.gate].scope
    [] r.op = "goal_transition" -> GoalScope
    [] OTHER -> NoScope

(* Mutant: staleness is no longer measured against the goal's newest token. *)
FencePasses_AnyToken(r) ==
  LET s == FenceScope(r) IN
  s # NoScope => IF IsActive(leases[r.goal][s], r.now) THEN r.token # 0 ELSE r.token = 0

(* Mutant: a token is checked when it is presented, but nobody has to present one. *)
FencePasses_Unasked(r) ==
  LET s == FenceScope(r) IN
  s # NoScope /\ r.token # 0 =>
    IsActive(leases[r.goal][s], r.now) /\ r.token >= fence[r.goal]

FencePasses(r) ==
  LET s == FenceScope(r) IN
  s # NoScope =>
    IF IsActive(leases[r.goal][s], r.now)
    THEN r.token # 0 /\ r.token >= fence[r.goal]
    ELSE r.token = 0

(* Mutant: a field the store allocates is left in the fingerprint. *)
Watermark_Allocated(r) == Len(log)

(* bind: the watermark a gate transition observed is part of its identity. *)
Watermark(r) ==
  IF r.op = "gate_transition" THEN full[r.goal].gates[r.args.gate].reopened ELSE 0

(* Mutant: the idempotency scan is skipped. *)
KnownOperation_Never(r) == FALSE

KnownOperation(r) == \E i \in Lines : log[i].id = r.id

(* _record_fingerprint leaves out what the clock or the store decides. *)
SameFingerprint(e, r) ==
  /\ e.op = r.op /\ e.goal = r.goal /\ e.args = r.args
  /\ e.water = Watermark(r)

(* _execution_check_declared *)
Declared(r) ==
  LET p == full[r.goal] IN
  CASE r.op = "goal_declared" -> p.goal = "undeclared"
    [] r.op = "gate_declared" ->
         p.goal # "undeclared" /\ p.gates[r.args.gate].status = "undeclared"
    [] r.op \in {"evidence_receipt", "gate_transition"} ->
         p.gates[r.args.gate].status # "undeclared"
    [] OTHER -> p.goal # "undeclared"

(* Mutant: any receipt with the verdict will do, however old. *)
EvidenceFor_AnyAge(r) ==
  LET verdict == VerdictFor(r.args.to) IN
  verdict = "none" \/
    \E i \in Lines :
      /\ log[i].op = "evidence_receipt" /\ log[i].goal = r.goal
      /\ log[i].args.gate = r.args.gate /\ log[i].args.verdict = verdict

(* _select_receipt: the newest receipt with the verdict, or the named one, *)
(* has to be younger than the gate's last reopen.                          *)
EvidenceFor(r) ==
  LET verdict == VerdictFor(r.args.to) IN
  verdict = "none" \/
    \E i \in Lines :
      /\ log[i].op = "evidence_receipt" /\ log[i].goal = r.goal
      /\ log[i].args.gate = r.args.gate /\ log[i].args.verdict = verdict
      /\ r.args.receipt \in {0, log[i].seq}
      /\ log[i].seq > full[r.goal].gates[r.args.gate].reopened

(* Mutant: the goal's blockers are the gates that have failed. *)
AllSettled_NotFailed(g) ==
  \A k \in Gates : full[g].gates[k].required => full[g].gates[k].status # "failed"

AllSettled(g) ==
  \A k \in Gates : LET gate == full[g].gates[k] IN
    gate.status # "undeclared" /\ gate.required => gate.status \in Settled

(* Mutant: the holder of an active lease is not compared with the caller. *)
MayAcquire_AnyHolder(r) ==
  LET last == leases[r.goal][r.args.scope] IN
  r.expected # 0 => last.grant # 0 /\ r.expected = last.token

(* guard of lease_acquire, its refusals, without the pick of a reason.  The *)
(* scope's previous lease is its active one or, failing that, its last one, *)
(* which are the same line.                                                 *)
MayAcquire(r) ==
  LET last == leases[r.goal][r.args.scope] IN
  /\ r.expected # 0 => last.grant # 0 /\ r.expected = last.token
  /\ IF IsActive(last, r.now) THEN last.holder = r.args.holder
     ELSE Cardinality(ActiveScopes(r.goal, r.now)) < MaxLeases

(* guard of lease_release *)
MayRelease(r) ==
  LET last == leases[r.goal][r.args.scope] IN
  /\ last.grant # 0 /\ last.grant = r.args.lease
  /\ ~last.released
  /\ r.args.by # Nobody => r.args.by = last.holder

(* Mutant: the transition table is consulted by project alone. *)
MayMoveGate_AnyMove(r) ==
  /\ NeedsReason(full[r.goal].gates[r.args.gate].status, r.args.to) => r.args.reason
  /\ r.args.to = "waived" => r.args.human
  /\ EvidenceFor(r)

MayMoveGate(r) ==
  LET from == full[r.goal].gates[r.args.gate].status IN
  /\ <<from, r.args.to>> \in GateMoves
  /\ NeedsReason(from, r.args.to) => r.args.reason
  /\ r.args.to = "waived" => r.args.human
  /\ EvidenceFor(r)

MayMoveGoal(r) ==
  /\ <<full[r.goal].goal, r.args.to>> \in GoalMoves
  /\ r.args.to = "abandoned" => r.args.reason
  /\ r.args.to = "satisfied" => AllSettled(r.goal)

GuardHolds(r) ==
  CASE r.op = "gate_declared" ->
         Cardinality({k \in Gates : full[r.goal].gates[k].status # "undeclared"}) < MaxGates
    [] r.op = "gate_transition" -> MayMoveGate(r)
    [] r.op = "goal_transition" -> MayMoveGoal(r)
    [] r.op = "lease_grant" -> MayAcquire(r)
    [] r.op = "lease_release" -> MayRelease(r)
    [] OTHER -> TRUE

Applies(r) == ~KnownOperation(r) /\ FencePasses(r) /\ Declared(r) /\ GuardHolds(r)

(* Mutant: a replay is recognised by its fingerprint alone. *)
Acknowledged_ByContent(r) == FencePasses(r) /\ \E i \in Lines : SameFingerprint(log[i], r)

(* Mutant: the guard is asked before the operation is looked up. *)
Acknowledged_GuardFirst(r) ==
  /\ FencePasses(r) /\ GuardHolds(r)
  /\ \E i \in Lines : log[i].id = r.id /\ SameFingerprint(log[i], r)

(* The call answers already_applied. *)
Acknowledged(r) ==
  FencePasses(r) /\ \E i \in Lines : log[i].id = r.id /\ SameFingerprint(log[i], r)

-----------------------------------------------------------------------------
(* Writing *)

(* supersede_reason of the grant r asks for *)
SupersedeReason(r) ==
  LET last == leases[r.goal][r.args.scope] IN
  IF last.grant = 0 THEN "none"
  ELSE IF IsActive(last, r.now) \/ last.released THEN "released_by_holder" ELSE "expired"

LineScope(r) == IF r.op \in LeaseOps THEN r.args.scope ELSE FenceScope(r)

(* high_water: event_seq of the last line *)
HighWater == Len(log)

(* Mutant: the next token is counted per scope. *)
LineOf_TokenPerScope(r) ==
  [op |-> r.op, goal |-> r.goal, id |-> r.id, args |-> r.args, now |-> r.now,
   token |-> r.token, scope |-> LineScope(r), water |-> Watermark(r),
   seq |-> HighWater + 1,
   fence  |-> IF r.op = "lease_grant" THEN leases[r.goal][r.args.scope].token + 1 ELSE 0,
   reason |-> IF r.op = "lease_grant" THEN SupersedeReason(r) ELSE "none"]

(* Mutant: the line takes the high water itself. *)
LineOf_SameSeq(r) ==
  [op |-> r.op, goal |-> r.goal, id |-> r.id, args |-> r.args, now |-> r.now,
   token |-> r.token, scope |-> LineScope(r), water |-> Watermark(r),
   seq |-> HighWater,
   fence  |-> IF r.op = "lease_grant" THEN fence[r.goal] + 1 ELSE 0,
   reason |-> IF r.op = "lease_grant" THEN SupersedeReason(r) ELSE "none"]

(* The line the kernel appends: event_seq, the watermark, the fence and the *)
(* reason are its own, the rest is the caller's.                            *)
LineOf(r) ==
  [op |-> r.op, goal |-> r.goal, id |-> r.id, args |-> r.args, now |-> r.now,
   token |-> r.token, scope |-> LineScope(r), water |-> Watermark(r),
   seq |-> HighWater + 1,
   fence  |-> IF r.op = "lease_grant" THEN fence[r.goal] + 1 ELSE 0,
   reason |-> IF r.op = "lease_grant" THEN SupersedeReason(r) ELSE "none"]

Write(r) ==
  /\ Applies(r)
  /\ Len(log) < MaxSeq
  /\ LET e == LineOf(r) IN
       /\ log' = Append(log, e)
       /\ full' = [full EXCEPT ![r.goal] = FoldLine(@, e)]
       /\ seen' = [seen EXCEPT ![r.goal] = FoldLine(@, e)]
       /\ leases' = [leases EXCEPT ![r.goal] = FoldLeases(@, e)]
       /\ fence' = IF r.op = "lease_grant"
                   THEN [fence EXCEPT ![r.goal] = e.fence] ELSE fence

(* What callers ask for.  A token is none (0) or one some acquire returned. *)
Request(op, g, id, args, now) ==
  [op |-> op, goal |-> g, id |-> id, args |-> args, now |-> now, token |-> 0, expected |-> 0]
FencedRequests(op, g, id, argsets) ==
  {[Request(op, g, id, a, now) EXCEPT !.token = t] :
     a \in argsets, now \in Moments, t \in 0 .. fence[g]}

(* goal_declare and assess_record read no clock: their now decides nothing. *)
GoalDeclareRequests(g, id) == {Request("goal_declared", g, id, <<>>, 0)}
AssessRecordRequests(g, id) == {Request("run_assessment", g, id, <<>>, 0)}

GateDeclareRequests(g, id) ==
  FencedRequests("gate_declared", g, id, [gate : Gates, scope : Scopes, required : BOOLEAN])

ReceiptRecordRequests(g, id) ==
  FencedRequests("evidence_receipt", g, id, [gate : Gates, verdict : Verdicts])

(* The arguments a transition has no use for are not supplied. *)
GateTransitionRequests(g, id) ==
  FencedRequests("gate_transition", g, id,
    {a \in [gate : Gates, to : Targets, receipt : {0} \union Lines,
            reason : BOOLEAN, human : BOOLEAN] :
       /\ a.receipt # 0 => a.to \in {"passed", "failed"}
       /\ a.reason => a.to \in {"passed", "pending"}
       /\ a.human => a.to = "waived"})

GoalTransitionRequests(g, id) ==
  FencedRequests("goal_transition", g, id,
    {a \in [to : {"satisfied", "abandoned"}, reason : BOOLEAN] :
       a.reason => a.to = "abandoned"})

LeaseAcquireRequests(g, id) ==
  {[Request("lease_grant", g, id, a, now) EXCEPT !.expected = t] :
     a \in [scope : LeaseScopes, holder : Holders, ttl : Ttls],
     now \in Moments, t \in 0 .. fence[g]}

LeaseReleaseRequests(g, id) ==
  {Request("lease_release", g, id, a, now) : now \in Moments,
     a \in [scope : LeaseScopes, lease : Lines, by : Holders \union {Nobody}]}

(* A fresh operation id or one that was used before. *)
Ids == 1 .. Len(log) + 1

GoalDeclare(g)    == \E id \in Ids : \E r \in GoalDeclareRequests(g, id) : Write(r)
GateDeclare(g)    == \E id \in Ids : \E r \in GateDeclareRequests(g, id) : Write(r)
ReceiptRecord(g)  == \E id \in Ids : \E r \in ReceiptRecordRequests(g, id) : Write(r)
GateTransition(g) == \E id \in Ids : \E r \in GateTransitionRequests(g, id) : Write(r)
GoalTransition(g) == \E id \in Ids : \E r \in GoalTransitionRequests(g, id) : Write(r)
LeaseAcquire(g)   == \E id \in Ids : \E r \in LeaseAcquireRequests(g, id) : Write(r)
LeaseRelease(g)   == \E id \in Ids : \E r \in LeaseReleaseRequests(g, id) : Write(r)
AssessRecord(g)   == \E id \in Ids : \E r \in AssessRecordRequests(g, id) : Write(r)

(* _execution_forget_goal: a marker for every live line of the goal, in one *)
(* batch.  Writers keep reading the lines; readers no longer do.            *)
ForgetGoal(g) ==
  /\ g \in Forgotten
  /\ \E i \in Lines : log[i].goal = g
  /\ seen' = [seen EXCEPT ![g] = NothingProjected]
  /\ UNCHANGED <<log, full, leases, fence>>

Init ==
  /\ log = <<>>
  /\ full = [g \in Goals |-> NothingProjected]
  /\ seen = [g \in Goals |-> NothingProjected]
  /\ leases = [g \in Goals |-> [s \in Scopes |-> NeverLeased]]
  /\ fence = [g \in Goals |-> 0]

Next == \E g \in Goals :
  \/ GoalDeclare(g) \/ GateDeclare(g) \/ ReceiptRecord(g)
  \/ GateTransition(g) \/ GoalTransition(g)
  \/ LeaseAcquire(g) \/ LeaseRelease(g)
  \/ AssessRecord(g) \/ ForgetGoal(g)

Spec == Init /\ [][Next]_vars
-----------------------------------------------------------------------------
(* Properties *)

(* Every variable holds the values its readers expect; a line's event_seq is *)
(* its place in the log.                                                     *)
TypeOK ==
  /\ log \in Seq(Line)
  /\ \A i \in Lines : log[i].seq = i /\ log[i].args \in ArgsOf(log[i].op)
  /\ full \in [Goals -> Projection]
  /\ seen \in [Goals -> Projection]
  /\ leases \in [Goals -> [Scopes -> Lease]]
  /\ fence \in [Goals -> Nat]

IsGrant(i, g) == log[i].op = "lease_grant" /\ log[i].goal = g
IsGrantOf(i, g, s) == IsGrant(i, g) /\ log[i].args.scope = s
IsMove(i, g, k) == log[i].op = "gate_transition" /\ log[i].goal = g /\ log[i].args.gate = k
IsReopen(i, g, k) == IsMove(i, g, k) /\ log[i].args.to = "pending"
IsReceipt(i, g, k, v) == /\ log[i].op = "evidence_receipt" /\ log[i].goal = g
                         /\ log[i].args.gate = k /\ log[i].args.verdict = v

(* An operation takes effect at most once, however often it is retried: no  *)
(* two lines carry the same operation_id.                                   *)
OneLinePerOperation == \A i, j \in Lines : log[i].id = log[j].id => i = j

(* Fence tokens are minted goal-wide: each grant's token is higher than that *)
(* of every earlier grant of the goal, on any scope.                         *)
FencesIncrease ==
  \A i, j \in Lines : \A g \in Goals :
    i < j /\ IsGrant(i, g) /\ IsGrant(j, g) => log[i].fence < log[j].fence

(* A write that presented a token stands after every grant its token is older *)
(* than: a token that was superseded anywhere in the goal never writes again. *)
SupersededTokensNeverWrite ==
  \A i, j \in Lines :
    j < i /\ log[i].token # 0 /\ IsGrant(j, log[i].goal) => log[j].fence <= log[i].token

(* A leased scope is written only with a token: no line without one follows a *)
(* grant of its scope that was neither released nor replaced and that the     *)
(* writer's own clock still counts as valid.                                  *)
LeasedScopesAreFenced ==
  \A i, j \in Lines :
    /\ i < j /\ IsGrantOf(i, log[j].goal, log[j].scope)
    /\ log[j].op \notin LeaseOps /\ log[j].token = 0
    => \/ log[i].now + log[i].args.ttl <= log[j].now
       \/ \E m \in i + 1 .. j - 1 :
            \/ IsGrantOf(m, log[j].goal, log[j].scope)
            \/ log[m].op = "lease_release" /\ log[m].args.lease = i

(* The grant that follows another one on its scope tells how the scope came   *)
(* free, and is right about it: "expired" only when the acquirer's clock had  *)
(* reached the previous expiry and nobody had released it; another reason     *)
(* only when it was released or the holder renews its own lease.  No worker   *)
(* takes over a lease that is neither expired nor released.                   *)
HandoversAreHonest ==
  \A j \in Lines : \A g \in Goals, s \in Scopes : IsGrantOf(j, g, s) =>
    \A i \in 1 .. j - 1 :
      IsGrantOf(i, g, s) /\ (\A m \in i + 1 .. j - 1 : ~IsGrantOf(m, g, s)) =>
        LET released == \E m \in i + 1 .. j - 1 :
                          log[m].op = "lease_release" /\ log[m].args.lease = i
        IN \/ /\ log[j].reason = "expired" /\ ~released
              /\ log[i].now + log[i].args.ttl <= log[j].now
           \/ /\ log[j].reason = "released_by_holder"
              /\ released \/ log[i].args.holder = log[j].args.holder

(* Leases are handed over and written under as _fence and lease_acquire     *)
(* promise: a scope that was leased takes no write without a token, and      *)
(* changes hands only when it was free, released or expired for the taker.   *)
LeasesAreHonoured == LeasedScopesAreFenced /\ HandoversAreHonest

(* A retry of an acquire, a release or another call that is not fenced is    *)
(* acknowledged for ever, whatever expired, moved or was superseded since.   *)
UnfencedRetriesAreAcknowledged ==
  \A i \in Lines : FenceScope(log[i]) = NoScope => Acknowledged(log[i])

(* What a gate's status and watermark say is what the log says: the target of *)
(* its last transition, and the last line that reopened it.                   *)
ProjectionReadsTheLog ==
  \A g \in Goals, k \in Gates : LET gate == full[g].gates[k] IN
    /\ \A i \in Lines : IsMove(i, g, k) /\ (\A j \in i + 1 .. Len(log) : ~IsMove(j, g, k))
         => gate.status = log[i].args.to
    /\ \A i \in Lines : IsReopen(i, g, k) => i <= gate.reopened
    /\ gate.reopened # 0 => IsReopen(gate.reopened, g, k)

(* A gate passes, or fails, only on evidence recorded since it was last       *)
(* reopened (I-E1, I-E2): the receipt stands before the transition and no     *)
(* reopen stands between them.                                                *)
EvidenceIsFresh ==
  \A i \in Lines : \A g \in Goals, k \in Gates :
    IsMove(i, g, k) /\ VerdictFor(log[i].args.to) # "none" =>
      \E j \in 1 .. i - 1 :
        /\ IsReceipt(j, g, k, VerdictFor(log[i].args.to))
        /\ \A m \in j .. i : ~IsReopen(m, g, k)

(* A goal is satisfied only when every required gate declared by then had     *)
(* been passed or waived and was not reopened before the goal moved (I-E7).   *)
SatisfiedWasEarned ==
  \A i \in Lines : log[i].op = "goal_transition" /\ log[i].args.to = "satisfied" =>
    \A d \in 1 .. i - 1 :
      log[d].op = "gate_declared" /\ log[d].goal = log[i].goal /\ log[d].args.required =>
        \E m \in d + 1 .. i - 1 :
          /\ IsMove(m, log[i].goal, log[d].args.gate) /\ log[m].args.to \in Settled
          /\ \A n \in m + 1 .. i - 1 : ~IsMove(n, log[i].goal, log[d].args.gate)

(* Documented, and not what the code does: "a stale holder cannot write into *)
(* a scope that has been re-leased" (tests/test_execution_leases.py:12).  The *)
(* worker whose token a write carries holds the lease of the write's scope.   *)
OnlyTheHolderWrites ==
  \A i \in Lines : log[i].token # 0 =>
    \A j, m \in 1 .. i - 1 :
      /\ IsGrantOf(j, log[i].goal, log[i].scope)
      /\ \A n \in j + 1 .. i - 1 : ~IsGrantOf(n, log[i].goal, log[i].scope)
      /\ IsGrant(m, log[i].goal) /\ log[m].fence = log[i].token
      => log[j].args.holder = log[m].args.holder

(* Every transition in the log was allowed when it was appended: writers never *)
(* meet a projection that rejects one, whatever was forgotten since.           *)
WritersFoldCleanly == \A g \in Goals : ~full[g].bad

(* Writer and reader agree about the log: the fold is what the accepted      *)
(* lines say, and no writer appends a transition that a later fold reports   *)
(* as an inconsistency (project, _apply, gate_transition).                   *)
FoldsAgreeWithTheLog == ProjectionReadsTheLog /\ WritersFoldCleanly
=============================================================================
