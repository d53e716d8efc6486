-------------------------- MODULE ExecutionDispatch --------------------------
(***************************************************************************)
(* The MKEP/0 dispatcher (execution_dispatch.py: dispatch) in front of the *)
(* execution kernel.  A request is checked against an unlocked read of the *)
(* log, then handed to the kernel, which takes the lock; other clients run *)
(* in between.  A client that gets no answer retries the same request with *)
(* the same operation_id (docs/EXECUTION_PROTOCOL.md:15).                  *)
(***************************************************************************)
EXTENDS ExecutionLog

CONSTANTS
  Clients,   \* runtimes that send requests
  MaxCalls,  \* bound: requests ever formed
  Unset      \* a precondition that was left out

ASSUME DispatchAssumption ==
  /\ IsFiniteSet(Clients) /\ MaxCalls \in Nat
  /\ Unset \notin Nat \union GateStatus \union GoalStatus

VARIABLES
  call,      \* per client: its current request and how far it got
  formed,    \* requests formed so far; their operation ids are 1 .. formed
  flying     \* history, per goal: requests past their check when its projection became
             \* inconsistent, less the lines written to it since

dvars == <<log, full, seen, leases, fence, call, formed, flying>>
kernel == <<log, full, seen, leases, fence>>

NoRequest == Request("none", CHOOSE g \in Goals : TRUE, 0, <<>>, 0)
Idle == [st |-> "idle", req |-> NoRequest, seq |-> Unset, state |-> Unset,
         tries |-> 0, answer |-> "none"]

(* The apply operations of the registry. *)
RequestsOf(g, id) ==
  GoalDeclareRequests(g, id) \union AssessRecordRequests(g, id)
  \union GateDeclareRequests(g, id) \union ReceiptRecordRequests(g, id)
  \union GateTransitionRequests(g, id) \union GoalTransitionRequests(g, id)
  \union LeaseAcquireRequests(g, id) \union LeaseReleaseRequests(g, id)

(* _entity_status: only transitions have an entity whose state to expect. *)
StateOf(r) ==
  CASE r.op = "gate_transition" -> seen[r.goal].gates[r.args.gate].status
    [] r.op = "goal_transition" -> seen[r.goal].goal
    [] OTHER -> Unset

(* Mutant: an inconsistent projection is written over. *)
PreconditionsHold_NotLatched(c) ==
  LET r == call[c].req IN
  /\ call[c].state # Unset => call[c].state = StateOf(r)
  /\ call[c].seq # Unset => call[c].seq = seen[r.goal].seq

(* _check_preconditions *)
PreconditionsHold(c) ==
  LET r == call[c].req IN
  /\ ~seen[r.goal].bad
  /\ call[c].state # Unset => call[c].state = StateOf(r)
  /\ call[c].seq # Unset => call[c].seq = seen[r.goal].seq

Answer(c, a) ==
  call' = [call EXCEPT ![c] = [st |-> "idle", req |-> @.req, seq |-> Unset, state |-> Unset,
                               tries |-> @.tries, answer |-> a]]
GoesTo(c, st) == call' = [call EXCEPT ![c].st = st]

(* A client that has read the goal sends a request of its own, with or      *)
(* without the preconditions of section 6.5.                                *)
Send(c) == \E g \in Goals : \E r \in RequestsOf(g, formed + 1) :
  \E n \in {Unset, seen[g].seq}, st \in {Unset, StateOf(r)} :
    /\ call[c].st = "idle" /\ formed < MaxCalls
    /\ formed' = formed + 1
    /\ call' = [call EXCEPT ![c] = [st |-> "sent", req |-> r, seq |-> n, state |-> st,
                                    tries |-> 1, answer |-> "none"]]
    /\ UNCHANGED <<kernel, flying>>

(* dispatch, up to its call of the adapter: read_all and project without a lock *)
Check(c) ==
  /\ call[c].st = "sent"
  /\ IF PreconditionsHold(c) THEN GoesTo(c, "checked") ELSE Answer(c, "refused")
  /\ UNCHANGED <<kernel, formed, flying>>

Checked(g) == {c \in Clients : call[c].st = "checked" /\ call[c].req.goal = g}

WriteFor(c) == LET r == call[c].req IN
  /\ Write(r)
  /\ flying' = [flying EXCEPT ![r.goal] =
       IF seen[r.goal].bad THEN @ - 1
       ELSE IF seen'[r.goal].bad THEN Cardinality(Checked(r.goal) \ {c}) ELSE 0]

(* the adapter: one call of the kernel *)
ApplyWrites(c) ==
  /\ call[c].st = "checked"
  /\ WriteFor(c)
  /\ Answer(c, "applied")
  /\ UNCHANGED formed

ApplyRefused(c) ==
  /\ call[c].st = "checked" /\ ~Applies(call[c].req)
  /\ Answer(c, IF Acknowledged(call[c].req) THEN "already_applied" ELSE "refused")
  /\ UNCHANGED <<kernel, formed, flying>>

(* The governance lock stays busy for its whole budget: E_STORE_BUSY. *)
StoreBusy(c) ==
  /\ call[c].st = "checked"
  /\ Answer(c, "busy")
  /\ UNCHANGED <<kernel, formed, flying>>

(* The subprocess is killed, or its answer is lost: before the kernel wrote *)
(* the line, or after.                                                      *)
LoseCall(c) ==
  /\ call[c].st \in {"sent", "checked"}
  /\ GoesTo(c, "unknown")
  /\ UNCHANGED <<kernel, formed, flying>>

ApplyAndLoseAnswer(c) ==
  /\ call[c].st = "checked"
  /\ WriteFor(c)
  /\ GoesTo(c, "unknown")
  /\ UNCHANGED formed

(* The byte-equivalent request, once more. *)
Retry(c) ==
  /\ call[c].st = "unknown" /\ call[c].tries = 1
  /\ call' = [call EXCEPT ![c].st = "sent", ![c].tries = 2]
  /\ UNCHANGED <<kernel, formed, flying>>

Forget(g) == ForgetGoal(g) /\ flying' = [flying EXCEPT ![g] = 0] /\ UNCHANGED <<call, formed>>

DInit ==
  Init /\ call = [c \in Clients |-> Idle] /\ formed = 0 /\ flying = [g \in Goals |-> 0]

DNext ==
  \/ \E c \in Clients : \/ Send(c) \/ Check(c) \/ ApplyWrites(c) \/ ApplyRefused(c)
                        \/ StoreBusy(c) \/ LoseCall(c) \/ ApplyAndLoseAnswer(c) \/ Retry(c)
  \/ \E g \in Goals : Forget(g)

DSpec == DInit /\ [][DNext]_dvars

-----------------------------------------------------------------------------
(* Properties *)

(* A client that is told its request was applied finds its own line in the  *)
(* log, with the arguments it sent; a refused first attempt left no line.   *)
AnswersAreTrue ==
  \A c \in Clients : LET r == call[c].req IN
    /\ call[c].answer \in {"applied", "already_applied"} =>
         \E i \in Lines : log[i].id = r.id /\ log[i].op = r.op /\ log[i].args = r.args
    /\ call[c].answer = "refused" /\ call[c].tries = 1 => ~KnownOperation(r)

(* Once a goal's projection is inconsistent, its log grows only by requests  *)
(* that other clients had already past their check, one line each, until the *)
(* goal is forgotten (IN-01: "every subsequent apply returns                 *)
(* E_PROJECTION_INCONSISTENT").                                              *)
InconsistencyLatches == \A g \in Goals : flying[g] >= 0

(* A retry of a request whose line is in the log is refused for one of these *)
(* reasons only: its goal's projection is inconsistent, it carries a          *)
(* precondition, its token was superseded, or its gate was reopened since; a  *)
(* bare retry is never refused for what other clients recorded in between.    *)
Reopened(r) ==
  r.op = "gate_transition" /\ \A i \in Lines : log[i].id = r.id => log[i].water # Watermark(r)
BareRetriesAreAcknowledged ==
  [][\A c \in Clients : LET r == call[c].req IN
       /\ call[c].st \in {"sent", "checked"} /\ call'[c].answer = "refused"
       /\ KnownOperation(r)
       => \/ seen[r.goal].bad \/ ~FencePasses(r) \/ Reopened(r)
          \/ call[c].seq # Unset \/ call[c].state # Unset]_dvars
=============================================================================
