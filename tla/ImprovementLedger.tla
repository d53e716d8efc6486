-------------------------- MODULE ImprovementLedger --------------------------
(***************************************************************************)
(* The improvement ledger (improvement_ledger.py): proposals to change an  *)
(* artifact, the evaluations that judge them, the gate that promotes them, *)
(* the revisions of an artifact and the compare-and-set that activates one.*)
(*                                                                         *)
(* A writer holds the governance lock, reads the whole log anew and        *)
(* appends one line, so a call is one step; a call that is refused leaves  *)
(* nothing and is a stuttering step.  What the disk may do to that line is *)
(* part of the step: the writer is killed, or the disk is full, with a     *)
(* part of the line written (torn, which readers take for an append in     *)
(* flight and skip) or all of it but the end of line (open, which readers  *)
(* take for a record).  The next line written then runs into that tail and *)
(* the two are one unreadable line.                                        *)
(*                                                                         *)
(* Dry runs and projections only read.  Time, authority, scope and the     *)
(* texts of a record decide nothing here: emitted_at is part of operation, *)
(* which stands for everything two requests may differ in.                 *)
(***************************************************************************)
EXTENDS Integers, Sequences, FiniteSets, TLC

CONSTANTS
  Proposals, Artifacts, Revisions,
  Digests,      \* digests of an artifact's content
  Kinds,        \* kinds of evaluation
  Verdicts,
  Pass,         \* the verdict that counts
  None,         \* an optional field that was left out
  Clean, Torn,  \* a tail that is no record: nothing, and a part of a line
  MaxLines,     \* bound: lines of the log
  MaxTears,     \* bound: lines that are not written whole
  TornWithin    \* bound: lines of a log whose next line may be one of them

VARIABLES
  log,      \* the readable lines that are ended, in order
  view,     \* what replaying the log gives
  tail,     \* what follows the last end of line
  glued,    \* unreadable lines: a tail and the line that ran into it
  rejected, \* whole lines that replay rejects
  tears,    \* lines that were not written whole
  calls,    \* operations so far: each call that writes has one of its own
  acked     \* operations a call answered applied or already_applied for

vars == <<log, view, tail, glued, rejected, tears, calls, acked>>

Optional(S) == S \union {None}
Operations == Nat

Proposal ==
  [type : {"improvement_proposal"}, proposal : Proposals, artifact : Artifacts,
   digest : Digests, base : Optional(Revisions), required : SUBSET Kinds,
   operation : Operations]
Receipt ==
  [type : {"evaluation_receipt"}, proposal : Proposals, kind : Kinds,
   verdict : Verdicts, digest : Digests, base : Optional(Revisions),
   operation : Operations]
Statuses == {"draft", "under_evaluation", "promoted", "rejected"}
StatusChange ==
  [type : {"improvement_proposal_status"}, proposal : Proposals, from : Statuses,
   to : Statuses, promoted : Optional(Revisions), operation : Operations]
Revision ==
  [type : {"artifact_revision"}, artifact : Artifacts, revision : Revisions,
   digest : Digests, parent : Optional(Revisions), proposal : Optional(Proposals),
   operation : Operations]
Activation ==
  [type : {"artifact_activation"}, artifact : Artifacts, to : Revisions,
   expected : Optional(Revisions), kind : {"activate", "rollback"},
   proposal : Optional(Proposals), operation : Operations]
Record == Proposal \union Receipt \union StatusChange \union Revision \union Activation

ASSUME ImprovementAssumption ==
  /\ Pass \in Verdicts
  /\ None \notin Proposals \union Revisions \union Record
  /\ Clean # Torn
  /\ MaxLines \in Nat /\ MaxTears \in Nat /\ TornWithin \in Nat

-----------------------------------------------------------------------------
(* Replay: the projection the writers' guards and the readers share. *)

Views ==
  [declared : [Proposals -> Proposal \union {None}],
   status   : [Proposals -> Statuses],
   receipt  : [Proposals -> [Kinds -> Receipt \union {None}]],
   revision : [Artifacts -> [Revisions -> Revision \union {None}]],
   active   : [Artifacts -> Optional(Revisions)],
   past     : [Artifacts -> SUBSET Revisions]]

(* declared, receipt and revision hold the records themselves. *)
EmptyView ==
  [declared |-> [p \in Proposals |-> None],
   status   |-> [p \in Proposals |-> "draft"],
   receipt  |-> [p \in Proposals |-> [k \in Kinds |-> None]],
   revision |-> [a \in Artifacts |-> [n \in Revisions |-> None]],
   active   |-> [a \in Artifacts |-> None],
   past     |-> [a \in Artifacts |-> {}]]

(* Mutant: a rollback is recorded and the active revision stays. *)
Apply_RollbackStays(v, r) ==
  CASE r.type = "improvement_proposal" ->
         [v EXCEPT !.declared[r.proposal] = r, !.status[r.proposal] = "draft",
                   !.receipt[r.proposal] = [k \in Kinds |-> None]]
    [] r.type = "evaluation_receipt" -> [v EXCEPT !.receipt[r.proposal][r.kind] = r]
    [] r.type = "improvement_proposal_status" -> [v EXCEPT !.status[r.proposal] = r.to]
    [] r.type = "artifact_revision" -> [v EXCEPT !.revision[r.artifact][r.revision] = r]
    [] r.type = "artifact_activation" ->
         [v EXCEPT !.active[r.artifact] = IF r.kind = "rollback" THEN @ ELSE r.to,
                   !.past[r.artifact] = @ \union {r.to}]

(* _apply_fold_event, and _partition for the set of revisions once active *)
Apply(v, r) ==
  CASE r.type = "improvement_proposal" ->
         [v EXCEPT !.declared[r.proposal] = r, !.status[r.proposal] = "draft",
                   !.receipt[r.proposal] = [k \in Kinds |-> None]]
    [] r.type = "evaluation_receipt" -> [v EXCEPT !.receipt[r.proposal][r.kind] = r]
    [] r.type = "improvement_proposal_status" -> [v EXCEPT !.status[r.proposal] = r.to]
    [] r.type = "artifact_revision" -> [v EXCEPT !.revision[r.artifact][r.revision] = r]
    [] r.type = "artifact_activation" ->
         [v EXCEPT !.active[r.artifact] = r.to, !.past[r.artifact] = @ \union {r.to}]

Transitions ==
  {<<"draft", "under_evaluation">>, <<"draft", "rejected">>,
   <<"under_evaluation", "promoted">>, <<"under_evaluation", "rejected">>}

(* _transition_blockers: none *)
MayTransit(v, r) ==
  /\ v.declared[r.proposal] # None
  /\ r.from = v.status[r.proposal]
  /\ <<r.from, r.to>> \in Transitions

(* The latest receipt of this kind passed, and judged what was proposed. *)
Satisfied(v, p, k) ==
  LET receipt == v.receipt[p][k]
      proposal == v.declared[p]
  IN  /\ receipt # None
      /\ receipt.digest = proposal.digest /\ receipt.base = proposal.base
      /\ receipt.verdict = Pass

(* Mutant: the base may have been replaced. *)
MayPromote_AnyBase(v, r) ==
  /\ MayTransit(v, r)
  /\ LET proposal == v.declared[r.proposal] IN
     /\ \A k \in proposal.required : Satisfied(v, r.proposal, k)
     /\ r.promoted # None
     /\ LET revision == v.revision[proposal.artifact][r.promoted] IN
        /\ revision # None
        /\ revision.digest = proposal.digest
        /\ revision.proposal = r.proposal

(* _promotion_report: no blockers *)
MayPromote(v, r) ==
  /\ MayTransit(v, r)
  /\ LET proposal == v.declared[r.proposal] IN
     /\ v.active[proposal.artifact] = proposal.base
     /\ \A k \in proposal.required : Satisfied(v, r.proposal, k)
     /\ r.promoted # None
     /\ LET revision == v.revision[proposal.artifact][r.promoted] IN
        /\ revision # None
        /\ revision.digest = proposal.digest
        /\ revision.proposal = r.proposal

(* The guard of improvement_set_status, and of its replay *)
MayChangeStatus(v, r) == IF r.to = "promoted" THEN MayPromote(v, r) ELSE MayTransit(v, r)

(* _replay_semantically_valid *)
ReplayValid(lines, v, r) ==
  /\ \A i \in DOMAIN lines : lines[i].operation # r.operation
  /\ CASE r.type = "improvement_proposal" -> v.declared[r.proposal] = None
       [] r.type = "evaluation_receipt" ->
            /\ v.declared[r.proposal] # None
            /\ r.digest = v.declared[r.proposal].digest
            /\ r.base = v.declared[r.proposal].base
       [] r.type = "improvement_proposal_status" -> MayChangeStatus(v, r)
       [] r.type = "artifact_revision" ->
            /\ v.revision[r.artifact][r.revision] = None
            /\ r.parent # None => v.revision[r.artifact][r.parent] # None
            /\ r.proposal # None => v.declared[r.proposal] # None
       [] r.type = "artifact_activation" ->
            /\ v.revision[r.artifact][r.to] # None
            /\ r.expected = v.active[r.artifact]
            /\ r.kind = "rollback" => r.to \in v.past[r.artifact]
            /\ r.proposal # None => v.declared[r.proposal] # None

-----------------------------------------------------------------------------
(* What a writer that holds the lock reads *)

Open == tail \notin {Clean, Torn}
OpenIsValid == Open /\ ReplayValid(log, view, tail)
Seen == IF OpenIsValid THEN Append(log, tail) ELSE log
View == IF OpenIsValid THEN Apply(view, tail) ELSE view

(* Mutant: a corrupt log takes new lines. *)
Healthy_Always == TRUE

(* skipped_lines is 0: a torn tail is not counted. *)
Healthy == glued = 0 /\ rejected = 0 /\ (Open => OpenIsValid)

KnownOperation(r) == \E i \in DOMAIN Seen : Seen[i].operation = r.operation
Proposed(p) ==
  \E i \in DOMAIN Seen : Seen[i].type = "improvement_proposal" /\ Seen[i].proposal = p
Registered(a, n) ==
  \E i \in DOMAIN Seen :
    Seen[i].type = "artifact_revision" /\ Seen[i].artifact = a /\ Seen[i].revision = n

(* guard of improvement_record_evaluation *)
JudgesTheProposal(r) ==
  /\ View.declared[r.proposal] # None
  /\ r.digest = View.declared[r.proposal].digest
  /\ r.base = View.declared[r.proposal].base

(* Mutant: the parent is not looked up. *)
HasLineage_AnyParent(r) ==
  /\ ~Registered(r.artifact, r.revision)
  /\ r.proposal # None => Proposed(r.proposal)

(* uniqueness and guard of artifact_register_revision *)
HasLineage(r) ==
  /\ ~Registered(r.artifact, r.revision)
  /\ r.parent # None => Registered(r.artifact, r.parent)
  /\ r.proposal # None => Proposed(r.proposal)

(* _activation_blockers: none; and the proposal was recorded *)
MayActivate(r) ==
  /\ View.revision[r.artifact][r.to] # None
  /\ r.expected = View.active[r.artifact]
  /\ r.kind = "rollback" => r.to \in View.past[r.artifact]
  /\ r.proposal # None => Proposed(r.proposal)

Accepts(r) ==
  CASE r.type = "improvement_proposal" -> ~Proposed(r.proposal)
    [] r.type = "evaluation_receipt" -> JudgesTheProposal(r)
    [] r.type = "improvement_proposal_status" -> MayChangeStatus(View, r)
    [] r.type = "artifact_revision" -> HasLineage(r)
    [] r.type = "artifact_activation" -> MayActivate(r)

(* Mutant: the guards come before the search for the operation. *)
Acknowledged_GuardsFirst(r) ==
  Healthy /\ Accepts(r) /\ \E i \in DOMAIN Seen : Seen[i] = r

(* The call answers already_applied. *)
Acknowledged(r) == Healthy /\ \E i \in DOMAIN Seen : Seen[i] = r

Applies(r) == Healthy /\ ~KnownOperation(r) /\ Accepts(r)

-----------------------------------------------------------------------------
(* _improvement_append *)

(* The whole line is written: it is replayed, or runs into the tail. *)
WriteWhole(r) ==
  /\ acked' = acked \union {r.operation}
  /\ tail' = Clean
  /\ IF tail # Clean
     THEN glued' = glued + 1 /\ UNCHANGED <<log, view, rejected>>
     ELSE IF ReplayValid(log, view, r)
     THEN /\ log' = Append(log, r) /\ view' = Apply(view, r)
          /\ UNCHANGED <<glued, rejected>>
     ELSE rejected' = rejected + 1 /\ UNCHANGED <<log, view, glued>>
  /\ UNCHANGED tears

(* The write fails, or the writer is killed, with the line not ended. *)
WriteTorn(r) ==
  /\ tears < MaxTears /\ Len(log) <= TornWithin
  /\ tears' = tears + 1
  /\ tail' \in IF tail = Clean THEN {Torn, r} ELSE {Torn}
  /\ UNCHANGED <<log, view, glued, rejected, acked>>

Write(r) ==
  /\ Len(log) < MaxLines
  /\ Applies(r)
  /\ calls' = r.operation
  /\ WriteWhole(r) \/ WriteTorn(r)

NextOperation == calls + 1

ImprovementPropose ==
  \E p \in Proposals, a \in Artifacts, d \in Digests, b \in Optional(Revisions),
     required \in SUBSET Kinds \ {{}} :
    Write([type |-> "improvement_proposal", proposal |-> p, artifact |-> a, digest |-> d,
           base |-> b, required |-> required, operation |-> NextOperation])

ImprovementRecordEvaluation ==
  \E p \in Proposals, k \in Kinds, verdict \in Verdicts, d \in Digests,
     b \in Optional(Revisions) :
    Write([type |-> "evaluation_receipt", proposal |-> p, kind |-> k, verdict |-> verdict,
           digest |-> d, base |-> b, operation |-> NextOperation])

(* promoted_revision_id is given for a promotion and for nothing else. *)
ImprovementSetStatus ==
  \E p \in Proposals, from, to \in Statuses :
  \E n \in IF to = "promoted" THEN Revisions ELSE {None} :
    Write([type |-> "improvement_proposal_status", proposal |-> p, from |-> from, to |-> to,
           promoted |-> n, operation |-> NextOperation])

ArtifactRegisterRevision ==
  \E a \in Artifacts, n \in Revisions, d \in Digests, parent \in Optional(Revisions),
     p \in Optional(Proposals) :
    Write([type |-> "artifact_revision", artifact |-> a, revision |-> n, digest |-> d,
           parent |-> parent, proposal |-> p, operation |-> NextOperation])

(* artifact_rollback_revision is the call with kind rollback. *)
ArtifactActivateRevision ==
  \E a \in Artifacts, n \in Revisions, expected \in Optional(Revisions),
     kind \in {"activate", "rollback"}, p \in Optional(Proposals) :
    Write([type |-> "artifact_activation", artifact |-> a, to |-> n, expected |-> expected,
           kind |-> kind, proposal |-> p, operation |-> NextOperation])

(* A call whose write failed is made again and finds its line, not ended. *)
Retry ==
  \E i \in DOMAIN Seen :
    /\ Seen[i].operation \notin acked /\ Acknowledged(Seen[i])
    /\ acked' = acked \union {Seen[i].operation}
    /\ UNCHANGED <<log, view, tail, glued, rejected, tears, calls>>

Init ==
  /\ log = <<>> /\ view = EmptyView /\ tail = Clean
  /\ glued = 0 /\ rejected = 0 /\ tears = 0 /\ calls = 0
  /\ acked = {}

Next ==
  \/ ImprovementPropose \/ ImprovementRecordEvaluation \/ ImprovementSetStatus
  \/ ArtifactRegisterRevision \/ ArtifactActivateRevision \/ Retry

Spec == Init /\ [][Next]_vars

-----------------------------------------------------------------------------
(* Properties *)

Is(r, type) == r.type = type
Judges(r, p, k) == Is(r, "evaluation_receipt") /\ r.proposal = p /\ r.kind = k
Activates(r, a) == Is(r, "artifact_activation") /\ r.artifact = a

(* n was the active revision of a before line j, by the activations alone. *)
ActiveBefore(lines, j, a, n) ==
  IF n = None
  THEN \A m \in 1 .. j - 1 : ~Activates(lines[m], a)
  ELSE \E m \in 1 .. j - 1 : /\ Activates(lines[m], a) /\ lines[m].to = n
                             /\ \A o \in m + 1 .. j - 1 : ~Activates(lines[o], a)

(* Every promotion in the ledger rested, when it was recorded, on the latest *)
(* receipt of every required kind having passed, on the base of the proposal *)
(* still being active, and on a revision of that artifact that was made from *)
(* the proposal and has the content that was judged.                         *)
PassedAtLast(lines, j, r, k) ==
  \E m \in 1 .. j - 1 :
    /\ Judges(lines[m], r.proposal, k) /\ lines[m].verdict = Pass
    /\ lines[m].digest = r.digest /\ lines[m].base = r.base
    /\ \A o \in m + 1 .. j - 1 : ~Judges(lines[o], r.proposal, k)
MadeFrom(lines, j, r, n) ==
  \E m \in 1 .. j - 1 :
    /\ Is(lines[m], "artifact_revision") /\ lines[m].artifact = r.artifact
    /\ lines[m].revision = n /\ lines[m].digest = r.digest
    /\ lines[m].proposal = r.proposal
Earned(lines, j) ==
  \E i \in 1 .. j - 1 :
    /\ Is(lines[i], "improvement_proposal") /\ lines[i].proposal = lines[j].proposal
    /\ ActiveBefore(lines, j, lines[i].artifact, lines[i].base)
    /\ \A k \in lines[i].required : PassedAtLast(lines, j, lines[i], k)
    /\ MadeFrom(lines, j, lines[i], lines[j].promoted)
Promotes(r) == Is(r, "improvement_proposal_status") /\ r.to = "promoted"
PromotionsWereEarned == \A j \in DOMAIN Seen : Promotes(Seen[j]) => Earned(Seen, j)

(* "no two activations can both believe they won": each activation replaces  *)
(* the revision the one before it made active, a rollback goes back to one   *)
(* that was active, and what the ledger calls active is where the chain ends.*)
Chained(lines, j) ==
  \A a \in Artifacts : Activates(lines[j], a) =>
    /\ ActiveBefore(lines, j, a, lines[j].expected)
    /\ lines[j].kind = "rollback" =>
         \E m \in 1 .. j - 1 : Activates(lines[m], a) /\ lines[m].to = lines[j].to
ActivationsFormAChain ==
  /\ \A a \in Artifacts : ActiveBefore(Seen, Len(Seen) + 1, a, View.active[a])
  /\ \A j \in DOMAIN Seen : Chained(Seen, j)

(* Replay accepts whatever the writers accepted: the guards a call passes    *)
(* under the lock and the checks that decide at the next read whether its    *)
(* line is corrupt are different code, and a line only the first accepts     *)
(* would close the ledger for good.                                          *)
WritersReplayCleanly == rejected = 0 /\ (Open => OpenIsValid)

(* An answer applied, or already_applied, is true as long as every line was  *)
(* written whole.  A line that was not costs at most two such records: the   *)
(* one that runs into it, and the open one; from then on nothing is accepted.*)
Lost == {o \in acked : \A i \in DOMAIN Seen : Seen[i].operation # o}
LossesAreBounded ==
  /\ tears = 0 => Lost = {}
  /\ Cardinality(Lost) <= 2

(* As long as the ledger takes new lines, the retry of a call whose line is  *)
(* in it is answered already_applied, whatever was recorded since.           *)
RetriesAreAcknowledged ==
  Healthy => \A i \in DOMAIN Seen : Acknowledged(Seen[i])

(* What a writer was told survives faults and retries: a torn line costs at most the record that ran into it,
   and a call that is made again is acknowledged whatever happened since (_improvement_append). *)
AnswersSurviveFaults == LossesAreBounded /\ RetriesAreAcknowledged

(* The runs need not tell one revision from another, nor one digest. *)
Symmetry == Permutations(Revisions) \union Permutations(Digests)
=============================================================================
