----------------------------- MODULE LedgerProofs -----------------------------
(***************************************************************************)
(* Proofs about ImprovementLedger, for every set of proposals, artifacts,  *)
(* revisions, digests, kinds and verdicts, and every bound; then about the *)
(* smaller files that callers share: the owner ledger, outcomes, the       *)
(* reports of the state contract, and the registers of channels, tasks and *)
(* agents.                                                                 *)
(*                                                                         *)
(* The invariant says of the improvement log and of the view that          *)
(* replaying it gives that they agree (Replays): what the view declares,   *)
(* registers, judges and calls active is what the lines say.  A line that  *)
(* replay accepts keeps the two in agreement (ReplayStep), and a line that *)
(* the guards of a writer accept is one that replay accepts                *)
(* (GuardsImplyReplay); a torn line changes neither.  A second invariant   *)
(* (AnswersInv) counts what the answers given lose to lines that were not  *)
(* written whole.                                                          *)
(***************************************************************************)
EXTENDS ImprovementLedger, SubsequenceProofs, SequenceTheorems, FiniteSetTheorems

Proposes(r, p) == Is(r, "improvement_proposal") /\ r.proposal = p
Registers(r, a, n) == Is(r, "artifact_revision") /\ r.artifact = a /\ r.revision = n

(* What the view declares is in the lines, and the other way round. *)
DeclaredIsRecorded(lines, v) ==
  \A p \in Proposals :
    /\ (\E i \in DOMAIN lines : Proposes(lines[i], p)) => v.declared[p] # None
    /\ v.declared[p] # None =>
         \E i \in DOMAIN lines : lines[i] = v.declared[p] /\ Proposes(lines[i], p)

RevisionsAreRecorded(lines, v) ==
  \A a \in Artifacts : \A n \in Revisions :
    /\ (\E i \in DOMAIN lines : Registers(lines[i], a, n)) => v.revision[a][n] # None
    /\ v.revision[a][n] # None =>
         \E i \in DOMAIN lines : lines[i] = v.revision[a][n] /\ Registers(lines[i], a, n)

(* The receipt the view holds is the latest one. *)
ReceiptsAreTheLatest(lines, v) ==
  \A p \in Proposals : \A k \in Kinds : v.receipt[p][k] # None =>
    \E m \in DOMAIN lines :
      /\ lines[m] = v.receipt[p][k] /\ Judges(lines[m], p, k)
      /\ \A o \in m + 1 .. Len(lines) : ~Judges(lines[o], p, k)

ActiveIsTheLast(lines, v) ==
  \A a \in Artifacts : ActiveBefore(lines, Len(lines) + 1, a, v.active[a])

PastWasActive(lines, v) ==
  \A a \in Artifacts : \A n \in v.past[a] :
    \E m \in DOMAIN lines : Activates(lines[m], a) /\ lines[m].to = n

AllChained(lines) == \A j \in DOMAIN lines : Chained(lines, j)
AllEarned(lines) == \A j \in DOMAIN lines : Promotes(lines[j]) => Earned(lines, j)

Replays(lines, v) ==
  /\ lines \in Seq(Record) /\ v \in Views
  /\ DeclaredIsRecorded(lines, v)
  /\ RevisionsAreRecorded(lines, v)
  /\ ReceiptsAreTheLatest(lines, v)
  /\ ActiveIsTheLast(lines, v)
  /\ PastWasActive(lines, v)
  /\ AllChained(lines)
  /\ AllEarned(lines)

LedgerInv ==
  /\ Replays(log, view)
  /\ calls \in Nat
  /\ rejected = 0
  /\ Open => tail \in Record /\ OpenIsValid

-----------------------------------------------------------------------------
(* A record of a type has the fields of that type. *)
LEMMA RecordsByType ==
  ASSUME NEW r \in Record
  PROVE  /\ r.type = "improvement_proposal" <=> r \in Proposal
         /\ r.type = "evaluation_receipt" <=> r \in Receipt
         /\ r.type = "improvement_proposal_status" <=> r \in StatusChange
         /\ r.type = "artifact_revision" <=> r \in Revision
         /\ r.type = "artifact_activation" <=> r \in Activation
         /\ r \in Proposal \/ r \in Receipt \/ r \in StatusChange
              \/ r \in Revision \/ r \in Activation
  BY DEF Record, Proposal, Receipt, StatusChange, Revision, Activation

(* What a line does to each part of the view. *)
LEMMA ApplyProposal ==
  ASSUME NEW v \in Views, NEW r \in Proposal
  PROVE  Apply(v, r) =
           [declared |-> [v.declared EXCEPT ![r.proposal] = r],
            status |-> [v.status EXCEPT ![r.proposal] = "draft"],
            receipt |-> [v.receipt EXCEPT ![r.proposal] = [k \in Kinds |-> None]],
            revision |-> v.revision, active |-> v.active, past |-> v.past]
  BY DEF Apply, Views, Proposal

LEMMA ApplyReceipt ==
  ASSUME NEW v \in Views, NEW r \in Receipt
  PROVE  Apply(v, r) =
           [declared |-> v.declared, status |-> v.status,
            receipt |-> [v.receipt EXCEPT ![r.proposal] =
                           [v.receipt[r.proposal] EXCEPT ![r.kind] = r]],
            revision |-> v.revision, active |-> v.active, past |-> v.past]
  BY DEF Apply, Views, Receipt

LEMMA ApplyStatusChange ==
  ASSUME NEW v \in Views, NEW r \in StatusChange
  PROVE  Apply(v, r) =
           [declared |-> v.declared, status |-> [v.status EXCEPT ![r.proposal] = r.to],
            receipt |-> v.receipt, revision |-> v.revision, active |-> v.active,
            past |-> v.past]
  BY DEF Apply, Views, StatusChange

LEMMA ApplyRevision ==
  ASSUME NEW v \in Views, NEW r \in Revision
  PROVE  Apply(v, r) =
           [declared |-> v.declared, status |-> v.status, receipt |-> v.receipt,
            revision |-> [v.revision EXCEPT ![r.artifact] =
                            [v.revision[r.artifact] EXCEPT ![r.revision] = r]],
            active |-> v.active, past |-> v.past]
  BY DEF Apply, Views, Revision

LEMMA ApplyActivation ==
  ASSUME NEW v \in Views, NEW r \in Activation
  PROVE  Apply(v, r) =
           [declared |-> v.declared, status |-> v.status, receipt |-> v.receipt,
            revision |-> v.revision, active |-> [v.active EXCEPT ![r.artifact] = r.to],
            past |-> [v.past EXCEPT ![r.artifact] = v.past[r.artifact] \union {r.to}]]
  BY DEF Apply, Views, Activation

(* What a view is made of *)
LEMMA ViewFields ==
  ASSUME NEW v \in Views
  PROVE  /\ v.declared \in [Proposals -> Proposal \union {None}]
         /\ v.status \in [Proposals -> Statuses]
         /\ v.receipt \in [Proposals -> [Kinds -> Receipt \union {None}]]
         /\ v.revision \in [Artifacts -> [Revisions -> Revision \union {None}]]
         /\ v.active \in [Artifacts -> Optional(Revisions)]
         /\ v.past \in [Artifacts -> SUBSET Revisions]
  BY DEF Views

LEMMA ApplyIsAView ==
  ASSUME NEW v \in Views, NEW r \in Record
  PROVE  Apply(v, r) \in Views
<1>1. CASE r \in Proposal
  <2> DEFINE D == [v.declared EXCEPT ![r.proposal] = r]
             S == [v.status EXCEPT ![r.proposal] = "draft"]
             C == [v.receipt EXCEPT ![r.proposal] = [k \in Kinds |-> None]]
  <2>1. r.proposal \in Proposals /\ "draft" \in Statuses
    BY <1>1 DEF Proposal, Statuses
  <2>2. D \in [Proposals -> Proposal \union {None}]
    BY <1>1, <2>1, ViewFields
  <2>3. S \in [Proposals -> Statuses]
    BY <2>1, ViewFields
  <2>4. C \in [Proposals -> [Kinds -> Receipt \union {None}]]
    BY <2>1, ViewFields
  <2>5. Apply(v, r) = [declared |-> D, status |-> S, receipt |-> C, revision |-> v.revision,
                       active |-> v.active, past |-> v.past]
    BY <1>1, ApplyProposal
  <2> HIDE DEF D, S, C
  <2> QED BY <2>2, <2>3, <2>4, <2>5, ViewFields DEF Views
<1>2. CASE r \in Receipt
  <2> DEFINE C == [v.receipt EXCEPT ![r.proposal] =
                     [v.receipt[r.proposal] EXCEPT ![r.kind] = r]]
  <2>1. r.proposal \in Proposals /\ r.kind \in Kinds
    BY <1>2 DEF Receipt
  <2>2. [v.receipt[r.proposal] EXCEPT ![r.kind] = r] \in [Kinds -> Receipt \union {None}]
    BY <1>2, <2>1, ViewFields
  <2>3. C \in [Proposals -> [Kinds -> Receipt \union {None}]]
    BY <2>1, <2>2, ViewFields
  <2>4. Apply(v, r) = [declared |-> v.declared, status |-> v.status, receipt |-> C,
                       revision |-> v.revision, active |-> v.active, past |-> v.past]
    BY <1>2, ApplyReceipt
  <2> HIDE DEF C
  <2> QED BY <2>3, <2>4, ViewFields DEF Views
<1>3. CASE r \in StatusChange
  <2> DEFINE S == [v.status EXCEPT ![r.proposal] = r.to]
  <2>1. S \in [Proposals -> Statuses]
    BY <1>3, ViewFields DEF StatusChange
  <2>2. Apply(v, r) = [declared |-> v.declared, status |-> S, receipt |-> v.receipt,
                       revision |-> v.revision, active |-> v.active, past |-> v.past]
    BY <1>3, ApplyStatusChange
  <2> HIDE DEF S
  <2> QED BY <2>1, <2>2, ViewFields DEF Views
<1>4. CASE r \in Revision
  <2> DEFINE N == [v.revision EXCEPT ![r.artifact] =
                     [v.revision[r.artifact] EXCEPT ![r.revision] = r]]
  <2>1. r.artifact \in Artifacts /\ r.revision \in Revisions
    BY <1>4 DEF Revision
  <2>2. [v.revision[r.artifact] EXCEPT ![r.revision] = r]
          \in [Revisions -> Revision \union {None}]
    BY <1>4, <2>1, ViewFields
  <2>3. N \in [Artifacts -> [Revisions -> Revision \union {None}]]
    BY <2>1, <2>2, ViewFields
  <2>4. Apply(v, r) = [declared |-> v.declared, status |-> v.status, receipt |-> v.receipt,
                       revision |-> N, active |-> v.active, past |-> v.past]
    BY <1>4, ApplyRevision
  <2> HIDE DEF N
  <2> QED BY <2>3, <2>4, ViewFields DEF Views
<1>5. CASE r \in Activation
  <2> DEFINE A == [v.active EXCEPT ![r.artifact] = r.to]
             P == [v.past EXCEPT ![r.artifact] = v.past[r.artifact] \union {r.to}]
  <2>1. r.artifact \in Artifacts /\ r.to \in Revisions
    BY <1>5 DEF Activation
  <2>2. A \in [Artifacts -> Optional(Revisions)]
    BY <2>1, ViewFields DEF Optional
  <2>3. P \in [Artifacts -> SUBSET Revisions]
    BY <2>1, ViewFields
  <2>4. Apply(v, r) = [declared |-> v.declared, status |-> v.status, receipt |-> v.receipt,
                       revision |-> v.revision, active |-> A, past |-> P]
    BY <1>5, ApplyActivation
  <2> HIDE DEF A, P
  <2> QED BY <2>2, <2>3, <2>4, ViewFields DEF Views
<1> QED BY <1>1, <1>2, <1>3, <1>4, <1>5, RecordsByType

-----------------------------------------------------------------------------
(* Appending a line leaves what is said of the lines before it. *)
LEMMA AppendFacts ==
  ASSUME NEW lines \in Seq(Record), NEW r \in Record
  PROVE  /\ Append(lines, r) \in Seq(Record)
         /\ Len(lines) \in Nat
         /\ Len(Append(lines, r)) = Len(lines) + 1
         /\ DOMAIN lines = 1 .. Len(lines)
         /\ DOMAIN Append(lines, r) = 1 .. Len(lines) + 1
         /\ \A i \in 1 .. Len(lines) : Append(lines, r)[i] = lines[i]
         /\ Append(lines, r)[Len(lines) + 1] = r
  OBVIOUS

LEMMA ActiveBeforeStays ==
  ASSUME NEW lines \in Seq(Record), NEW r \in Record,
         NEW j \in 1 .. Len(lines) + 1, NEW a, NEW n
  PROVE  ActiveBefore(Append(lines, r), j, a, n) <=> ActiveBefore(lines, j, a, n)
<1>1. \A i \in 1 .. j - 1 : Append(lines, r)[i] = lines[i]
  BY AppendFacts
<1> QED BY <1>1, AppendFacts, SMTT(30) DEF ActiveBefore

(* A line that activates nothing of a leaves its active revision, and one    *)
(* that does makes its own the active one.                                   *)
LEMMA ActiveBeforeGrows ==
  ASSUME NEW lines \in Seq(Record), NEW r \in Record, NEW a, NEW n,
         ActiveBefore(lines, Len(lines) + 1, a, n), ~Activates(r, a)
  PROVE  ActiveBefore(Append(lines, r), Len(lines) + 2, a, n)
<1> DEFINE G == Append(lines, r)
           N == Len(lines)
<1>1. /\ N \in Nat /\ G[N + 1] = r /\ \A i \in 1 .. N : G[i] = lines[i]
  BY AppendFacts
<1> HIDE DEF G, N
<1>2. ActiveBefore(lines, N + 1, a, n)
  BY DEF N
<1>3. ActiveBefore(G, N + 2, a, n)
  <2>1. CASE n = None
    BY <1>1, <1>2, <2>1 DEF ActiveBefore
  <2>2. CASE n # None
    <3>1. PICK m \in 1 .. N : /\ Activates(lines[m], a) /\ lines[m].to = n
                              /\ \A o \in m + 1 .. N : ~Activates(lines[o], a)
      BY <1>1, <1>2, <2>2 DEF ActiveBefore
    <3>2. \A o \in m + 1 .. N + 1 : ~Activates(G[o], a)
      BY <1>1, <3>1
    <3>3. m \in 1 .. (N + 2) - 1 /\ Activates(G[m], a) /\ G[m].to = n
      BY <1>1, <3>1
    <3> QED BY <1>1, <2>2, <3>2, <3>3 DEF ActiveBefore
  <2> QED BY <2>1, <2>2
<1> QED BY <1>3 DEF G, N

LEMMA ActiveBeforeMoves ==
  ASSUME NEW lines \in Seq(Record), NEW r \in Record, NEW a,
         Activates(r, a), r.to # None
  PROVE  ActiveBefore(Append(lines, r), Len(lines) + 2, a, r.to)
<1>1. /\ Len(lines) \in Nat /\ Append(lines, r)[Len(lines) + 1] = r
  BY AppendFacts
<1>2. Len(lines) + 1 \in 1 .. (Len(lines) + 2) - 1
  BY <1>1
<1>3. \A o \in Len(lines) + 2 .. Len(lines) + 1 : FALSE
  BY <1>1
<1> QED BY <1>1, <1>2, <1>3 DEF ActiveBefore

LEMMA ChainedStays ==
  ASSUME NEW lines \in Seq(Record), NEW r \in Record, AllChained(lines),
         Chained(Append(lines, r), Len(lines) + 1)
  PROVE  AllChained(Append(lines, r))
<1> DEFINE G == Append(lines, r)
<1> SUFFICES ASSUME NEW j \in 1 .. Len(lines) PROVE Chained(G, j)
  BY AppendFacts DEF AllChained
<1>1. G[j] = lines[j] /\ j \in 1 .. Len(lines) + 1
  BY AppendFacts
<1>2. \A i \in 1 .. j - 1 : G[i] = lines[i]
  BY AppendFacts
<1>3. \A a, n : ActiveBefore(G, j, a, n) <=> ActiveBefore(lines, j, a, n)
  BY <1>1, ActiveBeforeStays
<1>4. Chained(lines, j)
  BY AppendFacts DEF AllChained
<1> HIDE DEF G
<1> QED BY <1>1, <1>2, <1>3, <1>4 DEF Chained

LEMMA EarnedStays ==
  ASSUME NEW lines \in Seq(Record), NEW r \in Record, AllEarned(lines),
         Promotes(r) => Earned(Append(lines, r), Len(lines) + 1)
  PROVE  AllEarned(Append(lines, r))
<1> DEFINE G == Append(lines, r)
<1> SUFFICES ASSUME NEW j \in 1 .. Len(lines), Promotes(G[j]) PROVE Earned(G, j)
  BY AppendFacts DEF AllEarned
<1>1. G[j] = lines[j] /\ \A i \in 1 .. j - 1 : G[i] = lines[i]
  BY AppendFacts
<1>2. \A a, n : ActiveBefore(G, j, a, n) <=> ActiveBefore(lines, j, a, n)
  BY AppendFacts, ActiveBeforeStays
<1>3. Earned(lines, j) /\ j \in Nat
  BY <1>1, AppendFacts DEF AllEarned
<1> HIDE DEF G
<1>4. \A m \in 1 .. j - 1 : \A o \in m + 1 .. j - 1 : G[o] = lines[o]
  BY <1>1, <1>3
<1>5. \A q, k : PassedAtLast(lines, j, q, k) => PassedAtLast(G, j, q, k)
  BY <1>1, <1>4 DEF PassedAtLast
<1>6. \A q, n : MadeFrom(lines, j, q, n) => MadeFrom(G, j, q, n)
  BY <1>1 DEF MadeFrom
<1> QED BY <1>1, <1>2, <1>3, <1>5, <1>6 DEF Earned

-----------------------------------------------------------------------------
(* A line that replay accepts keeps the log and the view in agreement. *)

(* Only a line of its own type changes a part of the view. *)
LEMMA OtherParts ==
  ASSUME NEW v \in Views, NEW r \in Record
  PROVE  /\ r \notin Proposal => Apply(v, r).declared = v.declared
         /\ r \notin Revision => Apply(v, r).revision = v.revision
         /\ r \notin Proposal /\ r \notin Receipt => Apply(v, r).receipt = v.receipt
         /\ r \notin Activation => Apply(v, r).active = v.active /\ Apply(v, r).past = v.past
<1>1. CASE r \in Proposal
  BY <1>1, ApplyProposal, RecordsByType
<1>2. CASE r \in Receipt
  <2> DEFINE C == [v.receipt EXCEPT ![r.proposal] =
                     [v.receipt[r.proposal] EXCEPT ![r.kind] = r]]
  <2>1. Apply(v, r) = [declared |-> v.declared, status |-> v.status, receipt |-> C,
                       revision |-> v.revision, active |-> v.active, past |-> v.past]
    BY <1>2, ApplyReceipt
  <2> HIDE DEF C
  <2> QED BY <1>2, <2>1, RecordsByType
<1>3. CASE r \in StatusChange
  BY <1>3, ApplyStatusChange, RecordsByType
<1>4. CASE r \in Revision
  <2> DEFINE M == [v.revision EXCEPT ![r.artifact] =
                     [v.revision[r.artifact] EXCEPT ![r.revision] = r]]
  <2>1. Apply(v, r) = [declared |-> v.declared, status |-> v.status, receipt |-> v.receipt,
                       revision |-> M, active |-> v.active, past |-> v.past]
    BY <1>4, ApplyRevision
  <2> HIDE DEF M
  <2> QED BY <1>4, <2>1, RecordsByType
<1>5. CASE r \in Activation
  BY <1>5, ApplyActivation, RecordsByType
<1> QED BY <1>1, <1>2, <1>3, <1>4, <1>5, RecordsByType

(* The parts that hold a function of functions, entry by entry *)
LEMMA RevisionEntries ==
  ASSUME NEW v \in Views, NEW r \in Revision, NEW a \in Artifacts, NEW n \in Revisions
  PROVE  Apply(v, r).revision[a][n] =
           IF r.artifact = a /\ r.revision = n THEN r ELSE v.revision[a][n]
<1> DEFINE row == [v.revision[r.artifact] EXCEPT ![r.revision] = r]
           M == [v.revision EXCEPT ![r.artifact] = row]
<1>1. Apply(v, r) = [declared |-> v.declared, status |-> v.status, receipt |-> v.receipt,
                     revision |-> M, active |-> v.active, past |-> v.past]
  BY ApplyRevision
<1>2. r.artifact \in Artifacts /\ r.revision \in Revisions
  BY DEF Revision
<1>3. row[n] = IF r.revision = n THEN r ELSE v.revision[r.artifact][n]
  BY <1>2, ViewFields
<1> HIDE DEF row
<1>4. M[a] = IF r.artifact = a THEN row ELSE v.revision[a]
  BY <1>2, ViewFields
<1> HIDE DEF M
<1>5. Apply(v, r).revision = M
  BY <1>1
<1> QED BY <1>3, <1>4, <1>5

LEMMA ReceiptEntries ==
  ASSUME NEW v \in Views, NEW r \in Receipt, NEW p \in Proposals, NEW k \in Kinds
  PROVE  Apply(v, r).receipt[p][k] =
           IF r.proposal = p /\ r.kind = k THEN r ELSE v.receipt[p][k]
<1> DEFINE row == [v.receipt[r.proposal] EXCEPT ![r.kind] = r]
           C == [v.receipt EXCEPT ![r.proposal] = row]
<1>1. Apply(v, r) = [declared |-> v.declared, status |-> v.status, receipt |-> C,
                     revision |-> v.revision, active |-> v.active, past |-> v.past]
  BY ApplyReceipt
<1>2. r.proposal \in Proposals /\ r.kind \in Kinds
  BY DEF Receipt
<1>3. row[k] = IF r.kind = k THEN r ELSE v.receipt[r.proposal][k]
  BY <1>2, ViewFields
<1> HIDE DEF row
<1>4. C[p] = IF r.proposal = p THEN row ELSE v.receipt[p]
  BY <1>2, ViewFields
<1> HIDE DEF C
<1>5. Apply(v, r).receipt = C
  BY <1>1
<1> QED BY <1>3, <1>4, <1>5

LEMMA DeclaredStep ==
  ASSUME NEW lines \in Seq(Record), NEW v \in Views, NEW r \in Record,
         DeclaredIsRecorded(lines, v)
  PROVE  DeclaredIsRecorded(Append(lines, r), Apply(v, r))
<1> DEFINE G == Append(lines, r)
           N == Len(lines)
           w == Apply(v, r)
<1>1. /\ N \in Nat /\ DOMAIN lines = 1 .. N /\ DOMAIN G = 1 .. N + 1
      /\ G[N + 1] = r /\ \A i \in 1 .. N : G[i] = lines[i]
  BY AppendFacts
<1> SUFFICES ASSUME NEW p \in Proposals
             PROVE  /\ (\E i \in DOMAIN G : Proposes(G[i], p)) => w.declared[p] # None
                    /\ w.declared[p] # None =>
                         \E i \in DOMAIN G : G[i] = w.declared[p] /\ Proposes(G[i], p)
  BY DEF DeclaredIsRecorded
<1>2. /\ (\E i \in 1 .. N : Proposes(lines[i], p)) => v.declared[p] # None
      /\ v.declared[p] # None =>
           \E i \in 1 .. N : lines[i] = v.declared[p] /\ Proposes(lines[i], p)
  BY <1>1 DEF DeclaredIsRecorded
<1>3. CASE r \in Proposal /\ r.proposal = p
  <2>1. w.declared[p] = r
    BY <1>3, ApplyProposal, ViewFields
  <2>2. Proposes(r, p) /\ r # None
    BY <1>3, RecordsByType, ImprovementAssumption DEF Proposes, Is
  <2> HIDE DEF G, N, w
  <2> QED BY <1>1, <2>1, <2>2
<1>4. CASE ~(r \in Proposal /\ r.proposal = p)
  <2>1. w.declared[p] = v.declared[p]
    <3>1. CASE r \in Proposal
      BY <1>4, <3>1, ApplyProposal, ViewFields DEF Proposal
    <3>2. CASE r \notin Proposal
      BY <3>2, OtherParts
    <3> QED BY <3>1, <3>2
  <2>2. ~Proposes(r, p)
    BY <1>4, RecordsByType DEF Proposes, Is
  <2> HIDE DEF G, N, w
  <2> QED BY <1>1, <1>2, <2>1, <2>2
<1> QED BY <1>3, <1>4

LEMMA RevisionStep ==
  ASSUME NEW lines \in Seq(Record), NEW v \in Views, NEW r \in Record,
         RevisionsAreRecorded(lines, v)
  PROVE  RevisionsAreRecorded(Append(lines, r), Apply(v, r))
<1> DEFINE G == Append(lines, r)
           N == Len(lines)
           w == Apply(v, r)
<1>1. /\ N \in Nat /\ DOMAIN lines = 1 .. N /\ DOMAIN G = 1 .. N + 1
      /\ G[N + 1] = r /\ \A i \in 1 .. N : G[i] = lines[i]
  BY AppendFacts
<1> SUFFICES ASSUME NEW a \in Artifacts, NEW n \in Revisions
             PROVE  /\ (\E i \in DOMAIN G : Registers(G[i], a, n)) => w.revision[a][n] # None
                    /\ w.revision[a][n] # None =>
                         \E i \in DOMAIN G : G[i] = w.revision[a][n] /\ Registers(G[i], a, n)
  BY DEF RevisionsAreRecorded
<1>2. /\ (\E i \in 1 .. N : Registers(lines[i], a, n)) => v.revision[a][n] # None
      /\ v.revision[a][n] # None =>
           \E i \in 1 .. N : lines[i] = v.revision[a][n] /\ Registers(lines[i], a, n)
  BY <1>1 DEF RevisionsAreRecorded
<1>3. CASE r \in Revision /\ r.artifact = a /\ r.revision = n
  <2>1. w.revision[a][n] = r
    BY <1>3, RevisionEntries
  <2>2. Registers(r, a, n) /\ r # None
    BY <1>3, RecordsByType, ImprovementAssumption DEF Registers, Is
  <2> HIDE DEF G, N, w
  <2> QED BY <1>1, <2>1, <2>2
<1>4. CASE ~(r \in Revision /\ r.artifact = a /\ r.revision = n)
  <2>1. w.revision[a][n] = v.revision[a][n]
    <3>1. CASE r \in Revision
      BY <1>4, <3>1, RevisionEntries
    <3>2. CASE r \notin Revision
      BY <3>2, OtherParts
    <3> QED BY <3>1, <3>2
  <2>2. ~Registers(r, a, n)
    BY <1>4, RecordsByType DEF Registers, Is
  <2> HIDE DEF G, N, w
  <2> QED BY <1>1, <1>2, <2>1, <2>2
<1> QED BY <1>3, <1>4

LEMMA ReceiptStep ==
  ASSUME NEW lines \in Seq(Record), NEW v \in Views, NEW r \in Record,
         ReceiptsAreTheLatest(lines, v)
  PROVE  ReceiptsAreTheLatest(Append(lines, r), Apply(v, r))
<1> DEFINE G == Append(lines, r)
           N == Len(lines)
           w == Apply(v, r)
<1>1. /\ N \in Nat /\ DOMAIN lines = 1 .. N /\ DOMAIN G = 1 .. N + 1 /\ Len(G) = N + 1
      /\ G[N + 1] = r /\ \A i \in 1 .. N : G[i] = lines[i]
  BY AppendFacts
<1> SUFFICES ASSUME NEW p \in Proposals, NEW k \in Kinds, w.receipt[p][k] # None
             PROVE  \E m \in DOMAIN G :
                      /\ G[m] = w.receipt[p][k] /\ Judges(G[m], p, k)
                      /\ \A o \in m + 1 .. Len(G) : ~Judges(G[o], p, k)
  BY DEF ReceiptsAreTheLatest
<1>2. v.receipt[p][k] # None =>
        \E m \in 1 .. N : /\ lines[m] = v.receipt[p][k] /\ Judges(lines[m], p, k)
                          /\ \A o \in m + 1 .. N : ~Judges(lines[o], p, k)
  BY <1>1 DEF ReceiptsAreTheLatest
<1>3. CASE r \in Receipt /\ r.proposal = p /\ r.kind = k
  <2>1. w.receipt[p][k] = r
    BY <1>3, ReceiptEntries
  <2>2. Judges(r, p, k)
    BY <1>3, RecordsByType DEF Judges, Is
  <2> HIDE DEF G, N, w
  <2>3. \A o \in (N + 1) + 1 .. N + 1 : FALSE
    BY <1>1
  <2> QED BY <1>1, <2>1, <2>2, <2>3
<1>4. CASE ~(r \in Receipt /\ r.proposal = p /\ r.kind = k)
  <2>1. w.receipt[p][k] = v.receipt[p][k]
    <3>1. CASE r \in Receipt
      BY <1>4, <3>1, ReceiptEntries
    <3>2. CASE r \in Proposal
      <4>1. CASE r.proposal = p
        <5>1. w.receipt[p] = [q \in Kinds |-> None]
          BY <3>2, <4>1, ApplyProposal, ViewFields
        <5> QED BY <5>1
      <4>2. CASE r.proposal # p
        BY <3>2, <4>2, ApplyProposal, ViewFields DEF Proposal
      <4> QED BY <4>1, <4>2
    <3>3. CASE r \notin Receipt /\ r \notin Proposal
      BY <3>3, OtherParts
    <3> QED BY <3>1, <3>2, <3>3
  <2>2. ~Judges(r, p, k)
    BY <1>4, RecordsByType DEF Judges, Is
  <2> HIDE DEF w
  <2>3. PICK m \in 1 .. N : /\ lines[m] = v.receipt[p][k] /\ Judges(lines[m], p, k)
                            /\ \A o \in m + 1 .. N : ~Judges(lines[o], p, k)
    BY <1>2, <2>1
  <2> HIDE DEF G, N
  <2>4. \A o \in m + 1 .. N + 1 : ~Judges(G[o], p, k)
    BY <1>1, <2>2, <2>3
  <2> QED BY <1>1, <2>1, <2>3, <2>4
<1> QED BY <1>3, <1>4

LEMMA ActiveStep ==
  ASSUME NEW lines \in Seq(Record), NEW v \in Views, NEW r \in Record,
         ActiveIsTheLast(lines, v)
  PROVE  ActiveIsTheLast(Append(lines, r), Apply(v, r))
<1> DEFINE w == Apply(v, r)
<1> SUFFICES ASSUME NEW a \in Artifacts
             PROVE  ActiveBefore(Append(lines, r), Len(Append(lines, r)) + 1, a, w.active[a])
  BY DEF ActiveIsTheLast
<1>1. Len(Append(lines, r)) + 1 = Len(lines) + 2
  BY AppendFacts
<1>2. CASE Activates(r, a)
  <2>1. r \in Activation /\ r.to \in Revisions /\ r.artifact = a
    BY <1>2, RecordsByType DEF Activates, Is, Activation
  <2>2. w.active[a] = r.to
    BY <2>1, ApplyActivation, ViewFields
  <2>3. r.to # None
    BY <2>1, ImprovementAssumption
  <2>4. ActiveBefore(Append(lines, r), Len(lines) + 2, a, r.to)
    BY <1>2, <2>3, ActiveBeforeMoves
  <2> HIDE DEF w
  <2> QED BY <1>1, <2>2, <2>4
<1>3. CASE ~Activates(r, a)
  <2>1. w.active[a] = v.active[a]
    <3>1. CASE r \in Activation
      <4>1. r.artifact # a
        BY <1>3, <3>1, RecordsByType DEF Activates, Is
      <4> QED BY <3>1, <4>1, ApplyActivation, ViewFields DEF Activation
    <3>2. CASE r \notin Activation
      BY <3>2, OtherParts
    <3> QED BY <3>1, <3>2
  <2>2. ActiveBefore(lines, Len(lines) + 1, a, v.active[a])
    BY DEF ActiveIsTheLast
  <2>3. ActiveBefore(Append(lines, r), Len(lines) + 2, a, v.active[a])
    BY <1>3, <2>2, ActiveBeforeGrows
  <2> HIDE DEF w
  <2> QED BY <1>1, <2>1, <2>3
<1> QED BY <1>2, <1>3

LEMMA PastStep ==
  ASSUME NEW lines \in Seq(Record), NEW v \in Views, NEW r \in Record,
         PastWasActive(lines, v)
  PROVE  PastWasActive(Append(lines, r), Apply(v, r))
<1> DEFINE G == Append(lines, r)
           N == Len(lines)
           w == Apply(v, r)
<1>1. /\ N \in Nat /\ DOMAIN lines = 1 .. N /\ DOMAIN G = 1 .. N + 1
      /\ G[N + 1] = r /\ \A i \in 1 .. N : G[i] = lines[i]
  BY AppendFacts
<1> SUFFICES ASSUME NEW a \in Artifacts, NEW n \in w.past[a]
             PROVE  \E m \in DOMAIN G : Activates(G[m], a) /\ G[m].to = n
  BY DEF PastWasActive
<1>2. n \in v.past[a] \/ (Activates(r, a) /\ r.to = n)
  <2>1. CASE r \in Activation
    <3>1. w.past[a] = IF r.artifact = a THEN v.past[a] \union {r.to} ELSE v.past[a]
      <4> DEFINE P == [v.past EXCEPT ![r.artifact] = v.past[r.artifact] \union {r.to}]
      <4>1. Apply(v, r) = [declared |-> v.declared, status |-> v.status,
                           receipt |-> v.receipt, revision |-> v.revision,
                           active |-> [v.active EXCEPT ![r.artifact] = r.to], past |-> P]
        BY <2>1, ApplyActivation
      <4>2. P[a] = IF r.artifact = a THEN v.past[a] \union {r.to} ELSE v.past[a]
        BY ViewFields
      <4> HIDE DEF P
      <4>3. w.past = P
        BY <4>1
      <4> HIDE DEF w
      <4> QED BY <4>2, <4>3
    <3>2. Activates(r, a) <=> r.artifact = a
      BY <2>1, RecordsByType DEF Activates, Is
    <3> HIDE DEF w
    <3> QED BY <3>1, <3>2
  <2>2. CASE r \notin Activation
    BY <2>2, OtherParts
  <2> QED BY <2>1, <2>2
<1> HIDE DEF G, N, w
<1>3. CASE n \in v.past[a]
  <2>1. PICK m \in 1 .. N : Activates(lines[m], a) /\ lines[m].to = n
    BY <1>1, <1>3 DEF PastWasActive
  <2> QED BY <1>1, <2>1
<1>4. CASE Activates(r, a) /\ r.to = n
  BY <1>1, <1>4
<1> QED BY <1>2, <1>3, <1>4

(* The line continues the chain. *)
LEMMA ChainedStep ==
  ASSUME NEW lines \in Seq(Record), NEW v \in Views, NEW r \in Record,
         ActiveIsTheLast(lines, v), PastWasActive(lines, v), ReplayValid(lines, v, r)
  PROVE  Chained(Append(lines, r), Len(lines) + 1)
<1> DEFINE G == Append(lines, r)
           N == Len(lines)
<1>1. /\ N \in Nat /\ DOMAIN lines = 1 .. N
      /\ G[N + 1] = r /\ \A i \in 1 .. N : G[i] = lines[i]
  BY AppendFacts
<1> SUFFICES ASSUME NEW a \in Artifacts, Activates(r, a)
             PROVE  /\ ActiveBefore(G, N + 1, a, r.expected)
                    /\ r.kind = "rollback" =>
                         \E m \in 1 .. (N + 1) - 1 : Activates(G[m], a) /\ G[m].to = r.to
  BY <1>1 DEF Chained
<1>2. r.type = "artifact_activation" /\ r.artifact = a
  BY DEF Activates, Is
<1>3. /\ r.expected = v.active[a]
      /\ r.kind = "rollback" => r.to \in v.past[a]
  BY <1>2 DEF ReplayValid
<1>4. ActiveBefore(G, N + 1, a, r.expected)
  <2>1. ActiveBefore(lines, N + 1, a, v.active[a]) /\ N + 1 \in 1 .. Len(lines) + 1
    BY <1>1 DEF ActiveIsTheLast
  <2> QED BY <1>3, <2>1, ActiveBeforeStays
<1>5. ASSUME r.kind = "rollback"
      PROVE  \E m \in 1 .. (N + 1) - 1 : Activates(G[m], a) /\ G[m].to = r.to
  <2>1. PICK m \in 1 .. N : Activates(lines[m], a) /\ lines[m].to = r.to
    BY <1>1, <1>3, <1>5 DEF PastWasActive
  <2> HIDE DEF G, N
  <2> QED BY <1>1, <2>1
<1> QED BY <1>4, <1>5

(* A promotion that replay accepts was earned. *)
LEMMA EarnedStep ==
  ASSUME NEW lines \in Seq(Record), NEW v \in Views, NEW r \in Record,
         DeclaredIsRecorded(lines, v), RevisionsAreRecorded(lines, v),
         ReceiptsAreTheLatest(lines, v), ActiveIsTheLast(lines, v),
         ReplayValid(lines, v, r), Promotes(r)
  PROVE  Earned(Append(lines, r), Len(lines) + 1)
<1> DEFINE G == Append(lines, r)
           N == Len(lines)
           q == v.declared[r.proposal]
<1>1. /\ N \in Nat /\ DOMAIN lines = 1 .. N
      /\ G[N + 1] = r /\ \A i \in 1 .. N : G[i] = lines[i]
  BY AppendFacts
<1>2. r \in StatusChange /\ r.proposal \in Proposals /\ r.promoted \in Optional(Revisions)
  BY RecordsByType DEF Promotes, Is, StatusChange
<1>3. MayPromote(v, r)
  BY DEF ReplayValid, Promotes, Is, MayChangeStatus
<1>4. q # None
  BY <1>3 DEF MayPromote, MayTransit
<1>5. PICK i \in 1 .. N : lines[i] = q /\ Proposes(lines[i], r.proposal)
  BY <1>1, <1>2, <1>4 DEF DeclaredIsRecorded
<1>6. /\ q \in Proposal /\ q.artifact \in Artifacts /\ q.required \subseteq Kinds
      /\ Is(q, "improvement_proposal") /\ q.proposal = r.proposal
  BY <1>2, <1>4, <1>5, ViewFields DEF Proposes, Proposal
<1>7. /\ v.active[q.artifact] = q.base
      /\ \A k \in q.required : Satisfied(v, r.proposal, k)
      /\ r.promoted # None
      /\ v.revision[q.artifact][r.promoted] # None
      /\ v.revision[q.artifact][r.promoted].digest = q.digest
      /\ v.revision[q.artifact][r.promoted].proposal = r.proposal
  BY <1>3 DEF MayPromote
<1>8. \A m \in 1 .. N : \A o \in m + 1 .. N : G[o] = lines[o]
  BY <1>1
<1>9. ActiveBefore(G, N + 1, q.artifact, q.base)
  <2>1. ActiveBefore(lines, N + 1, q.artifact, q.base) /\ N + 1 \in 1 .. Len(lines) + 1
    <3>1. ActiveBefore(lines, Len(lines) + 1, q.artifact, v.active[q.artifact])
      BY <1>6 DEF ActiveIsTheLast
    <3>2. N + 1 \in 1 .. Len(lines) + 1
      BY <1>1
    <3>3. v.active[q.artifact] = q.base
      BY <1>7
    <3> QED BY <3>1, <3>2, <3>3
  <2> QED BY <2>1, ActiveBeforeStays
<1>10. ASSUME NEW k \in q.required PROVE PassedAtLast(G, N + 1, q, k)
  <2>1. /\ v.receipt[r.proposal][k] # None
        /\ v.receipt[r.proposal][k].verdict = Pass
        /\ v.receipt[r.proposal][k].digest = q.digest
        /\ v.receipt[r.proposal][k].base = q.base
    BY <1>7 DEF Satisfied
  <2>2. PICK m \in 1 .. N : /\ lines[m] = v.receipt[r.proposal][k]
                            /\ Judges(lines[m], r.proposal, k)
                            /\ \A o \in m + 1 .. N : ~Judges(lines[o], r.proposal, k)
    BY <1>1, <1>2, <1>6, <2>1 DEF ReceiptsAreTheLatest
  <2> HIDE DEF G, N, q
  <2>3. \A o \in m + 1 .. (N + 1) - 1 : ~Judges(G[o], r.proposal, k)
    BY <1>1, <1>8, <2>2
  <2> QED BY <1>1, <1>6, <2>1, <2>2, <2>3 DEF PassedAtLast
<1>11. MadeFrom(G, N + 1, q, r.promoted)
  <2>1. r.promoted \in Revisions
    BY <1>2, <1>7 DEF Optional
  <2>2. PICK m \in 1 .. N : /\ lines[m] = v.revision[q.artifact][r.promoted]
                            /\ Registers(lines[m], q.artifact, r.promoted)
    BY <1>1, <1>6, <1>7, <2>1 DEF RevisionsAreRecorded
  <2> HIDE DEF G, N, q
  <2> QED BY <1>1, <1>6, <1>7, <2>2 DEF MadeFrom, Registers
<1> HIDE DEF G, N, q
<1>12. Earned(G, N + 1)
  BY <1>1, <1>5, <1>6, <1>9, <1>10, <1>11 DEF Earned
<1> QED BY <1>12 DEF G, N

LEMMA ReplayStep ==
  ASSUME NEW lines, NEW v, NEW r \in Record, Replays(lines, v), ReplayValid(lines, v, r)
  PROVE  Replays(Append(lines, r), Apply(v, r))
<1>1. lines \in Seq(Record) /\ v \in Views
  BY DEF Replays
<1>2. Append(lines, r) \in Seq(Record) /\ Apply(v, r) \in Views
  BY <1>1, AppendFacts, ApplyIsAView
<1>3. AllChained(Append(lines, r))
  BY <1>1, ChainedStep, ChainedStays DEF Replays
<1>4. AllEarned(Append(lines, r))
  BY <1>1, EarnedStep, EarnedStays DEF Replays
<1> QED BY <1>1, <1>2, <1>3, <1>4, DeclaredStep, RevisionStep, ReceiptStep, ActiveStep,
           PastStep DEF Replays

-----------------------------------------------------------------------------
(* Writers *)

(* What a writer reads is in agreement too, an open line included. *)
LEMMA SeenReplays ==
  ASSUME LedgerInv
  PROVE  Replays(Seen, View)
<1>1. CASE OpenIsValid
  BY <1>1, ReplayStep DEF LedgerInv, OpenIsValid, Seen, View
<1>2. CASE ~OpenIsValid
  BY <1>2 DEF LedgerInv, Seen, View
<1> QED BY <1>1, <1>2

(* The guards search the lines, replay looks at the view. *)
LEMMA GuardsImplyReplay ==
  ASSUME LedgerInv, NEW r \in Record, Applies(r)
  PROVE  ReplayValid(Seen, View, r)
<1>1. \A i \in DOMAIN Seen : Seen[i].operation # r.operation
  BY DEF Applies, KnownOperation
<1>2. \A p \in Proposals : Proposed(p) <=> View.declared[p] # None
  BY SeenReplays DEF Replays, DeclaredIsRecorded, Proposed, Proposes, Is
<1>3. \A a \in Artifacts : \A n \in Revisions : Registered(a, n) <=> View.revision[a][n] # None
  BY SeenReplays DEF Replays, RevisionsAreRecorded, Registered, Registers, Is
<1>4. Accepts(r)
  BY DEF Applies
<1>5. CASE r \in Proposal
  <2>1. View.declared[r.proposal] = None
    BY <1>2, <1>4, <1>5, RecordsByType DEF Accepts, Proposal
  <2> QED BY <1>1, <1>5, <2>1, RecordsByType DEF ReplayValid
<1>6. CASE r \in Receipt
  <2>1. JudgesTheProposal(r)
    BY <1>4, <1>6, RecordsByType DEF Accepts
  <2> QED BY <1>1, <1>6, <2>1, RecordsByType DEF ReplayValid, JudgesTheProposal
<1>7. CASE r \in StatusChange
  <2>1. MayChangeStatus(View, r)
    BY <1>4, <1>7, RecordsByType DEF Accepts
  <2> QED BY <1>1, <1>7, <2>1, RecordsByType DEF ReplayValid
<1>8. CASE r \in Revision
  <2>1. HasLineage(r)
    BY <1>4, <1>8, RecordsByType DEF Accepts
  <2>2. /\ r.artifact \in Artifacts /\ r.revision \in Revisions
        /\ r.parent # None => r.parent \in Revisions
        /\ r.proposal # None => r.proposal \in Proposals
    BY <1>8 DEF Revision, Optional
  <2>3. /\ View.revision[r.artifact][r.revision] = None
        /\ r.parent # None => View.revision[r.artifact][r.parent] # None
        /\ r.proposal # None => View.declared[r.proposal] # None
    BY <1>2, <1>3, <2>1, <2>2 DEF HasLineage
  <2> QED BY <1>1, <1>8, <2>3, RecordsByType DEF ReplayValid
<1>9. CASE r \in Activation
  <2>1. MayActivate(r)
    BY <1>4, <1>9, RecordsByType DEF Accepts
  <2>2. r.proposal # None => r.proposal \in Proposals
    BY <1>9 DEF Activation, Optional
  <2>3. r.proposal # None => View.declared[r.proposal] # None
    BY <1>2, <2>1, <2>2 DEF MayActivate
  <2> QED BY <1>1, <1>9, <2>1, <2>3, RecordsByType DEF ReplayValid, MayActivate
<1> QED BY <1>5, <1>6, <1>7, <1>8, <1>9, RecordsByType

(* Every step is one call's write, an acknowledged retry, or a stutter. *)
LEMMA StepsWrite ==
  ASSUME NextOperation \in Nat, [Next]_vars
  PROVE  (\E r \in Record : r.operation \in Nat /\ Write(r)) \/ Retry \/ UNCHANGED vars
<1>2. CASE ImprovementPropose
  <2>1. PICK p \in Proposals, a \in Artifacts, d \in Digests, b \in Optional(Revisions),
             required \in SUBSET Kinds \ {{}} :
        Write([type |-> "improvement_proposal", proposal |-> p, artifact |-> a,
               digest |-> d, base |-> b, required |-> required,
               operation |-> NextOperation])
    BY <1>2 DEF ImprovementPropose
  <2> DEFINE r == [type |-> "improvement_proposal", proposal |-> p, artifact |-> a,
                   digest |-> d, base |-> b, required |-> required,
                   operation |-> NextOperation]
  <2>2. r \in Record /\ r.operation \in Nat
    BY DEF Record, Proposal, Operations
  <2> QED BY <2>1, <2>2
<1>3. CASE ImprovementRecordEvaluation
  <2>1. PICK p \in Proposals, k \in Kinds, verdict \in Verdicts, d \in Digests,
             b \in Optional(Revisions) :
        Write([type |-> "evaluation_receipt", proposal |-> p, kind |-> k,
               verdict |-> verdict, digest |-> d, base |-> b, operation |-> NextOperation])
    BY <1>3 DEF ImprovementRecordEvaluation
  <2> DEFINE r == [type |-> "evaluation_receipt", proposal |-> p, kind |-> k,
                   verdict |-> verdict, digest |-> d, base |-> b,
                   operation |-> NextOperation]
  <2>2. r \in Record /\ r.operation \in Nat
    BY DEF Record, Receipt, Operations
  <2> QED BY <2>1, <2>2
<1>4. CASE ImprovementSetStatus
  <2>1. PICK p \in Proposals, from \in Statuses, to \in Statuses :
          \E n \in IF to = "promoted" THEN Revisions ELSE {None} :
            Write([type |-> "improvement_proposal_status", proposal |-> p, from |-> from,
                   to |-> to, promoted |-> n, operation |-> NextOperation])
    BY <1>4 DEF ImprovementSetStatus
  <2>2. PICK n \in Optional(Revisions) :
          Write([type |-> "improvement_proposal_status", proposal |-> p, from |-> from,
                 to |-> to, promoted |-> n, operation |-> NextOperation])
    BY <2>1 DEF Optional
  <2> DEFINE r == [type |-> "improvement_proposal_status", proposal |-> p, from |-> from,
                   to |-> to, promoted |-> n, operation |-> NextOperation]
  <2>3. r \in Record /\ r.operation \in Nat
    BY DEF Record, StatusChange, Operations
  <2> QED BY <2>2, <2>3
<1>5. CASE ArtifactRegisterRevision
  <2>1. PICK a \in Artifacts, n \in Revisions, d \in Digests,
             parent \in Optional(Revisions), p \in Optional(Proposals) :
        Write([type |-> "artifact_revision", artifact |-> a, revision |-> n, digest |-> d,
               parent |-> parent, proposal |-> p, operation |-> NextOperation])
    BY <1>5 DEF ArtifactRegisterRevision
  <2> DEFINE r == [type |-> "artifact_revision", artifact |-> a, revision |-> n,
                   digest |-> d, parent |-> parent, proposal |-> p,
                   operation |-> NextOperation]
  <2>2. r \in Record /\ r.operation \in Nat
    BY DEF Record, Revision, Operations
  <2> QED BY <2>1, <2>2
<1>6. CASE ArtifactActivateRevision
  <2>1. PICK a \in Artifacts, n \in Revisions, expected \in Optional(Revisions),
             kind \in {"activate", "rollback"}, p \in Optional(Proposals) :
        Write([type |-> "artifact_activation", artifact |-> a, to |-> n,
               expected |-> expected, kind |-> kind, proposal |-> p,
               operation |-> NextOperation])
    BY <1>6 DEF ArtifactActivateRevision
  <2> DEFINE r == [type |-> "artifact_activation", artifact |-> a, to |-> n,
                   expected |-> expected, kind |-> kind, proposal |-> p,
                   operation |-> NextOperation]
  <2>2. r \in Record /\ r.operation \in Nat
    BY DEF Record, Activation, Operations
  <2> QED BY <2>1, <2>2
<1> QED BY <1>2, <1>3, <1>4, <1>5, <1>6 DEF Next

LEMMA WriteStep ==
  ASSUME LedgerInv, NEW r \in Record, r.operation \in Nat, Write(r)
  PROVE  LedgerInv'
<1>1. Applies(r) /\ calls' = r.operation
  BY DEF Write
<1>2. ReplayValid(Seen, View, r)
  BY <1>1, GuardsImplyReplay
<1>3. ASSUME tail = Clean PROVE ReplayValid(log, view, r)
  BY <1>2, <1>3 DEF Seen, View, OpenIsValid, Open
<1>4. CASE WriteWhole(r)
  <2>1. tail' = Clean /\ ~Open'
    BY <1>4 DEF WriteWhole, Open
  <2>2. CASE tail = Clean
    <3>1. ReplayValid(log, view, r)
      BY <1>3, <2>2
    <3>2. log' = Append(log, r) /\ view' = Apply(view, r) /\ rejected' = rejected
      BY <1>4, <2>2, <3>1 DEF WriteWhole
    <3>3. Replays(Append(log, r), Apply(view, r))
      BY <3>1, ReplayStep DEF LedgerInv
    <3>4. Replays(log, view)'
      BY <3>2, <3>3
    <3> QED BY <1>1, <2>1, <3>2, <3>4 DEF LedgerInv
  <2>3. CASE tail # Clean
    <3>1. log' = log /\ view' = view /\ rejected' = rejected
      BY <1>4, <2>3 DEF WriteWhole
    <3> QED BY <1>1, <2>1, <3>1 DEF LedgerInv
  <2> QED BY <2>2, <2>3
<1>5. CASE WriteTorn(r)
  <2>1. log' = log /\ view' = view /\ rejected' = rejected
    BY <1>5 DEF WriteTorn
  <2>2. tail' = Torn \/ (tail = Clean /\ tail' = r)
    BY <1>5 DEF WriteTorn
  <2>3. Open' => tail' \in Record /\ OpenIsValid'
    <3>1. ASSUME Open' PROVE tail = Clean /\ tail' = r
      BY <2>2, <3>1 DEF Open
    <3>2. ASSUME Open' PROVE tail' \in Record /\ ReplayValid(log', view', tail')
      BY <1>3, <2>1, <3>1, <3>2
    <3> QED BY <3>2 DEF OpenIsValid
  <2> QED BY <1>1, <2>1, <2>3 DEF LedgerInv
<1> QED BY <1>4, <1>5 DEF Write

LEMMA InitLedgerInv == Init => LedgerInv
<1> SUFFICES ASSUME Init PROVE LedgerInv
  OBVIOUS
<1>1. log = <<>> /\ view = EmptyView /\ ~Open /\ calls = 0 /\ rejected = 0
  BY DEF Init, Open
<1>2. EmptyView \in Views
  BY DEF EmptyView, Views, Optional, Statuses
<1>3. log \in Seq(Record) /\ Len(log) = 0 /\ DOMAIN log = {}
  BY <1>1
<1>4. /\ \A p \in Proposals : EmptyView.declared[p] = None
      /\ \A p \in Proposals : \A k \in Kinds : EmptyView.receipt[p][k] = None
      /\ \A a \in Artifacts : \A n \in Revisions : EmptyView.revision[a][n] = None
      /\ \A a \in Artifacts : EmptyView.active[a] = None /\ EmptyView.past[a] = {}
  BY DEF EmptyView
<1>5. ActiveIsTheLast(log, view)
  BY <1>1, <1>3, <1>4 DEF ActiveIsTheLast, ActiveBefore
<1>6. Replays(log, view)
  BY <1>1, <1>2, <1>3, <1>4, <1>5 DEF Replays, DeclaredIsRecorded, RevisionsAreRecorded,
     ReceiptsAreTheLatest, PastWasActive, AllChained, AllEarned
<1> QED BY <1>1, <1>6 DEF LedgerInv

LEMMA NextLedgerInv == LedgerInv /\ [Next]_vars => LedgerInv'
<1> SUFFICES ASSUME LedgerInv, [Next]_vars PROVE LedgerInv'
  OBVIOUS
<1>1. (\E r \in Record : r.operation \in Nat /\ Write(r)) \/ Retry \/ UNCHANGED vars
  <2>1. NextOperation \in Nat
    BY DEF NextOperation, LedgerInv
  <2> QED BY <2>1, StepsWrite
<1>2. CASE \E r \in Record : r.operation \in Nat /\ Write(r)
  BY <1>2, WriteStep
<1>3. CASE Retry
  BY <1>3 DEF Retry, LedgerInv, Open, OpenIsValid
<1>4. CASE UNCHANGED vars
  BY <1>4 DEF vars, LedgerInv, Open, OpenIsValid
<1> QED BY <1>1, <1>2, <1>3, <1>4

LEMMA LedgerInvAlways == Spec => []LedgerInv
  BY InitLedgerInv, NextLedgerInv, PTL DEF Spec

-----------------------------------------------------------------------------
(* What answers lose *)

(* What was lost, by what follows the last end of line: nothing, one record  *)
(* that a torn line took with it, or that one and the line that ran into it. *)
AnswersInv ==
  /\ glued \in Nat /\ tears \in Nat
  /\ tears = 0 => tail = Clean /\ glued = 0
  /\ glued = 0 /\ tail # Torn => Lost = {}
  /\ glued = 0 => \A o, q \in Lost : o = q
  /\ \A o, q, s \in Lost : o = q \/ q = s \/ o = s

(* An operation is lost when it was answered and no line has it. *)
Found(lines, o) == \E i \in DOMAIN lines : lines[i].operation = o

LEMMA LostIsNotFound == Lost = {o \in acked : ~Found(Seen, o)}
  BY DEF Lost, Found

LEMMA FoundInAppend ==
  ASSUME NEW lines \in Seq(Record), NEW r \in Record, NEW o
  PROVE  Found(Append(lines, r), o) <=> Found(lines, o) \/ o = r.operation
<1>1. /\ DOMAIN Append(lines, r) = 1 .. Len(lines) + 1 /\ DOMAIN lines = 1 .. Len(lines)
      /\ Len(lines) \in Nat
      /\ Append(lines, r)[Len(lines) + 1] = r
      /\ \A i \in 1 .. Len(lines) : Append(lines, r)[i] = lines[i]
  BY AppendFacts
<1>2. ASSUME Found(Append(lines, r), o) PROVE Found(lines, o) \/ o = r.operation
  <2>1. PICK i \in 1 .. Len(lines) + 1 : Append(lines, r)[i].operation = o
    BY <1>1, <1>2 DEF Found
  <2> QED BY <1>1, <2>1 DEF Found
<1>3. ASSUME Found(lines, o) PROVE Found(Append(lines, r), o)
  <2>1. PICK i \in 1 .. Len(lines) : lines[i].operation = o
    BY <1>1, <1>3 DEF Found
  <2> QED BY <1>1, <2>1 DEF Found
<1>4. Found(Append(lines, r), r.operation)
  BY <1>1 DEF Found
<1> QED BY <1>2, <1>3, <1>4

LEMMA WriteAnswers ==
  ASSUME LedgerInv, AnswersInv, NEW r \in Record, Write(r)
  PROVE  AnswersInv'
<1>1. Applies(r) /\ glued = 0 /\ log \in Seq(Record)
  BY DEF Write, Applies, Healthy, LedgerInv, Replays
<1>2. ASSUME tail = Clean PROVE Seen = log /\ ReplayValid(log, view, r)
  BY <1>1, <1>2, GuardsImplyReplay DEF Seen, View, OpenIsValid, Open
<1>3. Clean # Torn
  BY ImprovementAssumption
<1>4. ASSUME ~Open PROVE Seen = log
  BY <1>4 DEF Seen, OpenIsValid
<1>5. ASSUME Open PROVE Seen = Append(log, tail) /\ tail \in Record
  BY <1>5 DEF Seen, LedgerInv
<1>6. \A o : ~Found(log, o) => ~Found(Seen, o) \/ (Open /\ o = tail.operation)
  BY <1>1, <1>4, <1>5, FoundInAppend
<1>7. CASE WriteWhole(r)
  <2>1. /\ acked' = acked \union {r.operation} /\ tail' = Clean /\ tears' = tears
        /\ ~Open'
    BY <1>7 DEF WriteWhole, Open
  <2>2. Seen' = log'
    BY <2>1 DEF Seen, OpenIsValid
  <2>3. CASE tail = Clean
    <3>1. log' = Append(log, r) /\ glued' = glued
      BY <1>2, <1>7, <2>3 DEF WriteWhole
    <3>2. \A o : Found(Seen', o) <=> Found(Seen, o) \/ o = r.operation
      BY <1>1, <1>2, <2>2, <2>3, <3>1, FoundInAppend
    <3>3. Lost = {}
      BY <1>1, <1>3, <2>3 DEF AnswersInv
    <3>4. Lost' = {}
      BY <2>1, <3>2, <3>3 DEF Lost, Found
    <3> QED BY <2>1, <3>1, <3>4 DEF AnswersInv
  <2>4. CASE tail # Clean
    <3>1. log' = log /\ glued' = 1
      BY <1>1, <1>7, <2>4 DEF WriteWhole
    <3>2. \A o \in Lost' : o \in Lost \/ o = r.operation \/ (Open /\ o = tail.operation)
      BY <1>6, <2>1, <2>2, <3>1 DEF Lost, Found
    <3>3. tears # 0
      BY <2>4 DEF AnswersInv
    <3>4. \A o, q, s \in Lost' : o = q \/ q = s \/ o = s
      <4>1. CASE tail = Torn
        BY <1>1, <3>2, <4>1 DEF AnswersInv, Open
      <4>2. CASE tail # Torn
        <5>1. Lost = {}
          BY <1>1, <4>2 DEF AnswersInv
        <5> QED BY <3>2, <5>1
      <4> QED BY <4>1, <4>2
    <3> QED BY <2>1, <3>1, <3>3, <3>4 DEF AnswersInv
  <2> QED BY <2>3, <2>4
<1>8. CASE WriteTorn(r)
  <2>1. /\ log' = log /\ view' = view /\ glued' = glued /\ acked' = acked
        /\ tears' = tears + 1
        /\ tail' = Torn \/ (tail = Clean /\ tail' = r)
    BY <1>8 DEF WriteTorn
  <2>2. tears' \in Nat /\ tears' # 0
    BY <2>1 DEF AnswersInv
  <2>3. CASE tail' = Torn
    <3>1. Seen' = log
      BY <2>1, <2>3 DEF Seen, OpenIsValid, Open
    <3>2. \A o \in Lost' : o \in Lost \/ (Open /\ o = tail.operation)
      BY <1>6, <2>1, <3>1 DEF Lost, Found
    <3>3. \A o, q \in Lost' : o = q
      <4>1. CASE tail = Torn
        BY <1>1, <3>2, <4>1 DEF AnswersInv, Open
      <4>2. CASE tail # Torn
        <5>1. Lost = {}
          BY <1>1, <4>2 DEF AnswersInv
        <5> QED BY <3>2, <5>1
      <4> QED BY <4>1, <4>2
    <3> QED BY <2>1, <2>2, <2>3, <3>3, <1>1 DEF AnswersInv
  <2>4. CASE tail = Clean /\ tail' = r
    <3>1. Seen' = log \/ Seen' = Append(log, r)
      BY <2>1, <2>4 DEF Seen
    <3>2. \A o : Found(Seen, o) => Found(Seen', o)
      <4>1. \A o : Found(log, o) => Found(Append(log, r), o)
        BY <1>1, FoundInAppend
      <4> QED BY <1>2, <2>4, <3>1, <4>1
    <3>3. Lost = {}
      BY <1>1, <1>3, <2>4 DEF AnswersInv
    <3>4. Lost' = {}
      BY <2>1, <3>2, <3>3 DEF Lost, Found
    <3> QED BY <2>1, <2>2, <3>4, <1>1 DEF AnswersInv
  <2> QED BY <2>1, <2>3, <2>4
<1> QED BY <1>7, <1>8 DEF Write

LEMMA AtMostTwo ==
  ASSUME NEW S, \A o, q, s \in S : o = q \/ q = s \/ o = s
  PROVE  Cardinality(S) <= 2
<1>1. PICK o, q : S \subseteq {o, q}
  <2>1. CASE S = {}
    BY <2>1
  <2>2. CASE S # {}
    <3>1. PICK o \in S : TRUE
      BY <2>2
    <3>2. CASE S \subseteq {o}
      BY <3>2
    <3>3. CASE ~(S \subseteq {o})
      <4>1. PICK q \in S : q # o
        BY <3>3
      <4> QED BY <4>1
    <3> QED BY <3>2, <3>3
  <2> QED BY <2>1, <2>2
<1>2. IsFiniteSet({o, q}) /\ Cardinality({o, q}) \in {1, 2}
  <2>1. IsFiniteSet({o}) /\ Cardinality({o}) = 1
    BY FS_Singleton
  <2>2. {o, q} = {o} \union {q}
    OBVIOUS
  <2> QED BY <2>1, <2>2, FS_AddElement
<1>3. Cardinality(S) <= Cardinality({o, q}) /\ Cardinality(S) \in Nat
  BY <1>1, <1>2, FS_Subset, FS_CardinalityType
<1> QED BY <1>2, <1>3

LEMMA NextAnswersInv == LedgerInv /\ AnswersInv /\ [Next]_vars => AnswersInv'
<1> SUFFICES ASSUME LedgerInv, AnswersInv, [Next]_vars PROVE AnswersInv'
  OBVIOUS
<1>1. (\E r \in Record : r.operation \in Nat /\ Write(r)) \/ Retry \/ UNCHANGED vars
  <2>1. NextOperation \in Nat
    BY DEF NextOperation, LedgerInv
  <2> QED BY <2>1, StepsWrite
<1>2. CASE \E r \in Record : r.operation \in Nat /\ Write(r)
  BY <1>2, WriteAnswers
<1>3. CASE Retry
  <2>1. PICK i \in DOMAIN Seen : /\ acked' = acked \union {Seen[i].operation}
                                 /\ UNCHANGED <<log, view, tail, glued, rejected, tears, calls>>
    BY <1>3 DEF Retry
  <2>2. Seen' = Seen
    BY <2>1 DEF Seen, OpenIsValid, Open
  <2>3. Lost' = Lost
    BY <2>1, <2>2 DEF Lost
  <2> QED BY <2>1, <2>3 DEF AnswersInv
<1>4. CASE UNCHANGED vars
  <2>1. Lost' = Lost
    BY <1>4 DEF vars, Lost, Seen, OpenIsValid, Open
  <2> QED BY <1>4, <2>1 DEF AnswersInv, vars
<1> QED BY <1>1, <1>2, <1>3, <1>4

-----------------------------------------------------------------------------
(* Theorems *)

(* No writer ever records a line that a later read counts as corrupt: the    *)
(* guards under the lock imply the checks of replay, in every state.         *)
THEOREM WritersAlwaysReplayCleanly == Spec => []WritersReplayCleanly
<1>1. LedgerInv => WritersReplayCleanly
  BY DEF LedgerInv, WritersReplayCleanly
<1> QED BY <1>1, LedgerInvAlways, PTL

(* The activations of an artifact are one chain: no two of them replaced the *)
(* same moment's revision, and a rollback goes back along the chain.         *)
THEOREM ActivationsAlwaysChain == Spec => []ActivationsFormAChain
<1>1. LedgerInv => ActivationsFormAChain
  BY SeenReplays DEF Replays, ActiveIsTheLast, AllChained, ActivationsFormAChain
<1> QED BY <1>1, LedgerInvAlways, PTL

(* Nothing was ever promoted but on the latest receipts, all of them passing,*)
(* on a base still active and with the content that was judged.              *)
THEOREM PromotionsWereAlwaysEarned == Spec => []PromotionsWereEarned
<1>1. LedgerInv => PromotionsWereEarned
  BY SeenReplays DEF Replays, AllEarned, PromotionsWereEarned
<1> QED BY <1>1, LedgerInvAlways, PTL

(* What a call was told stays true: while every line was written whole, all  *)
(* of it; a line that was not costs at most two answered records, and a call *)
(* made again is acknowledged as long as the ledger takes lines at all.      *)
THEOREM AnswersAlwaysSurviveFaults == Spec => []AnswersSurviveFaults
<1>1. Init => AnswersInv
  BY DEF Init, AnswersInv, Lost
<1>2. AnswersInv => LossesAreBounded
  <2> SUFFICES ASSUME AnswersInv PROVE LossesAreBounded
    OBVIOUS
  <2>1. Cardinality(Lost) <= 2
    BY AtMostTwo DEF AnswersInv
  <2>2. tears = 0 => Lost = {}
    BY ImprovementAssumption DEF AnswersInv
  <2> QED BY <2>1, <2>2 DEF LossesAreBounded
<1>3. RetriesAreAcknowledged
  BY DEF RetriesAreAcknowledged, Acknowledged
<1>4. AnswersInv => AnswersSurviveFaults
  BY <1>2, <1>3 DEF AnswersSurviveFaults
<1> QED BY <1>1, <1>4, NextAnswersInv, LedgerInvAlways, PTL DEF Spec

-----------------------------------------------------------------------------
(* The owner ledger. *)
CONSTANTS Agents, Sayings, ScopeOf, Decisions, Answers, Levels, Paths, MaxRows, NoRow
VARIABLES sayings, decisions, enforcement, pending, settled, raced, withdrawn

Owner == INSTANCE OwnerLedger

SayingRows == [log : {"sayings"}, kind : {"saying", "retired"}, id : Sayings]
DecisionRows == [log : {"decisions"}, kind : {"open"}, id : Decisions]
  \union [log : {"decisions"}, kind : {"resolved"}, id : Decisions, answer : Answers]
EnforcementRows ==
  [log : {"enforcement"}, kind : {"enforcement"}, id : Sayings, level : Levels, by : SUBSET Paths]

OwnerIsTyped ==
  /\ sayings \in Seq(SayingRows) /\ decisions \in Seq(DecisionRows)
  /\ DOMAIN pending = Agents /\ DOMAIN settled = Decisions
  /\ \A a \in Agents : pending[a] # NoRow =>
       pending[a] \in SayingRows \union DecisionRows \union EnforcementRows
(* A call that is about to retire or to resolve found what it names. *)
CallsFoundTheirs ==
  \A a \in Agents : pending[a] # NoRow =>
    /\ pending[a].kind = "retired" => Owner!Recorded(pending[a].id)
    /\ pending[a].kind = "resolved" => Owner!Opened(pending[a].id)
WithdrawnAreRetired == \A s \in withdrawn : Owner!Recorded(s) /\ Owner!Retired(s)
(* A settled question has its answer, and nobody is about to answer it again. *)
SettledAreAnswered ==
  \A d \in Decisions \ raced : settled[d] # NoRow =>
    /\ Owner!Opened(d) /\ Owner!Resolutions(d) # {} /\ Owner!AnswerTo(d) = settled[d]
    /\ \A a \in Agents : ~Owner!Resolving(a, d)
OwnerInv == OwnerIsTyped /\ CallsFoundTheirs /\ WithdrawnAreRetired /\ SettledAreAnswered

(* The first and the last of the places of a kind of row, as the log grows. *)
LEMMA FirstOf ==
  ASSUME NEW S \in SUBSET Nat, S # {}
  PROVE  Owner!First(S) \in S /\ \A j \in S : Owner!First(S) <= j
BY LeastNumber DEF Owner!First

LEMMA LastOf ==
  ASSUME NEW S \in SUBSET Nat, S # {}, NEW n \in Nat, \A i \in S : i < n
  PROVE  Owner!Last_(S) \in S /\ \A j \in S : j <= Owner!Last_(S)
BY GreatestNumber DEF Owner!Last_

LEMMA FirstStays ==
  ASSUME NEW S \in SUBSET Nat, S # {}, NEW n \in Nat, \A i \in S : i < n
  PROVE  Owner!First(S \union {n}) = Owner!First(S)
<1> DEFINE T == S \union {n}
           x == Owner!First(T)
           y == Owner!First(S)
<1>1. y \in S /\ \A j \in S : y <= j
  BY FirstOf
<1>2. T \in SUBSET Nat /\ T # {} /\ \A i \in T : i \in S \/ i = n
  OBVIOUS
<1>3. S \subseteq T
  OBVIOUS
<1> HIDE DEF T
<1>4. x \in T /\ \A j \in T : x <= j
  BY <1>2, FirstOf
<1> HIDE DEF x, y
<1>5. x = y
  BY <1>1, <1>2, <1>3, <1>4
<1> QED BY <1>5 DEF x, y, T

LEMMA LastIs ==
  ASSUME NEW S \in SUBSET Nat, NEW n \in Nat, \A i \in S : i < n
  PROVE  Owner!Last_(S \union {n}) = n
<1>1. n \in S \union {n} /\ \A j \in S \union {n} : j <= n
  OBVIOUS
<1>2. \A i \in S \union {n} : (\A j \in S \union {n} : j <= i) => i = n
  OBVIOUS
<1> QED BY <1>1, <1>2 DEF Owner!Last_

LEMMA KindsGrow ==
  ASSUME NEW X, NEW rows \in Seq(X), NEW row \in X, NEW kind, NEW id
  PROVE  /\ Owner!Kind(rows, kind, id) \in SUBSET Nat
         /\ \A i \in Owner!Kind(rows, kind, id) : i < Len(rows) + 1
         /\ \A i \in DOMAIN rows : Append(rows, row)[i] = rows[i]
         /\ Append(rows, row)[Len(rows) + 1] = row
         /\ Owner!Kind(Append(rows, row), kind, id) =
              IF row.kind = kind /\ row.id = id THEN Owner!Kind(rows, kind, id) \union {Len(rows) + 1}
              ELSE Owner!Kind(rows, kind, id)
<1> DEFINE more == Append(rows, row)
<1>1. /\ DOMAIN rows = 1 .. Len(rows) /\ Len(rows) \in Nat /\ DOMAIN more = 1 .. Len(rows) + 1
      /\ \A i \in 1 .. Len(rows) : more[i] = rows[i]
      /\ more[Len(rows) + 1] = row
  OBVIOUS
<1> HIDE DEF more
<1>2. DOMAIN more = DOMAIN rows \union {Len(rows) + 1}
  BY <1>1
<1>3. \A i : i \in Owner!Kind(more, kind, id) <=>
               \/ i \in Owner!Kind(rows, kind, id)
               \/ i = Len(rows) + 1 /\ row.kind = kind /\ row.id = id
  BY <1>1, <1>2 DEF Owner!Kind
<1>4. Owner!Kind(more, kind, id) = IF row.kind = kind /\ row.id = id
                                   THEN Owner!Kind(rows, kind, id) \union {Len(rows) + 1}
                                   ELSE Owner!Kind(rows, kind, id)
  BY <1>3
<1>5. /\ Owner!Kind(rows, kind, id) \in SUBSET Nat
      /\ \A i \in Owner!Kind(rows, kind, id) : i < Len(rows) + 1
  BY <1>1 DEF Owner!Kind
<1> QED BY <1>1, <1>4, <1>5 DEF more

(* What is recorded, retired and opened stays so as the logs grow. *)
LEMMA SayingsStay ==
  ASSUME sayings \in Seq(SayingRows), NEW row \in SayingRows, sayings' = Append(sayings, row), NEW s,
         Owner!Recorded(s)
  PROVE  Owner!Recorded(s)' /\ (Owner!Retired(s) \/ (row.kind = "retired" /\ row.id = s) => Owner!Retired(s)')
<1> DEFINE n == Len(sayings) + 1
           S == Owner!Kind(sayings, "saying", s)
           R == Owner!Kind(sayings, "retired", s)
           S2 == Owner!Kind(sayings', "saying", s)
           R2 == Owner!Kind(sayings', "retired", s)
<1>1. /\ S \in SUBSET Nat /\ R \in SUBSET Nat /\ n \in Nat /\ \A i \in S \union R : i < n
      /\ S2 = IF row.kind = "saying" /\ row.id = s THEN S \union {n} ELSE S
      /\ R2 = IF row.kind = "retired" /\ row.id = s THEN R \union {n} ELSE R
  BY KindsGrow
<1>2. S # {}
  BY DEF Owner!Recorded
<1>3. Owner!First(S) \in S
  BY <1>1, <1>2, FirstOf
<1> HIDE DEF S, R, S2, R2, n
<1>4. S2 # {} /\ Owner!First(S2) = Owner!First(S)
  BY <1>1, <1>2, FirstStays
<1>5. Owner!Retired(s) \/ (row.kind = "retired" /\ row.id = s) => \E i \in R2 : i > Owner!First(S)
  <2>1. Owner!Retired(s) => \E i \in R : i > Owner!First(S)
    BY DEF Owner!Retired, R, S
  <2>2. R \subseteq R2 /\ (row.kind = "retired" /\ row.id = s => n \in R2)
    BY <1>1
  <2>3. n > Owner!First(S)
    BY <1>1, <1>3
  <2> QED BY <2>1, <2>2, <2>3
<1> QED BY <1>4, <1>5 DEF Owner!Recorded, Owner!Retired, S2, R2

LEMMA QuestionsStay ==
  ASSUME decisions \in Seq(DecisionRows), NEW row \in DecisionRows, decisions' = Append(decisions, row),
         NEW d, Owner!Opened(d)
  PROVE  /\ Owner!Opened(d)'
         /\ row.kind = "resolved" /\ row.id = d =>
              Owner!Resolutions(d)' # {} /\ Owner!AnswerTo(d)' = row.answer
         /\ Owner!Resolutions(d) # {} /\ ~(row.kind = "resolved" /\ row.id = d) =>
              Owner!Resolutions(d)' # {} /\ Owner!AnswerTo(d)' = Owner!AnswerTo(d)
<1> DEFINE n == Len(decisions) + 1
           S == Owner!Kind(decisions, "open", d)
           R == Owner!Kind(decisions, "resolved", d)
           S2 == Owner!Kind(decisions', "open", d)
           R2 == Owner!Kind(decisions', "resolved", d)
           A == {i \in R : i > Owner!First(S)}
           A2 == {i \in R2 : i > Owner!First(S2)}
<1>1. /\ S \in SUBSET Nat /\ R \in SUBSET Nat /\ n \in Nat /\ \A i \in S \union R : i < n
      /\ S2 = IF row.kind = "open" /\ row.id = d THEN S \union {n} ELSE S
      /\ R2 = IF row.kind = "resolved" /\ row.id = d THEN R \union {n} ELSE R
      /\ \A i \in DOMAIN decisions : decisions'[i] = decisions[i]
      /\ decisions'[n] = row
  BY KindsGrow
<1>2. S # {}
  BY DEF Owner!Opened
<1>3. Owner!First(S) \in S
  BY <1>1, <1>2, FirstOf
<1>4. A = Owner!Resolutions(d) /\ A2 = Owner!Resolutions(d)'
  BY DEF Owner!Resolutions
<1> HIDE DEF S, R, S2, R2, n
<1>5. S2 # {} /\ Owner!First(S2) = Owner!First(S)
  BY <1>1, <1>2, FirstStays
<1>6. A \in SUBSET Nat /\ \A i \in A : i < n
  BY <1>1
<1>7. CASE row.kind = "resolved" /\ row.id = d
  <2>1. A2 = A \union {n}
    BY <1>1, <1>3, <1>5, <1>7
  <2> HIDE DEF A, A2
  <2>2. Owner!Last_(A2) = n
    BY <1>1, <1>6, <2>1, LastIs
  <2> QED BY <1>1, <1>4, <1>5, <1>7, <2>1, <2>2 DEF Owner!Opened, Owner!AnswerTo, S2
<1>8. CASE ~(row.kind = "resolved" /\ row.id = d)
  <2>1. A2 = A
    BY <1>1, <1>5, <1>8
  <2>2. A \subseteq DOMAIN decisions
    BY DEF R, Owner!Kind
  <2> HIDE DEF A, A2
  <2>3. A # {} => Owner!Last_(A) \in DOMAIN decisions
    BY <1>1, <1>6, <2>2, LastOf
  <2> QED BY <1>1, <1>4, <1>5, <1>8, <2>1, <2>3 DEF Owner!Opened, Owner!AnswerTo, S2
<1> QED BY <1>7, <1>8

(* A plan is what its call has found it may do. *)
LEMMA PlansKeepOwnerInv ==
  ASSUME OwnerInv, NEW a \in Agents, NEW row \in SayingRows \union DecisionRows \union EnforcementRows,
         Owner!Idle(a), Owner!Plan(a, row),
         row.kind = "retired" => Owner!Recorded(row.id),
         row.kind = "resolved" => Owner!Opened(row.id) /\ Owner!Resolutions(row.id) = {}
  PROVE  OwnerInv'
<1>1. /\ pending' = [pending EXCEPT ![a] = row]
      /\ UNCHANGED <<sayings, decisions, enforcement, settled, raced, withdrawn>>
  BY DEF Owner!Plan, Owner!logs, Owner!past
<1>2. DOMAIN pending' = Agents /\ \A b \in Agents : pending'[b] = IF b = a THEN row ELSE pending[b]
  BY <1>1 DEF OwnerInv, OwnerIsTyped
<1>3. \A s : Owner!Recorded(s)' = Owner!Recorded(s) /\ Owner!Retired(s)' = Owner!Retired(s)
  BY <1>1 DEF Owner!Recorded, Owner!Retired, Owner!Kind, Owner!First
<1>4. \A d : /\ Owner!Opened(d)' = Owner!Opened(d) /\ Owner!Resolutions(d)' = Owner!Resolutions(d)
             /\ Owner!AnswerTo(d)' = Owner!AnswerTo(d)
  BY <1>1 DEF Owner!Opened, Owner!Resolutions, Owner!AnswerTo, Owner!Kind, Owner!First, Owner!Last_
<1>5. OwnerIsTyped'
  BY <1>1, <1>2 DEF OwnerInv, OwnerIsTyped
<1>6. CallsFoundTheirs'
  BY <1>2, <1>3, <1>4 DEF OwnerInv, CallsFoundTheirs
<1>7. WithdrawnAreRetired'
  BY <1>1, <1>3 DEF OwnerInv, WithdrawnAreRetired
<1>8. SettledAreAnswered'
  <2> SUFFICES ASSUME NEW d \in Decisions \ raced, settled[d] # NoRow
               PROVE  /\ Owner!Opened(d) /\ Owner!Resolutions(d) # {} /\ Owner!AnswerTo(d) = settled[d]
                      /\ \A b \in Agents : ~Owner!Resolving(b, d)'
    BY <1>1, <1>4 DEF SettledAreAnswered
  <2>1. /\ Owner!Opened(d) /\ Owner!Resolutions(d) # {} /\ Owner!AnswerTo(d) = settled[d]
        /\ \A b \in Agents : ~Owner!Resolving(b, d)
    BY DEF OwnerInv, SettledAreAnswered
  <2>2. ~(row.kind = "resolved" /\ row.id = d)
    BY <2>1
  <2> QED BY <1>2, <2>1, <2>2 DEF Owner!Resolving, Owner!Idle
<1> QED BY <1>5, <1>6, <1>7, <1>8 DEF OwnerInv

LEMMA AppendsKeepOwnerInv ==
  ASSUME OwnerInv, NEW a \in Agents, Owner!AppendRow(a)
  PROVE  OwnerInv'
<1> DEFINE row == pending[a]
<1>1. /\ row # NoRow /\ pending' = [pending EXCEPT ![a] = NoRow]
      /\ sayings' = (IF row.log = "sayings" THEN Append(sayings, row) ELSE sayings)
      /\ decisions' = (IF row.log = "decisions" THEN Append(decisions, row) ELSE decisions)
      /\ settled' = (IF row.kind = "resolved" /\ settled[row.id] = NoRow
                     THEN [settled EXCEPT ![row.id] = row.answer] ELSE settled)
      /\ raced' = (IF row.kind = "resolved" /\ \E b \in Agents \ {a} : Owner!Resolving(b, row.id)
                   THEN raced \union {row.id} ELSE raced)
      /\ withdrawn' = (IF row.kind = "retired" THEN withdrawn \union {row.id} ELSE withdrawn)
  BY DEF Owner!AppendRow, Owner!Idle
<1>2. DOMAIN pending' = Agents /\ \A b \in Agents : pending'[b] = IF b = a THEN NoRow ELSE pending[b]
  BY <1>1 DEF OwnerInv, OwnerIsTyped
<1>3. /\ row \in SayingRows \union DecisionRows \union EnforcementRows
      /\ row.kind = "retired" => Owner!Recorded(row.id)
      /\ row.kind = "resolved" => Owner!Opened(row.id)
  BY <1>1 DEF OwnerInv, OwnerIsTyped, CallsFoundTheirs
<1>4. /\ row.log = "sayings" <=> row \in SayingRows
      /\ row.log = "decisions" <=> row \in DecisionRows
      /\ row.kind = "retired" => row \in SayingRows
      /\ row.kind = "resolved" => row \in DecisionRows /\ row.id \in Decisions
  BY <1>3 DEF SayingRows, DecisionRows, EnforcementRows
<1> HIDE DEF row
<1>5. ASSUME NEW s, Owner!Recorded(s)
      PROVE  Owner!Recorded(s)' /\ (Owner!Retired(s) \/ (row.kind = "retired" /\ row.id = s) => Owner!Retired(s)')
  <2>1. CASE row \in SayingRows
    BY <1>1, <1>4, <1>5, <2>1, SayingsStay DEF OwnerInv, OwnerIsTyped
  <2>2. CASE row \notin SayingRows
    <3>1. sayings' = sayings /\ row.kind # "retired"
      BY <1>1, <1>4, <2>2
    <3> QED BY <1>5, <3>1 DEF Owner!Recorded, Owner!Retired, Owner!Kind, Owner!First
  <2> QED BY <2>1, <2>2
<1>6. ASSUME NEW d, Owner!Opened(d)
      PROVE  /\ Owner!Opened(d)'
             /\ row.kind = "resolved" /\ row.id = d =>
                  Owner!Resolutions(d)' # {} /\ Owner!AnswerTo(d)' = row.answer
             /\ Owner!Resolutions(d) # {} /\ ~(row.kind = "resolved" /\ row.id = d) =>
                  Owner!Resolutions(d)' # {} /\ Owner!AnswerTo(d)' = Owner!AnswerTo(d)
  <2>1. CASE row \in DecisionRows
    BY <1>1, <1>4, <1>6, <2>1, QuestionsStay DEF OwnerInv, OwnerIsTyped
  <2>2. CASE row \notin DecisionRows
    <3>1. decisions' = decisions /\ row.kind # "resolved"
      BY <1>1, <1>4, <2>2
    <3>2. /\ Owner!Opened(d)' = Owner!Opened(d) /\ Owner!Resolutions(d)' = Owner!Resolutions(d)
          /\ Owner!AnswerTo(d)' = Owner!AnswerTo(d)
      BY <3>1 DEF Owner!Opened, Owner!Resolutions, Owner!AnswerTo, Owner!Kind, Owner!First, Owner!Last_
    <3> QED BY <1>6, <3>1, <3>2
  <2> QED BY <2>1, <2>2
<1>7. OwnerIsTyped'
  <2>1. sayings' \in Seq(SayingRows) /\ decisions' \in Seq(DecisionRows)
    BY <1>1, <1>4 DEF OwnerInv, OwnerIsTyped
  <2>2. DOMAIN settled' = Decisions
    BY <1>1 DEF OwnerInv, OwnerIsTyped
  <2> QED BY <1>2, <2>1, <2>2 DEF OwnerInv, OwnerIsTyped
<1>8. CallsFoundTheirs'
  BY <1>2, <1>5, <1>6 DEF OwnerInv, CallsFoundTheirs
<1>9. WithdrawnAreRetired'
  BY <1>1, <1>3, <1>5 DEF OwnerInv, WithdrawnAreRetired
<1>10. SettledAreAnswered'
  <2> SUFFICES ASSUME NEW d \in Decisions, d \notin raced', settled'[d] # NoRow
               PROVE  /\ Owner!Opened(d)' /\ Owner!Resolutions(d)' # {} /\ Owner!AnswerTo(d)' = settled'[d]
                      /\ \A b \in Agents : ~Owner!Resolving(b, d)'
    BY DEF SettledAreAnswered
  <2>1. d \notin raced
    BY <1>1
  <2>2. \A b \in Agents : Owner!Resolving(b, d)' => b # a /\ Owner!Resolving(b, d)
    BY <1>2 DEF Owner!Resolving, Owner!Idle
  <2>3. CASE row.kind = "resolved" /\ row.id = d
    <3>1. \A b \in Agents \ {a} : ~Owner!Resolving(b, d)
      BY <1>1, <2>3
    <3>2. Owner!Resolving(a, d)
      BY <1>1, <2>3 DEF Owner!Resolving, Owner!Idle, row
    <3>3. settled[d] = NoRow
      BY <2>1, <3>2 DEF OwnerInv, SettledAreAnswered
    <3>4. settled'[d] = row.answer
      BY <1>1, <2>3, <3>3 DEF OwnerInv, OwnerIsTyped
    <3> QED BY <1>3, <1>6, <2>2, <2>3, <3>1, <3>4
  <2>4. CASE ~(row.kind = "resolved" /\ row.id = d)
    <3>1. settled'[d] = settled[d]
      BY <1>1, <2>4 DEF OwnerInv, OwnerIsTyped
    <3>2. /\ Owner!Opened(d) /\ Owner!Resolutions(d) # {} /\ Owner!AnswerTo(d) = settled[d]
          /\ \A b \in Agents : ~Owner!Resolving(b, d)
      BY <2>1, <3>1 DEF OwnerInv, SettledAreAnswered
    <3> QED BY <1>6, <2>2, <2>4, <3>1, <3>2
  <2> QED BY <2>3, <2>4
<1> QED BY <1>7, <1>8, <1>9, <1>10 DEF OwnerInv

LEMMA OwnerInvStays ==
  ASSUME OwnerInv, [Owner!ONext]_(Owner!ovars) PROVE OwnerInv'
<1>1. ASSUME NEW a \in Agents, NEW s \in Sayings, Owner!SayingRecord(a, s) PROVE OwnerInv'
  <2> DEFINE row == [log |-> "sayings", kind |-> "saying", id |-> s]
  <2>1. Owner!Idle(a) /\ Owner!Plan(a, row)
    BY <1>1 DEF Owner!SayingRecord
  <2>2. row \in SayingRows /\ row.kind = "saying"
    BY DEF SayingRows
  <2> HIDE DEF row
  <2> QED BY <2>1, <2>2, PlansKeepOwnerInv
<1>2. ASSUME NEW a \in Agents, NEW s \in Sayings, Owner!SayingRetire(a, s) PROVE OwnerInv'
  <2> DEFINE row == [log |-> "sayings", kind |-> "retired", id |-> s]
  <2>1. Owner!Idle(a) /\ Owner!Recorded(s) /\ Owner!Plan(a, row)
    BY <1>2 DEF Owner!SayingRetire
  <2>2. row \in SayingRows /\ row.kind = "retired" /\ row.id = s
    BY DEF SayingRows
  <2> HIDE DEF row
  <2> QED BY <2>1, <2>2, PlansKeepOwnerInv
<1>3. ASSUME NEW a \in Agents, NEW s \in Sayings, NEW l \in Levels, NEW by \in SUBSET Paths,
             Owner!SayingClassify(a, s, l, by)
      PROVE  OwnerInv'
  <2> DEFINE row == [log |-> "enforcement", kind |-> "enforcement", id |-> s, level |-> l, by |-> by]
  <2>1. Owner!Idle(a) /\ Owner!Plan(a, row)
    BY <1>3 DEF Owner!SayingClassify
  <2>2. row \in EnforcementRows /\ row.kind = "enforcement"
    BY DEF EnforcementRows
  <2> HIDE DEF row
  <2> QED BY <2>1, <2>2, PlansKeepOwnerInv
<1>4. ASSUME NEW a \in Agents, NEW d \in Decisions, NEW p, Owner!DecisionEnqueue(a, d, p) PROVE OwnerInv'
  <2> DEFINE row == [log |-> "decisions", kind |-> "open", id |-> d]
  <2>1. Owner!Idle(a) /\ Owner!Plan(a, row)
    BY <1>4 DEF Owner!DecisionEnqueue
  <2>2. row \in DecisionRows /\ row.kind = "open"
    BY DEF DecisionRows
  <2> HIDE DEF row
  <2> QED BY <2>1, <2>2, PlansKeepOwnerInv
<1>5. ASSUME NEW a \in Agents, NEW d \in Decisions, NEW x \in Answers, Owner!DecisionResolve(a, d, x)
      PROVE  OwnerInv'
  <2> DEFINE row == [log |-> "decisions", kind |-> "resolved", id |-> d, answer |-> x]
  <2>1. Owner!Idle(a) /\ Owner!Opened(d) /\ Owner!Resolutions(d) = {} /\ Owner!Plan(a, row)
    BY <1>5 DEF Owner!DecisionResolve, Owner!MayResolve, Owner!Status
  <2>2. row \in DecisionRows /\ row.kind = "resolved" /\ row.id = d
    BY DEF DecisionRows
  <2> HIDE DEF row
  <2> QED BY <2>1, <2>2, PlansKeepOwnerInv
<1>6. ASSUME UNCHANGED <<sayings, decisions, settled, raced, withdrawn>>,
             DOMAIN pending' = Agents, \A b \in Agents : pending'[b] \in {pending[b], NoRow}
      PROVE  OwnerInv'
  <2>1. \A s : Owner!Recorded(s)' = Owner!Recorded(s) /\ Owner!Retired(s)' = Owner!Retired(s)
    BY <1>6 DEF Owner!Recorded, Owner!Retired, Owner!Kind, Owner!First
  <2>2. \A d : /\ Owner!Opened(d)' = Owner!Opened(d) /\ Owner!Resolutions(d)' = Owner!Resolutions(d)
               /\ Owner!AnswerTo(d)' = Owner!AnswerTo(d)
    BY <1>6 DEF Owner!Opened, Owner!Resolutions, Owner!AnswerTo, Owner!Kind, Owner!First, Owner!Last_
  <2>3. OwnerIsTyped' /\ CallsFoundTheirs' /\ WithdrawnAreRetired'
    BY <1>6, <2>1, <2>2 DEF OwnerInv, OwnerIsTyped, CallsFoundTheirs, WithdrawnAreRetired
  <2>4. \A b \in Agents, d \in Decisions : Owner!Resolving(b, d)' => Owner!Resolving(b, d)
    BY <1>6 DEF Owner!Resolving, Owner!Idle
  <2>5. SettledAreAnswered'
    BY <1>6, <2>2, <2>4 DEF OwnerInv, SettledAreAnswered
  <2> QED BY <2>3, <2>5 DEF OwnerInv
<1>7. ASSUME NEW a \in Agents, Owner!KillAgent(a) PROVE OwnerInv'
  BY <1>6, <1>7 DEF Owner!KillAgent, Owner!logs, Owner!past, OwnerInv, OwnerIsTyped
<1>8. CASE UNCHANGED Owner!ovars
  BY <1>6, <1>8 DEF Owner!ovars, Owner!logs, Owner!past, OwnerInv, OwnerIsTyped
<1> QED BY <1>1, <1>2, <1>3, <1>4, <1>5, <1>7, <1>8, AppendsKeepOwnerInv DEF Owner!ONext

LEMMA OwnerInvBegins == Owner!OInit => OwnerInv
<1> SUFFICES ASSUME Owner!OInit PROVE OwnerInv
  OBVIOUS
<1>1. /\ sayings = <<>> /\ decisions = <<>> /\ pending = [a \in Agents |-> NoRow]
      /\ settled = [d \in Decisions |-> NoRow] /\ withdrawn = {}
  BY DEF Owner!OInit
<1> QED BY <1>1 DEF OwnerInv, OwnerIsTyped, CallsFoundTheirs, WithdrawnAreRetired, SettledAreAnswered

(* A saying whose retirement was reported never reaches a search again. *)
THEOREM RetiredAlwaysStaysRetired == Owner!OSpec => []Owner!RetiredStaysRetired
<1>1. OwnerInv => Owner!RetiredStaysRetired
  BY DEF OwnerInv, WithdrawnAreRetired, Owner!RetiredStaysRetired, Owner!Found, Owner!LiveSayings
<1> QED BY <1>1, OwnerInvBegins, OwnerInvStays, PTL DEF Owner!OSpec

(* The answer a resolve reported stands, unless two resolves overlapped. *)
THEOREM AnswersAlwaysStand == Owner!OSpec => []Owner!AnswersStand
<1>1. OwnerInv => Owner!AnswersStand
  BY DEF OwnerInv, SettledAreAnswered, Owner!AnswersStand, Owner!OpenDecisions, Owner!Status
<1> QED BY <1>1, OwnerInvBegins, OwnerInvStays, PTL DEF Owner!OSpec

-----------------------------------------------------------------------------
(* Outcomes. *)
CONSTANTS Clients, Usages, Rewards, Keys, MaxReports, NoKey
VARIABLES usages, outcomes, lockedBy, report, reports, acknowledged

Outcome == INSTANCE Outcomes WITH answered <- acknowledged

(* No client is nobody. *)
NoKeyIsNoClient == NoKey \notin Clients

Fingerprints == [usage : Usages, reward : Rewards, key : Keys \union {NoKey}]
OutcomesAreTyped ==
  /\ usages \in Seq(Usages) /\ outcomes \in Seq(Fingerprints) /\ DOMAIN report = Clients
  /\ \A c \in Clients : report[c] # NoKey =>
       report[c] \in [step : {"lock", "check", "append", "answer"}, fp : Fingerprints]
(* Past the lock a client is alone; what it appends is new, what it answers is there. *)
ReportersAreAlone ==
  \A c \in Clients : report[c] # NoKey =>
    /\ report[c].step # "lock" => lockedBy = c
    /\ report[c].step = "append" => Outcome!Prior(report[c].fp) = {}
    /\ report[c].step = "answer" => report[c].fp \in ToSet(outcomes)
OutcomesInv == OutcomesAreTyped /\ ReportersAreAlone /\ Outcome!KeysNameOneOutcome

(* The steps that leave the log of outcomes alone. *)
LEMMA ReportsKeepOutcomesInv ==
  ASSUME OutcomesInv, UNCHANGED outcomes, usages' \in Seq(Usages), OutcomesAreTyped',
         acknowledged' \subseteq acknowledged \union ToSet(outcomes),
         \A c \in Clients : report'[c] # NoKey =>
           \/ report'[c] = report[c] /\ (lockedBy' = lockedBy \/ report[c].step = "lock")
           \/ /\ report'[c].step # "lock" => lockedBy' = c
              /\ report'[c].step = "append" => Outcome!Prior(report'[c].fp) = {}
              /\ report'[c].step # "answer"
  PROVE  OutcomesInv'
<1>1. \A f : Outcome!Prior(f)' = Outcome!Prior(f)
  BY DEF Outcome!Prior, Outcome!KeyOf
<1>2. ReportersAreAlone'
  <2> SUFFICES ASSUME NEW c \in Clients, report'[c] # NoKey
               PROVE  /\ report'[c].step # "lock" => lockedBy' = c
                      /\ report'[c].step = "append" => Outcome!Prior(report'[c].fp) = {}
                      /\ report'[c].step = "answer" => report'[c].fp \in ToSet(outcomes)
    BY <1>1 DEF ReportersAreAlone, Outcome!Prior, Outcome!KeyOf
  <2>1. /\ report[c] # NoKey /\ report[c].step # "lock" => lockedBy = c
        /\ report[c] # NoKey /\ report[c].step = "append" => Outcome!Prior(report[c].fp) = {}
        /\ report[c] # NoKey /\ report[c].step = "answer" => report[c].fp \in ToSet(outcomes)
    BY DEF OutcomesInv, ReportersAreAlone
  <2>2. CASE report'[c] = report[c] /\ (lockedBy' = lockedBy \/ report[c].step = "lock")
    <3>1. report'[c].step = report[c].step /\ report'[c].fp = report[c].fp /\ report[c] # NoKey
      BY <2>2
    <3>2. report[c].step # "lock" => lockedBy' = lockedBy
      BY <2>2
    <3> QED BY <2>1, <3>1, <3>2
  <2>3. CASE /\ report'[c].step # "lock" => lockedBy' = c
             /\ report'[c].step = "append" => Outcome!Prior(report'[c].fp) = {}
             /\ report'[c].step # "answer"
    BY <2>3
  <2> QED BY <2>2, <2>3
<1>3. Outcome!KeysNameOneOutcome'
  BY DEF OutcomesInv, Outcome!KeysNameOneOutcome, Outcome!ToSet, ToSet
<1> QED BY <1>2, <1>3 DEF OutcomesInv

LEMMA OutcomesInvStays ==
  ASSUME NoKeyIsNoClient, OutcomesInv, [Outcome!UNext]_(Outcome!uvars) PROVE OutcomesInv'
<1> USE DEF NoKeyIsNoClient
<1>1. OutcomesAreTyped
  BY DEF OutcomesInv
<1>2. ASSUME NEW u \in Usages, Outcome!RecordUsage(u) PROVE OutcomesInv'
  <2>1. usages' = Append(usages, u) /\ UNCHANGED <<outcomes, lockedBy, report, acknowledged>>
    BY <1>2 DEF Outcome!RecordUsage
  <2>2. OutcomesAreTyped' /\ usages' \in Seq(Usages)
    BY <1>1, <2>1 DEF OutcomesAreTyped
  <2> QED BY <2>1, <2>2, ReportsKeepOutcomesInv
<1>3. ASSUME NEW c \in Clients, NEW u \in Usages, NEW w \in Rewards, NEW k \in Keys \union {NoKey},
             Outcome!ReportOutcome(c, u, w, k)
      PROVE  OutcomesInv'
  <2> DEFINE call0 == [step |-> "lock", fp |-> [usage |-> u, reward |-> w, key |-> k]]
  <2>1. report' = [report EXCEPT ![c] = call0] /\ UNCHANGED <<usages, outcomes, lockedBy, acknowledged>>
    BY <1>3 DEF Outcome!ReportOutcome
  <2>2. call0 \in [step : {"lock", "check", "append", "answer"}, fp : Fingerprints] /\ call0.step = "lock"
    BY DEF Fingerprints
  <2> HIDE DEF call0
  <2>3. OutcomesAreTyped'
    BY <1>1, <2>1, <2>2 DEF OutcomesAreTyped
  <2> QED BY <1>1, <2>1, <2>2, <2>3, ReportsKeepOutcomesInv DEF OutcomesAreTyped
<1>4. ASSUME NEW c \in Clients, Outcome!BeginTransaction(c) PROVE OutcomesInv'
  <2>1. /\ report[c] # NoKey /\ report[c].step = "lock" /\ lockedBy = NoKey /\ lockedBy' = c
        /\ report' = [report EXCEPT ![c] = [report[c] EXCEPT !.step = "check"]]
        /\ UNCHANGED <<usages, outcomes, acknowledged>>
    BY <1>4 DEF Outcome!BeginTransaction, Outcome!AtStep, Outcome!Free
  <2>2. OutcomesAreTyped' /\ report'[c].step = "check"
    BY <1>1, <2>1 DEF OutcomesAreTyped
  <2>3. \A d \in Clients : report[d] # NoKey => report[d].step = "lock"
    BY <2>1 DEF OutcomesInv, ReportersAreAlone
  <2>4. \A d \in Clients : d # c => report'[d] = report[d]
    BY <1>1, <2>1 DEF OutcomesAreTyped
  <2> QED BY <1>1, <2>1, <2>2, <2>3, <2>4, ReportsKeepOutcomesInv DEF OutcomesAreTyped
<1>5. ASSUME NEW c \in Clients, Outcome!CheckKey(c) PROVE OutcomesInv'
  <2>1. report[c] # NoKey /\ report[c].step = "check" /\ UNCHANGED <<usages, outcomes>>
    BY <1>5 DEF Outcome!CheckKey, Outcome!AtStep
  <2>2. CASE Outcome!Prior(report[c].fp) = {}
    <3>1. /\ report' = [report EXCEPT ![c] = [report[c] EXCEPT !.step = "append"]]
          /\ UNCHANGED <<lockedBy, acknowledged>>
      BY <1>5, <2>2 DEF Outcome!CheckKey
    <3>2. OutcomesAreTyped' /\ report'[c].step = "append" /\ report'[c].fp = report[c].fp
      BY <1>1, <2>1, <3>1 DEF OutcomesAreTyped
    <3>3. lockedBy = c
      BY <2>1 DEF OutcomesInv, ReportersAreAlone
    <3>4. \A d \in Clients : d # c => report'[d] = report[d]
      BY <1>1, <3>1 DEF OutcomesAreTyped
    <3> QED BY <1>1, <2>1, <2>2, <3>1, <3>2, <3>3, <3>4, ReportsKeepOutcomesInv DEF OutcomesAreTyped
  <2>3. CASE Outcome!Prior(report[c].fp) # {}
    <3>1. /\ report' = [report EXCEPT ![c] = NoKey] /\ lockedBy' = NoKey
          /\ acknowledged' = IF Outcome!SameOutcome(c) THEN acknowledged \union {report[c].fp} ELSE acknowledged
      BY <1>5, <2>3 DEF Outcome!CheckKey
    <3>2. acknowledged' \subseteq acknowledged \union ToSet(outcomes)
      BY <3>1, Elements DEF Outcome!SameOutcome, Outcome!Prior
    <3>3. OutcomesAreTyped'
      BY <1>1, <2>1, <3>1 DEF OutcomesAreTyped
    <3>4. \A d \in Clients : report'[d] # NoKey => d # c /\ report'[d] = report[d]
      BY <1>1, <3>1 DEF OutcomesAreTyped
    <3>5. \A d \in Clients : report[d] # NoKey /\ d # c => report[d].step = "lock"
      BY <2>1 DEF OutcomesInv, ReportersAreAlone
    <3> QED BY <1>1, <2>1, <3>2, <3>3, <3>4, <3>5, ReportsKeepOutcomesInv DEF OutcomesAreTyped
  <2> QED BY <2>2, <2>3
<1>6. ASSUME NEW c \in Clients, Outcome!AppendOutcome(c) PROVE OutcomesInv'
  <2> DEFINE f == report[c].fp
  <2>1. /\ report[c] # NoKey /\ report[c].step = "append" /\ outcomes' = Append(outcomes, f)
        /\ report' = [report EXCEPT ![c] = [report[c] EXCEPT !.step = "answer"]]
        /\ UNCHANGED <<usages, lockedBy, acknowledged>>
    BY <1>6 DEF Outcome!AppendOutcome, Outcome!AtStep
  <2>2. f \in Fingerprints /\ Outcome!Prior(f) = {} /\ lockedBy = c
    BY <1>1, <2>1 DEF OutcomesAreTyped, OutcomesInv, ReportersAreAlone
  <2>3. report'[c].step = "answer" /\ report'[c].fp = f /\ \A d \in Clients : d # c => report'[d] = report[d]
    BY <1>1, <2>1 DEF OutcomesAreTyped
  <2> DEFINE n == Len(outcomes) + 1
  <2>4. /\ outcomes' \in Seq(Fingerprints) /\ DOMAIN outcomes' = DOMAIN outcomes \union {n}
        /\ \A i \in DOMAIN outcomes : outcomes'[i] = outcomes[i]
        /\ outcomes'[n] = f /\ ToSet(outcomes') = ToSet(outcomes) \union {f}
    BY <1>1, <2>1, <2>2, LogsGrow DEF OutcomesAreTyped
  <2>5. OutcomesAreTyped'
    BY <1>1, <2>1, <2>4 DEF OutcomesAreTyped
  <2> HIDE DEF f, n
  <2>6. ReportersAreAlone'
    <3>1. \A d \in Clients : d # c /\ report[d] # NoKey => report[d].step = "lock"
      BY <2>2 DEF OutcomesInv, ReportersAreAlone
    <3> QED BY <2>1, <2>2, <2>3, <2>4, <3>1 DEF ReportersAreAlone
  <2>7. Outcome!KeysNameOneOutcome'
    <3>1. \A i \in DOMAIN outcomes : Outcome!KeyOf(outcomes[i]) # Outcome!KeyOf(f)
      BY <2>2 DEF Outcome!Prior
    <3>2. \A i, j \in DOMAIN outcomes' : Outcome!KeyOf(outcomes'[i]) = Outcome!KeyOf(outcomes'[j]) => i = j
      BY <2>4, <3>1 DEF OutcomesInv, Outcome!KeysNameOneOutcome
    <3>3. acknowledged' \subseteq ToSet(outcomes')
      BY <2>1, <2>4 DEF OutcomesInv, Outcome!KeysNameOneOutcome, Outcome!ToSet, ToSet
    <3> QED BY <3>2, <3>3 DEF Outcome!KeysNameOneOutcome, Outcome!ToSet, ToSet
  <2> QED BY <2>5, <2>6, <2>7 DEF OutcomesInv
<1>7. ASSUME NEW c \in Clients, Outcome!AnswerReport(c) PROVE OutcomesInv'
  <2>1. /\ report[c] # NoKey /\ report[c].step = "answer" /\ report' = [report EXCEPT ![c] = NoKey]
        /\ lockedBy' = NoKey /\ acknowledged' = acknowledged \union {report[c].fp}
        /\ UNCHANGED <<usages, outcomes>>
    BY <1>7 DEF Outcome!AnswerReport, Outcome!AtStep
  <2>2. OutcomesAreTyped'
    BY <1>1, <2>1 DEF OutcomesAreTyped
  <2>3. \A d \in Clients : report'[d] # NoKey => d # c /\ report'[d] = report[d]
    BY <1>1, <2>1 DEF OutcomesAreTyped
  <2>4. /\ \A d \in Clients : report[d] # NoKey /\ d # c => report[d].step = "lock"
        /\ report[c].fp \in ToSet(outcomes)
    BY <2>1 DEF OutcomesInv, ReportersAreAlone
  <2> QED BY <1>1, <2>1, <2>2, <2>3, <2>4, ReportsKeepOutcomesInv DEF OutcomesAreTyped
<1>8. ASSUME NEW c \in Clients, Outcome!KillReport(c) PROVE OutcomesInv'
  <2>1. /\ report[c] # NoKey /\ report' = [report EXCEPT ![c] = NoKey]
        /\ lockedBy' = (IF lockedBy = c THEN NoKey ELSE lockedBy)
        /\ UNCHANGED <<usages, outcomes, acknowledged>>
    BY <1>8 DEF Outcome!KillReport
  <2>2. OutcomesAreTyped'
    BY <1>1, <2>1 DEF OutcomesAreTyped
  <2>3. \A d \in Clients : report'[d] # NoKey => d # c /\ report'[d] = report[d]
    BY <1>1, <2>1 DEF OutcomesAreTyped
  <2>4. \A d \in Clients : report[d] # NoKey /\ d # c => report[d].step = "lock" \/ lockedBy = d
    BY DEF OutcomesInv, ReportersAreAlone
  <2>5. \A d \in Clients : report'[d] # NoKey =>
          report'[d] = report[d] /\ (lockedBy' = lockedBy \/ report[d].step = "lock")
    BY <2>1, <2>3, <2>4
  <2> QED BY <1>1, <2>1, <2>2, <2>5, ReportsKeepOutcomesInv DEF OutcomesAreTyped
<1>9. CASE UNCHANGED Outcome!uvars
  <2>1. UNCHANGED <<usages, outcomes, lockedBy, report, acknowledged>>
    BY <1>9 DEF Outcome!uvars
  <2>2. OutcomesAreTyped'
    BY <1>1, <2>1 DEF OutcomesAreTyped
  <2> QED BY <1>1, <2>1, <2>2, ReportsKeepOutcomesInv DEF OutcomesAreTyped
<1> QED BY <1>2, <1>3, <1>4, <1>5, <1>6, <1>7, <1>8, <1>9 DEF Outcome!UNext

(* However reports are repeated, a key names one outcome and what was acknowledged is recorded. *)
THEOREM KeysAlwaysNameOneOutcome ==
  ASSUME NoKeyIsNoClient PROVE Outcome!USpec => []Outcome!KeysNameOneOutcome
<1>1. Outcome!UInit => OutcomesInv
  <2> SUFFICES ASSUME Outcome!UInit PROVE OutcomesInv
    OBVIOUS
  <2>1. /\ usages = <<>> /\ outcomes = <<>> /\ report = [c \in Clients |-> NoKey] /\ acknowledged = {}
    BY DEF Outcome!UInit
  <2> QED BY <2>1 DEF OutcomesInv, OutcomesAreTyped, ReportersAreAlone, Outcome!KeysNameOneOutcome
<1>2. OutcomesInv => Outcome!KeysNameOneOutcome
  BY DEF OutcomesInv
<1> QED BY <1>1, <1>2, OutcomesInvStays, PTL DEF Outcome!USpec

-----------------------------------------------------------------------------
(* The reports of the state contract. *)
CONSTANTS Matters, FilingTimes, Lifetimes, MaxShown, MaxWords, ReportIds, Sightings
VARIABLES focus, authority, filings, tornLogs, reading, filed

Contract == INSTANCE Standing WITH
  Subjects <- Matters, Instants <- FilingTimes, Ttls <- Lifetimes, MaxActive <- MaxShown, MaxRecords <- MaxWords,
  Operations <- ReportIds, Observations <- Sightings, torn <- tornLogs, reports <- filings

ReportVerdicts == {Contract!Evaluate(seen, cs) : seen \in Sightings, cs \in {Contract!DefaultConstraints, Contract!CandidateConstraints}}
ReportRows == [op : ReportIds, report : ReportVerdicts]
ReportsInv ==
  /\ filings \in Seq(ReportRows) /\ filed \in [ReportIds -> Seq(ReportVerdicts)]
  /\ \A i, j \in 1 .. Len(filings) : filings[i].op = filings[j].op => i = j
  /\ \A i \in 1 .. Len(filings) : filed[filings[i].op] = <<filings[i].report>>

LEMMA ReportsStart == Contract!GInit => ReportsInv
<1> SUFFICES ASSUME Contract!GInit PROVE ReportsInv
  OBVIOUS
<1>1. filings = <<>> /\ filed = [op \in ReportIds |-> <<>>]
  BY DEF Contract!GInit
<1>2. filings \in Seq(ReportRows) /\ Len(filings) = 0 /\ <<>> \in Seq(ReportVerdicts)
  BY <1>1
<1> QED BY <1>1, <1>2 DEF ReportsInv

LEMMA FileKeeps ==
  ASSUME ReportsInv, NEW op \in ReportIds, NEW seen \in Sightings,
         NEW cs \in {Contract!DefaultConstraints, Contract!CandidateConstraints}, Contract!File(op, seen, cs)
  PROVE  ReportsInv'
<1> DEFINE ruling == Contract!Evaluate(seen, cs)
           row == [op |-> op, report |-> ruling]
<1>1. Contract!Record(op, ruling)
  BY DEF Contract!File
<1>2. ruling \in ReportVerdicts
  BY DEF ReportVerdicts
<1> HIDE DEF ruling
<1>3. CASE Contract!Known(op)
  BY <1>1, <1>3 DEF Contract!Record, ReportsInv
<1>4. CASE ~Contract!Known(op)
  <2>1. filings' = Append(filings, row) /\ filed' = [filed EXCEPT ![op] = <<ruling>>]
    BY <1>1, <1>4 DEF Contract!Record
  <2>2. filings \in Seq(ReportRows) /\ filed \in [ReportIds -> Seq(ReportVerdicts)] /\ row \in ReportRows
        /\ row.op = op /\ row.report = ruling
    BY <1>2 DEF ReportsInv, ReportRows
  <2> HIDE DEF row
  <2>3. /\ filings' \in Seq(ReportRows) /\ Len(filings') = Len(filings) + 1 /\ Len(filings) \in Nat
        /\ filings'[Len(filings) + 1] = row /\ \A i \in 1 .. Len(filings) : filings'[i] = filings[i]
    BY <2>1, <2>2
  <2>4. <<ruling>> \in Seq(ReportVerdicts)
    BY <1>2
  <2>5. filed' \in [ReportIds -> Seq(ReportVerdicts)] /\ \A o \in ReportIds : filed'[o] = IF o = op THEN <<ruling>> ELSE filed[o]
    BY <2>1, <2>2, <2>4
  <2>6. \A i \in 1 .. Len(filings) : filings[i].op # op /\ filings[i].op \in ReportIds
    <3>1. ASSUME NEW i \in 1 .. Len(filings) PROVE filings[i].op # op /\ filings[i].op \in ReportIds
      <4>1. filings[i] \in ReportRows
        BY <2>2
      <4>2. DOMAIN filings = 1 .. Len(filings)
        BY <2>2
      <4> QED BY <1>4, <4>1, <4>2 DEF Contract!Known, ReportRows
    <3> QED BY <3>1
  <2>7. ASSUME NEW i \in 1 .. Len(filings'), NEW j \in 1 .. Len(filings'), filings'[i].op = filings'[j].op PROVE i = j
    <3>1. (i \in 1 .. Len(filings) \/ i = Len(filings) + 1) /\ (j \in 1 .. Len(filings) \/ j = Len(filings) + 1)
      BY <2>3
    <3>2. CASE i \in 1 .. Len(filings) /\ j \in 1 .. Len(filings)
      BY <2>3, <2>7, <3>2 DEF ReportsInv
    <3>3. CASE i = Len(filings) + 1 /\ j \in 1 .. Len(filings)
      BY <2>2, <2>3, <2>6, <2>7, <3>3
    <3>4. CASE j = Len(filings) + 1 /\ i \in 1 .. Len(filings)
      BY <2>2, <2>3, <2>6, <2>7, <3>4
    <3> QED BY <3>1, <3>2, <3>3, <3>4
  <2>8. ASSUME NEW i \in 1 .. Len(filings') PROVE filed'[filings'[i].op] = <<filings'[i].report>>
    <3>1. CASE i \in 1 .. Len(filings)
      BY <2>3, <2>5, <2>6, <3>1 DEF ReportsInv
    <3>2. CASE i = Len(filings) + 1
      BY <2>2, <2>3, <2>5, <3>2
    <3> QED BY <2>3, <3>1, <3>2
  <2> QED BY <2>3, <2>5, <2>7, <2>8 DEF ReportsInv
<1> QED BY <1>3, <1>4

(* However often an operation of the state contract is called, it has one report, *)
(* and that is the one its callers were answered (state_contract.py,              *)
(* state_contract_record): a later call with other findings is refused.           *)
THEOREM ContractReportsAreFiledOnce == Contract!GSpec => []Contract!ReportsAreFiledOnce
<1>1. Contract!GInit => ReportsInv
  BY ReportsStart
<1>2. ReportsInv /\ [Contract!GNext]_(Contract!gvars) => ReportsInv'
  <2> SUFFICES ASSUME ReportsInv, [Contract!GNext]_(Contract!gvars) PROVE ReportsInv'
    OBVIOUS
  <2>1. CASE UNCHANGED <<filings, filed>>
    BY <2>1 DEF ReportsInv
  <2>2. ASSUME NEW op \in ReportIds, NEW seen \in Sightings,
               NEW cs \in {Contract!DefaultConstraints, Contract!CandidateConstraints}, Contract!File(op, seen, cs)
        PROVE  ReportsInv'
    BY <2>2, FileKeeps
  <2>3. ASSUME NEW which, NEW s, NEW at, NEW ttl,
               \/ Contract!Withdraw(which, s, at) \/ Contract!Say(which, s, at, ttl) \/ Contract!Ask(which, at, ttl) \/ Contract!Tear(which)
        PROVE  UNCHANGED <<filings, filed>>
    BY <2>3 DEF Contract!Withdraw, Contract!Say, Contract!Ask, Contract!Tear
  <2>4. UNCHANGED Contract!gvars => UNCHANGED <<filings, filed>>
    BY DEF Contract!gvars
  <2> QED BY <2>1, <2>2, <2>3, <2>4 DEF Contract!GNext
<1>3. ReportsInv => Contract!ReportsAreFiledOnce
  <2> SUFFICES ASSUME ReportsInv PROVE Contract!ReportsAreFiledOnce
    OBVIOUS
  <2>1. DOMAIN filings = 1 .. Len(filings)
    BY DEF ReportsInv
  <2> QED BY <2>1 DEF ReportsInv, Contract!ReportsAreFiledOnce
<1> QED BY <1>1, <1>2, <1>3, PTL DEF Contract!GSpec

-----------------------------------------------------------------------------
(* The registers of channels, tasks and agents. *)
CONSTANTS Clerks, TaskFiles, AgentFiles, ChannelFiles, MaxErrands, NoFileYet, HalfWritten, NoErrand
VARIABLES register, archived, errand, errands, shared, entered

Register == INSTANCE Registers WITH
  Callers <- Clerks, Tasks <- TaskFiles, Agents <- AgentFiles, Channels <- ChannelFiles, MaxCalls <- MaxErrands,
  Absent <- NoFileYet, Torn <- HalfWritten, NoCall <- NoErrand,
  json <- register, archive <- archived, call <- errand, calls <- errands, disturbed <- shared

RegisterFiles == TaskFiles \cup AgentFiles \cup ChannelFiles
RegisterRecords == [status : {"none", "data", "active", "completed"}, agent : AgentFiles \cup {""}, entries : Seq(Nat),
                    keys : SUBSET {"k", "l"}]
Entering == [ids : SUBSET Nat, keys : SUBSET {"k", "l"}]
TaskDos == {"start", "update", "delegate", "archive", "delete"}
AnyChange == [file : RegisterFiles, do : TaskDos \cup {"save", "append"},
              arg : AgentFiles \cup {"", "k", "l", "active", "completed"}, id : Nat]
RegisterChanges ==
  {s \in AnyChange :
     /\ s.file \in TaskFiles <=> s.do \in TaskDos
     /\ s.do = "update" => s.arg \in {"active", "completed"}
     /\ s.do = "delegate" => s.arg \in AgentFiles
     /\ s.do = "save" => s.arg \in {"k", "l"}}
Errands == [todo : Seq(RegisterChanges), held : RegisterRecords, at : {"load", "merge", "open", "write"}]
(* A task, an agent and a channel have files of their own, and what stands for *)
(* no file, for a torn one and for no call is none.                            *)
RegistersAreApart ==
  /\ TaskFiles \cap (AgentFiles \cup ChannelFiles) = {}
  /\ NoFileYet \notin RegisterRecords /\ HalfWritten \notin RegisterRecords /\ NoFileYet # HalfWritten
  /\ NoErrand \notin Errands

WellPlanned(k) ==
  /\ Len(k.todo) <= 2 /\ (Len(k.todo) = 2 => k.todo[1].file # k.todo[2].file /\ k.todo[2].do = "append")
  /\ k.at # "load" => k.todo # <<>> /\ ~Register!Moves(Head(k.todo))
RegisterTyped ==
  /\ register \in [RegisterFiles -> RegisterRecords \cup {NoFileYet, HalfWritten}]
  /\ entered \in [RegisterFiles -> Entering] /\ errands \in Nat
  /\ errand \in [Clerks -> {NoErrand} \cup Errands]
  /\ \A c \in Clerks : errand[c] # NoErrand => WellPlanned(errand[c])

Told(rec) == [ids |-> Register!ToSet(rec.entries), keys |-> rec.keys]
Named(rec, f) == f \in TaskFiles => rec = Register!Empty \/ rec.status \in {"active", "completed"}
Settled(f) == register[f] # HalfWritten /\ entered[f] = Told(Register!Load(f)) /\ Named(Register!Load(f), f)
Works(c) == errand[c] # NoErrand /\ errand[c].todo # <<>>
Next1(c) == Head(errand[c].todo)
Writing(c, f) == Works(c) /\ errand[c].at = "write" /\ Next1(c).file = f
(* What a caller holds is what its file told, with its own entry. *)
HoldsWell(c) ==
  LET s == Next1(c) IN
  /\ errand[c].at = "merge" => errand[c].held = Register!Changed(Register!Load(s.file), s) /\ Register!Merges(s)
  /\ errand[c].at \in {"open", "write"} => Told(errand[c].held) = Register!EnteredBy(entered[s.file], s) /\ Named(errand[c].held, s.file)
  /\ Register!Moves(s) => register[s.file] \in {NoFileYet} \cup {r \in RegisterRecords : r.status = "completed"}
RegisterInv ==
  /\ RegisterTyped
  /\ \A f \in RegisterFiles \ shared : \A c, d \in Clerks : Register!Touches(c, f) /\ Register!Touches(d, f) => c = d
  /\ \A f \in RegisterFiles \ shared : Settled(f) \/ \E c \in Clerks : Writing(c, f)
  /\ \A c \in Clerks : Works(c) /\ Next1(c).file \notin shared => HoldsWell(c)
  /\ \A r \in archived : r.task \in shared \/ r.was = "completed"

LEMMA EmptyRecord ==
  /\ Register!Empty \in RegisterRecords /\ Register!Empty.entries = <<>> /\ Register!Empty.keys = {}
  /\ Register!Empty.status = "none"
BY DEF Register!Empty, RegisterRecords

LEMMA LoadIs ==
  ASSUME RegisterTyped, NEW f \in RegisterFiles
  PROVE  Register!Load(f) \in RegisterRecords
BY EmptyRecord DEF RegisterTyped, Register!Load

LEMMA WhoTouches ==
  ASSUME RegisterTyped, NEW c \in Clerks, Works(c)
  PROVE  /\ Next1(c) \in RegisterChanges /\ Next1(c).file \in RegisterFiles /\ Register!Touches(c, Next1(c).file)
         /\ errand[c] \in Errands /\ WellPlanned(errand[c]) /\ Next1(c) = Register!Step(c)
         /\ Tail(errand[c].todo) \in Seq(RegisterChanges) /\ Len(Tail(errand[c].todo)) <= 1
         /\ \A i \in DOMAIN Tail(errand[c].todo) : /\ Tail(errand[c].todo)[i].do = "append"
                                                  /\ Tail(errand[c].todo)[i].file # Next1(c).file
                                                  /\ Register!Touches(c, Tail(errand[c].todo)[i].file)
<1> DEFINE t == errand[c].todo
<1>1. errand[c] \in Errands /\ errand[c] # NoErrand /\ t # <<>> /\ WellPlanned(errand[c])
  BY DEF RegisterTyped, Works
<1>2. t \in Seq(RegisterChanges)
  BY <1>1 DEF Errands
<1>3. Len(t) <= 2 /\ (Len(t) = 2 => t[1].file # t[2].file /\ t[2].do = "append")
  BY <1>1 DEF WellPlanned
<1>4. \A i \in DOMAIN t : Register!Touches(c, t[i].file)
  BY <1>1 DEF Register!Touches
<1>5. Next1(c) = Head(t) /\ Next1(c) = Register!Step(c)
  BY DEF Next1, Register!Step
<1> HIDE DEF t
<1>6. Head(t) = t[1] /\ t[1] \in RegisterChanges /\ 1 \in DOMAIN t /\ Len(t) \in 1 .. 2 /\ DOMAIN t = 1 .. Len(t)
  <2>1. Len(t) \in Nat /\ Len(t) # 0 /\ Head(t) = t[1] /\ DOMAIN t = 1 .. Len(t)
    BY <1>1, <1>2
  <2>2. Len(t) \in 1 .. 2 /\ 1 \in DOMAIN t
    BY <1>3, <2>1
  <2>3. t[1] \in RegisterChanges
    BY <1>2, <2>1, <2>2
  <2> QED BY <2>1, <2>2, <2>3
<1>7. Tail(t) \in Seq(RegisterChanges) /\ Len(Tail(t)) = Len(t) - 1
      /\ \A i \in DOMAIN Tail(t) : i = 1 /\ Len(t) = 2 /\ Tail(t)[i] = t[2]
  BY <1>2, <1>6
<1>8. t[1].file \in RegisterFiles
  BY <1>6 DEF RegisterChanges, AnyChange
<1>9. Len(Tail(t)) <= 1
  BY <1>6, <1>7
<1>10. \A i \in DOMAIN Tail(t) : Tail(t)[i].do = "append" /\ Tail(t)[i].file # t[1].file /\ Register!Touches(c, Tail(t)[i].file)
  BY <1>3, <1>4, <1>6, <1>7
<1> QED BY <1>1, <1>4, <1>5, <1>6, <1>7, <1>8, <1>9, <1>10 DEF t
(* What a change makes of a record, and what its file has entered then. *)
LEMMA EnteredIs ==
  ASSUME NEW rec \in RegisterRecords, NEW e \in Nat, NEW r, r = Register!Entered(rec, e)
  PROVE  /\ r \in RegisterRecords /\ Register!ToSet(r.entries) = Register!ToSet(rec.entries) \cup {e} /\ r.keys = rec.keys
         /\ r.status = rec.status /\ r.entries # <<>>
<1>1. rec.entries \in Seq(Nat)
  BY DEF RegisterRecords
<1>2. r = [rec EXCEPT !.entries = Append(rec.entries, e)]
  BY DEF Register!Entered
<1>3. PICK s : s = rec.entries
  OBVIOUS
<1>4. PICK t : t = Append(s, e)
  OBVIOUS
<1>5. t \in Seq(Nat) /\ Len(t) = Len(s) + 1 /\ t[Len(s) + 1] = e /\ \A i \in 1 .. Len(s) : t[i] = s[i]
  BY <1>1, <1>3, <1>4
<1>6. t # <<>> /\ DOMAIN s = 1 .. Len(s) /\ DOMAIN t = 1 .. Len(s) + 1 /\ Len(s) \in Nat
  BY <1>1, <1>3, <1>5
<1>7. {t[i] : i \in DOMAIN t} = {s[i] : i \in DOMAIN s} \cup {e}
  <2>1. \A i \in DOMAIN t : t[i] = e \/ (i \in DOMAIN s /\ t[i] = s[i])
    BY <1>5, <1>6
  <2>2. \A i \in DOMAIN s : i \in DOMAIN t /\ t[i] = s[i]
    BY <1>5, <1>6
  <2>3. Len(s) + 1 \in DOMAIN t /\ t[Len(s) + 1] = e
    BY <1>5, <1>6
  <2> QED BY <2>1, <2>2, <2>3
<1>8. r \in RegisterRecords /\ r.entries = t /\ r.keys = rec.keys /\ r.status = rec.status
  BY <1>2, <1>3, <1>4, <1>5 DEF RegisterRecords
<1>9. Register!ToSet(t) = {t[i] : i \in DOMAIN t} /\ Register!ToSet(s) = {s[i] : i \in DOMAIN s}
  BY DEF Register!ToSet
<1>10. Register!ToSet(t) = Register!ToSet(s) \cup {e}
  BY <1>7, <1>9
<1> QED BY <1>3, <1>6, <1>8, <1>10

LEMMA MergedIs ==
  ASSUME NEW rec \in RegisterRecords, NEW data \in RegisterRecords, NEW r, r = Register!Merged(rec, data)
  PROVE  /\ r \in RegisterRecords /\ r.keys = data.keys \cup rec.keys
         /\ r.entries = IF data.entries = <<>> THEN rec.entries ELSE data.entries
<1>1. r = [data EXCEPT !.keys = data.keys \cup rec.keys,
                       !.entries = IF data.entries = <<>> THEN rec.entries ELSE data.entries]
  BY DEF Register!Merged
<1>2. (IF data.entries = <<>> THEN rec.entries ELSE data.entries) \in Seq(Nat)
  BY DEF RegisterRecords
<1>3. data.keys \cup rec.keys \in SUBSET {"k", "l"}
  BY DEF RegisterRecords
<1>4. r.keys = data.keys \cup rec.keys /\ r.entries = IF data.entries = <<>> THEN rec.entries ELSE data.entries
  BY <1>1 DEF RegisterRecords
<1>5. r \in RegisterRecords
  BY <1>1, <1>2, <1>3 DEF RegisterRecords
<1> QED BY <1>4, <1>5

LEMMA AfterIs ==
  ASSUME NEW rec \in RegisterRecords, NEW s \in RegisterChanges, ~Register!Moves(s)
  PROVE  Register!EnteredBy(Told(rec), s) =
           IF s.do = "start" THEN [ids |-> {s.id}, keys |-> {}]
           ELSE IF s.do = "save" THEN [ids |-> Register!ToSet(rec.entries), keys |-> rec.keys \cup {s.arg}]
           ELSE [ids |-> Register!ToSet(rec.entries) \cup {s.id}, keys |-> rec.keys]
<1>1. Told(rec) = [ids |-> Register!ToSet(rec.entries), keys |-> rec.keys]
  BY DEF Told
<1>2. CASE s.do = "start"
  BY <1>2 DEF Register!EnteredBy
<1>3. CASE s.do = "save"
  BY <1>1, <1>3 DEF Register!EnteredBy
<1>4. CASE s.do # "start" /\ s.do # "save"
  <2>1. Register!EnteredBy(Told(rec), s) = [Told(rec) EXCEPT !.ids = @ \cup {s.id}]
    BY <1>4 DEF Register!EnteredBy
  <2>2. [Told(rec) EXCEPT !.ids = @ \cup {s.id}]
          = [ids |-> Register!ToSet(rec.entries) \cup {s.id}, keys |-> rec.keys]
    BY <1>1
  <2> QED BY <1>4, <2>1, <2>2
<1> QED BY <1>2, <1>3, <1>4

LEMMA ChangedTells ==
  ASSUME NEW rec \in RegisterRecords, NEW s \in RegisterChanges, ~Register!Moves(s), Named(rec, s.file),
         s.do \in {"update", "delegate"} => rec # Register!Empty,
         NEW r, r = Register!Changed(rec, s)
  PROVE  /\ r \in RegisterRecords
         /\ ~Register!Merges(s) => Told(r) = Register!EnteredBy(Told(rec), s) /\ Named(r, s.file)
         /\ Register!Merges(s) =>
              /\ Told(Register!Merged(rec, r)) = Register!EnteredBy(Told(rec), s) /\ Named(Register!Merged(rec, r), s.file)
<1>1. s.do \in {"start", "update", "delegate", "save", "append"} /\ s.id \in Nat /\ s.file \in RegisterFiles
      /\ (s.file \in TaskFiles <=> s.do \in {"start", "update", "delegate"})
      /\ (s.do = "update" => s.arg \in {"active", "completed"}) /\ (s.do = "delegate" => s.arg \in AgentFiles)
      /\ (s.do = "save" => s.arg \in {"k", "l"})
  BY DEF RegisterChanges, AnyChange, TaskDos, Register!Moves
<1>2. Register!Merges(s) <=> s.do \in {"save", "append"}
  BY DEF Register!Merges
<1>3. CASE s.do = "start"
  <2> DEFINE b == [Register!Empty EXCEPT !.status = "active"]
  <2>1. b \in RegisterRecords /\ b.entries = <<>> /\ b.keys = {} /\ b.status = "active"
    BY EmptyRecord DEF RegisterRecords
  <2>2. r = Register!Entered(b, s.id)
    BY <1>3 DEF Register!Changed, Register!NewTask
  <2> HIDE DEF b
  <2>3. /\ r \in RegisterRecords /\ Register!ToSet(r.entries) = Register!ToSet(b.entries) \cup {s.id} /\ r.keys = b.keys
        /\ r.status = b.status
    BY <1>1, <2>1, <2>2, EnteredIs
  <2>4. Register!ToSet(b.entries) = {}
    BY <2>1 DEF Register!ToSet
  <2>5. Told(r) = Register!EnteredBy(Told(rec), s)
    BY <1>3, <2>1, <2>3, <2>4, AfterIs DEF Told
  <2> QED BY <1>2, <1>3, <2>1, <2>3, <2>5 DEF Named
<1>4. CASE s.do = "update"
  <2> DEFINE b == [rec EXCEPT !.status = s.arg]
  <2>1. b \in RegisterRecords /\ b.entries = rec.entries /\ b.keys = rec.keys /\ b.status \in {"active", "completed"}
    BY <1>1, <1>4 DEF RegisterRecords
  <2>2. r = Register!Entered(b, s.id)
    BY <1>4 DEF Register!Changed, Register!Updated
  <2> HIDE DEF b
  <2>3. /\ r \in RegisterRecords /\ Register!ToSet(r.entries) = Register!ToSet(b.entries) \cup {s.id} /\ r.keys = b.keys
        /\ r.status = b.status
    BY <1>1, <2>1, <2>2, EnteredIs
  <2>5. Told(r) = Register!EnteredBy(Told(rec), s)
    BY <1>4, <2>1, <2>3, AfterIs DEF Told
  <2> QED BY <1>2, <1>4, <2>1, <2>3, <2>5 DEF Named
<1>5. CASE s.do = "delegate"
  <2> DEFINE b == [rec EXCEPT !.agent = s.arg]
  <2>1. b \in RegisterRecords /\ b.entries = rec.entries /\ b.keys = rec.keys /\ b.status = rec.status
    BY <1>1, <1>5 DEF RegisterRecords
  <2>2. r = Register!Entered(b, s.id)
    BY <1>5 DEF Register!Changed, Register!Delegated
  <2> HIDE DEF b
  <2>3. /\ r \in RegisterRecords /\ Register!ToSet(r.entries) = Register!ToSet(b.entries) \cup {s.id} /\ r.keys = b.keys
        /\ r.status = b.status
    BY <1>1, <2>1, <2>2, EnteredIs
  <2>5. Told(r) = Register!EnteredBy(Told(rec), s)
    BY <1>5, <2>1, <2>3, AfterIs DEF Told
  <2>6. rec.status \in {"active", "completed"}
    BY <1>1, <1>5 DEF Named
  <2> QED BY <1>2, <1>5, <2>1, <2>3, <2>5, <2>6 DEF Named
<1>6. CASE s.do = "save"
  <2>1. r = [Register!Empty EXCEPT !.status = "data", !.keys = {s.arg}]
    BY <1>6 DEF Register!Changed
  <2>2. r \in RegisterRecords /\ r.entries = <<>> /\ r.keys = {s.arg}
    <3>1. PICK b : b = Register!Empty
      OBVIOUS
    <3>2. PICK keys : keys = {s.arg}
      OBVIOUS
    <3>3. b \in RegisterRecords /\ b.entries = <<>>
      BY <3>1, EmptyRecord
    <3>4. keys \in SUBSET {"k", "l"}
      BY <1>1, <1>6, <3>2
    <3>5. r = [b EXCEPT !.status = "data", !.keys = keys]
      BY <2>1, <3>1, <3>2
    <3>6. r \in RegisterRecords /\ r.entries = <<>> /\ r.keys = keys
      BY <3>3, <3>4, <3>5 DEF RegisterRecords
    <3> QED BY <3>2, <3>6
  <2>3. PICK m : m = Register!Merged(rec, r)
    OBVIOUS
  <2>4. m.keys = {s.arg} \cup rec.keys /\ m.entries = rec.entries
    BY <2>2, <2>3, MergedIs
  <2>5. Told(m) = Register!EnteredBy(Told(rec), s)
    BY <1>6, <2>4, AfterIs DEF Told
  <2> QED BY <1>1, <1>2, <1>6, <2>2, <2>3, <2>5 DEF Named
<1>7. CASE s.do = "append"
  <2> DEFINE b == [rec EXCEPT !.status = "data"]
  <2>1. b \in RegisterRecords /\ b.entries = rec.entries /\ b.keys = rec.keys
    BY DEF RegisterRecords
  <2>2. r = Register!Entered(b, s.id)
    BY <1>7 DEF Register!Changed
  <2> HIDE DEF b
  <2>3. /\ r \in RegisterRecords /\ Register!ToSet(r.entries) = Register!ToSet(b.entries) \cup {s.id} /\ r.keys = b.keys
        /\ r.entries # <<>>
    BY <1>1, <2>1, <2>2, EnteredIs
  <2>4. PICK m : m = Register!Merged(rec, r)
    OBVIOUS
  <2>5. m.keys = rec.keys /\ m.entries = r.entries
    <3>1. m.keys = r.keys \cup rec.keys /\ m.entries = IF r.entries = <<>> THEN rec.entries ELSE r.entries
      BY <2>3, <2>4, MergedIs
    <3>2. r.keys \cup rec.keys = rec.keys
      BY <2>1, <2>3
    <3> QED BY <2>3, <3>1, <3>2
  <2>6. Told(m) = Register!EnteredBy(Told(rec), s)
    BY <1>7, <2>1, <2>3, <2>5, AfterIs DEF Told
  <2> QED BY <1>1, <1>2, <1>7, <2>3, <2>4, <2>6 DEF Named
<1> QED BY <1>1, <1>3, <1>4, <1>5, <1>6, <1>7
(* A step of a call changes one file at most, the one at the head of what it has to do. *)
LEMMA ErrandSteps ==
  ASSUME RegistersAreApart, RegisterInv, NEW c \in Clerks, Works(c), NEW f, f = Next1(c).file, NEW k \in Errands, WellPlanned(k),
         k.todo = errand[c].todo \/ (k.todo = Tail(errand[c].todo) /\ k.at = "load"),
         errand' = [errand EXCEPT ![c] = k], shared' = shared, errands' = errands,
         register' \in [RegisterFiles -> RegisterRecords \cup {NoFileYet, HalfWritten}],
         entered' \in [RegisterFiles -> Entering],
         \A g \in RegisterFiles : g # f => register'[g] = register[g] /\ entered'[g] = entered[g],
         \A r \in archived' : r.task \in shared \/ r.was = "completed",
         f \notin shared => Settled(f)' \/ (k.todo = errand[c].todo /\ k.at = "write"),
         f \notin shared /\ k.todo = errand[c].todo => HoldsWell(c)'
  PROVE  RegisterInv'
<1>1. RegisterTyped
  BY DEF RegisterInv
<1>2. /\ Next1(c) \in RegisterChanges /\ f \in RegisterFiles /\ Register!Touches(c, f) /\ Tail(errand[c].todo) \in Seq(RegisterChanges)
      /\ \A i \in DOMAIN Tail(errand[c].todo) : /\ Tail(errand[c].todo)[i].do = "append"
                                               /\ Register!Touches(c, Tail(errand[c].todo)[i].file)
  BY <1>1, WhoTouches
<1>3. \A d \in Clerks : errand'[d] = IF d = c THEN k ELSE errand[d]
  BY <1>1 DEF RegisterTyped
<1>4. k # NoErrand /\ errand[c] # NoErrand /\ errand[c].todo # <<>>
  BY DEF RegistersAreApart, Works
<1>5. RegisterTyped'
  <2>1. errand' \in [Clerks -> {NoErrand} \cup Errands]
    BY <1>1 DEF RegisterTyped
  <2>2. \A d \in Clerks : errand'[d] # NoErrand => WellPlanned(errand'[d])
    BY <1>1, <1>3 DEF RegisterTyped
  <2>3. errands' \in Nat
    BY <1>1 DEF RegisterTyped
  <2> QED BY <2>1, <2>2, <2>3 DEF RegisterTyped, WellPlanned
<1>6. ASSUME NEW d \in Clerks, NEW g, Register!Touches(d, g)' PROVE Register!Touches(d, g)
  <2>1. CASE d # c
    BY <1>3, <1>6, <2>1 DEF Register!Touches
  <2>2. CASE d = c /\ k.todo = errand[c].todo
    BY <1>3, <1>4, <1>6, <2>2 DEF Register!Touches
  <2>3. CASE d = c /\ k.todo = Tail(errand[c].todo)
    <3>1. \E i \in DOMAIN k.todo : k.todo[i].file = g
      BY <1>3, <1>6, <2>3 DEF Register!Touches
    <3> QED BY <1>2, <2>3, <3>1
  <2> QED BY <2>1, <2>2, <2>3
<1>7. ASSUME NEW g \in RegisterFiles \ shared', NEW d \in Clerks, NEW e \in Clerks, Register!Touches(d, g)', Register!Touches(e, g)'
      PROVE  d = e
  <2>1. Register!Touches(d, g) /\ Register!Touches(e, g)
    BY <1>6, <1>7
  <2> QED BY <1>7, <2>1 DEF RegisterInv
<1>8. ASSUME NEW d \in Clerks, d # c, Works(d)' PROVE Works(d) /\ Next1(d)' = Next1(d) /\ (Next1(d).file \notin shared => Next1(d).file # f)
  <2>1. Works(d) /\ Next1(d)' = Next1(d)
    BY <1>3, <1>8 DEF Works, Next1
  <2>2. Register!Touches(d, Next1(d).file) /\ Next1(d).file \in RegisterFiles
    BY <1>1, <2>1, WhoTouches
  <2>3. Next1(d).file \notin shared => Next1(d).file # f
    BY <1>2, <1>8, <2>2 DEF RegisterInv
  <2> QED BY <2>1, <2>3
<1>9. ASSUME NEW g \in RegisterFiles \ shared' PROVE Settled(g)' \/ \E d \in Clerks : Writing(d, g)'
  <2>1. CASE g = f
    <3>1. CASE k.todo = errand[c].todo /\ k.at = "write"
      <4>1. Writing(c, g)'
        BY <1>3, <1>4, <2>1, <3>1 DEF Writing, Works, Next1
      <4> QED BY <4>1
    <3> QED BY <1>9, <2>1, <3>1
  <2>2. CASE g # f /\ Settled(g)
    BY <2>2 DEF Settled, Register!Load
  <2>3. ASSUME g # f, NEW d \in Clerks, Writing(d, g) PROVE \E e \in Clerks : Writing(e, g)'
    <3>1. d # c
      BY <2>3 DEF Writing
    <3>2. Writing(d, g)'
      BY <1>3, <2>3, <3>1 DEF Writing, Works, Next1
    <3> QED BY <3>2
  <2> QED BY <1>9, <2>1, <2>2, <2>3 DEF RegisterInv
<1>10. ASSUME NEW d \in Clerks, Works(d)', Next1(d)'.file \notin shared' PROVE HoldsWell(d)'
  <2>1. CASE d # c
    <3>1. Works(d) /\ Next1(d)' = Next1(d) /\ Next1(d).file \notin shared /\ Next1(d).file # f /\ Next1(d).file \in RegisterFiles
      BY <1>1, <1>8, <1>10, <2>1, WhoTouches
    <3>2. HoldsWell(d) /\ errand'[d] = errand[d]
      BY <1>3, <2>1, <3>1 DEF RegisterInv
    <3>3. register'[Next1(d).file] = register[Next1(d).file] /\ entered'[Next1(d).file] = entered[Next1(d).file]
      BY <3>1
    <3> QED BY <3>1, <3>2, <3>3 DEF HoldsWell, Register!Load
  <2>2. CASE d = c /\ k.todo = errand[c].todo
    <3>1. Next1(c)' = Next1(c)
      BY <1>3, <2>2 DEF Next1
    <3> QED BY <1>10, <2>2, <3>1
  <2>3. CASE d = c /\ k.todo # errand[c].todo
    <3>1. errand'[c] = k /\ k.at = "load" /\ k.todo = Tail(errand[c].todo) /\ k.todo # <<>>
      BY <1>3, <1>10, <2>3 DEF Works
    <3>2. Next1(c)' = k.todo[1] /\ 1 \in DOMAIN k.todo
      <4>1. PICK q : q = k.todo
        OBVIOUS
      <4>2. q \in Seq(RegisterChanges) /\ q # <<>>
        BY <1>2, <3>1, <4>1
      <4>3. Head(q) = q[1] /\ 1 \in DOMAIN q
        BY <4>2
      <4> QED BY <3>1, <4>1, <4>3 DEF Next1
    <3>3. ~Register!Moves(Next1(c)')
      BY <1>2, <3>1, <3>2 DEF Register!Moves
    <3> QED BY <2>3, <3>1, <3>3 DEF HoldsWell, Register!Moves
  <2> QED BY <2>1, <2>2, <2>3
<1>11. \A r \in archived' : r.task \in shared' \/ r.was = "completed"
  OBVIOUS
<1>12. (\A f_1 \in RegisterFiles \ shared : \A c_1, d \in Clerks : Register!Touches(c_1, f_1) /\ Register!Touches(d, f_1) => c_1 = d)'
  BY <1>7
<1>13. (\A f_1 \in RegisterFiles \ shared : Settled(f_1) \/ \E d \in Clerks : Writing(d, f_1))'
  BY <1>9
<1>14. (\A d \in Clerks : Works(d) /\ Next1(d).file \notin shared => HoldsWell(d))'
  BY <1>10
<1> QED BY <1>5, <1>11, <1>12, <1>13, <1>14 DEF RegisterInv

(* What a call at work finds in a file that no other call and no kill touched. *)
LEMMA WhatIsFound ==
  ASSUME RegisterInv, NEW c \in Clerks, Works(c), NEW f, f = Next1(c).file, f \notin shared
  PROVE  HoldsWell(c) /\ (errand[c].at # "write" => Settled(f))
<1>1. f \in RegisterFiles /\ Register!Touches(c, f)
  BY WhoTouches DEF RegisterInv
<1>2. ASSUME NEW d \in Clerks, Writing(d, f) PROVE d = c
  <2>1. Register!Touches(d, f)
    BY <1>2, WhoTouches DEF RegisterInv, Writing
  <2> QED BY <1>1, <2>1 DEF RegisterInv
<1>3. Settled(f) \/ \E d \in Clerks : Writing(d, f)
  BY <1>1 DEF RegisterInv
<1>4. errand[c].at # "write" => Settled(f)
  BY <1>2, <1>3 DEF Writing
<1> QED BY <1>4 DEF RegisterInv

LEMMA AtWork ==
  ASSUME NEW c \in Clerks, NEW at, Register!At(c, at) PROVE Works(c) /\ errand[c].at = at
BY DEF Register!At, Works

LEMMA LoadKeeps ==
  ASSUME RegistersAreApart, RegisterInv, NEW c \in Clerks, Register!LoadFile(c), NEW e, e = errand[c], NEW s, s = Next1(c),
         NEW rec, rec = Register!Load(s.file), NEW r, r = Register!Changed(rec, s)
  PROVE  RegisterInv'
<1> PICK k : k = IF Register!Skips(s) THEN [e EXCEPT !.todo = Tail(e.todo)]
                 ELSE [e EXCEPT !.held = r, !.at = IF Register!Merges(s) THEN "merge" ELSE "open"]
  OBVIOUS
<1>1. RegisterTyped /\ Works(c) /\ e.at = "load"
  BY AtWork DEF Register!LoadFile, RegisterInv
<1>2. /\ s \in RegisterChanges /\ s.file \in RegisterFiles /\ e \in Errands /\ WellPlanned(e) /\ s = Register!Step(c)
      /\ Tail(e.todo) \in Seq(RegisterChanges) /\ Len(Tail(e.todo)) <= 1
  BY <1>1, WhoTouches
<1>3. /\ ~Register!Moves(s) /\ errand' = [errand EXCEPT ![c] = k]
      /\ UNCHANGED <<register, archived, errands, shared, entered>>
  <2>1. /\ ~Register!Moves(Register!Step(c))
        /\ errand' = [errand EXCEPT ![c] =
             IF Register!Skips(Register!Step(c)) THEN [errand[c] EXCEPT !.todo = Tail(errand[c].todo)]
             ELSE [errand[c] EXCEPT !.held = Register!Changed(Register!Load(Register!Step(c).file), Register!Step(c)),
                                    !.at = IF Register!Merges(Register!Step(c)) THEN "merge" ELSE "open"]]
        /\ UNCHANGED <<register, archived, errands, shared, entered>>
    BY DEF Register!LoadFile
  <2> QED BY <1>2, <2>1
<1>4. rec \in RegisterRecords
  BY <1>1, <1>2, LoadIs
<1>5. r \in RegisterRecords
  <2>1. s.do \in {"start", "update", "delegate", "save", "append"} /\ s.id \in Nat /\ (s.do = "save" => s.arg \in {"k", "l"})
        /\ (s.do = "update" => s.arg \in {"active", "completed"}) /\ (s.do = "delegate" => s.arg \in AgentFiles)
    BY <1>2, <1>3 DEF RegisterChanges, AnyChange, TaskDos, Register!Moves
  <2>2. CASE s.do = "start"
    <3>1. [Register!Empty EXCEPT !.status = "active"] \in RegisterRecords
      BY EmptyRecord DEF RegisterRecords
    <3> QED BY <2>1, <2>2, <3>1, EnteredIs DEF Register!Changed, Register!NewTask
  <2>3. CASE s.do = "update"
    <3>1. [rec EXCEPT !.status = s.arg] \in RegisterRecords
      BY <1>4, <2>1, <2>3 DEF RegisterRecords
    <3> QED BY <2>1, <2>3, <3>1, EnteredIs DEF Register!Changed, Register!Updated
  <2>4. CASE s.do = "delegate"
    <3>1. [rec EXCEPT !.agent = s.arg] \in RegisterRecords
      BY <1>4, <2>1, <2>4 DEF RegisterRecords
    <3> QED BY <2>1, <2>4, <3>1, EnteredIs DEF Register!Changed, Register!Delegated
  <2>5. CASE s.do = "save"
    <3>1. PICK b, keys : b = Register!Empty /\ keys = {s.arg}
      OBVIOUS
    <3>2. b \in RegisterRecords /\ keys \in SUBSET {"k", "l"}
      BY <2>1, <2>5, <3>1, EmptyRecord
    <3>3. [b EXCEPT !.status = "data", !.keys = keys] \in RegisterRecords
      BY <3>2 DEF RegisterRecords
    <3> QED BY <2>5, <3>1, <3>3 DEF Register!Changed
  <2>6. CASE s.do = "append"
    <3>1. [rec EXCEPT !.status = "data"] \in RegisterRecords
      BY <1>4 DEF RegisterRecords
    <3> QED BY <2>1, <2>6, <3>1, EnteredIs DEF Register!Changed
  <2> QED BY <2>1, <2>2, <2>3, <2>4, <2>5, <2>6
<1>6. /\ k \in Errands /\ (Register!Skips(s) => k.todo = Tail(e.todo) /\ k.at = "load")
      /\ (~Register!Skips(s) => /\ k.todo = e.todo /\ k.held = r /\ k.at = IF Register!Merges(s) THEN "merge" ELSE "open")
  BY <1>1, <1>2, <1>5 DEF Errands
<1>7. e.todo # <<>> /\ s = Head(e.todo)
  BY <1>1 DEF Works, Next1
<1>8. WellPlanned(k)
  <2>1. CASE Register!Skips(s)
    <3>1. PICK q : q = Tail(e.todo)
      OBVIOUS
    <3>2. Len(q) <= 1 /\ q \in Seq(RegisterChanges) /\ Len(q) \in Nat
      BY <1>2, <3>1
    <3> QED BY <1>6, <2>1, <3>1, <3>2 DEF WellPlanned
  <2>2. CASE ~Register!Skips(s)
    BY <1>2, <1>3, <1>6, <1>7, <2>2 DEF WellPlanned
  <2> QED BY <2>1, <2>2
<1>9. ASSUME s.file \notin shared PROVE Settled(s.file)' /\ (k.todo = e.todo => HoldsWell(c)')
  <2>1. Settled(s.file)
    BY <1>1, <1>9, WhatIsFound
  <2>2. Settled(s.file)'
    BY <1>3, <2>1 DEF Settled, Register!Load
  <2>3. ASSUME k.todo = e.todo PROVE HoldsWell(c)'
    <3>1. errand'[c] = k
      BY <1>1, <1>3 DEF RegisterTyped
    <3>2. Next1(c)' = s
      BY <1>7, <2>3, <3>1 DEF Next1
    <3>3. ~Register!Skips(s)
      <4>1. PICK q : q = e.todo
        OBVIOUS
      <4>2. q \in Seq(RegisterChanges) /\ q # <<>>
        BY <1>2, <1>7, <4>1 DEF Errands
      <4>3. Len(Tail(q)) # Len(q)
        BY <4>2
      <4> QED BY <1>6, <2>3, <4>1, <4>3
    <3>4. k.held = r /\ k.at = IF Register!Merges(s) THEN "merge" ELSE "open"
      BY <1>6, <3>3
    <3>5. Register!Load(s.file)' = rec /\ entered'[s.file] = Told(rec) /\ Named(rec, s.file)
      BY <1>3, <2>1 DEF Settled, Register!Load
    <3>6. s.do \in {"update", "delegate"} => rec # Register!Empty
      BY <3>3 DEF Register!Skips, Register!Found
    <3>7. ~Register!Merges(s) => Told(r) = Register!EnteredBy(Told(rec), s) /\ Named(r, s.file)
      BY <1>2, <1>3, <1>4, <3>5, <3>6, ChangedTells
    <3>8. errand'[c].held = r /\ errand'[c].at = IF Register!Merges(s) THEN "merge" ELSE "open"
      BY <3>1, <3>4
    <3>9. HoldsWell(c)' <=>
            /\ errand'[c].at = "merge" => errand'[c].held = Register!Changed(Register!Load(s.file)', s) /\ Register!Merges(s)
            /\ errand'[c].at \in {"open", "write"} =>
                 Told(errand'[c].held) = Register!EnteredBy(entered'[s.file], s) /\ Named(errand'[c].held, s.file)
            /\ Register!Moves(s) =>
                 register'[s.file] \in {NoFileYet} \cup {x \in RegisterRecords : x.status = "completed"}
      BY <3>2 DEF HoldsWell, Told, Named, Register!EnteredBy
    <3>10. CASE Register!Merges(s)
      BY <1>3, <3>2, <3>5, <3>8, <3>9, <3>10
    <3>11. CASE ~Register!Merges(s)
      BY <1>3, <3>2, <3>5, <3>7, <3>8, <3>9, <3>11
    <3> QED BY <3>10, <3>11
  <2> QED BY <2>2, <2>3
<1>10. \A x \in archived' : x.task \in shared \/ x.was = "completed"
  BY <1>3 DEF RegisterInv
<1>11. /\ register' \in [RegisterFiles -> RegisterRecords \cup {NoFileYet, HalfWritten}]
       /\ entered' \in [RegisterFiles -> Entering]
  BY <1>1, <1>3 DEF RegisterTyped
<1>12. k.todo = e.todo \/ (k.todo = Tail(e.todo) /\ k.at = "load")
  BY <1>6
<1> QED BY <1>1, <1>3, <1>6, <1>8, <1>9, <1>10, <1>11, <1>12, ErrandSteps
(* The three steps that follow: merging, opening the file and writing it. *)
LEMMA SaveSteps ==
  ASSUME RegistersAreApart, RegisterInv, NEW c \in Clerks, Works(c), NEW e, e = errand[c], NEW s, s = Next1(c),
         e.at # "load", NEW k \in Errands,
         (k.todo = e.todo /\ k.at \in {"open", "write"}) \/ (k.todo = Tail(e.todo) /\ k.at = "load"),
         errand' = [errand EXCEPT ![c] = k], UNCHANGED <<archived, errands, shared>>,
         register' \in [RegisterFiles -> RegisterRecords \cup {NoFileYet, HalfWritten}], entered' \in [RegisterFiles -> Entering],
         \A g \in RegisterFiles : g # s.file => register'[g] = register[g] /\ entered'[g] = entered[g],
         s.file \notin shared /\ k.at # "write" => Settled(s.file)',
         s.file \notin shared /\ k.at # "load" =>
           Told(k.held) = Register!EnteredBy(entered'[s.file], s) /\ Named(k.held, s.file)
  PROVE  RegisterInv'
<1>1. RegisterTyped /\ e \in Errands /\ WellPlanned(e) /\ s = Head(e.todo) /\ e.todo # <<>> /\ s.file \in RegisterFiles
      /\ ~Register!Moves(s)
  BY WhoTouches DEF RegisterInv, Works, Next1, WellPlanned
<1>2. Tail(e.todo) \in Seq(RegisterChanges) /\ Len(Tail(e.todo)) <= 1
  BY <1>1, WhoTouches
<1>3. WellPlanned(k)
  <2>1. CASE k.todo = e.todo
    BY <1>1, <2>1 DEF WellPlanned
  <2>2. CASE k.todo = Tail(e.todo) /\ k.at = "load"
    <3>1. PICK q : q = Tail(e.todo)
      OBVIOUS
    <3>2. Len(q) <= 1 /\ Len(q) \in Nat
      BY <1>2, <3>1
    <3>3. k.todo = q /\ ~(k.at # "load")
      BY <2>2, <3>1
    <3>4. Len(k.todo) <= 2 /\ Len(k.todo) # 2
      BY <3>2, <3>3
    <3> QED BY <3>3, <3>4 DEF WellPlanned
  <2> QED BY <2>1, <2>2
<1>4. e.todo # Tail(e.todo)
  <2>1. PICK q : q = e.todo
    OBVIOUS
  <2>2. q \in Seq(RegisterChanges) /\ q # <<>>
    BY <1>1, <2>1 DEF Errands
  <2>3. Len(Tail(q)) # Len(q)
    BY <2>2
  <2> QED BY <2>1, <2>3
<1>5. ASSUME s.file \notin shared, k.todo = e.todo PROVE HoldsWell(c)'
  <2>1. errand'[c] = k /\ k.at \in {"open", "write"}
    BY <1>1, <1>4, <1>5 DEF RegisterTyped
  <2>2. Next1(c)' = s
    BY <1>1, <1>5, <2>1 DEF Next1
  <2>3. HoldsWell(c)' <=>
          /\ errand'[c].at = "merge" => errand'[c].held = Register!Changed(Register!Load(s.file)', s) /\ Register!Merges(s)
          /\ errand'[c].at \in {"open", "write"} =>
               Told(errand'[c].held) = Register!EnteredBy(entered'[s.file], s) /\ Named(errand'[c].held, s.file)
          /\ Register!Moves(s) =>
               register'[s.file] \in {NoFileYet} \cup {x \in RegisterRecords : x.status = "completed"}
    BY <2>2 DEF HoldsWell, Told, Named
  <2>4. errand'[c].at # "merge" /\ errand'[c].at \in {"open", "write"} /\ errand'[c].held = k.held
    BY <2>1
  <2> QED BY <1>1, <1>5, <2>1, <2>3, <2>4
<1>6. \A x \in archived' : x.task \in shared \/ x.was = "completed"
  BY DEF RegisterInv
<1>7. k.todo = errand[c].todo \/ (k.todo = Tail(errand[c].todo) /\ k.at = "load")
  OBVIOUS
<1>8. s.file \notin shared => Settled(s.file)' \/ (k.todo = errand[c].todo /\ k.at = "write")
  <2>1. k.at = "write" => k.todo = e.todo
    OBVIOUS
  <2> QED BY <2>1
<1>9. shared' = shared /\ errands' = errands
  OBVIOUS
<1> QED BY <1>3, <1>5, <1>6, <1>7, <1>8, <1>9, ErrandSteps

LEMMA MergeKeeps == ASSUME RegistersAreApart, RegisterInv, NEW c \in Clerks, Register!MergeFile(c) PROVE RegisterInv'
<1> PICK e, s, rec : e = errand[c] /\ s = Next1(c) /\ rec = Register!Load(s.file)
  OBVIOUS
<1> PICK m : m = Register!Merged(rec, e.held)
  OBVIOUS
<1> PICK k : k = [e EXCEPT !.held = m, !.at = "open"]
  OBVIOUS
<1>1. RegisterTyped /\ Works(c) /\ e.at = "merge"
  BY AtWork DEF Register!MergeFile, RegisterInv
<1>2. s \in RegisterChanges /\ s.file \in RegisterFiles /\ e \in Errands /\ WellPlanned(e) /\ s = Register!Step(c)
  BY <1>1, WhoTouches
<1>3. errand' = [errand EXCEPT ![c] = k] /\ UNCHANGED <<register, archived, errands, shared, entered>>
  BY <1>2 DEF Register!MergeFile
<1>4. rec \in RegisterRecords /\ e.held \in RegisterRecords
  BY <1>1, <1>2, LoadIs DEF Errands
<1>5. m \in RegisterRecords
  BY <1>4, MergedIs
<1>6. k \in Errands /\ k.todo = e.todo /\ k.held = m /\ k.at = "open"
  BY <1>2, <1>5 DEF Errands
<1>7. ASSUME s.file \notin shared
      PROVE  Settled(s.file)' /\ Told(m) = Register!EnteredBy(entered'[s.file], s) /\ Named(m, s.file)
  <2>1. Settled(s.file) /\ HoldsWell(c)
    BY <1>1, <1>7, WhatIsFound
  <2>2. Settled(s.file)'
    BY <1>3, <2>1 DEF Settled, Register!Load
  <2>3. e.held = Register!Changed(rec, s) /\ Register!Merges(s)
    BY <1>1, <2>1 DEF HoldsWell
  <2>4. Named(rec, s.file) /\ entered[s.file] = Told(rec)
    BY <2>1 DEF Settled
  <2>5. ~Register!Moves(s) /\ (s.do \in {"update", "delegate"} => rec # Register!Empty)
    BY <2>3 DEF Register!Merges, Register!Moves
  <2>6. Told(m) = Register!EnteredBy(Told(rec), s) /\ Named(m, s.file)
    BY <1>2, <1>4, <2>3, <2>4, <2>5, ChangedTells
  <2> QED BY <1>3, <2>2, <2>4, <2>6
<1>8. register' \in [RegisterFiles -> RegisterRecords \cup {NoFileYet, HalfWritten}] /\ entered' \in [RegisterFiles -> Entering]
  BY <1>1, <1>3 DEF RegisterTyped
<1>9. \A g \in RegisterFiles : g # s.file => register'[g] = register[g] /\ entered'[g] = entered[g]
  BY <1>3
<1> QED
  <2>1. e = errand[c] /\ s = Next1(c) /\ e.at # "load" /\ UNCHANGED <<archived, errands, shared>>
    BY <1>1, <1>3
  <2>2. s.file \notin shared /\ k.at # "write" => Settled(s.file)'
    BY <1>7
  <2>3. s.file \notin shared /\ k.at # "load" =>
          Told(k.held) = Register!EnteredBy(entered'[s.file], s) /\ Named(k.held, s.file)
    BY <1>6, <1>7
  <2>4. (k.todo = e.todo /\ k.at \in {"open", "write"}) \/ (k.todo = Tail(e.todo) /\ k.at = "load")
    BY <1>6
  <2> QED BY <1>1, <1>3, <1>6, <1>8, <1>9, <2>1, <2>2, <2>3, <2>4, SaveSteps

LEMMA OpenKeeps == ASSUME RegistersAreApart, RegisterInv, NEW c \in Clerks, Register!OpenFile(c) PROVE RegisterInv'
<1> PICK e, s : e = errand[c] /\ s = Next1(c)
  OBVIOUS
<1>0. PICK k : k = [e EXCEPT !.at = "write"]
  OBVIOUS
<1>1. RegisterTyped /\ Works(c) /\ e.at = "open"
  BY AtWork DEF Register!OpenFile, RegisterInv
<1>2. s \in RegisterChanges /\ s.file \in RegisterFiles /\ e \in Errands /\ s = Register!Step(c)
  BY <1>1, WhoTouches
<1>3. /\ errand' = [errand EXCEPT ![c] = k] /\ UNCHANGED <<archived, errands, shared, entered>>
      /\ register' = [register EXCEPT ![s.file] = HalfWritten]
  BY <1>0, <1>2 DEF Register!OpenFile
<1>4. k \in Errands /\ k.todo = e.todo /\ k.held = e.held /\ k.at = "write"
  BY <1>0, <1>2 DEF Errands
<1>5. ASSUME s.file \notin shared
      PROVE  Told(k.held) = Register!EnteredBy(entered'[s.file], s) /\ Named(k.held, s.file)
  <2>1. HoldsWell(c)
    BY <1>1, <1>5, WhatIsFound
  <2> QED BY <1>1, <1>3, <1>4, <2>1 DEF HoldsWell
<1>6. register' \in [RegisterFiles -> RegisterRecords \cup {NoFileYet, HalfWritten}] /\ entered' \in [RegisterFiles -> Entering]
  BY <1>1, <1>2, <1>3 DEF RegisterTyped
<1>7. \A g \in RegisterFiles : g # s.file => register'[g] = register[g] /\ entered'[g] = entered[g]
  BY <1>1, <1>3 DEF RegisterTyped
<1> QED
  <2>1. e = errand[c] /\ s = Next1(c) /\ e.at # "load" /\ UNCHANGED <<archived, errands, shared>>
    BY <1>1, <1>3
  <2>2. s.file \notin shared /\ k.at # "write" => Settled(s.file)'
    BY <1>4
  <2>3. s.file \notin shared /\ k.at # "load" =>
          Told(k.held) = Register!EnteredBy(entered'[s.file], s) /\ Named(k.held, s.file)
    BY <1>5
  <2>4. (k.todo = e.todo /\ k.at \in {"open", "write"}) \/ (k.todo = Tail(e.todo) /\ k.at = "load")
    <3>1. k.todo = e.todo /\ k.at \in {"open", "write"}
      BY <1>4
    <3> QED BY ONLY <3>1
  <2>5. Works(c) /\ k \in Errands /\ errand' = [errand EXCEPT ![c] = k]
    BY <1>1, <1>3, <1>4
  <2> QED BY <1>6, <1>7, <2>1, <2>2, <2>3, <2>4, <2>5, SaveSteps

LEMMA SavedKeeps == ASSUME RegistersAreApart, RegisterInv, NEW c \in Clerks, Register!WriteFile(c) PROVE RegisterInv'
<1> PICK e, s : e = errand[c] /\ s = Next1(c)
  OBVIOUS
<1>0. PICK k : k = [e EXCEPT !.todo = Tail(e.todo), !.held = Register!Empty, !.at = "load"]
  OBVIOUS
<1>1. RegisterTyped /\ Works(c) /\ e.at = "write"
  BY AtWork DEF Register!WriteFile, RegisterInv
<1>2. s \in RegisterChanges /\ s.file \in RegisterFiles /\ e \in Errands /\ WellPlanned(e) /\ s = Register!Step(c)
      /\ Tail(e.todo) \in Seq(RegisterChanges) /\ Head(e.todo) = s
  BY <1>1, WhoTouches DEF Next1
<1>3. /\ errand' = [errand EXCEPT ![c] = k] /\ UNCHANGED <<archived, errands, shared>>
      /\ register' = [register EXCEPT ![s.file] = e.held]
      /\ entered' = [entered EXCEPT ![s.file] = Register!EnteredBy(entered[s.file], s)]
  BY <1>0, <1>2 DEF Register!WriteFile
<1>4. k \in Errands /\ k.todo = Tail(e.todo) /\ k.at = "load" /\ e.held \in RegisterRecords
  BY <1>0, <1>2, EmptyRecord DEF Errands
<1>5. ~Register!Moves(s)
  BY <1>1, <1>2 DEF WellPlanned
<1>6. Register!EnteredBy(entered[s.file], s) \in Entering
  <2>1. entered[s.file] \in Entering /\ s.id \in Nat /\ (s.do = "save" => s.arg \in {"k", "l"})
    BY <1>1, <1>2 DEF RegisterTyped, RegisterChanges, AnyChange
  <2>2. PICK x : x = entered[s.file]
    OBVIOUS
  <2>3. CASE s.do = "save"
    <3>1. x.keys \cup {s.arg} \in SUBSET {"k", "l"}
      BY <2>1, <2>2, <2>3 DEF Entering
    <3>2. [x EXCEPT !.keys = x.keys \cup {s.arg}] \in Entering
      BY <2>1, <2>2, <3>1 DEF Entering
    <3> QED BY <2>2, <2>3, <3>2 DEF Register!EnteredBy
  <2>4. CASE s.do # "save"
    BY <2>1, <2>4 DEF Register!EnteredBy, Entering
  <2> QED BY <2>3, <2>4
<1>7. register' \in [RegisterFiles -> RegisterRecords \cup {NoFileYet, HalfWritten}] /\ entered' \in [RegisterFiles -> Entering]
  BY <1>1, <1>2, <1>3, <1>4, <1>6 DEF RegisterTyped
<1>8. \A g \in RegisterFiles : g # s.file => register'[g] = register[g] /\ entered'[g] = entered[g]
  BY <1>1, <1>3 DEF RegisterTyped
<1>9. ASSUME s.file \notin shared PROVE Settled(s.file)'
  <2>1. HoldsWell(c)
    BY <1>1, <1>9, WhatIsFound
  <2>2. Told(e.held) = Register!EnteredBy(entered[s.file], s) /\ Named(e.held, s.file)
    BY <1>1, <2>1 DEF HoldsWell
  <2>3. register'[s.file] = e.held /\ entered'[s.file] = Told(e.held)
    BY <1>1, <1>2, <1>3, <2>2 DEF RegisterTyped
  <2>4. e.held \notin {NoFileYet, HalfWritten}
    BY <1>4 DEF RegistersAreApart
  <2> QED BY <2>2, <2>3, <2>4 DEF Settled, Register!Load
<1> QED
  <2>1. e = errand[c] /\ s = Next1(c) /\ e.at # "load" /\ UNCHANGED <<archived, errands, shared>>
    BY <1>1, <1>3
  <2>2. s.file \notin shared /\ k.at # "write" => Settled(s.file)'
    BY <1>9
  <2>3. s.file \notin shared /\ k.at # "load" =>
          Told(k.held) = Register!EnteredBy(entered'[s.file], s) /\ Named(k.held, s.file)
    BY <1>4
  <2>4. (k.todo = e.todo /\ k.at \in {"open", "write"}) \/ (k.todo = Tail(e.todo) /\ k.at = "load")
    <3>1. k.todo = Tail(e.todo) /\ k.at = "load"
      BY <1>4
    <3> QED BY ONLY <3>1
  <2>5. Works(c) /\ k \in Errands /\ errand' = [errand EXCEPT ![c] = k]
    BY <1>1, <1>3, <1>4
  <2> QED BY <1>7, <1>8, <2>1, <2>2, <2>3, <2>4, <2>5, SaveSteps

(* A task that is moved away, or deleted, was seen completed and nobody else touched it. *)
LEMMA MoveKeeps == ASSUME RegistersAreApart, RegisterInv, NEW c \in Clerks, Register!MoveFile(c) PROVE RegisterInv'
<1> PICK e, s : e = errand[c] /\ s = Next1(c)
  OBVIOUS
<1>0. PICK k : k = [e EXCEPT !.todo = Tail(e.todo)]
  OBVIOUS
<1>1. RegisterTyped /\ Works(c) /\ e.at = "load"
  BY AtWork DEF Register!MoveFile, RegisterInv
<1>2. s \in RegisterChanges /\ s.file \in RegisterFiles /\ e \in Errands /\ WellPlanned(e) /\ s = Register!Step(c)
      /\ Tail(e.todo) \in Seq(RegisterChanges) /\ Len(Tail(e.todo)) <= 1
  BY <1>1, WhoTouches
<1>3. /\ errand' = [errand EXCEPT ![c] = k] /\ UNCHANGED <<errands, shared>>
      /\ Register!Moves(s) /\ register[s.file] # NoFileYet
      /\ register' = [register EXCEPT ![s.file] = NoFileYet]
      /\ entered' = [entered EXCEPT ![s.file] = [ids |-> {}, keys |-> {}]]
      /\ archived' = IF s.do = "archive"
                     THEN {r \in archived : r.task # s.file} \cup {[task |-> s.file, was |-> Register!Load(s.file).status]}
                     ELSE archived
  BY <1>0, <1>2 DEF Register!MoveFile
<1>4. k \in Errands /\ k.todo = Tail(e.todo) /\ k.at = "load"
  BY <1>0, <1>1, <1>2 DEF Errands
<1>5. WellPlanned(k)
  <2>1. PICK q : q = Tail(e.todo)
    OBVIOUS
  <2>2. Len(q) <= 1 /\ Len(q) \in Nat
    BY <1>2, <2>1
  <2>3. k.todo = q /\ ~(k.at # "load")
    BY <1>4, <2>1
  <2>4. Len(k.todo) = Len(q)
    BY <2>3
  <2>5. Len(k.todo) <= 2 /\ Len(k.todo) # 2
    <3>1. PICK n : n = Len(q)
      OBVIOUS
    <3>2. n <= 2 /\ n # 2
      BY <2>2, <3>1
    <3> QED BY <2>4, <3>1, <3>2
  <2> QED BY <2>3, <2>5 DEF WellPlanned
<1>6. s.file \notin shared => Register!Load(s.file).status = "completed"
  <2> SUFFICES ASSUME s.file \notin shared PROVE Register!Load(s.file).status = "completed"
    OBVIOUS
  <2>1. HoldsWell(c)
    BY <1>1, WhatIsFound
  <2>2. register[s.file] \in {r \in RegisterRecords : r.status = "completed"}
    BY <1>3, <2>1 DEF HoldsWell
  <2> QED BY <2>2 DEF RegistersAreApart, Register!Load
<1>7. \A r \in archived' : r.task \in shared \/ r.was = "completed"
  <2>1. \A r \in archived : r.task \in shared \/ r.was = "completed"
    BY DEF RegisterInv
  <2>2. CASE s.do = "archive"
    <3>1. PICK new : new = [task |-> s.file, was |-> Register!Load(s.file).status]
      OBVIOUS
    <3>2. new.task \in shared \/ new.was = "completed"
      BY <1>6, <3>1
    <3>3. archived' = {r \in archived : r.task # s.file} \cup {new}
      BY <1>3, <2>2, <3>1
    <3> QED BY <2>1, <3>2, <3>3
  <2>3. CASE s.do # "archive"
    BY <1>3, <2>1, <2>3
  <2> QED BY <2>2, <2>3
<1>8. PICK none : none = [ids |-> {}, keys |-> {}]
  OBVIOUS
<1>9. none \in Entering /\ Told(Register!Empty) = none
  <2>1. none \in Entering
    BY <1>8 DEF Entering
  <2>2. Register!ToSet(Register!Empty.entries) = {}
    BY EmptyRecord DEF Register!ToSet
  <2>3. Told(Register!Empty) = [ids |-> {}, keys |-> {}]
    BY <2>2, EmptyRecord DEF Told
  <2> QED BY <1>8, <2>1, <2>3
<1>10. register' \in [RegisterFiles -> RegisterRecords \cup {NoFileYet, HalfWritten}]
  BY <1>1, <1>3 DEF RegisterTyped
<1>11. entered' \in [RegisterFiles -> Entering]
  BY <1>1, <1>3, <1>8, <1>9 DEF RegisterTyped
<1>12. \A g \in RegisterFiles : g # s.file => register'[g] = register[g] /\ entered'[g] = entered[g]
  BY <1>1, <1>3 DEF RegisterTyped
<1>13. Settled(s.file)'
  <2>1. register'[s.file] = NoFileYet /\ entered'[s.file] = none
    BY <1>1, <1>2, <1>3, <1>8 DEF RegisterTyped
  <2> QED BY <1>9, <2>1 DEF Settled, Register!Load, RegistersAreApart, Named, Register!Empty, Told
<1>14. k.todo # e.todo
  <2>1. PICK q : q = e.todo
    OBVIOUS
  <2>2. q \in Seq(RegisterChanges) /\ q # <<>>
    BY <1>1, <1>2, <2>1 DEF Errands, Works
  <2>3. Len(Tail(q)) # Len(q)
    BY <2>2
  <2> QED BY <1>4, <2>1, <2>3
<1> QED
  <2>1. k.todo = errand[c].todo \/ (k.todo = Tail(errand[c].todo) /\ k.at = "load")
    BY <1>4
  <2>2. s.file \notin shared => Settled(s.file)' \/ (k.todo = errand[c].todo /\ k.at = "write")
    BY <1>13
  <2>3. s.file \notin shared /\ k.todo = errand[c].todo => HoldsWell(c)'
    BY <1>14
  <2>4. Works(c) /\ k \in Errands /\ errand' = [errand EXCEPT ![c] = k] /\ shared' = shared /\ errands' = errands
    BY <1>1, <1>3, <1>4
  <2> QED BY <1>5, <1>7, <1>10, <1>11, <1>12, <2>1, <2>2, <2>3, <2>4, ErrandSteps

(* A call ends, and a killed one leaves the files it had to change to doubt. *)
LEMMA EndKeeps ==
  ASSUME RegistersAreApart, RegisterInv, NEW c \in Clerks, errand' = [errand EXCEPT ![c] = NoErrand],
         UNCHANGED <<register, archived, errands, entered>>, \A g \in shared : g \in shared',
         \A g : Writing(c, g) => g \in shared'
  PROVE  RegisterInv'
<1>1. RegisterTyped
  BY DEF RegisterInv
<1>2. \A d \in Clerks : errand'[d] = IF d = c THEN NoErrand ELSE errand[d]
  BY <1>1 DEF RegisterTyped
<1>3. RegisterTyped'
  <2>1. errand' \in [Clerks -> {NoErrand} \cup Errands]
    BY <1>1 DEF RegisterTyped
  <2>2. \A d \in Clerks : errand'[d] # NoErrand => WellPlanned(errand'[d])
    BY <1>1, <1>2 DEF RegisterTyped
  <2> QED BY <1>1, <2>1, <2>2 DEF RegisterTyped, WellPlanned
<1>4. ASSUME NEW d \in Clerks, NEW g, Register!Touches(d, g)' PROVE Register!Touches(d, g)
  BY <1>2, <1>4 DEF Register!Touches
<1>5. (\A f \in RegisterFiles \ shared : \A b, d \in Clerks : Register!Touches(b, f) /\ Register!Touches(d, f) => b = d)'
  <2> SUFFICES ASSUME NEW f \in RegisterFiles \ shared', NEW b \in Clerks, NEW d \in Clerks,
                      Register!Touches(b, f)', Register!Touches(d, f)'
               PROVE  b = d
    OBVIOUS
  <2>1. Register!Touches(b, f) /\ Register!Touches(d, f) /\ f \in RegisterFiles \ shared
    BY <1>4
  <2> QED BY <2>1 DEF RegisterInv
<1>6. (\A f \in RegisterFiles \ shared : Settled(f) \/ \E d \in Clerks : Writing(d, f))'
  <2> SUFFICES ASSUME NEW f \in RegisterFiles \ shared' PROVE Settled(f)' \/ \E d \in Clerks : Writing(d, f)'
    OBVIOUS
  <2>1. f \in RegisterFiles \ shared
    OBVIOUS
  <2>2. CASE Settled(f)
    BY <2>2 DEF Settled, Register!Load
  <2>3. ASSUME NEW d \in Clerks, Writing(d, f) PROVE Writing(d, f)'
    <3>1. d # c
      BY <2>3
    <3> QED BY <1>2, <2>3, <3>1 DEF Writing, Works, Next1
  <2> QED BY <2>1, <2>2, <2>3 DEF RegisterInv
<1>7. (\A d \in Clerks : Works(d) /\ Next1(d).file \notin shared => HoldsWell(d))'
  <2> SUFFICES ASSUME NEW d \in Clerks, Works(d)', Next1(d)'.file \notin shared' PROVE HoldsWell(d)'
    OBVIOUS
  <2>1. d # c
    BY <1>2 DEF Works
  <2>2. errand'[d] = errand[d] /\ Works(d) /\ Next1(d)' = Next1(d)
    BY <1>2, <2>1 DEF Works, Next1
  <2>3. HoldsWell(d)
    BY <2>2 DEF RegisterInv
  <2> QED BY <2>2, <2>3 DEF HoldsWell, Register!Load
<1>8. (\A r \in archived : r.task \in shared \/ r.was = "completed")'
  BY DEF RegisterInv
<1> QED BY <1>3, <1>5, <1>6, <1>7, <1>8 DEF RegisterInv

LEMMA ReturnKeeps == ASSUME RegistersAreApart, RegisterInv, NEW c \in Clerks, Register!Return(c) PROVE RegisterInv'
<1>1. /\ errand' = [errand EXCEPT ![c] = NoErrand] /\ UNCHANGED <<register, archived, errands, entered>> /\ shared' = shared
      /\ errand[c].todo # <<>> => Register!Moves(Head(errand[c].todo))
  BY DEF Register!Return, Register!Step
<1>2. ASSUME NEW g, Writing(c, g) PROVE FALSE
  <2>1. Works(c) /\ errand[c].at = "write" /\ WellPlanned(errand[c])
    BY <1>2, WhoTouches DEF Writing, RegisterInv
  <2> QED BY <1>1, <2>1 DEF WellPlanned, Works
<1> QED BY <1>1, <1>2, EndKeeps

LEMMA KillKeeps == ASSUME RegistersAreApart, RegisterInv, NEW c \in Clerks, Register!KillCall(c) PROVE RegisterInv'
<1>1. /\ errand' = [errand EXCEPT ![c] = NoErrand] /\ UNCHANGED <<register, archived, errands, entered>>
      /\ shared' = shared \cup {f \in RegisterFiles : Register!Touches(c, f)}
  BY DEF Register!KillCall, Register!Files, RegisterFiles
<1>2. ASSUME NEW g, Writing(c, g) PROVE g \in shared'
  <2>1. Next1(c).file \in RegisterFiles /\ Register!Touches(c, Next1(c).file) /\ g = Next1(c).file
    BY <1>2, WhoTouches DEF Writing, RegisterInv
  <2> QED BY <1>1, <2>1
<1> QED BY <1>1, <1>2, EndKeeps

(* A call begins with changes of one file or of two, and the files others are at are in doubt. *)
LEMMA ErrandBegins ==
  ASSUME RegistersAreApart, RegisterInv, NEW c \in Clerks, NEW todo \in Seq(RegisterChanges), Register!Begin(c, todo),
         todo # <<>>, Len(todo) <= 2, Len(todo) = 2 => todo[1].file # todo[2].file /\ todo[2].do = "append",
         Register!Moves(Head(todo)) => register[Head(todo).file] \in {r \in RegisterRecords : r.status = "completed"}
  PROVE  RegisterInv'
<1>0. PICK k : k = [todo |-> todo, held |-> Register!Empty, at |-> "load"]
  BY Zenon
<1>1. RegisterTyped
  BY DEF RegisterInv
<1>2. /\ errand[c] = NoErrand /\ errands' = errands + 1 /\ UNCHANGED <<register, archived, entered>>
      /\ errand' = [errand EXCEPT ![c] = k]
      /\ shared' = shared \cup {f \in RegisterFiles : (\E i \in DOMAIN todo : todo[i].file = f)
                                                       /\ \E d \in Clerks : Register!Touches(d, f)}
  BY <1>0 DEF Register!Begin, Register!Files, RegisterFiles
<1>3. k.todo = todo /\ k.at = "load" /\ k \in Errands
  BY <1>0, EmptyRecord DEF Errands
<1>4. k # NoErrand /\ WellPlanned(k)
  BY <1>3 DEF RegistersAreApart, WellPlanned
<1>5. \A d \in Clerks : errand'[d] = IF d = c THEN k ELSE errand[d]
  BY <1>1, <1>2 DEF RegisterTyped
<1>6. RegisterTyped'
  <2>1. errand' \in [Clerks -> {NoErrand} \cup Errands]
    BY <1>1, <1>2, <1>3 DEF RegisterTyped
  <2>2. \A d \in Clerks : errand'[d] # NoErrand => WellPlanned(errand'[d])
    BY <1>1, <1>4, <1>5 DEF RegisterTyped
  <2>3. errands' \in Nat
    BY <1>1, <1>2 DEF RegisterTyped
  <2> QED BY <1>1, <1>2, <2>1, <2>2, <2>3 DEF RegisterTyped, WellPlanned
<1>7. ASSUME NEW d \in Clerks, NEW g, Register!Touches(d, g)'
      PROVE  (d # c /\ Register!Touches(d, g)) \/ (d = c /\ \E i \in DOMAIN todo : todo[i].file = g)
  <2>1. CASE d = c
    BY <1>3, <1>5, <1>7, <2>1 DEF Register!Touches
  <2>2. CASE d # c
    BY <1>5, <1>7, <2>2 DEF Register!Touches
  <2> QED BY <2>1, <2>2
<1>8. (\A f \in RegisterFiles \ shared : \A b, d \in Clerks : Register!Touches(b, f) /\ Register!Touches(d, f) => b = d)'
  <2> SUFFICES ASSUME NEW f \in RegisterFiles \ shared', NEW b \in Clerks, NEW d \in Clerks,
                      Register!Touches(b, f)', Register!Touches(d, f)'
               PROVE  b = d
    OBVIOUS
  <2>1. f \in RegisterFiles \ shared /\ ~((\E i \in DOMAIN todo : todo[i].file = f) /\ \E x \in Clerks : Register!Touches(x, f))
    BY <1>2
  <2>2. (b # c /\ Register!Touches(b, f)) \/ (b = c /\ \E i \in DOMAIN todo : todo[i].file = f)
    BY <1>7
  <2>3. (d # c /\ Register!Touches(d, f)) \/ (d = c /\ \E i \in DOMAIN todo : todo[i].file = f)
    BY <1>7
  <2>4. CASE b # c /\ d # c
    BY <2>1, <2>2, <2>3, <2>4 DEF RegisterInv
  <2> QED BY <2>1, <2>2, <2>3, <2>4
<1>9. (\A f \in RegisterFiles \ shared : Settled(f) \/ \E d \in Clerks : Writing(d, f))'
  <2> SUFFICES ASSUME NEW f \in RegisterFiles \ shared' PROVE Settled(f)' \/ \E d \in Clerks : Writing(d, f)'
    OBVIOUS
  <2>1. f \in RegisterFiles \ shared
    BY <1>2
  <2>2. CASE Settled(f)
    BY <1>2, <2>2 DEF Settled, Register!Load
  <2>3. ASSUME NEW d \in Clerks, Writing(d, f) PROVE Writing(d, f)'
    <3>1. d # c
      BY <1>2, <2>3 DEF Writing, Works
    <3> QED BY <1>5, <2>3, <3>1 DEF Writing, Works, Next1
  <2> QED BY <2>1, <2>2, <2>3 DEF RegisterInv
<1>10. (\A d \in Clerks : Works(d) /\ Next1(d).file \notin shared => HoldsWell(d))'
  <2> SUFFICES ASSUME NEW d \in Clerks, Works(d)', Next1(d)'.file \notin shared' PROVE HoldsWell(d)'
    OBVIOUS
  <2>1. CASE d # c
    <3>1. errand'[d] = errand[d] /\ Works(d) /\ Next1(d)' = Next1(d) /\ Next1(d).file \notin shared
      BY <1>2, <1>5, <2>1 DEF Works, Next1
    <3>2. HoldsWell(d)
      BY <3>1 DEF RegisterInv
    <3> QED BY <1>2, <3>1, <3>2 DEF HoldsWell, Register!Load
  <2>2. CASE d = c
    <3>1. errand'[d] = k /\ Next1(d)' = Head(todo)
      BY <1>3, <1>5, <2>2 DEF Next1
    <3>2. errand'[d].at = "load" /\ register' = register
      BY <1>2, <1>3, <3>1
    <3>3. Register!Moves(Head(todo)) => register'[Head(todo).file] \in {NoFileYet} \cup {r \in RegisterRecords : r.status = "completed"}
      BY <3>2
    <3> QED BY <3>1, <3>2, <3>3 DEF HoldsWell
  <2> QED BY <2>1, <2>2
<1>11. (\A r \in archived : r.task \in shared \/ r.was = "completed")'
  BY <1>2 DEF RegisterInv
<1> QED BY <1>6, <1>8, <1>9, <1>10, <1>11 DEF RegisterInv

LEMMA OneChange ==
  ASSUME RegistersAreApart, RegisterInv, NEW c \in Clerks, NEW s \in RegisterChanges, Register!Begin(c, <<s>>),
         Register!Moves(s) => register[s.file] \in {r \in RegisterRecords : r.status = "completed"}
  PROVE  RegisterInv'
<1>1. PICK todo : todo = <<s>>
  OBVIOUS
<1>2. todo \in Seq(RegisterChanges) /\ todo # <<>> /\ Len(todo) = 1 /\ Head(todo) = s
  BY <1>1
<1>3. Register!Begin(c, todo)
  BY <1>1
<1>4. Len(todo) <= 2 /\ Len(todo) # 2
  BY <1>2
<1>5. Len(todo) = 2 => todo[1].file # todo[2].file /\ todo[2].do = "append"
  BY <1>4
<1>6. Register!Moves(Head(todo)) => register[Head(todo).file] \in {r \in RegisterRecords : r.status = "completed"}
  BY <1>2
<1> QED BY <1>2, <1>3, <1>4, <1>5, <1>6, ErrandBegins

Blank == ""
ChangeArgs == AgentFiles \cup {"", "k", "l", "active", "completed"}
ChangeDos == TaskDos \cup {"save", "append"}
FitsFile(f, do, arg) ==
  /\ f \in TaskFiles <=> do \in TaskDos
  /\ do = "update" => arg \in {"active", "completed"}
  /\ do = "delegate" => arg \in AgentFiles
  /\ do = "save" => arg \in {"k", "l"}

LEMMA ChangeIs ==
  ASSUME RegisterInv, NEW f \in RegisterFiles, NEW do \in ChangeDos, NEW arg \in ChangeArgs, FitsFile(f, do, arg),
         NEW s, s = Register!Change(f, do, arg)
  PROVE  s \in RegisterChanges /\ s.file = f /\ s.do = do
<1>0. PICK n : n = errands + 1
  OBVIOUS
<1>1. s = [file |-> f, do |-> do, arg |-> arg, id |-> n]
  BY <1>0 DEF Register!Change
<1>2. n \in Nat
  <2>1. RegisterTyped
    BY DEF RegisterInv
  <2>2. errands \in Nat
    BY <2>1 DEF RegisterTyped
  <2> QED BY <1>0, <2>2
<1>3. s.file = f /\ s.do = do /\ s.arg = arg
  BY <1>1
<1>4. AnyChange = [file : RegisterFiles, do : ChangeDos, arg : ChangeArgs, id : Nat]
  BY DEF AnyChange, ChangeDos, ChangeArgs
<1>5. s \in AnyChange
  BY <1>1, <1>2, <1>4
<1>6. FitsFile(s.file, s.do, s.arg)
  BY <1>3
<1> QED BY <1>3, <1>5, <1>6 DEF RegisterChanges, FitsFile

(* The changes the calls begin with. *)
LEMMA Fitting ==
  ASSUME RegistersAreApart
  PROVE  /\ \A do \in {"start", "update", "delegate", "archive", "delete", "save", "append"} : do \in ChangeDos
         /\ Blank \in ChangeArgs /\ \A x \in {"k", "l", "active", "completed"} : x \in ChangeArgs
         /\ \A a \in AgentFiles : a \in ChangeArgs
         /\ \A t \in TaskFiles : t \in RegisterFiles /\ FitsFile(t, "start", Blank) /\ FitsFile(t, "archive", Blank) /\ FitsFile(t, "delete", Blank)
         /\ \A t \in TaskFiles : \A x \in {"active", "completed"} : FitsFile(t, "update", x)
         /\ \A t \in TaskFiles : \A a \in AgentFiles : FitsFile(t, "delegate", a)
         /\ \A g \in AgentFiles \cup ChannelFiles : g \in RegisterFiles /\ g \notin TaskFiles /\ FitsFile(g, "append", Blank)
         /\ \A g \in AgentFiles \cup ChannelFiles : \A k \in {"k", "l"} : FitsFile(g, "save", k)
<1>1. \A do \in {"start", "update", "delegate", "archive", "delete", "save", "append"} : do \in ChangeDos
  BY DEF ChangeDos, TaskDos
<1>2. Blank \in ChangeArgs /\ (\A x \in {"k", "l", "active", "completed"} : x \in ChangeArgs) /\ \A a \in AgentFiles : a \in ChangeArgs
  <2>1. PICK words : words = {"", "k", "l", "active", "completed"}
    OBVIOUS
  <2>2. ChangeArgs = AgentFiles \cup words
    BY <2>1 DEF ChangeArgs
  <2>3. Blank \in words
    BY <2>1 DEF Blank
  <2> QED BY <2>1, <2>2, <2>3
<1>3. \A g \in AgentFiles \cup ChannelFiles : g \in RegisterFiles /\ g \notin TaskFiles
  BY DEF RegistersAreApart, RegisterFiles
<1>4. \A t \in TaskFiles : t \in RegisterFiles
  BY DEF RegisterFiles
<1>5. "start" \in TaskDos /\ "update" \in TaskDos /\ "delegate" \in TaskDos /\ "archive" \in TaskDos /\ "delete" \in TaskDos
      /\ "save" \notin TaskDos /\ "append" \notin TaskDos
  BY DEF TaskDos
<1>6. \A t \in TaskFiles : FitsFile(t, "start", Blank) /\ FitsFile(t, "archive", Blank) /\ FitsFile(t, "delete", Blank)
  BY <1>5 DEF FitsFile
<1>7. \A t \in TaskFiles : \A x \in {"active", "completed"} : FitsFile(t, "update", x)
  BY <1>5 DEF FitsFile
<1>8. \A t \in TaskFiles : \A a \in AgentFiles : FitsFile(t, "delegate", a)
  BY <1>5 DEF FitsFile
<1>9. \A g \in AgentFiles \cup ChannelFiles : FitsFile(g, "append", Blank)
  BY <1>3, <1>5 DEF FitsFile
<1>10. \A g \in AgentFiles \cup ChannelFiles : \A k \in {"k", "l"} : FitsFile(g, "save", k)
  BY <1>3, <1>5 DEF FitsFile
<1> QED BY <1>1, <1>2, <1>3, <1>4, <1>6, <1>7, <1>8, <1>9, <1>10

LEMMA TaskCallsBegin ==
  ASSUME RegistersAreApart, RegisterInv, NEW c \in Clerks, NEW t \in TaskFiles
  PROVE  /\ Register!TaskStart(c, t) => RegisterInv'
         /\ \A s \in {"active", "completed"} : Register!TaskUpdate(c, t, s) => RegisterInv'
         /\ \A a \in AgentFiles : Register!TaskDelegate(c, t, a) => RegisterInv'
<1>3. ASSUME Register!TaskStart(c, t) PROVE RegisterInv'
  <2>1. PICK s : s = Register!Change(t, "start", Blank)
    OBVIOUS
  <2>2. s \in RegisterChanges /\ s.do = "start"
    <3>1. t \in RegisterFiles /\ "start" \in ChangeDos /\ Blank \in ChangeArgs /\ FitsFile(t, "start", Blank)
      BY Fitting
    <3> QED BY <2>1, <3>1, ChangeIs
  <2>3. Register!Begin(c, <<s>>)
    BY <1>3, <2>1 DEF Register!TaskStart, Blank
  <2> QED BY <2>2, <2>3, OneChange DEF Register!Moves
<1>4. ASSUME NEW x \in {"active", "completed"}, Register!TaskUpdate(c, t, x) PROVE RegisterInv'
  <2>1. PICK s : s = Register!Change(t, "update", x)
    OBVIOUS
  <2>2. s \in RegisterChanges /\ s.do = "update"
    <3>1. t \in RegisterFiles /\ "update" \in ChangeDos /\ x \in ChangeArgs /\ FitsFile(t, "update", x)
      BY Fitting
    <3> QED BY <2>1, <3>1, ChangeIs
  <2>3. Register!Begin(c, <<s>>)
    BY <1>4, <2>1 DEF Register!TaskUpdate
  <2> QED BY <2>2, <2>3, OneChange DEF Register!Moves
<1>5. ASSUME NEW a \in AgentFiles, Register!TaskDelegate(c, t, a) PROVE RegisterInv'
  <2>1. PICK s : s = Register!Change(t, "delegate", a)
    OBVIOUS
  <2>2. s \in RegisterChanges /\ s.do = "delegate"
    <3>1. t \in RegisterFiles /\ "delegate" \in ChangeDos /\ a \in ChangeArgs /\ FitsFile(t, "delegate", a)
      BY Fitting
    <3> QED BY <2>1, <3>1, ChangeIs
  <2>3. Register!Begin(c, <<s>>)
    BY <1>5, <2>1 DEF Register!TaskDelegate
  <2> QED BY <2>2, <2>3, OneChange DEF Register!Moves
<1> QED BY <1>3, <1>4, <1>5

LEMMA ChannelCallsBegin ==
  ASSUME RegistersAreApart, RegisterInv, NEW c \in Clerks, NEW ch \in ChannelFiles
  PROVE  /\ \A k \in {"k", "l"} : Register!ChannelSave(c, ch, k) => RegisterInv'
         /\ Register!ChannelAppend(c, ch) => RegisterInv'
<1>6. ASSUME NEW k \in {"k", "l"}, Register!ChannelSave(c, ch, k) PROVE RegisterInv'
  <2>1. PICK s : s = Register!Change(ch, "save", k)
    OBVIOUS
  <2>2. s \in RegisterChanges /\ s.do = "save"
    <3>1. ch \in RegisterFiles /\ "save" \in ChangeDos /\ k \in ChangeArgs /\ FitsFile(ch, "save", k)
      BY Fitting
    <3> QED BY <2>1, <3>1, ChangeIs
  <2>3. Register!Begin(c, <<s>>)
    BY <1>6, <2>1 DEF Register!ChannelSave
  <2> QED BY <2>2, <2>3, OneChange DEF Register!Moves
<1>7. ASSUME Register!ChannelAppend(c, ch) PROVE RegisterInv'
  <2>1. PICK s : s = Register!Change(ch, "append", Blank)
    OBVIOUS
  <2>2. s \in RegisterChanges /\ s.do = "append"
    <3>1. ch \in RegisterFiles /\ "append" \in ChangeDos /\ Blank \in ChangeArgs /\ FitsFile(ch, "append", Blank)
      BY Fitting
    <3> QED BY <2>1, <3>1, ChangeIs
  <2>3. Register!Begin(c, <<s>>)
    BY <1>7, <2>1 DEF Register!ChannelAppend, Blank
  <2> QED BY <2>2, <2>3, OneChange DEF Register!Moves
<1> QED BY <1>6, <1>7

LEMMA AgentSaveBegins ==
  ASSUME RegistersAreApart, RegisterInv, NEW c \in Clerks, NEW a \in AgentFiles, Register!AgentSave(c, a, "k")
  PROVE  RegisterInv'
<1>3. PICK s : s = Register!Change(a, "save", "k")
  OBVIOUS
<1>4. s \in RegisterChanges /\ s.do = "save"
  <2>1. a \in RegisterFiles /\ "save" \in ChangeDos /\ "k" \in ChangeArgs /\ FitsFile(a, "save", "k")
    BY Fitting
  <2> QED BY <1>3, <2>1, ChangeIs
<1>5. Register!Begin(c, <<s>>)
  BY <1>3 DEF Register!AgentSave
<1> QED BY <1>4, <1>5, OneChange DEF Register!Moves

(* A handoff changes the task, when it finds it, and then the agent's memory. *)
LEMMA HandoffBegins ==
  ASSUME RegistersAreApart, RegisterInv, NEW c \in Clerks, NEW t \in TaskFiles, NEW a \in AgentFiles, Register!AgentHandoff(c, t, a)
  PROVE  RegisterInv'
<1>1. t \in RegisterFiles /\ a \in RegisterFiles /\ a \notin TaskFiles /\ t # a
  BY DEF RegistersAreApart, RegisterFiles
<1>2. PICK s : s = Register!Change(t, "delegate", a)
  OBVIOUS
<1>3. PICK u : u = Register!Change(a, "append", Blank)
  OBVIOUS
<1>4. s \in RegisterChanges /\ s.do = "delegate" /\ s.file = t
  <2>1. t \in RegisterFiles /\ "delegate" \in ChangeDos /\ a \in ChangeArgs /\ FitsFile(t, "delegate", a)
    BY Fitting
  <2> QED BY <1>2, <2>1, ChangeIs
<1>5. u \in RegisterChanges /\ u.do = "append" /\ u.file = a
  <2>1. a \in RegisterFiles /\ "append" \in ChangeDos /\ Blank \in ChangeArgs /\ FitsFile(a, "append", Blank)
    BY Fitting
  <2> QED BY <1>3, <2>1, ChangeIs
<1>6. Register!Begin(c, (IF Register!Found(t) THEN <<s>> ELSE <<>>) \o <<u>>)
  BY <1>2, <1>3 DEF Register!AgentHandoff, Blank
<1>7. CASE Register!Found(t)
  <2>1. PICK one, other, todo : one = <<s>> /\ other = <<u>> /\ todo = one \o other
    OBVIOUS
  <2>2. one \in Seq(RegisterChanges) /\ other \in Seq(RegisterChanges) /\ Len(one) = 1 /\ Len(other) = 1
        /\ one[1] = s /\ other[1] = u
    BY <1>4, <1>5, <2>1
  <2>3. Register!Begin(c, todo)
    BY <1>6, <1>7, <2>1
  <2>4. todo \in Seq(RegisterChanges) /\ todo # <<>> /\ Len(todo) = 2 /\ todo[1] = s /\ todo[2] = u /\ Head(todo) = s
    <3>1. /\ one \o other \in Seq(RegisterChanges) /\ Len(one \o other) = Len(one) + Len(other)
          /\ \A i \in 1 .. Len(one) + Len(other) :
               (one \o other)[i] = IF i <= Len(one) THEN one[i] ELSE other[i - Len(one)]
      BY <2>2, ConcatProperties
    <3>2. todo \in Seq(RegisterChanges) /\ Len(todo) = 2
      BY <2>1, <2>2, <3>1
    <3>3. \A i \in 1 .. 2 : todo[i] = IF i <= 1 THEN one[i] ELSE other[i - 1]
      BY <2>1, <2>2, <3>1
    <3>4. todo[1] = one[1] /\ todo[2] = other[1]
      BY <3>3
    <3>5. todo # <<>> /\ Head(todo) = todo[1]
      <4>1. PICK all : all = todo
        OBVIOUS
      <4>2. all \in Seq(RegisterChanges) /\ Len(all) = 2
        BY <3>2, <4>1
      <4>3. all # <<>>
        <5>1. Len(<<>>) = 0
          OBVIOUS
        <5>2. Len(all) # 0
          BY <4>2
        <5> QED BY ONLY <5>1, <5>2
      <4>4. Head(all) = all[1]
        BY <4>2, <4>3, HeadTailProperties
      <4> QED BY <4>1, <4>3, <4>4
    <3> QED BY <2>2, <3>2, <3>4, <3>5
  <2>5. Len(todo) <= 2
    BY <2>4
  <2>6. Len(todo) = 2 => todo[1].file # todo[2].file /\ todo[2].do = "append"
    BY <1>1, <1>4, <1>5, <2>4
  <2>7. ~Register!Moves(Head(todo))
    BY <1>4, <2>4 DEF Register!Moves
  <2> QED BY <2>3, <2>4, <2>5, <2>6, <2>7, ErrandBegins
<1>8. CASE ~Register!Found(t)
  <2>1. <<>> \o <<u>> = <<u>>
    OBVIOUS
  <2>2. Register!Begin(c, <<u>>)
    BY <1>6, <1>8, <2>1
  <2> QED BY <1>5, <2>2, OneChange DEF Register!Moves
<1> QED BY <1>7, <1>8

(* Cleaning up judges a task by the file it finds completed. *)
LEMMA CleanupBegins ==
  ASSUME RegistersAreApart, RegisterInv, NEW c \in Clerks, NEW t \in TaskFiles, NEW keep \in BOOLEAN, Register!TaskCleanup(c, t, keep)
  PROVE  RegisterInv'
<1>1. t \in RegisterFiles
  BY DEF RegisterFiles
<1>2. PICK do : do = IF keep THEN "archive" ELSE "delete"
  OBVIOUS
<1>3. PICK s : s = Register!Change(t, do, Blank)
  OBVIOUS
<1>4. t \in RegisterFiles /\ do \in ChangeDos /\ Blank \in ChangeArgs /\ FitsFile(t, do, Blank)
  BY <1>2, Fitting
<1>5. s \in RegisterChanges /\ s.file = t
  BY <1>3, <1>4, ChangeIs
<1>6. Register!Begin(c, <<s>>) /\ Register!Found(t) /\ register[t].status = "completed"
  BY <1>2, <1>3 DEF Register!TaskCleanup, Blank
<1>7. register[t] \in {r \in RegisterRecords : r.status = "completed"}
  <2>1. register[t] \notin {NoFileYet, HalfWritten}
    BY <1>6 DEF Register!Found, Register!Load
  <2>2. register[t] \in RegisterRecords
    BY <1>1, <2>1 DEF RegisterInv, RegisterTyped
  <2> QED BY <1>6, <2>2
<1> QED BY <1>5, <1>6, <1>7, OneChange

LEMMA RegisterStutters == ASSUME RegisterInv, UNCHANGED Register!gvars PROVE RegisterInv'
<1>1. UNCHANGED <<register, archived, errand, errands, shared, entered>>
  BY DEF Register!gvars
<1> QED BY <1>1 DEF RegisterInv, RegisterTyped, WellPlanned, Settled, Works, Next1, Writing, HoldsWell,
                    Register!Touches, Register!Load

LEMMA RegisterKeepsStep == ASSUME RegistersAreApart, RegisterInv, [Register!GNext]_Register!gvars PROVE RegisterInv'
<1>1. CASE UNCHANGED Register!gvars
  BY <1>1, RegisterStutters
<1>2. CASE Register!GNext
  <2>1. PICK c \in Clerks :
          \/ \E t \in TaskFiles :
               \/ Register!TaskStart(c, t)
               \/ \E s \in {"active", "completed"} : Register!TaskUpdate(c, t, s)
               \/ \E a \in AgentFiles : Register!TaskDelegate(c, t, a) \/ Register!AgentHandoff(c, t, a)
               \/ \E keep \in BOOLEAN : Register!TaskCleanup(c, t, keep)
          \/ \E ch \in ChannelFiles : Register!ChannelAppend(c, ch) \/ \E k \in {"k", "l"} : Register!ChannelSave(c, ch, k)
          \/ \E a \in AgentFiles : Register!AgentSave(c, a, "k")
          \/ Register!LoadFile(c) \/ Register!MergeFile(c) \/ Register!OpenFile(c) \/ Register!WriteFile(c) \/ Register!MoveFile(c)
          \/ Register!Return(c) \/ Register!KillCall(c)
    BY <1>2 DEF Register!GNext
  <2>2. CASE \E t \in TaskFiles :
               \/ Register!TaskStart(c, t)
               \/ \E s \in {"active", "completed"} : Register!TaskUpdate(c, t, s)
               \/ \E a \in AgentFiles : Register!TaskDelegate(c, t, a) \/ Register!AgentHandoff(c, t, a)
               \/ \E keep \in BOOLEAN : Register!TaskCleanup(c, t, keep)
    BY <2>2, TaskCallsBegin, HandoffBegins, CleanupBegins
  <2>3. CASE \E ch \in ChannelFiles : Register!ChannelAppend(c, ch) \/ \E k \in {"k", "l"} : Register!ChannelSave(c, ch, k)
    BY <2>3, ChannelCallsBegin
  <2>4. CASE \E a \in AgentFiles : Register!AgentSave(c, a, "k")
    BY <2>4, AgentSaveBegins
  <2>5. CASE Register!LoadFile(c) \/ Register!MergeFile(c) \/ Register!OpenFile(c) \/ Register!WriteFile(c) \/ Register!MoveFile(c)
    BY <2>5, LoadKeeps, MergeKeeps, OpenKeeps, SavedKeeps, MoveKeeps
  <2>6. CASE Register!Return(c) \/ Register!KillCall(c)
    BY <2>6, ReturnKeeps, KillKeeps
  <2> QED BY <2>1, <2>2, <2>3, <2>4, <2>5, <2>6
<1> QED BY <1>1, <1>2

LEMMA RegisterStarts == ASSUME RegistersAreApart, Register!GInit PROVE RegisterInv
<1>0. PICK none : none = [ids |-> {}, keys |-> {}]
  OBVIOUS
<1>1. /\ register = [f \in RegisterFiles |-> NoFileYet] /\ archived = {} /\ errands = 0
      /\ errand = [c \in Clerks |-> NoErrand] /\ shared = {} /\ entered = [f \in RegisterFiles |-> none]
  BY <1>0 DEF Register!GInit, Register!Files, RegisterFiles
<1>2. none \in Entering /\ Register!Load(1) = Register!Load(1)
  BY <1>0 DEF Entering
<1>3. RegisterTyped
  BY <1>1, <1>2 DEF RegisterTyped
<1>4. ASSUME NEW f \in RegisterFiles PROVE Settled(f)
  <2>1. register[f] = NoFileYet /\ entered[f] = none
    BY <1>1
  <2>2. Register!Load(f) = Register!Empty
    BY <2>1 DEF Register!Load
  <2>3. Register!ToSet(Register!Empty.entries) = {}
    BY EmptyRecord DEF Register!ToSet
  <2>4. Told(Register!Empty) = [ids |-> {}, keys |-> {}]
    BY <2>3, EmptyRecord DEF Told
  <2>5. Told(Register!Load(f)) = entered[f]
    BY <1>0, <2>1, <2>2, <2>4
  <2>6. Named(Register!Load(f), f)
    BY <2>2 DEF Named
  <2> QED BY <2>1, <2>5, <2>6 DEF Settled, RegistersAreApart
<1>5. ASSUME NEW c \in Clerks PROVE ~Works(c) /\ \A f : ~Register!Touches(c, f)
  BY <1>1 DEF Works, Register!Touches
<1> QED BY <1>1, <1>3, <1>4, <1>5 DEF RegisterInv

LEMMA RegisterTells == ASSUME RegisterInv PROVE Register!RegistersKeepTheirEntries
<1>1. ASSUME NEW f \in RegisterFiles, Register!Quiet(f) PROVE Settled(f)
  <2>1. f \notin shared /\ \A c \in Clerks : ~Register!Touches(c, f)
    BY <1>1 DEF Register!Quiet
  <2>2. ASSUME NEW c \in Clerks, Writing(c, f) PROVE FALSE
    <3>1. Register!Touches(c, f)
      BY <2>2, WhoTouches DEF RegisterInv, Writing
    <3> QED BY <2>1, <3>1
  <2> QED BY <2>1, <2>2 DEF RegisterInv
<1>2. ASSUME NEW f \in RegisterFiles, Register!Quiet(f)
      PROVE  entered[f] = [ids |-> Register!ToSet(Register!Load(f).entries), keys |-> Register!Load(f).keys]
  BY <1>1, <1>2 DEF Settled, Told
<1>3. \A r \in archived : r.task \in shared \/ r.was = "completed"
  BY DEF RegisterInv
<1>4. ASSUME NEW t \in TaskFiles, Register!Quiet(t), Register!Found(t)
      PROVE  t \in Register!TaskList("active") \cup Register!TaskList("completed")
  <2>1. t \in RegisterFiles /\ Named(Register!Load(t), t)
    BY <1>1, <1>4 DEF RegisterFiles, Settled
  <2>2. Register!Load(t).status \in {"active", "completed"} /\ Register!Load(t) # Register!Empty
    BY <1>4, <2>1 DEF Named, Register!Found
  <2>3. register[t] = Register!Load(t)
    BY <2>2 DEF Register!Load
  <2> QED BY <1>4, <2>2, <2>3 DEF Register!TaskList
<1> QED BY <1>2, <1>3, <1>4 DEF Register!RegistersKeepTheirEntries, Register!Files, RegisterFiles

(* A channel's context, a task's record and an agent's memory hold every entry    *)
(* and key that the calls on them made, as long as no two calls were at the file  *)
(* at once and none was killed; only completed tasks are moved to the archive,    *)
(* and a task's record is in one of the two lists (core.py, channel_save,         *)
(* channel_update, task_start, task_update, agent_save, agent_handoff and         *)
(* task_cleanup: each loads the file, changes what it loaded and dumps it).       *)
THEOREM RegistersKeepWhatCallsEntered ==
  ASSUME RegistersAreApart
  PROVE  Register!GSpec => []Register!RegistersKeepTheirEntries
<1>1. Register!GInit => RegisterInv
  BY RegisterStarts
<1>2. RegisterInv /\ [Register!GNext]_Register!gvars => RegisterInv'
  BY RegisterKeepsStep
<1>3. RegisterInv => Register!RegistersKeepTheirEntries
  BY RegisterTells
<1> QED BY <1>1, <1>2, <1>3, PTL DEF Register!GSpec
=============================================================================
