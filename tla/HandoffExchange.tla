--------------------------- MODULE HandoffExchange ---------------------------
(***************************************************************************)
(* Handoffs between bases (execution_handoff.py): a base declares a piece  *)
(* of work, exports it as an envelope, and somebody carries the envelope   *)
(* to other bases, any number of times and at any moment.  Each base keeps *)
(* its own log and its own copy of the work; nothing reaches across.       *)
(*                                                                         *)
(* Writes go through _execution_append under the governance lock, so each  *)
(* is one step; a call that is refused, by its fence (ExecutionLog) or by  *)
(* its guard, or that is answered already_applied, is a stuttering step.   *)
(* An export takes no lock: it reads the log, then looks for the base's    *)
(* identity file and mints it if there is none, one system call a step.    *)
(*                                                                         *)
(* The line a base mints a handoff with is its identity: <<base, place>>.  *)
(* Payloads are left out: a handoff has one, and an envelope that was      *)
(* altered on its way is refused by its digests.  The goals are declared.  *)
(***************************************************************************)
EXTENDS Integers, Sequences, FiniteSets, TLC

CONSTANTS
  Bases, Goals,
  Owners,       \* bases that declare and export work; the others only take it
  Exporters,    \* processes that export
  Moments,      \* values of the injected now
  Deadlines,    \* values of expires_at
  Never,        \* expires_at was left out
  Here,         \* imported_from of a handoff that was declared here
  NoFile, Empty,  \* a base's identity file before it is created, and written
  Forgotten,    \* bases whose owner forgets goals
  MaxHandoffs,  \* the cap of a goal
  MaxLines      \* bound, per base: lines of its log

ASSUME HandoffAssumption ==
  /\ Moments \subseteq Nat /\ Deadlines \subseteq Nat /\ Never \notin Deadlines
  /\ Forgotten \subseteq Bases /\ Owners \subseteq Bases
  /\ NoFile # Empty /\ {NoFile, Empty} \intersect (Bases \X Exporters) = {}
  /\ MaxHandoffs \in Nat /\ MaxLines \in [Bases -> Nat]

VARIABLES
  log,       \* per base: its handoff lines, in order: operation and its id, goal, the
             \* handoff moved and to what, the envelope a copy is from, deadline, clock
  status,    \* per base: what the projection says of the handoff of each line
  hidden,    \* per base: the lines that were forgotten, which readers skip
  identity,  \* per base: what the file origin_instance_id holds
  export,    \* per exporter: how far its export got
  sent       \* the envelopes that were handed to somebody

vars == <<log, status, hidden, identity, export, sent>>
minting == <<identity, export, sent>>

Origins == Bases \X Exporters
Nothing == <<>>

Expiry == Deadlines \union {Never}
Idle == [pc |-> "idle", base |-> CHOOSE b \in Bases : TRUE, place |-> 0]

Lines(b) == DOMAIN log[b]
Mints(e) == e.op \in {"handoff_declared", "handoff_imported"}
Visible(b) == {i \in Lines(b) : i \notin hidden[b] /\ Mints(log[b][i])}

-----------------------------------------------------------------------------
(* The projection of handoffs *)

HandoffMoves == {<<"offered", "accepted">>, <<"accepted", "completed">>}

(* project: a new line, and the handoff it moves when the table lets it. *)
FoldStatus(b, e) ==
  IF Mints(e) THEN Append(status[b], "offered")
  ELSE LET n == e.handoff[2] IN
       Append(IF <<status[b][n], e.to>> \in HandoffMoves
              THEN [status[b] EXCEPT ![n] = e.to] ELSE status[b], "none")

(* project_handoffs: a completed handoff never expires. *)
Expired(b, n, now) ==
  log[b][n].expires # Never /\ status[b][n] # "completed" /\ log[b][n].expires <= now

-----------------------------------------------------------------------------
(* Writes *)

SameFingerprint(e, r) ==
  e.op = r.op /\ e.goal = r.goal /\ e.from = r.from /\ e.handoff = r.handoff /\ e.to = r.to

KnownOperation(b, r) == \E i \in Lines(b) : log[b][i].id = r.id
Replayed(b, r) == \E i \in Lines(b) : log[b][i].id = r.id /\ SameFingerprint(log[b][i], r)

(* _handoff_cap *)
BelowCap(b, g) ==
  Cardinality({i \in Lines(b) : Mints(log[b][i]) /\ log[b][i].goal = g}) < MaxHandoffs

(* Mutant: the copy of another goal is not looked for. *)
Imported_SameGoal(b, r) ==
  \E i \in Lines(b) : log[b][i].op = "handoff_imported" /\ log[b][i].from = r.from
                      /\ log[b][i].goal = r.goal

(* _check_origin_triple: the whole log is searched, forgotten lines too. *)
Imported(b, r) ==
  \E i \in Lines(b) : log[b][i].op = "handoff_imported" /\ log[b][i].from = r.from

(* Mutant: a handoff can be accepted from any state. *)
MayMove_Again(b, r) ==
  /\ r.handoff[1] = b /\ r.handoff[2] \in Lines(b)
  /\ Mints(log[b][r.handoff[2]]) /\ log[b][r.handoff[2]].goal = r.goal
  /\ ~Expired(b, r.handoff[2], r.now)

(* guard of handoff_transition: the handoff is one of this goal, is not     *)
(* expired, and the table has the move.                                     *)
MayMove(b, r) ==
  /\ r.handoff[1] = b /\ r.handoff[2] \in Lines(b)
  /\ Mints(log[b][r.handoff[2]]) /\ log[b][r.handoff[2]].goal = r.goal
  /\ ~Expired(b, r.handoff[2], r.now)
  /\ <<status[b][r.handoff[2]], r.to>> \in HandoffMoves

(* handoff_import, before it takes the lock *)
InTime(r) == r.op = "handoff_imported" /\ r.expires # Never => r.now < r.expires

(* Mutant: a full goal refuses the envelope before it is looked up. *)
Acknowledged_BelowCap(b, r) ==
  InTime(r) /\ (\/ Replayed(b, r)
                \/ /\ ~KnownOperation(b, r)
                   /\ r.op = "handoff_imported" /\ BelowCap(b, r.goal) /\ Imported(b, r))

(* The call answers already_applied: its operation_id, or its envelope, is   *)
(* in the log.                                                               *)
Acknowledged(b, r) ==
  InTime(r) /\ (\/ Replayed(b, r)
                \/ ~KnownOperation(b, r) /\ r.op = "handoff_imported" /\ Imported(b, r))

Applies(b, r) ==
  /\ ~KnownOperation(b, r)
  /\ CASE r.op = "handoff_declared"   -> BelowCap(b, r.goal)
       [] r.op = "handoff_imported"   -> InTime(r) /\ ~Imported(b, r) /\ BelowCap(b, r.goal)
       [] r.op = "handoff_transition" -> MayMove(b, r)

Write(b, r) ==
  /\ Len(log[b]) < MaxLines[b]
  /\ Applies(b, r)
  /\ log' = [log EXCEPT ![b] = Append(@, r)]
  /\ status' = [status EXCEPT ![b] = FoldStatus(b, r)]
  /\ UNCHANGED <<hidden, minting>>

Ids(b) == 1 .. Len(log[b]) + 1

Declaration(g, id, expires, now) ==
  [op |-> "handoff_declared", goal |-> g, id |-> id, from |-> Here, handoff |-> Nothing,
   to |-> "none", expires |-> expires, now |-> now]

HandoffDeclare(b) == b \in Owners /\
  \E g \in Goals, id \in Ids(b), expires \in Expiry, now \in Moments :
    Write(b, Declaration(g, id, expires, now))

Transition(g, id, h, to, now) ==
  [op |-> "handoff_transition", goal |-> g, id |-> id, from |-> Here, handoff |-> h,
   to |-> to, expires |-> Never, now |-> now]

HandoffTransition(b) ==
  \E g \in Goals, id \in Ids(b), n \in Lines(b), to \in {"accepted", "completed"},
     now \in Moments : Write(b, Transition(g, id, <<b, n>>, to, now))

(* Mutant: the deadline stays behind. *)
Importation_NoDeadline(env, g, id, now) ==
  [op |-> "handoff_imported", goal |-> g, id |-> id,
   from |-> [origin |-> env.origin, handoff |-> env.handoff], handoff |-> Nothing,
   to |-> "none", expires |-> Never, now |-> now]

(* The importer names the goal of its own base; the envelope's is not used. *)
Importation(env, g, id, now) ==
  [op |-> "handoff_imported", goal |-> g, id |-> id,
   from |-> [origin |-> env.origin, handoff |-> env.handoff], handoff |-> Nothing,
   to |-> "none", expires |-> env.expires, now |-> now]

HandoffImport(b) ==
  \E env \in sent, g \in Goals, id \in Ids(b), now \in Moments :
    Write(b, Importation(env, g, id, now))

(* Readers no longer see the goal's lines; writers still do. *)
ForgetGoal(b) ==
  /\ b \in Forgotten
  /\ \E g \in Goals :
       hidden' = [hidden EXCEPT ![b] = @ \union {i \in Lines(b) : log[b][i].goal = g}]
  /\ UNCHANGED <<log, status, minting>>

-----------------------------------------------------------------------------
(* Exports *)

Goes(p, pc) == export' = [export EXCEPT ![p].pc = pc]
Ends(p) == export' = [export EXCEPT ![p] = Idle]
Base(p) == export[p].base

(* handoff_export finds the handoff in an unlocked read. *)
HandoffExport(p) == \E b \in Owners : \E n \in Visible(b) :
  /\ export[p].pc = "idle"
  /\ export' = [export EXCEPT ![p] = [pc |-> "look", base |-> b, place |-> n]]
  /\ UNCHANGED <<log, status, hidden, identity, sent>>

LookForIdentity(p) ==
  /\ export[p].pc = "look"
  /\ Goes(p, IF identity[Base(p)] = NoFile THEN "create" ELSE "read")
  /\ UNCHANGED <<log, status, hidden, identity, sent>>

(* Mutant: the file is opened without O_EXCL. *)
CreateIdentity_Truncates(p) ==
  /\ export[p].pc = "create"
  /\ identity' = [identity EXCEPT ![Base(p)] = Empty]
  /\ Goes(p, "write")
  /\ UNCHANGED <<log, status, hidden, sent>>

(* open with O_CREAT|O_EXCL: only one process creates the file, empty. *)
CreateIdentity(p) ==
  /\ export[p].pc = "create"
  /\ IF identity[Base(p)] = NoFile
     THEN identity' = [identity EXCEPT ![Base(p)] = Empty] /\ Goes(p, "write")
     ELSE Goes(p, "read") /\ UNCHANGED identity
  /\ UNCHANGED <<log, status, hidden, sent>>

(* A fresh uuid: no two exporters write the same. *)
WriteIdentity(p) ==
  /\ export[p].pc = "write"
  /\ identity' = [identity EXCEPT ![Base(p)] = <<Base(p), p>>]
  /\ Goes(p, "read")
  /\ UNCHANGED <<log, status, hidden, sent>>

(* The file is read back; the export is refused when its text is no identity. *)
ReadIdentity(p) ==
  /\ export[p].pc = "read"
  /\ LET b == Base(p)
         e == log[b][export[p].place]
     IN  IF identity[b] \in Origins
         THEN sent' = sent \union {[origin |-> identity[b], goal |-> e.goal,
                                    handoff |-> <<b, export[p].place>>,
                                    expires |-> e.expires]}
         ELSE UNCHANGED sent
  /\ Ends(p)
  /\ UNCHANGED <<log, status, hidden, identity>>

(* The exporting process is killed. *)
Crash(p) ==
  /\ export[p].pc # "idle"
  /\ Ends(p)
  /\ UNCHANGED <<log, status, hidden, identity, sent>>

Init ==
  /\ log = [b \in Bases |-> <<>>]
  /\ status = [b \in Bases |-> <<>>]
  /\ hidden = [b \in Bases |-> {}]
  /\ identity = [b \in Bases |-> NoFile]
  /\ export = [p \in Exporters |-> Idle]
  /\ sent = {}

Next ==
  \/ \E b \in Bases : \/ HandoffDeclare(b) \/ HandoffTransition(b) \/ HandoffImport(b)
                      \/ ForgetGoal(b)
  \/ \E p \in Exporters : \/ HandoffExport(p) \/ LookForIdentity(p) \/ CreateIdentity(p)
                          \/ WriteIdentity(p) \/ ReadIdentity(p) \/ Crash(p)

Spec == Init /\ [][Next]_vars

-----------------------------------------------------------------------------
(* Properties *)

(* Every envelope a base ever exports carries one and the same origin        *)
(* identity, whoever minted it and whichever exporters were killed meanwhile.*)
OneIdentityPerBase ==
  \A e, f \in sent : e.handoff[1] = f.handoff[1] => e.origin = f.origin

(* A piece of work is copied into a base at most once, in whatever goal,     *)
(* however often, late or forgotten its envelope is delivered.               *)
OneCopyPerBase ==
  \A b \in Bases : \A i, j \in Lines(b) :
    /\ log[b][i].op = "handoff_imported" /\ log[b][j].op = "handoff_imported"
    /\ log[b][i].from.handoff = log[b][j].from.handoff
    => i = j

(* A handoff is accepted at most once and completed only by then: "a second  *)
(* accept means two parties believe they own the work".                      *)
IsMove(b, i, n, to) ==
  log[b][i].op = "handoff_transition" /\ log[b][i].handoff = <<b, n>> /\ log[b][i].to = to
AcceptedOnce ==
  \A b \in Bases : \A n, i, j \in Lines(b) :
    /\ IsMove(b, i, n, "accepted") /\ IsMove(b, j, n, "accepted") => i = j
    /\ IsMove(b, j, n, "completed") =>
         /\ \E m \in 1 .. j - 1 : IsMove(b, m, n, "accepted")
         /\ IsMove(b, i, n, "completed") => i = j

(* A deadline travels with the work: a copy is imported and moved only at a  *)
(* moment before the deadline that the base it came from had declared.       *)
DeadlinesTravel ==
  \A b \in Bases : \A n, i \in Lines(b) :
    /\ log[b][n].op = "handoff_imported"
    /\ i = n \/ IsMove(b, i, n, "accepted") \/ IsMove(b, i, n, "completed")
    => LET h == log[b][n].from.handoff
           deadline == log[h[1]][h[2]].expires
       IN  deadline # Never => log[b][i].now < deadline

(* An envelope that is delivered again in time is acknowledged and not       *)
(* refused, though the goal is full, was forgotten, or the copy has moved.   *)
RedeliveriesAreAcknowledged ==
  \A b \in Bases : \A env \in sent, g \in Goals, now \in Moments :
    /\ \E i \in Lines(b) : log[b][i].op = "handoff_imported"
                           /\ log[b][i].from.handoff = env.handoff
    /\ env.expires # Never => now < env.expires
    => Acknowledged(b, Importation(env, g, 0, now))

(* Documented, and not what the code does: "two concurrent first exports     *)
(* must agree on one identity, and the loser reads the winner's"             *)
(* (execution_handoff.py:341).  No export is refused for want of an identity.*)
ExportsFindTheIdentity ==
  \A p \in Exporters : export[p].pc = "read" => identity[Base(p)] \in Origins

(* Identity is kept across bases: a base has one instance id for good, holds one copy of an envelope however
   often it is delivered, and that copy is accepted once (_origin_instance_id, handoff_import, handoff_transition). *)
OneOfEach == OneIdentityPerBase /\ OneCopyPerBase /\ AcceptedOnce

(* A delivery is judged as its sender declared it: its deadline travels with it, and delivering it again in time
   is acknowledged, whatever became of the copy and however full the goal is (handoff_export, handoff_import). *)
DeliveriesAreHonest == DeadlinesTravel /\ RedeliveriesAreAcknowledged

(* Small instances: neither exporters nor goals are told apart, and a base   *)
(* that declares needs one line less than one that accepts and completes.    *)
Symmetry == Permutations(Exporters) \union Permutations(Goals)
ShortLogs == [b \in Bases |-> IF b \in Owners THEN 2 ELSE 3]
=============================================================================
