------------------------ MODULE HandoffExchangeProofs ------------------------
(***************************************************************************)
(* For any bases, exporters, goals, deadlines and bounds: what the bases   *)
(* promise each other about a handoff (OneOfEach, DeliveriesAreHonest).    *)
(*                                                                         *)
(* The promises range over several bases, the invariant keeps one relation *)
(* for each place an envelope passes: the exporter has found a handoff and *)
(* at most one of a base's exporters is about to write its identity; an    *)
(* envelope, and the copy made from it, name a handoff of the base whose   *)
(* identity they carry, with its deadline; the projection of a handoff     *)
(* tells which moves its log holds.                                        *)
(***************************************************************************)
EXTENDS HandoffExchange, TLAPS

Pcs == {"idle", "look", "create", "write", "read"}
Source == [origin : Origins, handoff : Bases \X Nat]
Line ==
  [op : {"handoff_declared", "handoff_imported", "handoff_transition"}, goal : Goals,
   id : Nat \ {0}, from : {Here} \union Source, handoff : {Nothing} \union (Bases \X Nat),
   to : {"none", "accepted", "completed"}, expires : Expiry, now : Moments]
Envelope == [origin : Origins, goal : Goals, handoff : Bases \X Nat, expires : Expiry]
ExportState == [pc : Pcs, base : Bases \union {Idle.base}, place : Nat]
Status == {"offered", "accepted", "completed", "none"}

HandoffTyped ==
  /\ log \in [Bases -> Seq(Line)]
  /\ status \in [Bases -> Seq(Status)]
  /\ \A b \in Bases : Len(status[b]) = Len(log[b])
  /\ identity \in [Bases -> {NoFile, Empty} \union Origins]
  /\ export \in [Exporters -> ExportState]
  /\ sent \subseteq Envelope

(* Line n of base b is a handoff. *)
Minted(b, n) == b \in Bases /\ n \in Lines(b) /\ Mints(log[b][n])

(* A running export has found a handoff, and lines are never taken back. *)
ExportsKnowTheirHandoff ==
  \A p \in Exporters : export[p].pc # "idle" => Minted(export[p].base, export[p].place)
(* O_EXCL: of a base's exporters one at most created the file and has not written it yet. *)
OneCreator ==
  \A p \in Exporters : export[p].pc = "write" =>
    /\ identity[export[p].base] = Empty
    /\ \A q \in Exporters : export[q].pc = "write" /\ export[q].base = export[p].base => q = p
(* An envelope carries the identity its base has for good, and the deadline of its handoff. *)
EnvelopeIsTrue(e) ==
  /\ Minted(e.handoff[1], e.handoff[2])
  /\ identity[e.handoff[1]] = e.origin
  /\ log[e.handoff[1]][e.handoff[2]].expires = e.expires
EnvelopesAreTrue == \A e \in sent : EnvelopeIsTrue(e)

(* So does a copy, and it was made in time. *)
CopyIsTrue(e) ==
  /\ e.from \in Source
  /\ Minted(e.from.handoff[1], e.from.handoff[2])
  /\ identity[e.from.handoff[1]] = e.from.origin
  /\ log[e.from.handoff[1]][e.from.handoff[2]].expires = e.expires
  /\ e.expires # Never => e.now < e.expires
CopiesAreTrue ==
  \A b \in Bases : \A i \in Lines(b) :
    log[b][i].op = "handoff_imported" => CopyIsTrue(log[b][i])
(* _check_origin_triple: no two copies of a base are from the same source. *)
CopiesAreUnique ==
  \A b \in Bases : \A i, j \in Lines(b) :
    /\ log[b][i].op = "handoff_imported" /\ log[b][j].op = "handoff_imported"
    /\ log[b][i].from = log[b][j].from
    => i = j

(* A move is of an earlier handoff of its base, in time. *)
MoveIsTrue(b, i) ==
  LET e == log[b][i]  n == e.handoff[2] IN
  /\ e.handoff = <<b, n>> /\ n \in 1 .. i - 1 /\ Mints(log[b][n])
  /\ log[b][n].expires # Never => e.now < log[b][n].expires
MovesAreTrue ==
  \A b \in Bases : \A i \in Lines(b) : log[b][i].op = "handoff_transition" => MoveIsTrue(b, i)
(* The projection's status of a handoff tells which of its moves are in the log. *)
Told(b, n) ==
  /\ status[b][n] \in {"offered", "accepted", "completed"}
  /\ status[b][n] # "offered" => \E i \in Lines(b) : IsMove(b, i, n, "accepted")
  /\ \A i \in Lines(b) :
       /\ IsMove(b, i, n, "accepted") => status[b][n] # "offered"
       /\ IsMove(b, i, n, "completed") => status[b][n] = "completed"
StatusIsTold == \A b \in Bases : \A n \in Lines(b) : Mints(log[b][n]) => Told(b, n)

LogInv == CopiesAreTrue /\ CopiesAreUnique /\ MovesAreTrue /\ StatusIsTold /\ AcceptedOnce
ExportInv == ExportsKnowTheirHandoff /\ OneCreator /\ EnvelopesAreTrue
HandoffInv == HandoffTyped /\ ExportInv /\ LogInv

(* Nothing was declared, exported or minted. *)
LEMMA InitHandoffInv == Init => HandoffInv
<1> SUFFICES ASSUME Init PROVE HandoffInv OBVIOUS
<1>1. \A b \in Bases : log[b] = <<>> /\ status[b] = <<>> /\ Lines(b) = {}
  BY DEF Init, Lines
<1>2. HandoffTyped
  <2>1. Idle \in ExportState
    BY DEF ExportState, Pcs, Idle
  <2>2. QED BY <2>1, <1>1 DEF Init, HandoffTyped
<1>3. ExportInv
  BY DEF Init, ExportInv, ExportsKnowTheirHandoff, OneCreator, EnvelopesAreTrue, Idle
<1>4. LogInv
  BY <1>1 DEF LogInv, CopiesAreTrue, CopiesAreUnique, MovesAreTrue, StatusIsTold, AcceptedOnce
<1>5. QED BY <1>2, <1>3, <1>4 DEF HandoffInv

(* What a write adds. *)
Grows(b, r, n) ==
  /\ n \in Nat \ {0} /\ Len(log[b]) = n - 1
  /\ \A c \in Bases : Lines(c) = 1 .. Len(log[c])
  /\ Lines(b)' = 1 .. n /\ log'[b][n] = r
  /\ \A i \in 1 .. n - 1 : log'[b][i] = log[b][i]
  /\ \A c \in Bases \ {b} : log'[c] = log[c] /\ status'[c] = status[c]
  /\ UNCHANGED <<identity, export, sent>>
  /\ status'[b] = FoldStatus(b, r)

(* A write appends one line to one log. *)
LEMMA WritesGrow ==
  ASSUME HandoffTyped, NEW b \in Bases, NEW r \in Line, Write(b, r)
  PROVE  \E n \in Nat \ {0} : Grows(b, r, n)
<1>1. PICK n \in Nat \ {0} : n = Len(log[b]) + 1
  BY DEF HandoffTyped
<1>2. log[b] \in Seq(Line) /\ log'[b] = Append(log[b], r)
  BY DEF HandoffTyped, Write
<1>3. Lines(b)' = 1 .. n /\ log'[b][n] = r /\ \A i \in 1 .. n - 1 : log'[b][i] = log[b][i]
  BY <1>1, <1>2 DEF Lines
<1>4. \A c \in Bases : Lines(c) = 1 .. Len(log[c])
  BY DEF HandoffTyped, Lines
<1>5. \A c \in Bases \ {b} : log'[c] = log[c] /\ status'[c] = status[c]
  BY DEF HandoffTyped, Write
<1>6. status'[b] = FoldStatus(b, r)
  BY DEF HandoffTyped, Write
<1>7. Grows(b, r, n)
  BY <1>1, <1>3, <1>4, <1>5, <1>6 DEF Grows, Write, minting
<1>8. QED BY <1>7

(* A line that is there stays there. *)
LEMMA LinesStay ==
  ASSUME NEW b \in Bases, NEW r, NEW n, Grows(b, r, n), NEW c \in Bases, NEW i \in Lines(c)
  PROVE  i \in Lines(c)' /\ log'[c][i] = log[c][i]
<1>1. CASE c = b
  BY <1>1 DEF Grows
<1>2. CASE c # b
  BY <1>2 DEF Grows, Lines
<1>3. QED BY <1>1, <1>2

(* A handoff that is there stays there. *)
LEMMA MintedStays ==
  ASSUME NEW b \in Bases, NEW r, NEW n, Grows(b, r, n), NEW c, NEW i, Minted(c, i)
  PROVE  Minted(c, i)' /\ log'[c][i] = log[c][i]
BY LinesStay DEF Minted, Mints

(* A request that is written leaves every variable of its type. *)
LEMMA WriteKeepsTypes ==
  ASSUME HandoffTyped, NEW b \in Bases, NEW r \in Line, Write(b, r)
  PROVE  HandoffTyped'
<1>1. log[b] \in Seq(Line) /\ status[b] \in Seq(Status) /\ Len(status[b]) = Len(log[b])
  BY DEF HandoffTyped
<1>2. Append(log[b], r) \in Seq(Line) /\ Len(Append(log[b], r)) = Len(log[b]) + 1
  BY <1>1
<1>3. log' \in [Bases -> Seq(Line)] /\ log'[b] = Append(log[b], r)
      /\ \A c \in Bases \ {b} : log'[c] = log[c]
  BY <1>2 DEF HandoffTyped, Write
<1>4. FoldStatus(b, r) \in Seq(Status) /\ Len(FoldStatus(b, r)) = Len(status[b]) + 1
  <2>1. CASE Mints(r)
    BY <1>1, <2>1 DEF FoldStatus, Status
  <2>2. CASE ~Mints(r)
    <3>1. r.op = "handoff_transition" /\ r.to \in {"none", "accepted", "completed"}
      BY <2>2 DEF Line, Mints
    <3>2. DEFINE k == r.handoff[2]
                 s == IF <<status[b][k], r.to>> \in HandoffMoves
                      THEN [status[b] EXCEPT ![k] = r.to] ELSE status[b]
    <3>3. s \in Seq(Status) /\ Len(s) = Len(status[b])
      <4>1. r.to = "none" => <<status[b][k], r.to>> \notin HandoffMoves
        BY DEF HandoffMoves
      <4>2. QED BY <1>1, <3>1, <4>1 DEF Status
    <3>4. FoldStatus(b, r) = Append(s, "none")
      BY <2>2 DEF FoldStatus
    <3> HIDE DEF s
    <3>5. QED BY <3>3, <3>4 DEF Status
  <2>3. QED BY <2>1, <2>2
<1>5. status' \in [Bases -> Seq(Status)] /\ status'[b] = FoldStatus(b, r)
      /\ \A c \in Bases \ {b} : status'[c] = status[c]
  BY <1>4 DEF HandoffTyped, Write
<1>6. \A c \in Bases : Len(status'[c]) = Len(log'[c])
  BY <1>1, <1>2, <1>3, <1>4, <1>5 DEF HandoffTyped
<1>7. QED
  BY <1>3, <1>5, <1>6 DEF HandoffTyped, Write, minting

(* A write takes nothing away that an export or an envelope refers to. *)
LEMMA WriteKeepsExports ==
  ASSUME HandoffTyped, ExportInv, NEW b \in Bases, NEW r \in Line, Write(b, r)
  PROVE  ExportInv'
<1>1. PICK n \in Nat \ {0} : Grows(b, r, n)
  BY WritesGrow
<1>2. \A c, i : Minted(c, i) => Minted(c, i)' /\ log'[c][i] = log[c][i]
  BY <1>1, MintedStays
<1>3. UNCHANGED <<identity, export, sent>>
  BY <1>1 DEF Grows
<1>4. ExportsKnowTheirHandoff'
  BY <1>2, <1>3 DEF ExportInv, ExportsKnowTheirHandoff
<1>5. OneCreator'
  BY <1>3 DEF ExportInv, OneCreator
<1>6. EnvelopesAreTrue'
  BY <1>2, <1>3 DEF ExportInv, EnvelopesAreTrue, EnvelopeIsTrue
<1>7. QED BY <1>4, <1>5, <1>6 DEF ExportInv

(* A copy that is written is the only one of its source (the guard of handoff_import). *)
LEMMA WriteKeepsCopies ==
  ASSUME HandoffTyped, CopiesAreTrue, CopiesAreUnique, NEW b \in Bases, NEW r \in Line,
         Write(b, r), r.op = "handoff_imported" => CopyIsTrue(r)
  PROVE  CopiesAreTrue' /\ CopiesAreUnique'
<1>1. PICK n \in Nat \ {0} : Grows(b, r, n)
  BY WritesGrow
<1>2. \A c, i : Minted(c, i) => Minted(c, i)' /\ log'[c][i] = log[c][i]
  BY <1>1, MintedStays
<1>3. identity' = identity
  BY <1>1 DEF Grows
<1>4. \A e : CopyIsTrue(e) => CopyIsTrue(e)'
  BY <1>2, <1>3 DEF CopyIsTrue
<1>5. \A c \in Bases : \A i \in Lines(c)' :
        \/ i \in Lines(c) /\ log'[c][i] = log[c][i]
        \/ c = b /\ i = n /\ log'[c][i] = r
  BY <1>1 DEF Grows, Lines
<1>6. CopiesAreTrue'
  <2> SUFFICES ASSUME NEW c \in Bases, NEW i \in Lines(c)', log'[c][i].op = "handoff_imported"
               PROVE  CopyIsTrue(log[c][i])'
    BY DEF CopiesAreTrue
  <2>1. CopyIsTrue(log'[c][i])
    BY <1>5 DEF CopiesAreTrue
  <2>2. QED BY <2>1, <1>2, <1>3, ZenonT(30) DEF CopyIsTrue
<1>7. r.op = "handoff_imported" =>
        \A i \in Lines(b) : log[b][i].op = "handoff_imported" => log[b][i].from # r.from
  BY DEF Write, Applies, Imported
<1>8. CopiesAreUnique'
  BY <1>5, <1>7 DEF CopiesAreUnique
<1>9. QED BY <1>6, <1>8

(* The lines after a write: those of before, and r as line n of base b. *)
LEMMA LinesAfterAWrite ==
  ASSUME NEW b \in Bases, NEW r, NEW n \in Nat \ {0}, Grows(b, r, n)
  PROVE  /\ n \in Lines(b)' /\ log'[b][n] = r /\ n \notin Lines(b)
         /\ \A c \in Bases : \A i \in Lines(c) : i \in Lines(c)' /\ log'[c][i] = log[c][i]
         /\ \A c \in Bases : \A i \in Lines(c)' : i \in Lines(c) \/ (c = b /\ i = n)
         /\ \A c \in Bases : \A i \in Lines(c)' : 1 .. i - 1 \subseteq Lines(c)
         /\ \A i \in Lines(b) : i < n /\ i \in Nat
<1>1. \A c \in Bases : c = b \/ Lines(c)' = Lines(c)
  BY DEF Grows, Lines
<1>2. Lines(b) = 1 .. n - 1 /\ Lines(b)' = 1 .. n
  BY DEF Grows
<1>3. \A c \in Bases : Lines(c) = 1 .. Len(log[c])
  BY DEF Grows
<1>4. \A c \in Bases : \A i \in Lines(c)' : 1 .. i - 1 \subseteq Lines(c)
  <2> SUFFICES ASSUME NEW c \in Bases, NEW i \in Lines(c)', NEW j \in 1 .. i - 1
               PROVE  j \in Lines(c)
    OBVIOUS
  <2>1. CASE c = b
    BY <1>2, <2>1
  <2>2. CASE c # b
    <3>1. i \in Lines(c) /\ i \in 1 .. Len(log[c])
      BY <1>1, <1>3, <2>2
    <3>2. log'[c] = log[c]
      BY <2>2 DEF Grows
    <3>3. QED BY <1>3, <3>1
  <2>3. QED BY <2>1, <2>2
<1>5. QED
  BY <1>1, <1>2, <1>4, LinesStay DEF Grows

(* What a transition that is written finds. *)
LEMMA MovesAreGuarded ==
  ASSUME HandoffTyped, NEW b \in Bases, NEW r \in Line, NEW k \in Lines(b),
         Write(b, r), r.op = "handoff_transition", r.handoff = <<b, k>>
  PROVE  /\ Mints(log[b][k]) /\ <<status[b][k], r.to>> \in HandoffMoves
         /\ log[b][k].expires # Never => r.now < log[b][k].expires
<1>1. MayMove(b, r)
  BY DEF Write, Applies
<1>2. Mints(log[b][k]) /\ <<status[b][k], r.to>> \in HandoffMoves /\ ~Expired(b, k, r.now)
  BY <1>1 DEF MayMove
<1>3. status[b][k] # "completed"
  BY <1>2 DEF HandoffMoves
<1>4. r.now \in Nat
  BY HandoffAssumption DEF Line
<1>5. log[b][k].expires \in Expiry
  <2>1. log[b][k] \in Line
    BY DEF HandoffTyped, Lines
  <2>2. QED BY <2>1 DEF Line
<1>6. log[b][k].expires # Never => log[b][k].expires \in Nat
  BY <1>5, HandoffAssumption DEF Expiry
<1>7. QED BY <1>2, <1>3, <1>4, <1>6 DEF Expired

(* A move that is written was allowed by handoff_transition's guard. *)
LEMMA WriteKeepsMoves ==
  ASSUME HandoffTyped, MovesAreTrue, NEW b \in Bases, NEW r \in Line, Write(b, r),
         r.op = "handoff_transition" => \E k \in Lines(b) : r.handoff = <<b, k>>
  PROVE  MovesAreTrue'
<1>1. PICK n \in Nat \ {0} : Grows(b, r, n)
  BY WritesGrow
<1> USE LinesAfterAWrite, <1>1
<1> SUFFICES ASSUME NEW c \in Bases, NEW i \in Lines(c)', log'[c][i].op = "handoff_transition"
             PROVE  MoveIsTrue(c, i)'
  BY DEF MovesAreTrue
<1>2. CASE i \in Lines(c)
  <2>1. MoveIsTrue(c, i) /\ log'[c][i] = log[c][i]
    BY <1>2 DEF MovesAreTrue
  <2>2. log[c][i].handoff[2] \in Lines(c)
    BY <2>1 DEF MoveIsTrue
  <2>3. log'[c][log[c][i].handoff[2]] = log[c][log[c][i].handoff[2]]
    BY <2>2
  <2>4. QED BY <2>1, <2>3 DEF MoveIsTrue
<1>3. CASE i \notin Lines(c)
  <2>1. c = b /\ i = n /\ log'[c][i] = r
    BY <1>3
  <2>2. PICK k \in Lines(b) : r.handoff = <<b, k>>
    BY <2>1
  <2>3. /\ Mints(log[b][k])
        /\ log[b][k].expires # Never => r.now < log[b][k].expires
    BY <2>1, <2>2, MovesAreGuarded
  <2>4. k \in 1 .. n - 1 /\ log'[b][k] = log[b][k] /\ r.handoff[2] = k
    BY <2>2 DEF Grows
  <2>5. QED BY <2>1, <2>2, <2>3, <2>4 DEF MoveIsTrue
<1>4. QED BY <1>2, <1>3

(* What a write makes of the projection. *)
LEMMA StatusAfterAWrite ==
  ASSUME HandoffTyped, NEW b \in Bases, NEW r \in Line, NEW n \in Nat \ {0}, Grows(b, r, n),
         Write(b, r)
  PROVE  /\ Mints(r) => /\ status'[b][n] = "offered"
                        /\ \A k \in Lines(b) : status'[b][k] = status[b][k]
         /\ ~Mints(r) => \A m \in Lines(b) : r.handoff = <<b, m>> =>
              \A k \in Lines(b) : status'[b][k] = IF k = m THEN r.to ELSE status[b][k]
<1>1. status[b] \in Seq(Status) /\ Len(status[b]) = n - 1 /\ Lines(b) = 1 .. n - 1
  BY DEF Grows, HandoffTyped
<1>2. status'[b] = FoldStatus(b, r)
  BY DEF Grows
<1>3. CASE Mints(r)
  BY <1>1, <1>2, <1>3 DEF FoldStatus
<1>4. CASE ~Mints(r)
  <2> SUFFICES ASSUME NEW m \in Lines(b), r.handoff = <<b, m>>, NEW k \in Lines(b)
               PROVE  status'[b][k] = IF k = m THEN r.to ELSE status[b][k]
    BY <1>4
  <2>1. r.op = "handoff_transition"
    BY <1>4 DEF Line, Mints
  <2>2. <<status[b][m], r.to>> \in HandoffMoves
    BY <2>1, MovesAreGuarded
  <2> DEFINE s == [status[b] EXCEPT ![m] = r.to]
  <2>3. status'[b] = Append(s, "none")
    BY <1>2, <1>4, <2>2 DEF FoldStatus
  <2>4. s \in Seq(Status) /\ Len(s) = n - 1 /\ s[k] = IF k = m THEN r.to ELSE status[b][k]
    BY <1>1 DEF Line, Status
  <2> HIDE DEF s
  <2>5. QED BY <1>1, <2>3, <2>4
<1>5. QED BY <1>3, <1>4

(* The moves after a write: those of before, and r when it is one. *)
LEMMA MovesAfterAWrite ==
  ASSUME HandoffTyped, MovesAreTrue, NEW b \in Bases, NEW r \in Line, NEW n \in Nat \ {0},
         Grows(b, r, n),
         r.op = "handoff_transition" => \E k \in Lines(b) : r.handoff = <<b, k>>,
         NEW c \in Bases, NEW i \in Lines(c)', NEW k \in Lines(c)', NEW to, IsMove(c, i, k, to)'
  PROVE  \/ i \in Lines(c) /\ k \in Lines(c) /\ IsMove(c, i, k, to)
         \/ /\ c = b /\ i = n /\ k \in Lines(b)
            /\ r.op = "handoff_transition" /\ r.handoff = <<b, k>> /\ r.to = to
<1> USE LinesAfterAWrite
<1>1. CASE i \in Lines(c)
  <2>1. IsMove(c, i, k, to)
    BY <1>1 DEF IsMove
  <2>2. MoveIsTrue(c, i) /\ log[c][i].handoff = <<c, k>>
    BY <1>1, <2>1 DEF IsMove, MovesAreTrue
  <2>3. k \in 1 .. i - 1
    BY <2>2 DEF MoveIsTrue
  <2>4. QED BY <1>1, <2>1, <2>3
<1>2. CASE i \notin Lines(c)
  BY <1>2 DEF IsMove
<1>3. QED BY <1>1, <1>2

(* The fold moves the status of the handoff a written transition names, and of no other. *)
LEMMA WriteKeepsStatus ==
  ASSUME HandoffTyped, MovesAreTrue, StatusIsTold, NEW b \in Bases, NEW r \in Line, Write(b, r),
         r.op = "handoff_transition" => \E k \in Lines(b) : r.handoff = <<b, k>>
  PROVE  StatusIsTold'
<1>1. PICK n \in Nat \ {0} : Grows(b, r, n)
  BY WritesGrow
<1> USE LinesAfterAWrite, <1>1
<1> SUFFICES ASSUME NEW c \in Bases, NEW k \in Lines(c)', Mints(log[c][k])' PROVE Told(c, k)'
  BY DEF StatusIsTold
<1>2. \A i \in Lines(c) : \A to : k \in Lines(c) /\ IsMove(c, i, k, to) => IsMove(c, i, k, to)'
  BY DEF IsMove
<1>3. CASE k \in Lines(c) /\ ~(c = b /\ r.op = "handoff_transition" /\ r.handoff = <<b, k>>)
  <2>1. Told(c, k)
    BY <1>3 DEF StatusIsTold, Mints
  <2>2. status'[c][k] = status[c][k]
    <3>1. CASE c # b
      BY <3>1 DEF Grows
    <3>2. CASE c = b /\ Mints(r)
      BY <1>3, <3>2, StatusAfterAWrite
    <3>3. CASE c = b /\ ~Mints(r)
      <4>1. PICK m \in Lines(b) : r.handoff = <<b, m>>
        BY <3>3 DEF Mints, Line
      <4>2. m # k
        BY <1>3, <3>3, <4>1 DEF Mints, Line
      <4>3. QED BY <1>3, <3>3, <4>1, <4>2, StatusAfterAWrite
    <3>4. QED BY <3>1, <3>2, <3>3
  <2>3. \A i \in Lines(c)' : \A to : IsMove(c, i, k, to)' => i \in Lines(c) /\ IsMove(c, i, k, to)
    BY <1>3, MovesAfterAWrite
  <2>4. QED BY <1>2, <1>3, <2>1, <2>2, <2>3 DEF Told
<1>4. CASE k \in Lines(c) /\ c = b /\ r.op = "handoff_transition" /\ r.handoff = <<b, k>>
  <2>1. Told(b, k) /\ <<status[b][k], r.to>> \in HandoffMoves
    BY <1>4, MovesAreGuarded DEF StatusIsTold, Mints
  <2>2. status'[b][k] = r.to
    BY <1>4, StatusAfterAWrite DEF Mints
  <2>3. n \in Lines(b)' /\ IsMove(b, n, k, r.to)'
    BY <1>4 DEF IsMove
  <2>4. \A i \in Lines(b)' : \A to :
          IsMove(b, i, k, to)' => (i \in Lines(b) /\ IsMove(b, i, k, to)) \/ r.to = to
    BY <1>4, MovesAfterAWrite
  <2>5. CASE status[b][k] = "offered" /\ r.to = "accepted"
    BY <1>4, <2>1, <2>2, <2>3, <2>4, <2>5 DEF Told
  <2>6. CASE status[b][k] = "accepted" /\ r.to = "completed"
    BY <1>2, <1>4, <2>1, <2>2, <2>3, <2>4, <2>6 DEF Told
  <2>7. QED BY <2>1, <2>5, <2>6 DEF HandoffMoves
<1>5. CASE k \notin Lines(c)
  <2>1. c = b /\ k = n /\ Mints(r)
    BY <1>5 DEF Mints
  <2>2. status'[b][n] = "offered"
    BY <2>1, StatusAfterAWrite
  <2>3. \A i \in Lines(c)' : \A to : ~IsMove(c, i, k, to)'
    BY <1>5, <2>1, MovesAfterAWrite
  <2>4. QED BY <2>1, <2>2, <2>3 DEF Told
<1>6. QED BY <1>3, <1>4, <1>5

(* A second accept would need the handoff to be offered again. *)
LEMMA WriteKeepsAcceptedOnce ==
  ASSUME HandoffTyped, MovesAreTrue, StatusIsTold, AcceptedOnce, NEW b \in Bases, NEW r \in Line,
         Write(b, r), r.op = "handoff_transition" => \E k \in Lines(b) : r.handoff = <<b, k>>
  PROVE  AcceptedOnce'
<1>1. PICK n \in Nat \ {0} : Grows(b, r, n)
  BY WritesGrow
<1> USE LinesAfterAWrite, <1>1
(* A move that is written takes the handoff from a status that rules out an earlier one to the same. *)
<1>2. \A k \in Lines(b) : r.op = "handoff_transition" /\ r.handoff = <<b, k>> =>
        /\ \A i \in Lines(b) : ~IsMove(b, i, k, r.to)
        /\ r.to = "completed" => \E i \in Lines(b) : IsMove(b, i, k, "accepted")
  <2> SUFFICES ASSUME NEW k \in Lines(b), r.op = "handoff_transition", r.handoff = <<b, k>>
               PROVE  /\ \A i \in Lines(b) : ~IsMove(b, i, k, r.to)
                      /\ r.to = "completed" => \E i \in Lines(b) : IsMove(b, i, k, "accepted")
    OBVIOUS
  <2>1. Told(b, k) /\ <<status[b][k], r.to>> \in HandoffMoves
    BY MovesAreGuarded DEF StatusIsTold
  <2>2. QED BY <2>1 DEF Told, HandoffMoves
<1> SUFFICES ASSUME NEW c \in Bases, NEW k \in Lines(c)', NEW i \in Lines(c)', NEW j \in Lines(c)'
             PROVE  /\ IsMove(c, i, k, "accepted")' /\ IsMove(c, j, k, "accepted")' => i = j
                    /\ IsMove(c, j, k, "completed")' =>
                         /\ \E m \in 1 .. j - 1 : IsMove(c, m, k, "accepted")'
                         /\ IsMove(c, i, k, "completed")' => i = j
  BY DEF AcceptedOnce
<1>3. \A to : IsMove(c, i, k, to)' /\ IsMove(c, j, k, to)' /\ to \in {"accepted", "completed"} => i = j
  <2> SUFFICES ASSUME NEW to \in {"accepted", "completed"}, IsMove(c, i, k, to)', IsMove(c, j, k, to)'
               PROVE  i = j
    OBVIOUS
  <2>1. \/ i \in Lines(c) /\ k \in Lines(c) /\ IsMove(c, i, k, to)
        \/ /\ c = b /\ i = n /\ k \in Lines(b)
           /\ r.op = "handoff_transition" /\ r.handoff = <<b, k>> /\ r.to = to
    BY MovesAfterAWrite
  <2>2. \/ j \in Lines(c) /\ k \in Lines(c) /\ IsMove(c, j, k, to)
        \/ /\ c = b /\ j = n /\ k \in Lines(b)
           /\ r.op = "handoff_transition" /\ r.handoff = <<b, k>> /\ r.to = to
    BY MovesAfterAWrite
  <2>3. CASE i \in Lines(c) /\ j \in Lines(c)
    BY <2>1, <2>2, <2>3 DEF AcceptedOnce
  <2>4. QED BY <1>2, <2>1, <2>2, <2>3
<1>4. ASSUME IsMove(c, j, k, "completed")' PROVE \E m \in 1 .. j - 1 : IsMove(c, m, k, "accepted")'
  <2>1. CASE j \in Lines(c) /\ k \in Lines(c) /\ IsMove(c, j, k, "completed")
    <3>1. PICK m \in 1 .. j - 1 : IsMove(c, m, k, "accepted")
      BY <2>1 DEF AcceptedOnce
    <3>2. m \in Lines(c)
      OBVIOUS
    <3>3. IsMove(c, m, k, "accepted")'
      BY <3>1, <3>2 DEF IsMove
    <3>4. QED BY <3>3
  <2>2. CASE /\ c = b /\ j = n /\ k \in Lines(b)
             /\ r.op = "handoff_transition" /\ r.handoff = <<b, k>> /\ r.to = "completed"
    <3>1. PICK m \in Lines(b) : IsMove(b, m, k, "accepted")
      BY <1>2, <2>2
    <3>2. m \in 1 .. n - 1
      BY DEF Grows
    <3>3. IsMove(b, m, k, "accepted")'
      BY <3>1 DEF IsMove
    <3>4. QED BY <2>2, <3>2, <3>3
  <2>3. QED BY <1>4, <2>1, <2>2, MovesAfterAWrite
<1>5. QED BY <1>3, <1>4

(* A line the handlers build: its fields are those of a line, a copy is of an envelope that was sent, a
   transition names a line of its base. *)
Request(b, r) ==
  /\ r \in Line
  /\ r.op = "handoff_imported" =>
       \E e \in sent : r.from = [origin |-> e.origin, handoff |-> e.handoff] /\ r.expires = e.expires
  /\ r.op = "handoff_transition" => \E k \in Lines(b) : r.handoff = <<b, k>>

(* The three handlers that write write requests. *)
LEMMA HandlersWriteRequests ==
  ASSUME HandoffTyped, NEW b \in Bases,
         HandoffDeclare(b) \/ HandoffTransition(b) \/ HandoffImport(b)
  PROVE  \E r : Request(b, r) /\ Write(b, r)
<1>1. Ids(b) \subseteq Nat \ {0} /\ Lines(b) \subseteq Nat
  BY DEF Ids, HandoffTyped, Lines
<1>2. CASE HandoffDeclare(b)
  <2>1. PICK g \in Goals, id \in Ids(b), expires \in Expiry, now \in Moments :
          Write(b, Declaration(g, id, expires, now))
    BY <1>2 DEF HandoffDeclare
  <2>2. Request(b, Declaration(g, id, expires, now))
    BY <1>1 DEF Request, Line, Declaration
  <2>3. QED BY <2>1, <2>2
<1>3. CASE HandoffTransition(b)
  <2>1. PICK g \in Goals, id \in Ids(b), n \in Lines(b), to \in {"accepted", "completed"},
             now \in Moments : Write(b, Transition(g, id, <<b, n>>, to, now))
    BY <1>3 DEF HandoffTransition
  <2>2. Transition(g, id, <<b, n>>, to, now) \in Line
    BY <1>1 DEF Line, Transition, Expiry
  <2>3. Request(b, Transition(g, id, <<b, n>>, to, now))
    BY <2>2 DEF Request, Transition
  <2>4. QED BY <2>1, <2>3
<1>4. CASE HandoffImport(b)
  <2>1. PICK e \in sent, g \in Goals, id \in Ids(b), now \in Moments :
          Write(b, Importation(e, g, id, now))
    BY <1>4 DEF HandoffImport
  <2>2. e \in Envelope
    BY DEF HandoffTyped
  <2>3. [origin |-> e.origin, handoff |-> e.handoff] \in Source /\ e.expires \in Expiry
    BY <2>2 DEF Envelope, Source
  <2>4. Importation(e, g, id, now) \in Line
    BY <1>1, <2>3 DEF Line, Importation
  <2>5. Request(b, Importation(e, g, id, now))
    BY <2>4 DEF Request, Importation
  <2>6. QED BY <2>1, <2>5
<1>5. QED BY <1>2, <1>3, <1>4

(* What an import writes is true: its envelope is, and the guard looked at the deadline. *)
LEMMA ImportsAreTrue ==
  ASSUME HandoffTyped, EnvelopesAreTrue, NEW b \in Bases, NEW r, Request(b, r), Write(b, r),
         r.op = "handoff_imported"
  PROVE  CopyIsTrue(r)
<1>1. PICK e \in sent : r.from = [origin |-> e.origin, handoff |-> e.handoff] /\ r.expires = e.expires
  BY DEF Request
<1>2. e \in Envelope
  BY DEF HandoffTyped
<1>3. r.from \in Source /\ r.from.origin = e.origin /\ r.from.handoff = e.handoff
  BY <1>1, <1>2 DEF Envelope, Source
<1>4. InTime(r)
  BY DEF Write, Applies
<1>5. QED BY <1>1, <1>3, <1>4 DEF EnvelopesAreTrue, EnvelopeIsTrue, CopyIsTrue, InTime

(* Every write keeps the invariant. *)
LEMMA WriteKeepsHandoffInv ==
  ASSUME HandoffInv, NEW b \in Bases, NEW r, Request(b, r), Write(b, r)
  PROVE  HandoffInv'
<1> USE DEF HandoffInv
<1>1. r \in Line /\ (r.op = "handoff_transition" => \E k \in Lines(b) : r.handoff = <<b, k>>)
  BY DEF Request
<1>2. r.op = "handoff_imported" => CopyIsTrue(r)
  BY ImportsAreTrue DEF ExportInv
<1>3. HandoffTyped'
  BY <1>1, WriteKeepsTypes
<1>4. ExportInv'
  BY <1>1, WriteKeepsExports
<1>5. CopiesAreTrue' /\ CopiesAreUnique'
  BY <1>1, <1>2, WriteKeepsCopies DEF LogInv
<1>6. MovesAreTrue' /\ StatusIsTold' /\ AcceptedOnce'
  BY <1>1, WriteKeepsMoves, WriteKeepsStatus, WriteKeepsAcceptedOnce DEF LogInv
<1>7. QED BY <1>3, <1>4, <1>5, <1>6 DEF LogInv

(* A step that neither writes a line nor touches an identity that was written keeps what the logs say. *)
LEMMA LogsStay ==
  ASSUME LogInv, UNCHANGED <<log, status>>,
         \A b \in Bases : identity[b] \in Origins => identity'[b] = identity[b]
  PROVE  LogInv'
<1>1. \A b : Lines(b)' = Lines(b)
  BY DEF Lines
<1>2. \A b, n : Minted(b, n) => Minted(b, n)'
  BY <1>1 DEF Minted
<1>3. ASSUME NEW e, CopyIsTrue(e) PROVE CopyIsTrue(e)'
  <2>1. e.from.origin \in Origins /\ e.from.handoff[1] \in Bases
    BY <1>3 DEF CopyIsTrue, Minted, Source
  <2>2. QED BY <1>2, <1>3, <2>1 DEF CopyIsTrue
<1>4. CopiesAreTrue'
  <2> SUFFICES ASSUME NEW b \in Bases, NEW i \in Lines(b), log[b][i].op = "handoff_imported"
               PROVE  CopyIsTrue(log[b][i])'
    BY <1>1 DEF CopiesAreTrue
  <2>1. CopyIsTrue(log[b][i])
    BY DEF LogInv, CopiesAreTrue
  <2> DEFINE e == log[b][i]
  <2>2. e' = e
    OBVIOUS
  <2>3. CopyIsTrue(e) BY <2>1
  <2> HIDE DEF e
  <2>4. CopyIsTrue(e)' BY <1>3, <2>2, <2>3 DEF CopyIsTrue
  <2>5. QED BY <2>4 DEF e
<1>5. CopiesAreUnique' /\ MovesAreTrue'
  BY <1>1 DEF LogInv, CopiesAreUnique, MovesAreTrue, MoveIsTrue, Mints
<1>6. AcceptedOnce'
  <2>1. \A b, i, n, to : IsMove(b, i, n, to)' <=> IsMove(b, i, n, to)
    BY DEF IsMove
  <2> SUFFICES ASSUME NEW b \in Bases, NEW n \in Lines(b), NEW i \in Lines(b), NEW j \in Lines(b)
               PROVE  /\ IsMove(b, i, n, "accepted") /\ IsMove(b, j, n, "accepted") => i = j
                      /\ IsMove(b, j, n, "completed") =>
                           /\ \E m \in 1 .. j - 1 : IsMove(b, m, n, "accepted")
                           /\ IsMove(b, i, n, "completed") => i = j
    BY <1>1, <2>1 DEF AcceptedOnce
  <2>2. QED BY DEF LogInv, AcceptedOnce
<1>7. StatusIsTold'
  <2> SUFFICES ASSUME NEW b \in Bases, NEW n \in Lines(b), Mints(log[b][n]) PROVE Told(b, n)'
    BY <1>1 DEF StatusIsTold, Mints
  <2>1. Told(b, n)
    BY DEF LogInv, StatusIsTold
  <2>2. QED BY <1>1, <2>1 DEF Told, IsMove
<1>8. QED BY <1>4, <1>5, <1>6, <1>7 DEF LogInv

(* Forgetting a goal hides lines from readers and removes none. *)
LEMMA ForgetKeepsHandoffInv ==
  ASSUME HandoffInv, NEW b \in Bases, ForgetGoal(b)
  PROVE  HandoffInv'
<1>1. UNCHANGED <<log, status, identity, export, sent>>
  BY DEF ForgetGoal, minting
<1>2. LogInv'
  BY <1>1, LogsStay DEF HandoffInv
<1>3. HandoffTyped'
  BY <1>1 DEF HandoffInv, HandoffTyped
<1>4. ExportInv'
  BY <1>1 DEF HandoffInv, ExportInv, ExportsKnowTheirHandoff, OneCreator, EnvelopesAreTrue,
     EnvelopeIsTrue, Minted, Lines, Mints
<1>5. QED BY <1>2, <1>3, <1>4 DEF HandoffInv

(* What an exporter's step leaves alone, whatever else it does: it moves its own export only, keeps what it
   found, and writes an identity only into the file it created. *)
LEMMA ExporterKeepsExports ==
  ASSUME HandoffInv, NEW p \in Exporters, NEW v \in ExportState,
         UNCHANGED <<log, status>>,
         \A e \in sent' : e \in sent \/ (e \in Envelope /\ EnvelopeIsTrue(e)),
         export' = [export EXCEPT ![p] = v],
         v.pc # "idle" => Minted(v.base, v.place),
         \/ identity' = identity /\ v.pc # "write"
         \/ /\ export[p].pc # "idle" /\ v.pc = "write" /\ v.base = export[p].base
            /\ identity[v.base] = NoFile /\ identity' = [identity EXCEPT ![v.base] = Empty]
         \/ /\ export[p].pc = "write" /\ v.pc # "write"
            /\ identity' = [identity EXCEPT ![export[p].base] = <<export[p].base, p>>]
  PROVE  HandoffInv'
<1> DEFINE b == export[p].base
<1> USE DEF HandoffInv
<1>1. export[p].pc # "idle" => b \in Bases
  BY DEF ExportInv, ExportsKnowTheirHandoff, Minted
<1>2. NoFile \notin Origins /\ Empty \notin Origins /\ NoFile # Empty
  BY HandoffAssumption DEF Origins
<1>3. \A c \in Bases : identity[c] \in Origins => identity'[c] = identity[c]
  BY <1>1, <1>2 DEF ExportInv, OneCreator, HandoffTyped
<1>4. LogInv'
  BY <1>3, LogsStay
<1>5. HandoffTyped'
  <2>1. identity \in [Bases -> {NoFile, Empty} \union Origins]
    BY DEF HandoffTyped
  <2>2. export[p].pc # "idle" => <<b, p>> \in Origins
    BY <1>1 DEF Origins
  <2>3. identity' \in [Bases -> {NoFile, Empty} \union Origins]
    BY <2>1, <2>2
  <2>4. sent' \subseteq Envelope
    BY DEF HandoffTyped
  <2>5. QED BY <2>3, <2>4 DEF HandoffTyped
<1>6. \A c, n : Minted(c, n) => Minted(c, n)'
  BY DEF Minted, Lines, Mints
<1>7. /\ export'[p] = v /\ \A q \in Exporters \ {p} : export'[q] = export[q]
  BY DEF HandoffTyped
<1>8. ExportsKnowTheirHandoff'
  BY <1>6, <1>7 DEF ExportInv, ExportsKnowTheirHandoff
<1>9. EnvelopesAreTrue'
  <2> SUFFICES ASSUME NEW e \in sent' PROVE EnvelopeIsTrue(e)'
    BY DEF EnvelopesAreTrue
  <2>1. e \in Envelope /\ EnvelopeIsTrue(e)
    BY DEF ExportInv, EnvelopesAreTrue, HandoffTyped
  <2>2. e.origin \in Origins /\ e.handoff[1] \in Bases
    BY <2>1 DEF Envelope, EnvelopeIsTrue, Minted
  <2>3. QED BY <1>3, <1>6, <2>1, <2>2 DEF EnvelopeIsTrue
<1>10. OneCreator'
  <2>1. \A q \in Exporters \ {p} : export[q].pc = "write" =>
          /\ export[q].base \in Bases /\ identity[export[q].base] = Empty
          /\ export[p].pc = "write" => export[q].base # b
    BY DEF ExportInv, OneCreator, ExportsKnowTheirHandoff, Minted
  <2>2. CASE identity' = identity /\ v.pc # "write"
    BY <1>7, <2>1, <2>2 DEF ExportInv, OneCreator
  <2>3. CASE /\ export[p].pc # "idle" /\ v.pc = "write" /\ v.base = b
             /\ identity[v.base] = NoFile /\ identity' = [identity EXCEPT ![v.base] = Empty]
    <3>1. b \in Bases /\ identity'[b] = Empty /\ \A c \in Bases \ {b} : identity'[c] = identity[c]
      BY <1>1, <2>3 DEF HandoffTyped
    <3>2. \A q \in Exporters \ {p} : export[q].pc = "write" => export[q].base # b
      BY <1>2, <2>1, <2>3
    <3>3. QED BY <1>7, <2>1, <2>3, <3>1, <3>2 DEF ExportInv, OneCreator
  <2>4. CASE /\ export[p].pc = "write" /\ v.pc # "write"
             /\ identity' = [identity EXCEPT ![b] = <<b, p>>]
    <3>1. \A c \in Bases \ {b} : identity'[c] = identity[c]
      BY <2>4 DEF HandoffTyped
    <3>2. QED BY <1>7, <2>1, <2>4, <3>1 DEF ExportInv, OneCreator
  <2>5. QED BY <2>2, <2>3, <2>4
<1>11. QED BY <1>4, <1>5, <1>8, <1>9, <1>10 DEF ExportInv

(* Moving an export on keeps its base and its place. *)
LEMMA GoesIsAnUpdate ==
  ASSUME HandoffTyped, NEW p \in Exporters, NEW pc \in Pcs, Goes(p, pc)
  PROVE  \E v \in ExportState : /\ export' = [export EXCEPT ![p] = v] /\ v.pc = pc
                                /\ v.base = export[p].base /\ v.place = export[p].place
<1> DEFINE v == [export[p] EXCEPT !.pc = pc]
<1>1. export[p] \in ExportState
  BY DEF HandoffTyped
<1>2. v \in ExportState /\ v.pc = pc /\ v.base = export[p].base /\ v.place = export[p].place
  BY <1>1 DEF ExportState
<1>3. export' = [export EXCEPT ![p] = v]
  BY DEF Goes
<1>4. QED BY <1>2, <1>3

(* Every step of an export, and a crash in it, keeps the invariant. *)
LEMMA ExporterKeepsHandoffInv ==
  ASSUME HandoffInv, NEW p \in Exporters,
         \/ HandoffExport(p) \/ LookForIdentity(p) \/ CreateIdentity(p)
         \/ WriteIdentity(p) \/ ReadIdentity(p) \/ Crash(p)
  PROVE  HandoffInv'
<1>1. export[p].pc # "idle" => Minted(export[p].base, export[p].place)
  BY DEF HandoffInv, ExportInv, ExportsKnowTheirHandoff
<1>2. HandoffTyped
  BY DEF HandoffInv
<1>3. CASE HandoffExport(p)
  <2>0. PICK b \in Owners : \E n \in Visible(b) :
          export' = [export EXCEPT ![p] = [pc |-> "look", base |-> b, place |-> n]]
    BY <1>3 DEF HandoffExport
  <2>1. PICK n \in Visible(b) :
          export' = [export EXCEPT ![p] = [pc |-> "look", base |-> b, place |-> n]]
    BY <2>0
  <2>2. Minted(b, n) /\ n \in Nat
    BY <1>2, HandoffAssumption DEF Visible, Minted, Lines, HandoffTyped
  <2>3. [pc |-> "look", base |-> b, place |-> n] \in ExportState
    BY <2>2 DEF ExportState, Pcs, Minted
  <2>4. UNCHANGED <<log, status, identity, sent>>
    BY <1>3 DEF HandoffExport
  <2>5. QED BY <2>1, <2>2, <2>3, <2>4, ExporterKeepsExports
<1>4. CASE LookForIdentity(p)
  <2>1. PICK v \in ExportState : /\ export' = [export EXCEPT ![p] = v] /\ v.pc \in {"create", "read"}
                                 /\ v.base = export[p].base /\ v.place = export[p].place
    <3>1. PICK pc \in {"create", "read"} : Goes(p, pc)
      BY <1>4 DEF LookForIdentity
    <3>2. QED BY <1>2, <3>1, GoesIsAnUpdate DEF Pcs
  <2>2. export[p].pc # "idle" /\ UNCHANGED <<log, status, identity, sent>>
    BY <1>4 DEF LookForIdentity
  <2>3. QED BY <1>1, <2>1, <2>2, ExporterKeepsExports
<1>5. CASE CreateIdentity(p)
  <2>1. export[p].pc # "idle" /\ UNCHANGED <<log, status, sent>>
    BY <1>5 DEF CreateIdentity
  <2>2. CASE identity[Base(p)] = NoFile
    <3>1. Goes(p, "write") /\ identity' = [identity EXCEPT ![export[p].base] = Empty]
      BY <1>5, <2>2 DEF CreateIdentity, Base
    <3>2. PICK v \in ExportState : /\ export' = [export EXCEPT ![p] = v] /\ v.pc = "write"
                                   /\ v.base = export[p].base /\ v.place = export[p].place
      BY <1>2, <3>1, GoesIsAnUpdate DEF Pcs
    <3>3. identity[v.base] = NoFile
      BY <2>2, <3>2 DEF Base
    <3>4. QED BY <1>1, <2>1, <3>1, <3>2, <3>3, ExporterKeepsExports
  <2>3. CASE identity[Base(p)] # NoFile
    <3>1. Goes(p, "read") /\ identity' = identity
      BY <1>5, <2>3 DEF CreateIdentity
    <3>2. PICK v \in ExportState : /\ export' = [export EXCEPT ![p] = v] /\ v.pc = "read"
                                   /\ v.base = export[p].base /\ v.place = export[p].place
      BY <1>2, <3>1, GoesIsAnUpdate DEF Pcs
    <3>3. QED BY <1>1, <2>1, <3>1, <3>2, ExporterKeepsExports
  <2>4. QED BY <2>2, <2>3
<1>6. CASE WriteIdentity(p)
  <2>1. /\ export[p].pc = "write" /\ UNCHANGED <<log, status, sent>> /\ Goes(p, "read")
        /\ identity' = [identity EXCEPT ![export[p].base] = <<export[p].base, p>>]
    BY <1>6 DEF WriteIdentity, Base
  <2>2. PICK v \in ExportState : /\ export' = [export EXCEPT ![p] = v] /\ v.pc = "read"
                                 /\ v.base = export[p].base /\ v.place = export[p].place
    BY <1>2, <2>1, GoesIsAnUpdate DEF Pcs
  <2>3. QED BY <1>1, <2>1, <2>2, ExporterKeepsExports
<1>7. CASE ReadIdentity(p)
  <2> DEFINE b == export[p].base
             n == export[p].place
             e == [origin |-> identity[b], goal |-> log[b][n].goal, handoff |-> <<b, n>>,
                   expires |-> log[b][n].expires]
  <2>1. export[p].pc = "read" /\ UNCHANGED <<log, status, identity>> /\ Minted(b, n)
        /\ export' = [export EXCEPT ![p] = Idle]
        /\ sent' = IF identity[b] \in Origins THEN sent \union {e} ELSE sent
    BY <1>1, <1>7 DEF ReadIdentity, Base, Ends
  <2>2. log[b][n] \in Line /\ n \in Nat /\ b \in Bases
    BY <1>2, <2>1 DEF Minted, HandoffTyped, Lines
  <2>3. identity[b] \in Origins => e \in Envelope /\ EnvelopeIsTrue(e)
    <3>1. log[b][n].goal \in Goals /\ log[b][n].expires \in Expiry
      BY <2>2 DEF Line
    <3>2. QED BY <2>1, <2>2, <3>1 DEF Envelope, EnvelopeIsTrue
  <2>4. \A f \in sent' : f \in sent \/ (f \in Envelope /\ EnvelopeIsTrue(f))
    <3> HIDE DEF e
    <3>1. QED BY <2>1, <2>3
  <2>5. Idle \in ExportState /\ Idle.pc = "idle"
    BY DEF Idle, ExportState, Pcs
  <2>6. QED BY <2>1, <2>4, <2>5, ExporterKeepsExports
<1>8. CASE Crash(p)
  <2>1. UNCHANGED <<log, status, identity, sent>> /\ export' = [export EXCEPT ![p] = Idle]
    BY <1>8 DEF Crash, Ends
  <2>2. Idle \in ExportState /\ Idle.pc = "idle"
    BY DEF Idle, ExportState, Pcs
  <2>3. QED BY <2>1, <2>2, ExporterKeepsExports
<1>9. QED BY <1>3, <1>4, <1>5, <1>6, <1>7, <1>8

(* One step per action. *)
LEMMA NextKeepsHandoffInv == HandoffInv /\ [Next]_vars => HandoffInv'
<1> SUFFICES ASSUME HandoffInv, [Next]_vars PROVE HandoffInv' OBVIOUS
<1>1. ASSUME NEW b \in Bases, HandoffDeclare(b) \/ HandoffTransition(b) \/ HandoffImport(b)
      PROVE  HandoffInv'
  <2>1. PICK r : Request(b, r) /\ Write(b, r)
    BY <1>1, HandlersWriteRequests DEF HandoffInv
  <2>2. QED BY <2>1, WriteKeepsHandoffInv
<1>2. ASSUME NEW b \in Bases, ForgetGoal(b) PROVE HandoffInv'
  BY <1>2, ForgetKeepsHandoffInv
<1>3. ASSUME NEW p \in Exporters,
             \/ HandoffExport(p) \/ LookForIdentity(p) \/ CreateIdentity(p)
             \/ WriteIdentity(p) \/ ReadIdentity(p) \/ Crash(p)
      PROVE  HandoffInv'
  BY <1>3, ExporterKeepsHandoffInv
<1>4. CASE UNCHANGED vars
  <2>1. UNCHANGED <<log, status, identity, export, sent>>
    BY <1>4 DEF vars
  <2>2. LogInv'
    BY <2>1, LogsStay DEF HandoffInv
  <2>3. HandoffTyped'
    BY <2>1 DEF HandoffInv, HandoffTyped
  <2>4. ExportInv'
    BY <2>1 DEF HandoffInv, ExportInv, ExportsKnowTheirHandoff, OneCreator, EnvelopesAreTrue,
       EnvelopeIsTrue, Minted, Lines, Mints
  <2>5. QED BY <2>2, <2>3, <2>4 DEF HandoffInv
<1>5. QED BY <1>1, <1>2, <1>3, <1>4 DEF Next

(* The inductive invariant holds in every reachable state of every instance. *)
THEOREM HandoffInvAlways == Spec => []HandoffInv
BY InitHandoffInv, NextKeepsHandoffInv, PTL DEF Spec

(* A pair's second element. *)
LEMMA SecondOfPair == ASSUME NEW x, NEW y PROVE <<x, y>>[2] = y
OBVIOUS

(* A copy's source handoff names its base, and a base has one identity. *)
LEMMA SourcesAreNamedByTheirHandoff ==
  ASSUME HandoffInv, NEW b \in Bases, NEW i \in Lines(b), log[b][i].op = "handoff_imported",
         NEW from \in Source, Minted(from.handoff[1], from.handoff[2]),
         identity[from.handoff[1]] = from.origin, log[b][i].from.handoff = from.handoff
  PROVE  log[b][i].from = from
<1>1. CopyIsTrue(log[b][i])
  BY DEF HandoffInv, LogInv, CopiesAreTrue
<1>2. \A s \in Source : s = [origin |-> s.origin, handoff |-> s.handoff]
  BY DEF Source
<1> DEFINE f == log[b][i].from
<1>3. f \in Source /\ f.origin = from.origin /\ f.handoff = from.handoff
  BY <1>1 DEF CopyIsTrue
<1> HIDE DEF f
<1>4. f = from
  BY <1>2, <1>3
<1>5. QED BY <1>4 DEF f

(* A base has one identity for good, holds one copy of a piece of work however often and late its envelope is
   delivered, and a handoff is accepted once and completed only after that (_origin_instance_id,
   _check_origin_triple, handoff_transition). *)
THEOREM OneOfEachAlways == Spec => []OneOfEach
<1>1. HandoffInv => OneOfEach
  <2> SUFFICES ASSUME HandoffInv PROVE OneOfEach OBVIOUS
  <2>1. OneIdentityPerBase
    BY DEF HandoffInv, ExportInv, EnvelopesAreTrue, EnvelopeIsTrue, OneIdentityPerBase
  <2>2. OneCopyPerBase
    <3> SUFFICES ASSUME NEW b \in Bases, NEW i \in Lines(b), NEW j \in Lines(b),
                        log[b][i].op = "handoff_imported", log[b][j].op = "handoff_imported",
                        log[b][i].from.handoff = log[b][j].from.handoff
                 PROVE  i = j
      BY DEF OneCopyPerBase
    <3>1. CopyIsTrue(log[b][j])
      BY DEF HandoffInv, LogInv, CopiesAreTrue
    <3>2. log[b][i].from = log[b][j].from
      BY <3>1, SourcesAreNamedByTheirHandoff DEF CopyIsTrue
    <3>3. QED BY <3>2 DEF HandoffInv, LogInv, CopiesAreUnique
  <2>3. QED BY <2>1, <2>2 DEF OneOfEach, HandoffInv, LogInv
<1>2. QED BY <1>1, HandoffInvAlways, PTL

(* A deadline travels with the work, and an envelope that is delivered again in time is acknowledged, though the
   goal is full, was forgotten, or the copy has moved (handoff_export, handoff_import). *)
THEOREM DeliveriesAreHonestAlways == Spec => []DeliveriesAreHonest
<1>1. HandoffInv => DeliveriesAreHonest
  <2> SUFFICES ASSUME HandoffInv PROVE DeliveriesAreHonest OBVIOUS
  <2>1. DeadlinesTravel
    <3> SUFFICES ASSUME NEW b \in Bases, NEW n \in Lines(b), NEW i \in Lines(b),
                        log[b][n].op = "handoff_imported",
                        i = n \/ IsMove(b, i, n, "accepted") \/ IsMove(b, i, n, "completed"),
                        NEW h, h = log[b][n].from.handoff, log[h[1]][h[2]].expires # Never
                 PROVE  log[b][i].now < log[h[1]][h[2]].expires
      BY DEF DeadlinesTravel
    <3>1. CopyIsTrue(log[b][n])
      BY DEF HandoffInv, LogInv, CopiesAreTrue
    <3>2. log[h[1]][h[2]].expires = log[b][n].expires
      BY <3>1 DEF CopyIsTrue
    <3>3. CASE i = n
      BY <3>1, <3>2, <3>3 DEF CopyIsTrue
    <3>4. CASE i # n
      <4>1. MoveIsTrue(b, i) /\ log[b][i].handoff = <<b, n>>
        BY <3>4 DEF IsMove, HandoffInv, LogInv, MovesAreTrue
      <4>2. log[b][n].expires # Never => log[b][i].now < log[b][n].expires
        <5>1. log[b][i].handoff[2] = n
          BY <4>1, SecondOfPair
        <5>2. QED BY <4>1, <5>1 DEF MoveIsTrue
      <4>3. QED BY <3>2, <4>2
    <3>5. QED BY <3>3, <3>4
  <2>2. RedeliveriesAreAcknowledged
    <3> SUFFICES ASSUME NEW b \in Bases, NEW e \in sent, NEW g \in Goals, NEW now \in Moments,
                        NEW i \in Lines(b), log[b][i].op = "handoff_imported",
                        log[b][i].from.handoff = e.handoff,
                        e.expires # Never => now < e.expires
                 PROVE  Acknowledged(b, Importation(e, g, 0, now))
      BY DEF RedeliveriesAreAcknowledged
    <3> DEFINE from == [origin |-> e.origin, handoff |-> e.handoff]
    <3>1. e \in Envelope /\ EnvelopeIsTrue(e)
      BY DEF HandoffInv, ExportInv, HandoffTyped, EnvelopesAreTrue
    <3>2. from \in Source /\ Minted(from.handoff[1], from.handoff[2])
          /\ identity[from.handoff[1]] = from.origin
      BY <3>1 DEF Envelope, Source, EnvelopeIsTrue
    <3>3. log[b][i].from = from
      BY <3>2, SourcesAreNamedByTheirHandoff
    <3>4. \A k \in Lines(b) : log[b][k].id # 0
      <4>1. \A k \in Lines(b) : log[b][k] \in Line
        BY DEF HandoffInv, HandoffTyped, Lines
      <4>2. QED BY <4>1 DEF Line
    <3>5. QED BY <3>3, <3>4 DEF Acknowledged, InTime, KnownOperation, Imported, Importation
  <2>3. QED BY <2>1, <2>2 DEF DeliveriesAreHonest
<1>2. QED BY <1>1, HandoffInvAlways, PTL
=============================================================================
