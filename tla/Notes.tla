-------------------------------- MODULE Notes --------------------------------
(***************************************************************************)
(* Incidents, decisions and runbooks (incident.py, decision_store.py,      *)
(* runbook.py over storage/incident_storage.py): one Markdown note each,   *)
(* read, changed and written back in place.  There is no lock, a write     *)
(* truncates the file first, and a link writes two notes.                  *)
(***************************************************************************)
EXTENDS Naturals, Sequences, SequencesExt, TLC

CONSTANTS
  Callers,      \* threads and processes
  Incidents,    \* ids one title and day may get: base, base-2, ... in order
  Decisions,    \* ids of decisions, likewise
  Runbook,      \* the runbook of one pattern
  Hypotheses,   \* texts of hypotheses
  Within,       \* pairs <<h, g>> of hypotheses where h is a substring of g
  MaxCalls,     \* bound on calls
  Absent, Torn, \* no file; a file that was truncated and not yet written
  NoCall

VARIABLES
  note,         \* the notes, by path
  call,         \* per caller: the tasks that remain, the notes it has read
  calls,        \* calls begun
  disturbed,    \* history: notes with two calls at once or a killed one
  dangling,     \* history: links made when the incident did not exist
  added,        \* history: hypotheses added to an incident
  judged,       \* history: hypotheses rejected or confirmed on it
  best          \* history: highest confidence asked for or reached

history == <<disturbed, dangling, added, judged, best>>
nvars == <<note, call, calls, history>>

IncidentIds == ToSet(Incidents)
DecisionIds == ToSet(Decisions)
Files == IncidentIds \union DecisionIds \union {Runbook}
Full == 100    \* confidence is counted in hundredths

\* A document of any of the three types; an incident's lines are hypotheses.
Blank == [type |-> "none", status |-> "none", archived |-> FALSE, lines |-> <<>>,
          links |-> {}, related |-> {}, confidence |-> 0, used |-> 0]
\* read_doc of a truncated file finds no frontmatter and no section.
Read(doc) == IF doc = Torn THEN Blank ELSE doc

NewIncident(resolved) ==
  [Blank EXCEPT !.type = "incident", !.archived = resolved,
                !.status = IF resolved THEN "resolved" ELSE "open"]
NewDecision(links) ==
  [Blank EXCEPT !.type = "decision", !.status = "accepted", !.links = links]
NewRunbook(confidence) == [Blank EXCEPT !.type = "runbook", !.confidence = confidence]

-----------------------------------------------------------------------------
(* Changes of a document *)

\* incident_update judges every line that contains the text, and adds a line
\* when none does.
Mentions(line, h) == line.h = h \/ <<h, line.h>> \in Within
Judge_Drops(doc, h, verdict) ==
  [doc EXCEPT !.lines = <<[h |-> h, verdict |-> verdict]>>]
Judge(doc, h, verdict) ==
  LET lines == [i \in DOMAIN doc.lines |->
                  IF Mentions(doc.lines[i], h) THEN [h |-> h, verdict |-> verdict]
                  ELSE doc.lines[i]]
  IN  [doc EXCEPT !.lines =
         IF \E i \in DOMAIN lines : Mentions(lines[i], h) THEN lines
         ELSE Append(lines, [h |-> h, verdict |-> verdict])]
Resolve(doc) == [doc EXCEPT !.status = "resolved", !.archived = TRUE]
Reopen(doc) == [doc EXCEPT !.status = "open", !.archived = FALSE]
\* A superseded or rejected decision moves to the archival tier.
SetStatus(doc, status) ==
  [doc EXCEPT !.status = status, !.archived = @ \/ status = "superseded"]
Backref_Replaces(doc, d) == [doc EXCEPT !.related = {d}]
Backref(doc, d) == [doc EXCEPT !.related = @ \union {d}]
\* runbook_add upserts: the higher confidence stays, a use is counted.
Upsert_Overwrites(doc, confidence) ==
  [doc EXCEPT !.confidence = confidence, !.used = @ + 1]
Upsert(doc, confidence) ==
  [doc EXCEPT !.confidence = IF confidence > @ THEN confidence ELSE @, !.used = @ + 1]
Reinforced(x) == IF x + 2 > Full THEN Full ELSE x + 2
Touch(doc) == [doc EXCEPT !.confidence = Reinforced(@), !.used = @ + 1]

Changed(doc, change) ==
  CASE change.kind = "new"      -> change.doc
    [] change.kind = "add"      -> [doc EXCEPT !.lines =
                                      Append(@, [h |-> change.h, verdict |-> "testing"])]
    [] change.kind = "judge"    -> Judge(doc, change.h, change.verdict)
    [] change.kind = "resolve"  -> Resolve(doc)
    [] change.kind = "reopen"   -> Reopen(doc)
    [] change.kind = "status"   -> SetStatus(doc, change.status)
    [] change.kind = "link"     -> [doc EXCEPT !.links = @ \union {change.to}]
    [] change.kind = "backref"  -> Backref(doc, change.from)
    [] change.kind = "upsert"   -> Upsert(doc, change.confidence)
    [] change.kind = "touch"    -> Touch(doc)

-----------------------------------------------------------------------------
(* Calls: a sequence of loads and saves; write_doc truncates, then writes.  *)

LoadOf(f) == <<[do |-> "load", file |-> f, change |-> NoCall]>>
SaveOf(f, change) == <<[do |-> "truncate", file |-> f, change |-> NoCall],
                       [do |-> "write", file |-> f, change |-> change]>>
FilesOf(tasks) == {tasks[i].file : i \in DOMAIN tasks}
Busy(f) == \E c \in Callers : call[c] # NoCall /\ f \in FilesOf(call[c].tasks)

NInit ==
  /\ note = [f \in Files |-> Absent] /\ call = [c \in Callers |-> NoCall] /\ calls = 0
  /\ disturbed = {} /\ dangling = {} /\ added = {} /\ judged = {} /\ best = 0

Begin(c, tasks) ==
  /\ call[c] = NoCall /\ calls < MaxCalls
  /\ call' = [call EXCEPT ![c] = [tasks |-> tasks, held |-> [f \in {} |-> Blank]]]
  /\ calls' = calls + 1
  /\ disturbed' = disturbed \union {f \in FilesOf(tasks) : Busy(f)}
  /\ UNCHANGED note

\* The first id whose note does not exist.
FreeId(ids) == ids[CHOOSE k \in DOMAIN ids :
                     note[ids[k]] = Absent /\ \A j \in 1..(k - 1) : note[ids[j]] # Absent]
HasFreeId(ids) == \E k \in DOMAIN ids : note[ids[k]] = Absent

IncidentRecord(c, resolved) ==
  /\ HasFreeId(Incidents)
  /\ Begin(c, SaveOf(FreeId(Incidents), [kind |-> "new", doc |-> NewIncident(resolved)]))
  /\ UNCHANGED <<dangling, added, judged, best>>
\* decision_record writes the decision, then a back reference per incident.
DecisionRecord(c, i) ==
  /\ HasFreeId(Decisions)
  /\ LET d == FreeId(Decisions) IN
     /\ Begin(c, SaveOf(d, [kind |-> "new", doc |-> NewDecision({i})])
                 \o LoadOf(i) \o SaveOf(i, [kind |-> "backref", from |-> d]))
     /\ dangling' = IF note[i] = Absent THEN dangling \union {<<d, i>>} ELSE dangling
  /\ UNCHANGED <<added, judged, best>>

Update(c, f, change) == note[f] # Absent /\ Begin(c, LoadOf(f) \o SaveOf(f, change))
AddHypothesis(c, i, h) ==
  /\ Update(c, i, [kind |-> "add", h |-> h])
  /\ added' = added \union {<<i, h>>}
  /\ UNCHANGED <<dangling, judged, best>>
JudgeHypothesis(c, i, h, verdict) ==
  /\ Update(c, i, [kind |-> "judge", h |-> h, verdict |-> verdict])
  /\ judged' = judged \union {<<i, h>>} /\ added' = added \union {<<i, h>>}
  /\ UNCHANGED <<dangling, best>>
IncidentUpdate(c, i, kind) ==
  Update(c, i, [kind |-> kind]) /\ UNCHANGED <<dangling, added, judged, best>>
DecisionUpdate(c, d, status) ==
  /\ Update(c, d, [kind |-> "status", status |-> status])
  /\ UNCHANGED <<dangling, added, judged, best>>
\* decision_link: the decision is loaded first and saved last.
DecisionLink(c, d, i) ==
  /\ note[d] # Absent
  /\ Begin(c, LoadOf(d) \o LoadOf(i) \o SaveOf(i, [kind |-> "backref", from |-> d])
              \o SaveOf(d, [kind |-> "link", to |-> i]))
  /\ dangling' = IF note[i] = Absent THEN dangling \union {<<d, i>>} ELSE dangling
  /\ UNCHANGED <<added, judged, best>>

RunbookAdd(c, confidence) ==
  /\ IF note[Runbook] = Absent
     THEN Begin(c, SaveOf(Runbook, [kind |-> "new", doc |-> NewRunbook(confidence)]))
     ELSE Update(c, Runbook, [kind |-> "upsert", confidence |-> confidence])
  /\ best' = IF confidence > best THEN confidence ELSE best
  /\ UNCHANGED <<dangling, added, judged>>
\* runbook_match reinforces the winner it read again.
RunbookMatch(c) ==
  /\ Update(c, Runbook, [kind |-> "touch"])
  /\ best' = Reinforced(best)
  /\ UNCHANGED <<dangling, added, judged>>

Task(c) == Head(call[c].tasks)
Rest(c) == Tail(call[c].tasks)
Working(c, do) == call[c] # NoCall /\ call[c].tasks # <<>> /\ Task(c).do = do
Without(tasks, f) == SelectSeq(tasks, LAMBDA t : t.file # f)
\* A back reference is skipped when the incident is absent or linked already.
Skipped(tasks, doc) ==
  {i \in IncidentIds : /\ i \in doc.links
                       /\ \E k \in DOMAIN tasks : tasks[k].change # NoCall
                                                  /\ tasks[k].change = [kind |-> "link", to |-> i]}
Load(c) ==
  /\ Working(c, "load")
  /\ LET f == Task(c).file
         doc == Read(note[f])
         skip == Skipped(Rest(c), doc)
     IN  call' = [call EXCEPT ![c] =
           IF note[f] = Absent
           THEN [tasks |-> Without(Rest(c), f), held |-> @.held]
           ELSE [tasks |-> SelectSeq(Rest(c), LAMBDA t : t.file \notin skip),
                 held |-> (f :> doc) @@ @.held]]
  /\ UNCHANGED <<note, calls, history>>
Truncate(c) ==
  /\ Working(c, "truncate")
  /\ note' = [note EXCEPT ![Task(c).file] = Torn]
  /\ call' = [call EXCEPT ![c].tasks = Rest(c)]
  /\ UNCHANGED <<calls, history>>
Write(c) ==
  /\ Working(c, "write")
  /\ LET t == Task(c)
         doc == IF t.file \in DOMAIN call[c].held THEN call[c].held[t.file] ELSE Blank
     IN  note' = [note EXCEPT ![t.file] = Changed(doc, t.change)]
  /\ call' = [call EXCEPT ![c].tasks = Rest(c)]
  /\ UNCHANGED <<calls, history>>
Return(c) ==
  /\ call[c] # NoCall /\ call[c].tasks = <<>>
  /\ call' = [call EXCEPT ![c] = NoCall]
  /\ UNCHANGED <<note, calls, history>>
KillCall(c) ==
  /\ call[c] # NoCall
  /\ disturbed' = disturbed \union FilesOf(call[c].tasks)
  /\ call' = [call EXCEPT ![c] = NoCall]
  /\ UNCHANGED <<note, calls, dangling, added, judged, best>>

NNext ==
  \E c \in Callers :
    \/ \E b \in BOOLEAN : IncidentRecord(c, b)
    \/ \E i \in IncidentIds :
         \/ DecisionRecord(c, i)
         \/ \E h \in Hypotheses :
              \/ AddHypothesis(c, i, h)
              \/ \E v \in {"rejected", "confirmed"} : JudgeHypothesis(c, i, h, v)
         \/ \E k \in {"resolve", "reopen"} : IncidentUpdate(c, i, k)
         \/ \E d \in DecisionIds : DecisionLink(c, d, i)
    \/ \E d \in DecisionIds : DecisionUpdate(c, d, "superseded")
    \/ \E x \in {50, 99} : RunbookAdd(c, x)
    \/ RunbookMatch(c)
    \/ Load(c) \/ Truncate(c) \/ Write(c) \/ Return(c) \/ KillCall(c)

NSpec == NInit /\ [][NNext]_nvars

-----------------------------------------------------------------------------
(* Properties. *)

Quiet(f) == f \notin disturbed /\ ~Busy(f) /\ note[f] # Absent
\* incident_search and decision_search list the notes of their type.
IncidentSearch(status) ==
  {i \in IncidentIds : note[i] \notin {Absent, Torn} /\ note[i].type = "incident"
                       /\ note[i].status = status}

\* A link that decision_record or decision_link made is seen from both notes,
\* unless the incident did not exist then, or another call or a kill cut in.
LinksGoBothWays ==
  \A d \in DecisionIds, i \in IncidentIds :
    Quiet(d) /\ Quiet(i) /\ i \in note[d].links /\ <<d, i>> \notin dangling =>
      d \in note[i].related

\* Judging one hypothesis keeps every other one, except those whose text
\* contains the judged text.
HypothesesSurvive ==
  \A i \in IncidentIds, h \in Hypotheses :
    Quiet(i) /\ <<i, h>> \in added
    /\ (\A g \in Hypotheses : <<g, h>> \in Within => <<i, g>> \notin judged) =>
      \E k \in DOMAIN note[i].lines : note[i].lines[k].h = h

\* A note nobody disturbed keeps its type, so searches find it, its tier fits
\* its status, and a runbook keeps the highest confidence it ever had.
NotesStayWhole ==
  /\ \A i \in IncidentIds : Quiet(i) =>
       i \in IncidentSearch(IF note[i].archived THEN "resolved" ELSE "open")
  /\ \A d \in DecisionIds : Quiet(d) => note[d].type = "decision"
  /\ Quiet(Runbook) => note[Runbook].type = "runbook" /\ note[Runbook].confidence = best
=============================================================================
