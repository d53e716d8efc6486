------------------------------- MODULE LiveNotes -------------------------------
(***************************************************************************)
(* The pages of one subject (core.py, _core_detection_helpers.py): a live  *)
(* note and an entity page, the report of conflicts and the registry of    *)
(* facts.  Each is read whole, changed by text substitution and written in *)
(* place without a lock; an extraction does this to one file after another.*)
(* Page text is abstracted to its sections; "Recent Activity", which every *)
(* update repeats from the timeline, and the wording are left out.         *)
(***************************************************************************)
EXTENDS Naturals, Sequences, FiniteSets, SequencesExt

CONSTANTS
  Callers,
  Roles,         \* values of a state field an update may carry
  Facts,
  Clashes,       \* the pairs <<old, new>> of facts is_opposing tells apart
  Gate,          \* gate_mode: "enforce", "preview" or "off"
  LogMax,        \* entries at which write-gate.jsonl is rotated
  Chores,        \* the upkeep calls made: some of "fileback", "decay", "summarize", "promote"
  MaxCalls,      \* bound on calls
  MaxKills,      \* bound on killed calls
  NoCall

VARIABLES
  page,          \* the live note and the entity page
  report,        \* CONFLICTS.md, oldest first
  registry,      \* fact-registry.md
  gatelog,       \* write-gate.jsonl and the .1 it was rotated to
  version,       \* writes of each file
  call,          \* per caller: the jobs its call has left and what it read
  calls, kills,
  disturbed,     \* history: files written from a stale read, or torn
  told,          \* history: the roles update wrote to the live note
  kept,          \* history: facts each page was given
  dropped        \* history: conflicts whose extraction was killed, and log lines rotated away

lvars == <<page, report, registry, gatelog, version, call, calls, kills, disturbed, told, kept, dropped>>

Pages == {"live", "entity"}
Unset == "unset"
Row(do, what, was, chat) == [do |-> do, what |-> what, was |-> was, chat |-> chat]
NoPage == [there |-> FALSE, torn |-> FALSE, tier |-> Unset, role |-> Unset, count |-> 0,
           rows |-> <<>>, points |-> {}, tags |-> {}, aged |-> 0, summary |-> FALSE]
\* The templates of track and of create_entity; rows are newest first.
Template(which, chat) ==
  [NoPage EXCEPT !.there = TRUE, !.tier = IF which = "live" THEN "core" ELSE "recall",
                 !.count = IF which = "live" THEN 1 ELSE 0,
                 !.rows = <<Row("created", Unset, Unset, chat)>>]

\* apply_state_changes: a value replaced by another one leaves a transition.
Transition(p, role) ==
  IF p.role \in {Unset, role} THEN <<>> ELSE <<Row("transition", role, p.role, FALSE)>>
Updated_RoleOnly(p, role) ==
  [p EXCEPT !.role = role, !.count = @ + 1, !.rows = <<Row("update", role, Unset, FALSE)>> \o @]
Updated(p, role) ==
  [p EXCEPT !.role = role, !.count = @ + 1,
            !.rows = Transition(p, role) \o <<Row("update", role, Unset, FALSE)>> \o @]

\* Only live notes have Key Points; an entity page takes facts in its timeline.
Appended(which, p, fact, chat) ==
  IF which = "live" THEN [p EXCEPT !.points = @ \union {fact}]
  ELSE [p EXCEPT !.rows = <<Row("fact", fact, Unset, chat)>> \o @]
Tagged(which, p, old, new, chat) ==
  [p EXCEPT !.tags = IF which = "live" THEN @ \union {<<old, new>>} ELSE @,
            !.rows = <<Row("conflict", new, old, chat)>> \o @]
Untagged(p, new) ==
  LET settled == {t \in p.tags : t[2] = new} IN
  [p EXCEPT !.tags = @ \ settled,
            !.points = IF settled = {} THEN @ ELSE @ \union {new}]

FactsOn(p) == p.points \union {t[2] : t \in p.tags}
                       \union {p.rows[i].what : i \in {j \in DOMAIN p.rows : p.rows[j].do = "fact"}}

\* What one job writes back, given the page it read; a torn page has none of
\* the headings the substitutions look for.
Apply(job, p) ==
  IF p.torn THEN p
  ELSE CASE job.do = "update"    -> Updated(p, job.what)
         [] job.do = "redetect"  -> [p EXCEPT !.rows = <<Row("redetected", Unset, Unset, job.chat)>> \o @]
         [] job.do = "append"    -> Appended(job.on, p, job.what, job.chat)
         [] job.do = "tag"       -> Tagged(job.on, p, job.was, job.what, job.chat)
         [] job.do = "untag"     -> Untagged(p, job.what)
         [] job.do = "promote"   -> [p EXCEPT !.tier = job.what]
         [] job.do = "fileback"  -> [p EXCEPT !.rows = <<Row("brief", Unset, Unset, FALSE)>> \o @]
         [] job.do = "decay"     -> [p EXCEPT !.aged = Len(p.rows)]
         [] job.do = "summarize" -> [p EXCEPT !.summary = TRUE]

\* write_gate: a page that is missing or still a template takes nothing from chat.
IsTemplate(which, p) ==
  which = "entity" /\ (\/ \A i \in DOMAIN p.rows : p.rows[i].do \in {"created", "redetected"}
                       \/ \A i \in DOMAIN p.rows : p.rows[i].chat)
FirstPage == IF page["live"].there THEN "live" ELSE "entity"
Enriched == page[FirstPage].there /\ ~IsTemplate(FirstPage, page[FirstPage])

-----------------------------------------------------------------------------

Files == Pages \union {"report", "registry"}

LInit ==
  /\ page = [w \in Pages |-> NoPage] /\ report = <<>> /\ registry = <<>>
  /\ gatelog = [now |-> <<>>, older |-> <<>>]
  /\ version = [f \in Files |-> 0] /\ call = [c \in Callers |-> NoCall] /\ calls = 0 /\ kills = 0
  /\ disturbed = {} /\ told = <<>> /\ kept = [w \in Pages |-> {}] /\ dropped = {}

Job(do, on, what, was, chat) == [do |-> do, on |-> on, what |-> what, was |-> was, chat |-> chat]
Nothing == [page |-> NoPage, list |-> <<>>, at |-> 0]

Begin(c, jobs, seen) ==
  /\ call[c] = NoCall /\ calls < MaxCalls /\ calls' = calls + 1
  /\ call' = [call EXCEPT ![c] = [jobs |-> jobs, open |-> FALSE, seen |-> seen, found |-> <<>>]]
Quiet == UNCHANGED <<page, report, registry, version, kills, disturbed, told, kept>>

\* track writes its template if there was no live note when it looked.
Track(c) ==
  /\ ~page["live"].there /\ Begin(c, <<Job("create", "live", Unset, Unset, FALSE)>>, Nothing)
  /\ Quiet /\ UNCHANGED <<gatelog, dropped>>

\* Calls that change one page: update; promote, brief(file_back), decay and summarize.
Change(c, do, on, what) ==
  /\ page[on].there
  /\ do = "update" => on = "live"
  /\ do \in {"promote", "fileback", "summarize"} => on = FirstPage
  /\ do = "decay" => page[on].aged < Len(page[on].rows)
  /\ do = "summarize" => ~page[on].summary
  /\ Begin(c, <<Job(do, on, what, Unset, FALSE)>>, Nothing)
  /\ Quiet /\ UNCHANGED <<gatelog, dropped>>

\* log_decisions rotates a full log over the one it rotated before.
LogRejected(item) ==
  IF Len(gatelog.now) > LogMax
  THEN /\ gatelog' = [now |-> <<item>>, older |-> gatelog.now]
       /\ dropped' = dropped \union ToSet(gatelog.older)
  ELSE gatelog' = [gatelog EXCEPT !.now = Append(@, item)] /\ UNCHANGED dropped

\* extract_conversations of a text with one subject and one fact about it.
Extract(c, fact, chat) ==
  LET barred == chat /\ Gate # "off" /\ ~Enriched
      writes == ~barred \/ Gate = "preview"
      entity == Job("create", "entity", Unset, Unset, chat)
      detect == Job("detect", "live", fact, Unset, chat)
      listed == Job("register", "registry", fact, Unset, chat)
  IN /\ Begin(c, IF writes THEN <<entity, detect, listed>> ELSE <<>>, Nothing)
     /\ IF barred THEN LogRejected(fact) ELSE UNCHANGED <<gatelog, dropped>>
     /\ Quiet

\* resolve_conflicts reads the report once and rewrites what it read.
Open(r) == {i \in DOMAIN r : r[i].open}
Resolve(c, strategy) ==
  LET untag(i) == Job("untag", report[i].on, report[i].new, Unset, FALSE)
      first == SetToSortSeq(Open(report), <)
      jobs == IF strategy = "newest" THEN [k \in DOMAIN first |-> untag(first[k])] ELSE <<>>
  IN /\ Open(report) # {}
     /\ Begin(c, Append(jobs, Job("mark", "report", Unset, Unset, FALSE)),
              [page |-> NoPage, list |-> report, at |-> version["report"]])
     /\ Quiet /\ UNCHANGED <<gatelog, dropped>>

-----------------------------------------------------------------------------

Head1(c) == Head(call[c].jobs)
\* append_fact and create_entity pick their page when they start.
Target(job) ==
  CASE job.do = "append" -> FirstPage
    [] job.do = "report" -> "report"
    [] OTHER -> job.on
Working(c) == call[c] # NoCall /\ call[c].jobs # <<>>
Popped(c) == [call EXCEPT ![c] = [@ EXCEPT !.jobs = Tail(@), !.open = FALSE]]

\* detect_conflicts reads both pages; every conflict is tagged before the fact
\* is appended, and reported after.
Conflicts(fact) ==
  {<<w, f>> : w \in {v \in Pages : page[v].there}, f \in {g \in Facts : <<g, fact>> \in Clashes}}
Detect(c) ==
  LET job == Head1(c)
      found == SetToSeq({x \in Conflicts(job.what) : x[2] \in FactsOn(page[x[1]])})
      tags == [i \in DOMAIN found |-> Job("tag", found[i][1], job.what, found[i][2], job.chat)]
      lines == [i \in DOMAIN found |-> [on |-> found[i][1], old |-> found[i][2], new |-> job.what, open |-> TRUE]]
      noted == IF found = <<>> THEN <<>> ELSE <<Job("report", "report", Unset, Unset, job.chat)>>
  IN /\ Working(c) /\ job.do = "detect"
     /\ call' = [call EXCEPT ![c] =
          [@ EXCEPT !.jobs = tags \o <<Job("append", "live", job.what, Unset, job.chat)>> \o noted \o Tail(@),
                    !.found = lines]]
     /\ Quiet /\ UNCHANGED <<gatelog, calls, dropped>>

\* The read half of a job; one whose page is missing is passed over.
Look(c) ==
  LET job == Head1(c)
      on == Target(job)
      job1 == CASE job.do = "create" /\ page[on].there ->
                     IF on = "live" THEN [job EXCEPT !.do = "leave"] ELSE [job EXCEPT !.do = "redetect"]
                [] OTHER -> [job EXCEPT !.on = on]
      seen == [page |-> IF on \in Pages THEN page[on] ELSE NoPage,
               list |-> IF on = "registry" THEN registry ELSE report,
               at |-> version[on]]
      passes == on \in Pages /\ job.do # "create" /\ ~page[on].there
  IN /\ Working(c) /\ ~call[c].open /\ job.do # "detect"
     /\ call' = IF passes \/ job1.do = "leave" THEN Popped(c)
                ELSE [call EXCEPT ![c] = [@ EXCEPT !.jobs = <<job1>> \o Tail(@), !.open = TRUE,
                                                   !.seen = IF job.do = "mark" THEN @ ELSE seen]]
     /\ Quiet /\ UNCHANGED <<gatelog, calls, dropped>>

Reported_Replaces(list, lines) == lines
Reported(list, lines) == list \o lines
Registered_Blindly(list, fact) == Append(list, fact)
Registered(list, fact) == IF fact \in ToSet(list) THEN list ELSE Append(list, fact)
Marked(list) == [i \in DOMAIN list |-> [list[i] EXCEPT !.open = FALSE]]

\* The write half.
Put(c) ==
  LET job == Head1(c)
      seen == call[c].seen
      on == job.on
  IN /\ Working(c) /\ call[c].open
     /\ page' = IF on \in Pages
                THEN [page EXCEPT ![on] = IF job.do = "create" THEN Template(on, job.chat)
                                          ELSE Apply(job, seen.page)]
                ELSE page
     /\ report' = CASE job.do = "report" -> Reported(seen.list, call[c].found)
                    [] job.do = "mark" -> Marked(seen.list)
                    [] OTHER -> report
     /\ registry' = IF on = "registry" THEN Registered(seen.list, job.what) ELSE registry
     /\ version' = [version EXCEPT ![on] = @ + 1]
     /\ disturbed' = IF seen.at = version[on] THEN disturbed ELSE disturbed \union {on}
     /\ told' = IF job.do = "update" THEN Append(told, job.what) ELSE told
     /\ kept' = IF job.do = "append" THEN [kept EXCEPT ![on] = @ \union {job.what}] ELSE kept
     /\ call' = Popped(c)
     /\ UNCHANGED <<gatelog, calls, kills, dropped>>

Return(c) ==
  /\ call[c] # NoCall /\ call[c].jobs = <<>> /\ call' = [call EXCEPT ![c] = NoCall]
  /\ Quiet /\ UNCHANGED <<gatelog, calls, dropped>>

\* A kill while a file is written leaves it truncated.
Kill(c) ==
  LET on == Head1(c).on IN
  /\ Working(c) /\ kills < MaxKills /\ kills' = kills + 1
  /\ call' = [call EXCEPT ![c] = NoCall]
  /\ dropped' = dropped \union {<<l.on, l.old, l.new>> : l \in ToSet(call[c].found)}
  /\ \/ UNCHANGED <<page, report, registry, disturbed, version>>
     \/ /\ call[c].open
        /\ page' = IF on \in Pages THEN [page EXCEPT ![on] = [NoPage EXCEPT !.there = TRUE, !.torn = TRUE]] ELSE page
        /\ report' = IF on = "report" THEN <<>> ELSE report
        /\ registry' = IF on = "registry" THEN <<>> ELSE registry
        /\ version' = [version EXCEPT ![on] = @ + 1] /\ disturbed' = disturbed \union {on}
  /\ UNCHANGED <<gatelog, calls, told, kept>>

LNext ==
  \E c \in Callers :
    \/ Track(c) \/ Detect(c) \/ Look(c) \/ Put(c) \/ Return(c) \/ Kill(c)
    \/ \E r \in Roles : Change(c, "update", "live", r)
    \/ \E w \in Pages, do \in Chores : Change(c, do, w, "archival")
    \/ \E f \in Facts, chat \in BOOLEAN : Extract(c, f, chat)
    \/ \E s \in {"newest", "keep-both"} : Resolve(c, s)

LSpec == LInit /\ [][LNext]_lvars

-----------------------------------------------------------------------------

Told(p) ==
  LET rows == SelectSeq(Reverse(p.rows), LAMBDA r : r.do = "update") IN [i \in DOMAIN rows |-> rows[i].what]
Moves(p) ==
  LET rows == SelectSeq(Reverse(p.rows), LAMBDA r : r.do = "transition") IN
  [i \in DOMAIN rows |-> <<rows[i].was, rows[i].what>>]
\* The changes of value in a sequence of roles.
Changes(s) ==
  LET at == SetToSortSeq({i \in 2..Len(s) : s[i] # s[i - 1]}, <) IN
  [k \in DOMAIN at |-> <<s[at[k] - 1], s[at[k]]>>]

\* A live note no two calls wrote at once keeps its whole story: every update
\* in order and counted, the state the last one told, a transition for each
\* change of it, and every fact it was given.
NotesKeepTheirStory ==
  LET p == page["live"] IN
  p.there /\ "live" \notin disturbed =>
    /\ Told(p) = told /\ p.count = Len(told) + 1
    /\ p.role = (IF told = <<>> THEN Unset ELSE Last(told))
    /\ Moves(p) = Changes(told)
    /\ kept["live"] \subseteq FactsOn(p)

\* A conflict noted in a page has its line in CONFLICTS.md, resolved or not,
\* unless its extraction is still at work, was killed, or the report was raced;
\* and the registry names no fact twice, raced or not.
ConflictsAreOnRecord ==
  /\ "report" \notin disturbed =>
       \A w \in Pages : \A r \in {x \in ToSet(page[w].rows) : x.do = "conflict"} :
         \/ \E i \in DOMAIN report : <<report[i].on, report[i].old, report[i].new>> = <<w, r.was, r.what>>
         \/ \E c \in Callers : call[c] # NoCall /\ \E l \in ToSet(call[c].found) : <<l.on, l.old, l.new>> = <<w, r.was, r.what>>
         \/ <<w, r.was, r.what>> \in dropped
  /\ Cardinality(ToSet(registry)) = Len(registry)
=============================================================================
