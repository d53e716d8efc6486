------------------------------ MODULE Governance ------------------------------
(***************************************************************************)
(* Canonical events, deny policies, compiled truth, the sleep journal, the *)
(* audit and compaction (derived_views.py).  Every governed write holds    *)
(* one exclusive lock and goes through several files one after the other;  *)
(* a kill between two of them drops the lock.  compile_truth alone         *)
(* replaces the compiled truth without that lock.                          *)
(***************************************************************************)
EXTENDS Naturals, Sequences, FiniteSets, SequencesExt, Subsequences

CONSTANTS
  Topics,      \* what an event is about: subject and key
  Values,      \* what it says of its topic
  ValidFrom,   \* the moment a value is valid from: compile prefers a later one
  Policies,    \* do-not-remember policies
  Denies,      \* the topics a policy's subject, key or pattern matches
  Builders,    \* processes that call compile_truth(dry_run=False) themselves
  None,        \* no file, no operation, no plan
  Texts,       \* free text that was never an event
  MaxEvents    \* bound on the events ever appended

VARIABLES
  events,      \* events.jsonl: the event lines, oldest first
  marks,       \* ids with a tombstone line in events.jsonl
  policies,    \* deny_policies.jsonl
  truth,       \* compiled_truth.jsonl: rows, or None without the file
  journal,     \* sleep_journal.jsonl: the transaction of its latest entry
  audit,       \* audit.jsonl: the operations it names, with what they hid
  suppressed,  \* recall_suppress.jsonl: values whose digests are listed
  gov,         \* what the holder of the governance lock has yet to write
  plan,        \* per builder, the rows it is about to publish
  minted,      \* history: events appended so far
  forgotten,   \* history: values a returned forget, deny or forget_text hid
  erased,      \* history: values whose last tombstoned event was compacted
  unfiltered,  \* history: rows of truth may have outlived their events
  strayed      \* history: truth was rebuilt outside a completed sleep

store == <<events, marks, policies, suppressed>>
history == <<minted, forgotten, erased, unfiltered, strayed>>
vars == <<store, truth, journal, audit, gov, plan, history>>

-----------------------------------------------------------------------------
Ids == {e.id : e \in ToSet(events)}
Denied(t, ps) == \E p \in ps : t \in Denies[p]
Row(e) == [topic |-> e.topic, value |-> e.value]

\* compile_truth: of the live, undenied events on a topic the one valid from
\* the latest moment wins, the later line among equals.
Beats(i, j) ==
  \/ ValidFrom[events[i].value] > ValidFrom[events[j].value]
  \/ ValidFrom[events[i].value] = ValidFrom[events[j].value] /\ i >= j
Compiled(ps) ==
  LET seen == {i \in DOMAIN events : /\ events[i].id \notin marks
                                     /\ ~Denied(events[i].topic, ps)}
  IN  {Row(events[i]) : i \in {i \in seen : \A j \in seen :
                          events[i].topic = events[j].topic => Beats(i, j)}}

\* A row of the compiled truth stays unless every event it may come from has
\* been tombstoned: a row without any such event is kept.
Sources(r) == {i \in DOMAIN events : Row(events[i]) = r}
Backed(r) == Sources(r) = {} \/ \E i \in Sources(r) : events[i].id \notin marks
\* current_truth and the compaction look at tombstones and forget the policies.
Safe_TombstonesOnly(r) == Backed(r)
Safe(r) == ~Denied(r.topic, policies) /\ Backed(r)
Snapshot == IF truth = None THEN {} ELSE truth

Orphaned(rows) == \E r \in rows : Sources(r) = {}

\* current_truth waits for the governance lock, so it is read when gov = None.
CurrentTruth == {r \in Snapshot : Safe(r)}

\* The digest sleep keys its journal on: all lines and all policies.
Transaction == <<events, marks, policies>>
Fresh == journal = Transaction

-----------------------------------------------------------------------------
Init ==
  /\ events = <<>> /\ marks = {} /\ policies = {} /\ truth = None
  /\ journal = None /\ audit = {} /\ suppressed = {} /\ gov = None
  /\ plan = [b \in Builders |-> None]
  /\ minted = 0 /\ forgotten = {} /\ erased = {}
  /\ unfiltered = FALSE /\ strayed = FALSE

Unlocked == gov = None
ValuesOf(es) == {e.value : e \in es}
Owes(op, hides) == [step |-> "audit", entry |-> [op |-> op, hides |-> hides]]

\* append_event: the policies are read under the lock.
AppendEvent(t, v) ==
  /\ Unlocked /\ minted < MaxEvents
  /\ ~Denied(t, policies)
  /\ events' = Append(events, [id |-> minted + 1, topic |-> t, value |-> v])
  /\ minted' = minted + 1
  /\ forgotten' = forgotten \ {v}
  /\ UNCHANGED <<marks, policies, suppressed, truth, journal, audit, gov, plan,
                 erased, unfiltered, strayed>>

\* do_not_remember: the policy, then the audit, also when it is repeated.
DoNotRemember(p) ==
  /\ Unlocked
  /\ policies' = policies \union {p}
  /\ gov' = Owes("deny", ValuesOf({e \in ToSet(events) : e.topic \in Denies[p]}))
  /\ UNCHANGED <<events, marks, suppressed, truth, journal, audit, plan, history>>

\* A forget that finds nothing live returns before the audit.
Forget_ReturnsEarly(ids) ==
  /\ Unlocked /\ ids # {}
  /\ marks' = marks \union ids
  /\ LET hides == ValuesOf({e \in ToSet(events) : e.id \in ids})
     IN  IF ids \subseteq marks
         THEN gov' = None /\ forgotten' = forgotten \union hides
         ELSE gov' = Owes("forget", hides) /\ UNCHANGED forgotten
  /\ UNCHANGED <<events, policies, suppressed, truth, journal, audit, plan,
                 minted, erased, unfiltered, strayed>>
\* forget of an id, or of a selector: the selector's set includes what an
\* interrupted attempt tombstoned, so that a retry finishes that operation.
Forget(ids) ==
  /\ Unlocked /\ ids # {}
  /\ marks' = marks \union ids
  /\ gov' = Owes("forget", ValuesOf({e \in ToSet(events) : e.id \in ids}))
  /\ UNCHANGED <<events, policies, suppressed, truth, journal, audit, plan, history>>
ForgetId(id) == Forget(Ids \intersect {id})
ForgetTopic(t) == Forget({e.id : e \in {e \in ToSet(events) : e.topic = t}})

\* forget_text: the digests, then the audit.
ForgetText(v) ==
  /\ Unlocked
  /\ suppressed' = suppressed \union {v}
  /\ gov' = Owes("forget_text", {v})
  /\ UNCHANGED <<events, marks, policies, truth, journal, audit, plan, history>>

\* _append_audit writes an operation once; then the call returns.
Audit ==
  /\ ~Unlocked /\ gov.step = "audit"
  /\ audit' = audit \union {gov.entry}
  /\ forgotten' = forgotten \union gov.entry.hides
  /\ gov' = None
  /\ UNCHANGED <<store, truth, journal, plan, minted, erased, unfiltered, strayed>>

-----------------------------------------------------------------------------
\* sleep: planned again under the lock; published; entered in the journal.
AlreadySlept == Fresh
SleepPublish ==
  /\ Unlocked
  /\ ~AlreadySlept
  /\ truth' = Compiled(policies)
  /\ gov' = [step |-> "journal", tx |-> Transaction]
  /\ unfiltered' = FALSE /\ strayed' = FALSE
  /\ UNCHANGED <<store, journal, audit, plan, minted, forgotten, erased>>
SleepJournal ==
  /\ ~Unlocked /\ gov.step = "journal"
  /\ journal' = gov.tx
  /\ gov' = None
  /\ UNCHANGED <<store, truth, audit, plan, history>>

\* compact_memory: the rows to keep are chosen first, the tombstoned events
\* removed, the chosen rows published.
Live(e) == e.id \notin marks
\* The compaction drops a row as soon as one of its events was tombstoned.
Keeps_EverySourceLive(r) ==
  Safe(r) /\ \A i \in Sources(r) : events[i].id \notin marks
Keeps(r) == Safe(r)
CompactEvents ==
  /\ Unlocked /\ events # <<>>
  /\ gov' = [step |-> "filter",
             rows |-> IF truth = None THEN None ELSE {r \in truth : Keeps(r)}]
  /\ events' = Picked(events, {i \in DOMAIN events : Live(events[i])})
  /\ marks' = {}
  /\ erased' = erased \union ValuesOf({e \in ToSet(events) : ~Live(e)})
  /\ UNCHANGED <<policies, suppressed, truth, journal, audit, plan, minted,
                 forgotten, unfiltered, strayed>>
CompactTruth ==
  /\ ~Unlocked /\ gov.step = "filter"
  /\ IF gov.rows = None THEN UNCHANGED <<truth, unfiltered>>
     ELSE truth' = gov.rows /\ unfiltered' = Orphaned(gov.rows)
  /\ gov' = None
  /\ UNCHANGED <<store, journal, audit, plan, minted, forgotten, erased, strayed>>

\* A kill: the kernel drops the lock, what was written stays.
Kill ==
  /\ ~Unlocked
  /\ unfiltered' = (unfiltered \/ gov.step = "filter")
  /\ strayed' = (strayed \/ gov.step = "journal")
  /\ gov' = None
  /\ UNCHANGED <<store, truth, journal, audit, plan, minted, forgotten, erased>>

\* compile_truth(dry_run=False): events and policies are read, the rows are
\* published later, both without the governance lock.
CompileRead(b) ==
  /\ plan[b] = None
  /\ plan' = [plan EXCEPT ![b] = Compiled(policies)]
  /\ UNCHANGED <<store, truth, journal, audit, gov, history>>
CompilePublish(b) ==
  /\ plan[b] # None
  /\ truth' = plan[b]
  /\ plan' = [plan EXCEPT ![b] = None]
  /\ strayed' = TRUE
  /\ unfiltered' = Orphaned(plan[b])
  /\ UNCHANGED <<store, journal, audit, gov, minted, forgotten, erased>>

\* The calls that write the governed stores, and those that rebuild the truth.
Govern ==
  \/ \E t \in Topics, v \in Values : AppendEvent(t, v)
  \/ \E p \in Policies : DoNotRemember(p)
  \/ \E id \in 1..MaxEvents : ForgetId(id)
  \/ \E t \in Topics : ForgetTopic(t)
  \/ \E v \in Texts : ForgetText(v)
  \/ Audit
  \/ CompactEvents \/ CompactTruth
  \/ Kill
Rebuild ==
  \/ SleepPublish \/ SleepJournal
  \/ \E b \in Builders : CompileRead(b) \/ CompilePublish(b)

Next == Govern \/ Rebuild

Spec == Init /\ [][Next]_vars

-----------------------------------------------------------------------------
(* Properties. *)

\* What current_truth shows has a live, undenied event behind it, whatever
\* stale rows the compiled file holds.  The exceptions are rows that outlived
\* their events: a compaction killed before it filtered the compiled truth, or
\* an unlocked compile_truth that published rows read before a compaction.
TruthHidesTheForgotten ==
  Unlocked /\ ~unfiltered =>
    \A r \in CurrentTruth : /\ ~Denied(r.topic, policies)
                            /\ \E e \in ToSet(events) : Live(e) /\ Row(e) = r

\* A truth_status that is not stale (and a sleep that answers already_applied)
\* means that the compiled truth is what the log says, even after appends,
\* forgets and compactions that brought the log back to an earlier state.  A
\* rebuild outside a completed sleep is the exception.
FreshTruthIsTheLog ==
  Unlocked /\ Fresh /\ ~strayed => Snapshot = Compiled(policies)

\* Whatever a call reported as forgotten or denied is named by the audit, also
\* when an earlier attempt was killed between its store and the audit.
AuditNamesTheForgotten ==
  \A v \in forgotten : \E a \in audit : v \in a.hides

-------------------------------------------------------------------------------
(***************************************************************************)
(* Recall-level forgetting (recall_suppress.py) over the governed stores:  *)
(* the threads of one process ask for the table of suppressed values, the  *)
(* process caches it under a stamp of the three files it is built from,    *)
(* and other processes write those files between any two reads.            *)
(***************************************************************************)
CONSTANTS
  Readers,     \* threads that recall
  Short        \* values too short to be suppressed

VARIABLES
  cache,       \* _CACHE: the last table stored and its stamp
  call         \* per reader, how far its call of windows() got

rvars == <<vars, cache, call>>

Windows(vs) == vs \ Short
\* _event_values: values of the lines that are tombstoned or denied.
EventValues(es, ms, ps) ==
  ValuesOf({e \in es : e.id \in ms \/ Denied(e.topic, ps)})
Suppressed == Windows(suppressed \union EventValues(ToSet(events), marks, policies))

Stamp == store
At(r, step) == call[r] # None /\ call[r].step = step

RInit == Init /\ cache = None /\ call = [r \in Readers |-> None]

\* windows: stamp the files, then look into the cache.
Consult(r) ==
  /\ call[r] = None
  /\ LET must == Windows(forgotten) \ erased IN
     call' = [call EXCEPT ![r] =
       IF cache # None /\ cache.stamp = Stamp
       THEN [step |-> "done", table |-> cache.table, must |-> must]
       ELSE [step |-> "list", stamp |-> Stamp, must |-> must]]
  /\ UNCHANGED <<vars, cache>>
ReadList(r) ==
  /\ At(r, "list")
  /\ call' = [call EXCEPT ![r] =
       [step |-> "events", stamp |-> @.stamp, must |-> @.must,
        table |-> Windows(suppressed)]]
  /\ UNCHANGED <<vars, cache>>
ReadEvents(r) ==
  /\ At(r, "events")
  /\ call' = [call EXCEPT ![r] =
       [step |-> "policies", stamp |-> @.stamp, must |-> @.must, table |-> @.table,
        es |-> ToSet(events), ms |-> marks]]
  /\ UNCHANGED <<vars, cache>>
\* Wrong variant: the table is stored under a stamp taken after the reads.
StoredUnder_Now(r) == Stamp
\* The policies, then the table is stored under the stamp the call began with.
StoredUnder(r) == call[r].stamp
ReadPolicies(r) ==
  /\ At(r, "policies")
  /\ LET table == call[r].table \union
                    Windows(EventValues(call[r].es, call[r].ms, policies))
     IN  /\ call' = [call EXCEPT ![r] =
                       [step |-> "done", table |-> table, must |-> call[r].must]]
         /\ cache' = [stamp |-> StoredUnder(r), table |-> table]
  /\ UNCHANGED vars
\* The recall drops what the table matches and is over.
Recalled(r) ==
  /\ At(r, "done")
  /\ call' = [call EXCEPT ![r] = None]
  /\ UNCHANGED <<vars, cache>>
\* forget_text in this process empties its cache.
ForgetTextHere(v) == ForgetText(v) /\ cache' = None /\ UNCHANGED call

RNext ==
  \/ Govern /\ UNCHANGED <<cache, call>>
  \/ \E r \in Readers : \/ Consult(r) \/ ReadList(r) \/ ReadEvents(r)
                        \/ ReadPolicies(r) \/ Recalled(r)
  \/ \E v \in Texts : ForgetTextHere(v)

RSpec == RInit /\ [][RNext]_rvars

-----------------------------------------------------------------------------
(* Properties. *)

\* A recall drops every value that had been forgotten when it began, whichever
\* files changed while it read them and whatever another thread cached; what a
\* compaction has erased from the log meanwhile is the exception.
RecallHidesTheForgotten ==
  \A r \in Readers : At(r, "done") => call[r].must \ erased \subseteq call[r].table

\* "Recall now drops snippets that quote a tombstoned or denied event value":
\* what is forgotten stays out of recall.
ForgottenStaysOutOfRecall == Unlocked => Windows(forgotten) \subseteq Suppressed

===============================================================================
