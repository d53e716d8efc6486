--------------------------- MODULE ComponentProofs ---------------------------
(***************************************************************************)
(* Theorems about the components that derive something from files others   *)
(* write, each of the component's own specification and for every value of *)
(* its constants: what governance, derived views and recall promise of     *)
(* forgotten data, artifacts, candidates, project synchronisation, the     *)
(* correction policy, project memory, and how old an answer can be that a  *)
(* cache gives instead of the file: the projection cache, the cache of     *)
(* search results, the shared search index, the embedding index and the    *)
(* cache of file contents.                                                 *)
(***************************************************************************)
EXTENDS Governance, SubsequenceProofs, SequenceTheorems

-----------------------------------------------------------------------------
(* Governance. *)

Event == [id : Nat, topic : Topics, value : Values]
Rows == [topic : Topics, value : Values]
States == Seq(Event) \X (SUBSET Nat) \X (SUBSET Policies)

(* What stands for no file, no operation and no plan is none of them. *)
NoneIsApart ==
  /\ None \notin SUBSET Rows /\ None \notin States
  /\ \A e : None # [step |-> "audit", entry |-> e]
  /\ \A tx : None # [step |-> "journal", tx |-> tx]
  /\ \A rows : None # [step |-> "filter", rows |-> rows]

IsStep(step) == gov # None /\ gov.step = step
StoresAreTyped ==
  /\ events \in Seq(Event) /\ minted \in Nat
  /\ \A i \in DOMAIN events : events[i].id <= minted
  /\ marks \in SUBSET Nat /\ policies \in SUBSET Policies
DerivedAreTyped ==
  /\ truth \in (SUBSET Rows) \union {None}
  /\ \A b \in Builders : plan[b] \in (SUBSET Rows) \union {None}
  /\ DOMAIN plan = Builders
  /\ IsStep("filter") => gov.rows \in (SUBSET Rows) \union {None}

(* What a compaction leaves of a log. *)
LEMMA LogsShrink ==
  ASSUME NEW X, NEW s \in Seq(X), NEW places
  PROVE  /\ Picked(s, places) \in Seq(X)
         /\ ToSet(Picked(s, places)) = {s[i] : i \in DOMAIN s \intersect places}
<1> DEFINE p == Picked(s, places)
<1>1. /\ p \in Seq(X)
      /\ \A k \in 1 .. Len(p) : \E i \in 1 .. Len(s) : i \in places /\ p[k] = s[i]
      /\ \A i \in 1 .. Len(s) : i \in places => \E k \in 1 .. Len(p) : p[k] = s[i]
  BY PickedElements
<1> HIDE DEF p
<1>2. DOMAIN p = 1 .. Len(p) /\ DOMAIN s = 1 .. Len(s)
  BY <1>1
<1>3. ASSUME NEW x \in {p[k] : k \in DOMAIN p} PROVE x \in {s[i] : i \in DOMAIN s \intersect places}
  <2>1. PICK k \in 1 .. Len(p) : x = p[k]
    BY <1>2, <1>3
  <2>2. PICK i \in 1 .. Len(s) : i \in places /\ p[k] = s[i]
    BY <1>1
  <2> QED BY <1>2, <2>1, <2>2
<1>4. ASSUME NEW i \in DOMAIN s \intersect places PROVE s[i] \in {p[k] : k \in DOMAIN p}
  BY <1>1, <1>2
<1>5. {p[k] : k \in DOMAIN p} = {s[i] : i \in DOMAIN s \intersect places}
  BY <1>3, <1>4
<1> QED BY <1>1, <1>5, Elements DEF p

(* What a compiled row stands for. *)
CompiledFrom(es, ms, ps) ==
  LET seen == {i \in DOMAIN es : es[i].id \notin ms /\ ~Denied(es[i].topic, ps)}
      beats(i, j) == \/ ValidFrom[es[i].value] > ValidFrom[es[j].value]
                     \/ ValidFrom[es[i].value] = ValidFrom[es[j].value] /\ i >= j
  IN  {Row(es[i]) : i \in {i \in seen : \A j \in seen :
                             es[i].topic = es[j].topic => beats(i, j)}}

LEMMA CompiledIsFrom == \A ps : Compiled(ps) = CompiledFrom(events, marks, ps)
BY DEF Compiled, CompiledFrom, Beats

LEMMA CompiledRows ==
  ASSUME NEW es, NEW ms, NEW ps, NEW r \in CompiledFrom(es, ms, ps)
  PROVE  /\ ~Denied(r.topic, ps)
         /\ \E i \in DOMAIN es : es[i].id \notin ms /\ Row(es[i]) = r
<1>1. PICK i \in DOMAIN es : es[i].id \notin ms /\ ~Denied(es[i].topic, ps) /\ r = Row(es[i])
  BY DEF CompiledFrom
<1> QED BY <1>1 DEF Row

LEMMA CompiledIsTyped ==
  ASSUME NEW es \in Seq(Event), NEW ms, NEW ps PROVE CompiledFrom(es, ms, ps) \in SUBSET Rows
<1> SUFFICES ASSUME NEW r \in CompiledFrom(es, ms, ps) PROVE r \in Rows
  OBVIOUS
<1>1. PICK i \in DOMAIN es : Row(es[i]) = r
  BY CompiledRows
<1>2. es[i] \in Event
  OBVIOUS
<1> QED BY <1>1, <1>2 DEF Row, Rows, Event

LEMMA GovernKeepsStores ==
  ASSUME StoresAreTyped, Govern PROVE StoresAreTyped'
<1> USE DEF StoresAreTyped
<1>1. ASSUME NEW x \in Topics, NEW v \in Values, AppendEvent(x, v) PROVE StoresAreTyped'
  <2> DEFINE e == [id |-> minted + 1, topic |-> x, value |-> v]
  <2>1. e \in Event /\ e.id = minted + 1
    BY DEF Event
  <2>2. events' = Append(events, e) /\ minted' = minted + 1 /\ UNCHANGED <<marks, policies>>
    BY <1>1 DEF AppendEvent
  <2> HIDE DEF e
  <2>3. \A i \in DOMAIN events : events[i] \in Event
    OBVIOUS
  <2>4. ASSUME NEW i \in DOMAIN events' PROVE events'[i].id <= minted'
    <3>1. CASE i \in DOMAIN events
      BY <2>1, <2>2, <2>3, <3>1, LogsGrow DEF Event
    <3>2. CASE i = Len(events) + 1
      BY <2>1, <2>2, <3>2, LogsGrow
    <3> QED BY <2>1, <2>2, <3>1, <3>2, LogsGrow
  <2> QED BY <2>1, <2>2, <2>4, LogsGrow
<1>2. ASSUME NEW p \in Policies, DoNotRemember(p) PROVE StoresAreTyped'
  BY <1>2 DEF DoNotRemember, history
<1>3. ASSUME NEW ids, ids \in SUBSET Nat, Forget(ids) PROVE StoresAreTyped'
  BY <1>3 DEF Forget, history
<1>4. Ids \in SUBSET Nat
  <2>1. \A e \in ToSet(events) : e \in Event
    BY Elements
  <2> QED BY <2>1 DEF Ids, Event
<1>5. ASSUME NEW id, ForgetId(id) PROVE StoresAreTyped'
  BY <1>3, <1>4, <1>5 DEF ForgetId
<1>6. ASSUME NEW x \in Topics, ForgetTopic(x) PROVE StoresAreTyped'
  <2>1. {e.id : e \in {e \in ToSet(events) : e.topic = x}} \in SUBSET Nat
    BY <1>4 DEF Ids
  <2> QED BY <1>3, <1>6, <2>1 DEF ForgetTopic
<1>7. ASSUME NEW v, ForgetText(v) PROVE StoresAreTyped'
  BY <1>7 DEF ForgetText, history
<1>8. CASE Audit
  BY <1>8 DEF Audit, store
<1>9. CASE CompactEvents
  <2> DEFINE live == {i \in DOMAIN events : Live(events[i])}
             rest == Picked(events, live)
  <2>1. events' = rest /\ marks' = {} /\ policies' = policies /\ minted' = minted
    BY <1>9 DEF CompactEvents
  <2>2. rest \in Seq(Event) /\ ToSet(rest) = {events[i] : i \in DOMAIN events \intersect live}
    BY LogsShrink
  <2> HIDE DEF rest
  <2>3. ASSUME NEW i \in DOMAIN rest PROVE rest[i].id <= minted
    <3>1. rest[i] \in ToSet(rest)
      BY Elements
    <3> QED BY <2>2, <3>1
  <2> QED BY <2>1, <2>2, <2>3
<1>10. CASE CompactTruth
  BY <1>10 DEF CompactTruth, store
<1>11. CASE Kill
  BY <1>11 DEF Kill, store
<1> QED BY <1>1, <1>2, <1>5, <1>6, <1>7, <1>8, <1>9, <1>10, <1>11 DEF Govern

LEMMA RebuildKeepsStores ==
  ASSUME Rebuild PROVE UNCHANGED store /\ minted' = minted
BY DEF Rebuild, SleepPublish, SleepJournal, CompileRead, CompilePublish, store, history

LEMMA StoresStayTyped ==
  ASSUME StoresAreTyped, [Next]_vars PROVE StoresAreTyped'
<1>1. CASE Govern
  BY <1>1, GovernKeepsStores
<1>2. CASE Rebuild
  BY <1>2, RebuildKeepsStores DEF store, StoresAreTyped
<1>3. CASE UNCHANGED vars
  BY <1>3 DEF vars, store, history, StoresAreTyped
<1> QED BY <1>1, <1>2, <1>3 DEF Next

LEMMA StoresBeginTyped == Init => StoresAreTyped
BY DEF Init, StoresAreTyped

(* Compiled truth, plans and what a compaction kept are rows. *)
LEMMA DerivedStayTyped ==
  ASSUME NoneIsApart, StoresAreTyped, DerivedAreTyped, [Next]_vars PROVE DerivedAreTyped'
<1> USE DEF DerivedAreTyped, IsStep, NoneIsApart
<1>1. \A ps : Compiled(ps) \in SUBSET Rows
  BY CompiledIsFrom, CompiledIsTyped DEF StoresAreTyped
<1>2. ASSUME NEW x \in Topics, NEW v \in Values, AppendEvent(x, v) PROVE DerivedAreTyped'
  BY <1>2 DEF AppendEvent
<1>3. ASSUME NEW p \in Policies, DoNotRemember(p) PROVE DerivedAreTyped'
  BY <1>3 DEF DoNotRemember, history, Owes
<1>4. ASSUME NEW ids, Forget(ids) PROVE DerivedAreTyped'
  BY <1>4 DEF Forget, history, Owes
<1>5. ASSUME NEW v, ForgetText(v) PROVE DerivedAreTyped'
  BY <1>5 DEF ForgetText, history, Owes
<1>6. CASE Audit
  BY <1>6 DEF Audit, store
<1>7. CASE CompactEvents
  <2>1. /\ gov' = [step |-> "filter", rows |-> IF truth = None THEN None ELSE {r \in truth : Keeps(r)}]
        /\ UNCHANGED <<truth, plan>>
    BY <1>7 DEF CompactEvents
  <2>2. gov'.rows \in (SUBSET Rows) \union {None}
    BY <2>1
  <2> QED BY <2>1, <2>2
<1>8. CASE CompactTruth
  BY <1>8 DEF CompactTruth, store, Unlocked
<1>9. CASE Kill
  BY <1>9 DEF Kill, store
<1>10. CASE SleepPublish
  BY <1>1, <1>10 DEF SleepPublish, store
<1>11. CASE SleepJournal
  BY <1>11 DEF SleepJournal, store
<1>12. ASSUME NEW b \in Builders, CompileRead(b) PROVE DerivedAreTyped'
  <2>1. Compiled(policies) \in SUBSET Rows
    BY <1>1
  <2>2. plan' = [plan EXCEPT ![b] = Compiled(policies)] /\ UNCHANGED <<truth, gov>>
    BY <1>12 DEF CompileRead
  <2>3. DOMAIN plan' = Builders /\ \A x \in Builders : plan'[x] \in {plan[x], Compiled(policies)}
    BY <2>2
  <2> QED BY <2>1, <2>2, <2>3
<1>13. ASSUME NEW b \in Builders, CompilePublish(b) PROVE DerivedAreTyped'
  BY <1>13 DEF CompilePublish, store
<1>14. CASE UNCHANGED vars
  BY <1>14 DEF vars, store
<1> QED BY <1>2, <1>3, <1>4, <1>5, <1>6, <1>7, <1>8, <1>9, <1>10, <1>11, <1>12, <1>13, <1>14
        DEF Next, Govern, Rebuild, ForgetId, ForgetTopic

(* ---- what is reported as forgotten is audited ---- *)
(* Whatever a call reported as forgotten or denied is named by the audit. *)
THEOREM TheForgottenAreAlwaysAudited == Spec => []AuditNamesTheForgotten
<1>1. Init => AuditNamesTheForgotten
  BY DEF Init, AuditNamesTheForgotten
<1>2. ASSUME AuditNamesTheForgotten, [Next]_vars PROVE AuditNamesTheForgotten'
  <2>1. CASE Audit
    BY <1>2, <2>1 DEF Audit, AuditNamesTheForgotten
  <2>2. CASE audit' = audit /\ forgotten' \subseteq forgotten
    BY <1>2, <2>2 DEF AuditNamesTheForgotten
  <2>3. [Next]_vars => Audit \/ (audit' = audit /\ forgotten' \subseteq forgotten)
    BY DEF Next, Govern, Rebuild, AppendEvent, DoNotRemember, ForgetId, ForgetTopic, Forget, ForgetText,
           CompactEvents, CompactTruth, Kill, SleepPublish, SleepJournal, CompileRead, CompilePublish,
           vars, store, history
  <2> QED BY <1>2, <2>1, <2>2, <2>3
<1> QED BY <1>1, <1>2, PTL DEF Spec

(* ---- current truth hides the forgotten ---- *)
(* Rows that have no event any more are only where unfiltered says so, or where *)
(* the compaction under way is about to replace them.                           *)
RowsHaveSources ==
  ~unfiltered /\ (IsStep("filter") => gov.rows = None) => \A r \in Snapshot : Sources(r) # {}

LEMMA RowsKeepSources ==
  ASSUME NoneIsApart, StoresAreTyped, DerivedAreTyped, RowsHaveSources, [Next]_vars
  PROVE  RowsHaveSources'
<1> USE DEF IsStep
<1>1. ASSUME UNCHANGED events PROVE \A r : Sources(r)' = Sources(r)
  BY <1>1 DEF Sources
<1>2. ASSUME NEW x \in Topics, NEW v \in Values, AppendEvent(x, v) PROVE RowsHaveSources'
  <2> DEFINE e == [id |-> minted + 1, topic |-> x, value |-> v]
  <2>1. e \in Event
    BY DEF Event, StoresAreTyped
  <2>2. events' = Append(events, e) /\ gov = None /\ gov' = None /\ UNCHANGED <<truth, unfiltered>>
    BY <1>2 DEF AppendEvent, Unlocked
  <2> HIDE DEF e
  <2>3. ASSUME NEW r, NEW i \in Sources(r) PROVE i \in Sources(r)'
    <3>1. i \in DOMAIN events' /\ events'[i] = events[i]
      BY <2>1, <2>2, <2>3, LogsGrow DEF Sources, StoresAreTyped
    <3> QED BY <2>3, <3>1 DEF Sources, Row
  <2> QED BY <2>2, <2>3 DEF RowsHaveSources, Snapshot
<1>3. ASSUME UNCHANGED <<events, truth, unfiltered>>, gov = None, ~(IsStep("filter")') PROVE RowsHaveSources'
  BY <1>1, <1>3 DEF RowsHaveSources, Snapshot
<1>4. ASSUME NEW p \in Policies, DoNotRemember(p) PROVE RowsHaveSources'
  BY <1>3, <1>4 DEF DoNotRemember, history, Owes, Unlocked
<1>5. ASSUME NEW ids, Forget(ids) PROVE RowsHaveSources'
  BY <1>3, <1>5 DEF Forget, history, Owes, Unlocked
<1>6. ASSUME NEW v, ForgetText(v) PROVE RowsHaveSources'
  BY <1>3, <1>6 DEF ForgetText, history, Owes, Unlocked
<1>7. CASE Audit
  <2>1. UNCHANGED <<events, truth, unfiltered>> /\ gov.step = "audit" /\ gov' = None
    BY <1>7 DEF Audit, store
  <2> QED BY <1>1, <2>1 DEF RowsHaveSources, Snapshot
<1>8. CASE CompactEvents
  <2>1. /\ gov' = [step |-> "filter", rows |-> IF truth = None THEN None ELSE {r \in truth : Keeps(r)}]
        /\ UNCHANGED <<truth, unfiltered>>
    BY <1>8 DEF CompactEvents
  <2>2. CASE truth = None
    BY <2>1, <2>2 DEF RowsHaveSources, Snapshot
  <2>3. CASE truth # None
    <3>1. truth \in SUBSET Rows
      BY <2>3 DEF DerivedAreTyped
    <3>2. {r \in truth : Keeps(r)} \in SUBSET Rows
      BY <3>1
    <3>3. IsStep("filter")' /\ gov'.rows # None
      BY <2>1, <2>3, <3>2 DEF NoneIsApart
    <3> QED BY <3>3 DEF RowsHaveSources
  <2> QED BY <2>2, <2>3
<1>9. CASE CompactTruth
  <2>1. UNCHANGED events /\ gov # None /\ gov.step = "filter" /\ gov' = None
    BY <1>9 DEF CompactTruth, store, Unlocked
  <2>2. CASE gov.rows = None
    <3>1. UNCHANGED <<truth, unfiltered>>
      BY <1>9, <2>2 DEF CompactTruth
    <3> QED BY <1>1, <2>1, <2>2, <3>1 DEF RowsHaveSources, Snapshot
  <2>3. CASE gov.rows # None
    <3>1. truth' = gov.rows /\ unfiltered' = Orphaned(gov.rows)
      BY <1>9, <2>3 DEF CompactTruth
    <3>2. Snapshot' = gov.rows
      BY <2>3, <3>1 DEF Snapshot
    <3> QED BY <1>1, <2>1, <3>1, <3>2 DEF RowsHaveSources, Orphaned
  <2> QED BY <2>2, <2>3
<1>10. CASE Kill
  <2>1. UNCHANGED <<events, truth>> /\ gov # None /\ gov' = None /\ (unfiltered' = (unfiltered \/ gov.step = "filter"))
    BY <1>10 DEF Kill, store, Unlocked
  <2>2. \A r : Sources(r)' = Sources(r)
    BY <1>1, <2>1
  <2>3. Snapshot' = Snapshot
    BY <2>1 DEF Snapshot
  <2>4. ~unfiltered' => ~unfiltered /\ gov.step # "filter"
    BY <2>1
  <2> QED BY <2>2, <2>3, <2>4 DEF RowsHaveSources
<1>11. CASE SleepPublish
  <2>1. truth' = Compiled(policies) /\ UNCHANGED events
    BY <1>11 DEF SleepPublish, store
  <2>2. \A r \in Compiled(policies) : Sources(r) # {}
    BY CompiledIsFrom, CompiledRows DEF Sources
  <2>3. Snapshot' \subseteq Compiled(policies)
    BY <2>1 DEF Snapshot
  <2> QED BY <1>1, <2>1, <2>2, <2>3 DEF RowsHaveSources
<1>12. CASE SleepJournal
  <2>1. UNCHANGED <<events, truth, unfiltered>> /\ gov.step = "journal" /\ gov' = None
    BY <1>12 DEF SleepJournal, store, history
  <2> QED BY <1>1, <2>1 DEF RowsHaveSources, Snapshot
<1>13. ASSUME UNCHANGED <<events, truth, unfiltered, gov>> PROVE RowsHaveSources'
  BY <1>1, <1>13 DEF RowsHaveSources, Snapshot
<1>14. ASSUME NEW b \in Builders, CompileRead(b) PROVE RowsHaveSources'
  BY <1>13, <1>14 DEF CompileRead, store, history
<1>15. ASSUME NEW b \in Builders, CompilePublish(b) PROVE RowsHaveSources'
  <2>1. UNCHANGED events /\ plan[b] # None /\ truth' = plan[b] /\ unfiltered' = Orphaned(plan[b])
    BY <1>15 DEF CompilePublish, store
  <2>2. Snapshot' = plan[b]
    BY <2>1 DEF Snapshot
  <2> QED BY <1>1, <2>1, <2>2 DEF RowsHaveSources, Orphaned
<1>16. CASE UNCHANGED vars
  BY <1>13, <1>16 DEF vars, store, history
<1> QED BY <1>2, <1>4, <1>5, <1>6, <1>7, <1>8, <1>9, <1>10, <1>11, <1>12, <1>14, <1>15, <1>16
        DEF Next, Govern, Rebuild, ForgetId, ForgetTopic

(* What current_truth shows has a live event behind it that no policy denies. *)
THEOREM TruthAlwaysHidesTheForgotten ==
  ASSUME NoneIsApart PROVE Spec => []TruthHidesTheForgotten
<1> DEFINE Inv == StoresAreTyped /\ DerivedAreTyped /\ RowsHaveSources
<1>1. Init => Inv
  <2> SUFFICES ASSUME Init PROVE Inv
    OBVIOUS
  <2>1. StoresAreTyped
    BY StoresBeginTyped
  <2>2. DerivedAreTyped
    BY DEF Init, DerivedAreTyped, IsStep
  <2>3. Snapshot = {}
    BY DEF Init, Snapshot
  <2> QED BY <2>1, <2>2, <2>3 DEF RowsHaveSources
<1>2. Inv /\ [Next]_vars => Inv'
  BY StoresStayTyped, DerivedStayTyped, RowsKeepSources
<1>3. Inv => TruthHidesTheForgotten
  <2> SUFFICES ASSUME Inv, Unlocked, ~unfiltered, NEW r \in CurrentTruth
               PROVE  ~Denied(r.topic, policies) /\ \E e \in ToSet(events) : Live(e) /\ Row(e) = r
    BY DEF TruthHidesTheForgotten
  <2>1. r \in Snapshot /\ ~Denied(r.topic, policies) /\ Backed(r)
    BY DEF CurrentTruth, Safe
  <2>2. Sources(r) # {}
    BY <2>1 DEF RowsHaveSources, IsStep, Unlocked
  <2>3. PICK i \in Sources(r) : events[i].id \notin marks
    BY <2>1, <2>2 DEF Backed
  <2>4. events[i] \in ToSet(events) /\ Row(events[i]) = r
    BY <2>3, Elements DEF Sources
  <2> QED BY <2>1, <2>3, <2>4 DEF Live
<1> HIDE DEF Inv
<1> QED BY <1>1, <1>2, <1>3, PTL DEF Spec

(* ---- a fresh truth is what the log says ---- *)
(* What the latest entry of the sleep journal was written for. *)
SleptEvents == ToSet(journal[1])
StillThere ==
  /\ SleptEvents \subseteq ToSet(events)
  /\ \A e \in SleptEvents : e.id \in marks => e.id \in journal[2]
  /\ policies = journal[3]
Slept == CompiledFrom(journal[1], journal[2], journal[3])

JournalIsPast ==
  journal # None => /\ journal \in States
                    /\ \A e \in SleptEvents : e.id <= minted
                    /\ journal[3] \subseteq policies
SleepIsUnderLock == IsStep("journal") => gov.tx = Transaction
SleepersPublished == IsStep("journal") /\ ~strayed => Snapshot = Compiled(policies)
(* As long as the log still holds what was slept on, the truth is what it says, *)
(* and a compaction keeps all of it.                                            *)
TruthIsSlept ==
  journal # None /\ ~strayed /\ ~IsStep("journal") /\ StillThere =>
    /\ Snapshot = Slept
    /\ IsStep("filter") /\ gov.rows # None => gov.rows = Slept
JournalInv == JournalIsPast /\ SleepIsUnderLock /\ SleepersPublished /\ TruthIsSlept

LEMMA SleptStays == UNCHANGED journal => Slept' = Slept /\ SleptEvents' = SleptEvents
BY DEF Slept, SleptEvents, CompiledFrom, Denied

(* A call that leaves the journal and the truth alone and what was there behind. *)
LEMMA TruthStaysSlept ==
  ASSUME JournalInv, gov = None, UNCHANGED <<truth, journal, strayed>>, minted' \in Nat, minted \in Nat,
         minted <= minted', policies \subseteq policies', StoresAreTyped,
         journal # None /\ StillThere' => StillThere,
         ~IsStep("journal")', IsStep("filter")' => gov'.rows = None
  PROVE  JournalInv'
<1>1. Slept' = Slept /\ SleptEvents' = SleptEvents /\ Snapshot' = Snapshot
  BY SleptStays DEF Snapshot
<1>2. JournalIsPast'
  <2> SUFFICES ASSUME journal # None PROVE JournalIsPast'
    BY DEF JournalIsPast
  <2>1. journal \in States /\ journal[3] \subseteq policies /\ \A e \in SleptEvents : e.id <= minted
    BY DEF JournalInv, JournalIsPast
  <2>2. \A e \in SleptEvents : e.id \in Nat
    <3>1. journal[1] \in Seq(Event)
      BY <2>1 DEF States
    <3>2. \A e \in SleptEvents : e \in Event
      BY <3>1, Elements DEF SleptEvents
    <3> QED BY <3>2 DEF Event
  <2>3. \A e \in SleptEvents' : e.id <= minted'
    BY <1>1, <2>1, <2>2
  <2> QED BY <2>1, <2>3 DEF JournalIsPast
<1>3. TruthIsSlept'
  <2> SUFFICES ASSUME journal # None, ~strayed, StillThere' PROVE Snapshot = Slept
    BY <1>1 DEF TruthIsSlept
  <2> QED BY DEF JournalInv, TruthIsSlept, IsStep
<1> QED BY <1>2, <1>3 DEF JournalInv, SleepIsUnderLock, SleepersPublished

LEMMA JournalInvStays ==
  ASSUME NoneIsApart, StoresAreTyped, DerivedAreTyped, JournalInv, [Next]_vars
  PROVE  JournalInv'
<1> USE DEF IsStep
<1>1. ASSUME NEW x \in Topics, NEW v \in Values, AppendEvent(x, v) PROVE JournalInv'
  <2> DEFINE e == [id |-> minted + 1, topic |-> x, value |-> v]
  <2>1. e \in Event /\ e.id = minted + 1
    BY DEF Event, StoresAreTyped
  <2>2. /\ gov = None /\ gov' = None /\ events' = Append(events, e) /\ minted' = minted + 1
        /\ UNCHANGED <<marks, policies, truth, journal, strayed>>
    BY <1>1 DEF AppendEvent, Unlocked
  <2> HIDE DEF e
  <2>3. ToSet(events') = ToSet(events) \union {e}
    BY <2>1, <2>2, LogsGrow DEF StoresAreTyped
  <2>4. ASSUME journal # None, StillThere' PROVE StillThere
    <3>1. \A d \in SleptEvents : d \in ToSet(events') /\ d.id <= minted
      BY <2>2, <2>4, SleptStays DEF StillThere, JournalInv, JournalIsPast
    <3>2. e \notin SleptEvents
      BY <2>1, <3>1 DEF StoresAreTyped
    <3> QED BY <2>2, <2>3, <2>4, <3>1, <3>2, SleptStays DEF StillThere
  <2> QED BY <2>2, <2>4, TruthStaysSlept DEF StoresAreTyped
<1>2. ASSUME NEW p \in Policies, DoNotRemember(p) PROVE JournalInv'
  <2>1. /\ gov = None /\ gov'.step = "audit" /\ policies' = policies \union {p}
        /\ UNCHANGED <<events, marks, truth, journal, strayed, minted>>
    BY <1>2 DEF DoNotRemember, Unlocked, Owes, history
  <2>2. ASSUME journal # None, StillThere' PROVE StillThere
    <3>1. journal[3] \subseteq policies /\ policies' = journal[3]
      BY <2>1, <2>2 DEF StillThere, JournalInv, JournalIsPast
    <3>2. policies = journal[3]
      BY <2>1, <3>1
    <3> QED BY <2>1, <2>2, <3>2, SleptStays DEF StillThere
  <2> QED BY <2>1, <2>2, TruthStaysSlept DEF StoresAreTyped
<1>3. ASSUME NEW ids, Forget(ids) PROVE JournalInv'
  <2>1. /\ gov = None /\ gov'.step = "audit" /\ marks' = marks \union ids
        /\ UNCHANGED <<events, policies, truth, journal, strayed, minted>>
    BY <1>3 DEF Forget, Unlocked, Owes, history
  <2>2. StillThere' => StillThere
    BY <2>1, SleptStays DEF StillThere
  <2> QED BY <2>1, <2>2, TruthStaysSlept DEF StoresAreTyped
<1>4. ASSUME NEW v, ForgetText(v) PROVE JournalInv'
  <2>1. /\ gov = None /\ gov'.step = "audit"
        /\ UNCHANGED <<events, marks, policies, truth, journal, strayed, minted>>
    BY <1>4 DEF ForgetText, Unlocked, Owes, history
  <2>2. StillThere' => StillThere
    BY <2>1, SleptStays DEF StillThere
  <2> QED BY <2>1, <2>2, TruthStaysSlept DEF StoresAreTyped
<1>5. ASSUME UNCHANGED <<events, marks, policies, minted, truth, journal, strayed>>,
             ~IsStep("journal"), gov' = None
      PROVE  JournalInv'
  <2>1. /\ Slept' = Slept /\ SleptEvents' = SleptEvents /\ Snapshot' = Snapshot
        /\ StillThere' = StillThere
    BY <1>5, SleptStays DEF Snapshot, StillThere
  <2> QED BY <1>5, <2>1 DEF JournalInv, JournalIsPast, SleepIsUnderLock, SleepersPublished, TruthIsSlept
<1>6. CASE Audit
  <2>1. gov # None /\ gov.step = "audit" /\ gov' = None
        /\ UNCHANGED <<events, marks, policies, minted, truth, journal, strayed>>
    BY <1>6 DEF Audit, store, Unlocked
  <2> QED BY <1>5, <2>1
<1>7. CASE CompactEvents
  <2> DEFINE live == {i \in DOMAIN events : Live(events[i])}
             kept == IF truth = None THEN None ELSE {r \in truth : Keeps(r)}
  <2>1. /\ gov = None /\ gov' = [step |-> "filter", rows |-> kept] /\ events' = Picked(events, live)
        /\ marks' = {} /\ UNCHANGED <<policies, truth, journal, strayed, minted>>
    BY <1>7 DEF CompactEvents, Unlocked
  <2>2. ToSet(events') = {events[i] : i \in DOMAIN events \intersect live}
    BY <2>1, LogsShrink DEF StoresAreTyped
  <2>3. Slept' = Slept /\ SleptEvents' = SleptEvents /\ Snapshot' = Snapshot
    BY <2>1, SleptStays DEF Snapshot
  <2>4. ASSUME journal # None, ~strayed, StillThere' PROVE Snapshot = Slept /\ (kept # None => kept = Slept)
    <3>1. \A e \in SleptEvents : e \in ToSet(events) /\ e.id \notin marks
      <4>1. SleptEvents \subseteq {events[i] : i \in DOMAIN events \intersect live}
        BY <2>2, <2>3, <2>4 DEF StillThere
      <4> QED BY <4>1, Elements DEF Live
    <3>2. policies = journal[3]
      BY <2>1, <2>4 DEF StillThere
    <3>3. Snapshot = Slept
      <4>1. StillThere
        BY <3>1, <3>2 DEF StillThere
      <4> QED BY <2>1, <2>4, <4>1 DEF JournalInv, TruthIsSlept
    <3>4. ASSUME NEW r \in Slept PROVE Keeps(r)
      <4>1. /\ ~Denied(r.topic, policies)
            /\ \E i \in DOMAIN journal[1] : Row(journal[1][i]) = r
        BY <3>2, <3>4, CompiledRows DEF Slept
      <4>2. PICK e \in SleptEvents : Row(e) = r
        BY <4>1, Elements DEF SleptEvents
      <4>3. PICK k \in DOMAIN events : events[k] = e
        BY <3>1, Elements
      <4>4. k \in Sources(r) /\ events[k].id \notin marks
        BY <3>1, <4>2, <4>3 DEF Sources
      <4> QED BY <4>1, <4>4 DEF Keeps, Safe, Backed
    <3>5. truth # None => {r \in truth : Keeps(r)} = Slept
      BY <3>3, <3>4 DEF Snapshot
    <3> QED BY <3>3, <3>5
  <2>5. TruthIsSlept'
    <3>1. gov'.rows = kept /\ gov'.step = "filter"
      BY <2>1
    <3> HIDE DEF kept
    <3> QED BY <2>1, <2>3, <2>4, <3>1 DEF TruthIsSlept
  <2>6. JournalIsPast'
    BY <2>1, <2>3 DEF JournalInv, JournalIsPast
  <2>7. ~IsStep("journal")'
    BY <2>1
  <2> QED BY <2>5, <2>6, <2>7 DEF JournalInv, SleepIsUnderLock, SleepersPublished
<1>8. CASE CompactTruth
  <2>1. /\ gov # None /\ gov.step = "filter" /\ gov' = None
        /\ UNCHANGED <<events, marks, policies, minted, journal, strayed>>
    BY <1>8 DEF CompactTruth, store, Unlocked
  <2>2. CASE gov.rows = None
    <3>1. UNCHANGED truth
      BY <1>8, <2>2 DEF CompactTruth
    <3> QED BY <1>5, <2>1, <3>1
  <2>3. CASE gov.rows # None
    <3>1. Snapshot' = gov.rows
      BY <1>8, <2>3 DEF CompactTruth, Snapshot
    <3>2. Slept' = Slept /\ SleptEvents' = SleptEvents /\ StillThere' = StillThere
      BY <2>1, SleptStays DEF StillThere
    <3> QED BY <2>1, <2>3, <3>1, <3>2
            DEF JournalInv, JournalIsPast, SleepIsUnderLock, SleepersPublished, TruthIsSlept
  <2> QED BY <2>2, <2>3
<1>9. CASE Kill
  <2>1. /\ gov # None /\ gov' = None /\ strayed' = (strayed \/ gov.step = "journal")
        /\ UNCHANGED <<events, marks, policies, minted, truth, journal>>
    BY <1>9 DEF Kill, store, Unlocked
  <2>2. /\ Slept' = Slept /\ SleptEvents' = SleptEvents /\ Snapshot' = Snapshot
        /\ StillThere' = StillThere
    BY <2>1, SleptStays DEF Snapshot, StillThere
  <2>3. ~strayed' => ~strayed /\ ~IsStep("journal")
    BY <2>1
  <2>4. JournalIsPast' /\ TruthIsSlept'
    BY <2>1, <2>2, <2>3 DEF JournalInv, JournalIsPast, TruthIsSlept
  <2> QED BY <2>1, <2>4 DEF JournalInv, SleepIsUnderLock, SleepersPublished
<1>10. CASE SleepPublish
  <2>1. /\ gov' = [step |-> "journal", tx |-> Transaction] /\ truth' = Compiled(policies)
        /\ UNCHANGED <<events, marks, policies, journal, minted>>
    BY <1>10 DEF SleepPublish, store
  <2>2. Transaction' = Transaction /\ Compiled(policies)' = Compiled(policies)
    BY <2>1 DEF Transaction, Compiled, Beats, Denied
  <2>3. gov'.step = "journal" /\ gov' # None /\ gov'.tx = Transaction
    BY <2>1 DEF NoneIsApart
  <2>4. Compiled(policies) \in SUBSET Rows
    BY CompiledIsFrom, CompiledIsTyped DEF StoresAreTyped
  <2>5. Snapshot' = Compiled(policies)
    BY <2>1, <2>4 DEF Snapshot, NoneIsApart
  <2>6. JournalIsPast'
    BY <2>1, SleptStays DEF JournalInv, JournalIsPast
  <2> QED BY <2>2, <2>3, <2>5, <2>6 DEF JournalInv, SleepIsUnderLock, SleepersPublished, TruthIsSlept
<1>11. CASE SleepJournal
  <2>1. /\ gov # None /\ gov.step = "journal" /\ gov' = None /\ journal' = gov.tx
        /\ UNCHANGED <<events, marks, policies, truth, minted, strayed>>
    BY <1>11 DEF SleepJournal, store, history, Unlocked
  <2>2. journal' = <<events, marks, policies>>
    BY <2>1 DEF JournalInv, SleepIsUnderLock, Transaction
  <2>3. JournalIsPast'
    <3>1. journal' \in States
      BY <2>2 DEF States, StoresAreTyped
    <3>2. \A e \in ToSet(events) : e.id <= minted
      BY Elements DEF StoresAreTyped
    <3> QED BY <2>1, <2>2, <3>1, <3>2 DEF JournalIsPast, SleptEvents
  <2>4. Slept' = Compiled(policies)
    BY <2>2, CompiledIsFrom DEF Slept, CompiledFrom, Denied
  <2>5. ~strayed => Snapshot' = Compiled(policies)
    BY <2>1 DEF Snapshot, JournalInv, SleepersPublished
  <2> QED BY <2>1, <2>3, <2>4, <2>5 DEF JournalInv, SleepIsUnderLock, SleepersPublished, TruthIsSlept
<1>12. ASSUME NEW b \in Builders, CompileRead(b) PROVE JournalInv'
  <2>1. UNCHANGED <<events, marks, policies, minted, truth, journal, strayed, gov>>
    BY <1>12 DEF CompileRead, store, history
  <2> QED BY <2>1 DEF JournalInv, JournalIsPast, SleepIsUnderLock, SleepersPublished, TruthIsSlept, Snapshot,
                      Transaction, Compiled, Beats, Denied, Slept, SleptEvents, CompiledFrom, StillThere
<1>13. ASSUME NEW b \in Builders, CompilePublish(b) PROVE JournalInv'
  <2>1. strayed' = TRUE /\ UNCHANGED <<events, marks, policies, minted, journal, gov>>
    BY <1>13 DEF CompilePublish, store
  <2>2. JournalIsPast' /\ SleepIsUnderLock'
    BY <2>1, SleptStays DEF JournalInv, JournalIsPast, SleepIsUnderLock, Transaction
  <2> QED BY <2>1, <2>2 DEF JournalInv, SleepersPublished, TruthIsSlept
<1>14. CASE UNCHANGED vars
  <2>1. UNCHANGED <<events, marks, policies, minted, truth, journal, strayed, gov>>
    BY <1>14 DEF vars, store, history
  <2> QED BY <2>1 DEF JournalInv, JournalIsPast, SleepIsUnderLock, SleepersPublished, TruthIsSlept, Snapshot,
                      Transaction, Compiled, Beats, Denied, Slept, SleptEvents, CompiledFrom, StillThere
<1> QED BY <1>1, <1>2, <1>3, <1>4, <1>6, <1>7, <1>8, <1>9, <1>10, <1>11, <1>12, <1>13, <1>14
        DEF Next, Govern, Rebuild, ForgetId, ForgetTopic

(* A truth that is fresh is what the log says, whatever brought the log back to it. *)
THEOREM FreshTruthIsAlwaysTheLog ==
  ASSUME NoneIsApart PROVE Spec => []FreshTruthIsTheLog
<1> DEFINE Inv == StoresAreTyped /\ DerivedAreTyped /\ JournalInv
<1>1. Init => Inv
  <2> SUFFICES ASSUME Init PROVE Inv
    OBVIOUS
  <2>1. DerivedAreTyped
    BY DEF Init, DerivedAreTyped, IsStep
  <2>2. gov = None /\ journal = None
    BY DEF Init
  <2> QED BY <2>1, <2>2, StoresBeginTyped
          DEF JournalInv, JournalIsPast, SleepIsUnderLock, SleepersPublished, TruthIsSlept, IsStep
<1>2. Inv /\ [Next]_vars => Inv'
  BY StoresStayTyped, DerivedStayTyped, JournalInvStays
<1>3. Inv => FreshTruthIsTheLog
  <2> SUFFICES ASSUME Inv, Unlocked, Fresh, ~strayed PROVE Snapshot = Compiled(policies)
    BY DEF FreshTruthIsTheLog
  <2>1. journal = <<events, marks, policies>>
    BY DEF Fresh, Transaction
  <2>2. Transaction \in States
    BY DEF Transaction, States, StoresAreTyped
  <2>3. journal # None
    BY <2>1, <2>2 DEF Transaction, NoneIsApart
  <2>4. StillThere
    BY <2>1 DEF StillThere, SleptEvents
  <2>5. Snapshot = Slept
    BY <2>3, <2>4 DEF JournalInv, TruthIsSlept, IsStep, Unlocked
  <2> QED BY <2>1, <2>5, CompiledIsFrom DEF Slept
<1> HIDE DEF Inv
<1> QED BY <1>1, <1>2, <1>3, PTL DEF Spec

(* ---- recall hides the forgotten ---- *)
Gone == EventValues(ToSet(events), marks, policies)
\* What the stamp of a table says has to be in it.
ToHide(stamp) == stamp[4] \union EventValues(ToSet(stamp[1]), stamp[2], stamp[3])

LEMMA EventValuesGrow ==
  \A es, ms, ps, ds, ns, qs :
    es \subseteq ds /\ ms \subseteq ns /\ ps \subseteq qs => EventValues(es, ms, ps) \subseteq EventValues(ds, ns, qs)
BY DEF EventValues, ValuesOf, Denied

\* What was returned as forgotten, or is about to be, is still kept from recall.
ForgottenIsHidden ==
  /\ forgotten \subseteq erased \union suppressed \union Gone
  /\ IsStep("audit") => gov.entry.hides \subseteq erased \union suppressed \union Gone

(* What the calls leave of the values that are kept from recall. *)
LEMMA HiddenStaysHidden ==
  ASSUME StoresAreTyped, Govern
  PROVE  /\ Gone \subseteq erased' \union Gone'
         /\ erased \subseteq erased' /\ suppressed \subseteq suppressed' /\ policies \subseteq policies'
<1>1. ASSUME NEW x \in Topics, NEW v \in Values, AppendEvent(x, v)
      PROVE  Gone \subseteq Gone' /\ erased \subseteq erased' /\ suppressed \subseteq suppressed'
             /\ policies \subseteq policies'
  <2> DEFINE e == [id |-> minted + 1, topic |-> x, value |-> v]
  <2>1. e \in Event
    BY DEF Event, StoresAreTyped
  <2>2. events' = Append(events, e) /\ UNCHANGED <<marks, policies, suppressed, erased>>
    BY <1>1 DEF AppendEvent
  <2> HIDE DEF e
  <2>3. ToSet(events) \subseteq ToSet(events')
    BY <2>1, <2>2, LogsGrow DEF StoresAreTyped
  <2> QED BY <2>2, <2>3, EventValuesGrow DEF Gone
<1>2. ASSUME events' = events, marks \subseteq marks', policies \subseteq policies',
             suppressed \subseteq suppressed', erased' = erased
      PROVE  Gone \subseteq Gone' /\ erased \subseteq erased' /\ suppressed \subseteq suppressed'
             /\ policies \subseteq policies'
  BY <1>2, EventValuesGrow DEF Gone
<1>3. ASSUME NEW p \in Policies, DoNotRemember(p)
      PROVE  events' = events /\ marks \subseteq marks' /\ policies \subseteq policies'
             /\ suppressed \subseteq suppressed' /\ erased' = erased
  BY <1>3 DEF DoNotRemember, history
<1>4. ASSUME NEW ids, Forget(ids)
      PROVE  events' = events /\ marks \subseteq marks' /\ policies \subseteq policies'
             /\ suppressed \subseteq suppressed' /\ erased' = erased
  BY <1>4 DEF Forget, history
<1>5. ASSUME NEW v, ForgetText(v)
      PROVE  events' = events /\ marks \subseteq marks' /\ policies \subseteq policies'
             /\ suppressed \subseteq suppressed' /\ erased' = erased
  BY <1>5 DEF ForgetText, history
<1>6. CASE Audit \/ CompactTruth \/ Kill
  BY <1>2, <1>6 DEF Audit, CompactTruth, Kill, store
<1>7. CASE CompactEvents
  <2> DEFINE live == {i \in DOMAIN events : Live(events[i])}
  <2>1. /\ events' = Picked(events, live) /\ UNCHANGED <<policies, suppressed>>
        /\ erased' = erased \union ValuesOf({e \in ToSet(events) : ~Live(e)})
    BY <1>7 DEF CompactEvents
  <2>2. ToSet(events') = {events[i] : i \in DOMAIN events \intersect live}
    BY <2>1, LogsShrink DEF StoresAreTyped
  <2>3. ASSUME NEW v \in Gone PROVE v \in erased' \union Gone'
    <3>1. PICK e \in ToSet(events) : v = e.value /\ (e.id \in marks \/ Denied(e.topic, policies))
      BY <2>3 DEF Gone, EventValues, ValuesOf
    <3>2. CASE Live(e)
      <4>1. e \in ToSet(events')
        BY <2>2, <3>1, <3>2, Elements
      <4>2. Denied(e.topic, policies)
        BY <3>1, <3>2 DEF Live
      <4> QED BY <2>1, <3>1, <4>1, <4>2 DEF Gone, EventValues, ValuesOf, Denied
    <3>3. CASE ~Live(e)
      BY <2>1, <3>1, <3>3 DEF ValuesOf
    <3> QED BY <3>2, <3>3
  <2> QED BY <2>1, <2>3
<1> QED BY <1>1, <1>2, <1>3, <1>4, <1>5, <1>6, <1>7 DEF Govern, ForgetId, ForgetTopic

LEMMA ForgottenStaysHidden ==
  ASSUME NoneIsApart, StoresAreTyped, ForgottenIsHidden, Govern PROVE ForgottenIsHidden'
<1> DEFINE Kept == erased \union suppressed \union Gone
<1> USE DEF IsStep
<1>1. Kept \subseteq Kept'
  BY HiddenStaysHidden
<1> HIDE DEF Kept
<1>2. forgotten \subseteq Kept /\ (IsStep("audit") => gov.entry.hides \subseteq Kept)
  BY DEF ForgottenIsHidden, Kept
<1>3. ASSUME forgotten' \subseteq Kept', IsStep("audit")' => gov'.entry.hides \subseteq Kept'
      PROVE  ForgottenIsHidden'
  BY <1>3 DEF ForgottenIsHidden, Kept
<1>4. ASSUME NEW x \in Topics, NEW v \in Values, AppendEvent(x, v) PROVE ForgottenIsHidden'
  BY <1>1, <1>2, <1>3, <1>4 DEF AppendEvent, Unlocked
<1>5. ASSUME NEW p \in Policies, DoNotRemember(p) PROVE ForgottenIsHidden'
  <2>1. /\ forgotten' = forgotten /\ policies' = policies \union {p} /\ UNCHANGED <<events, marks>>
        /\ gov' = Owes("deny", ValuesOf({e \in ToSet(events) : e.topic \in Denies[p]}))
    BY <1>5 DEF DoNotRemember, history
  <2>2. ValuesOf({e \in ToSet(events) : e.topic \in Denies[p]}) \subseteq Gone'
    BY <2>1 DEF Gone, EventValues, ValuesOf, Denied
  <2>3. gov'.entry.hides \subseteq Kept'
    BY <2>1, <2>2 DEF Owes, Kept
  <2> QED BY <1>1, <1>2, <1>3, <2>1, <2>3
<1>6. ASSUME NEW ids, Forget(ids) PROVE ForgottenIsHidden'
  <2>1. /\ forgotten' = forgotten /\ marks' = marks \union ids /\ UNCHANGED <<events, policies>>
        /\ gov' = Owes("forget", ValuesOf({e \in ToSet(events) : e.id \in ids}))
    BY <1>6 DEF Forget, history
  <2>2. ValuesOf({e \in ToSet(events) : e.id \in ids}) \subseteq Gone'
    BY <2>1 DEF Gone, EventValues, ValuesOf
  <2>3. gov'.entry.hides \subseteq Kept'
    BY <2>1, <2>2 DEF Owes, Kept
  <2> QED BY <1>1, <1>2, <1>3, <2>1, <2>3
<1>7. ASSUME NEW v, ForgetText(v) PROVE ForgottenIsHidden'
  <2>1. /\ forgotten' = forgotten /\ suppressed' = suppressed \union {v}
        /\ gov' = Owes("forget_text", {v})
    BY <1>7 DEF ForgetText, history
  <2>2. gov'.entry.hides \subseteq Kept'
    BY <2>1 DEF Owes, Kept
  <2> QED BY <1>1, <1>2, <1>3, <2>1, <2>2
<1>8. CASE Audit
  <2>1. gov # None /\ gov.step = "audit" /\ gov' = None /\ forgotten' = forgotten \union gov.entry.hides
    BY <1>8 DEF Audit, Unlocked
  <2> QED BY <1>1, <1>2, <1>3, <2>1
<1>9. CASE CompactEvents
  <2>1. forgotten' = forgotten /\ gov'.step = "filter"
    BY <1>9 DEF CompactEvents
  <2> QED BY <1>1, <1>2, <1>3, <2>1
<1>10. CASE CompactTruth \/ Kill
  <2>1. forgotten' = forgotten /\ gov' = None
    BY <1>10 DEF CompactTruth, Kill
  <2> QED BY <1>1, <1>2, <1>3, <2>1
<1> QED BY <1>4, <1>5, <1>6, <1>7, <1>8, <1>9, <1>10 DEF Govern, ForgetId, ForgetTopic

(* The cached table holds what its stamp says, but for what was erased since. *)
CacheHides == cache # None => Windows(ToHide(cache.stamp)) \subseteq cache.table \union erased
(* A call finds all its stamp says, in what it has read or has yet to read. *)
Hides(c, listed, gone, denied, lost) ==
  LET stamped == EventValues(ToSet(c.stamp[1]), c.stamp[2], c.stamp[3])
  IN  /\ c.step \in {"list", "events", "policies"} => c.must \subseteq Windows(ToHide(c.stamp)) \union lost
      /\ c.step = "list" => c.stamp[4] \subseteq listed
      /\ c.step \in {"events", "policies"} => Windows(c.stamp[4]) \subseteq c.table
      /\ c.step \in {"list", "events"} => stamped \subseteq gone \union lost
      /\ c.step = "policies" => stamped \subseteq EventValues(c.es, c.ms, denied) \union lost
      /\ c.step = "done" => c.must \subseteq c.table \union lost
CallsHide == \A r \in Readers : call[r] # None => Hides(call[r], suppressed, Gone, policies, erased)

LEMMA HidesLater ==
  ASSUME NEW c, NEW l1, NEW g1, NEW d1, NEW e1, Hides(c, l1, g1, d1, e1),
         NEW l2, NEW g2, NEW d2, NEW e2, l1 \subseteq l2, g1 \subseteq g2 \union e2, d1 \subseteq d2, e1 \subseteq e2
  PROVE  Hides(c, l2, g2, d2, e2)
<1>1. EventValues(c.es, c.ms, d1) \subseteq EventValues(c.es, c.ms, d2)
  BY EventValuesGrow
<1> QED BY <1>1 DEF Hides

(* A step of one reader leaves the stores and the other readers alone. *)
LEMMA ReadersHide ==
  ASSUME StoresAreTyped, ForgottenIsHidden, CacheHides, CallsHide, DOMAIN call = Readers,
         NEW r \in Readers,
         Consult(r) \/ ReadList(r) \/ ReadEvents(r) \/ ReadPolicies(r) \/ Recalled(r)
  PROVE  CacheHides' /\ CallsHide' /\ DOMAIN call' = Readers
<1> DEFINE Ok(c) == c # None => Hides(c, suppressed, Gone, policies, erased)
<1>1. UNCHANGED <<events, marks, policies, suppressed, erased, forgotten, gov>>
  BY DEF Consult, ReadList, ReadEvents, ReadPolicies, Recalled, vars, store, history
<1>2. UNCHANGED Gone
  BY <1>1 DEF Gone, EventValues, ValuesOf, Denied
<1>3. ASSUME NEW c, call' = [call EXCEPT ![r] = c], Ok(c)
      PROVE  CallsHide' /\ DOMAIN call' = Readers
  <2>1. \A q \in Readers : call'[q] = c \/ call'[q] = call[q]
    BY <1>3
  <2>2. \A q \in Readers : Ok(call'[q])
    BY <1>3, <2>1 DEF CallsHide
  <2> QED BY <1>1, <1>2, <1>3, <2>2 DEF CallsHide
<1>4. ASSUME UNCHANGED cache PROVE CacheHides'
  BY <1>1, <1>4 DEF CacheHides, Windows, ToHide, EventValues, ValuesOf, Denied
<1> DEFINE must == Windows(forgotten) \ erased
<1>5. must \subseteq Windows(ToHide(Stamp)) \union erased
  <2>1. forgotten \subseteq erased \union ToHide(Stamp)
    BY DEF ForgottenIsHidden, Gone, ToHide, Stamp, store
  <2>2. Windows(forgotten) \subseteq Windows(erased) \union Windows(ToHide(Stamp))
    BY <2>1 DEF Windows
  <2> QED BY <2>2 DEF Windows
<1>6. CASE Consult(r)
  <2>1. CASE cache # None /\ cache.stamp = Stamp
    <3> DEFINE c == [step |-> "done", table |-> cache.table, must |-> must]
    <3>1. call' = [call EXCEPT ![r] = c] /\ UNCHANGED cache
      BY <1>6, <2>1 DEF Consult
    <3>2. Hides(c, suppressed, Gone, policies, erased)
      BY <1>5, <2>1 DEF CacheHides, Hides
    <3> HIDE DEF c
    <3> QED BY <1>3, <1>4, <3>1, <3>2
  <2>2. CASE ~(cache # None /\ cache.stamp = Stamp)
    <3> DEFINE c == [step |-> "list", stamp |-> Stamp, must |-> must]
    <3>1. call' = [call EXCEPT ![r] = c] /\ UNCHANGED cache
      BY <1>6, <2>2 DEF Consult
    <3>2. c.step = "list" /\ c.stamp = Stamp /\ c.must = must
      OBVIOUS
    <3>3. Stamp[4] = suppressed /\ EventValues(ToSet(Stamp[1]), Stamp[2], Stamp[3]) = Gone
      BY DEF Stamp, store, Gone
    <3> HIDE DEF c
    <3>4. Hides(c, suppressed, Gone, policies, erased)
      BY <1>5, <3>2, <3>3 DEF Hides
    <3> QED BY <1>3, <1>4, <3>1, <3>4
  <2> QED BY <2>1, <2>2
<1>7. CASE ReadList(r)
  <2> DEFINE c == [step |-> "events", stamp |-> call[r].stamp, must |-> call[r].must, table |-> Windows(suppressed)]
  <2>1. /\ call' = [call EXCEPT ![r] = c] /\ UNCHANGED cache
        /\ Hides(call[r], suppressed, Gone, policies, erased) /\ call[r].step = "list"
    BY <1>7 DEF ReadList, At, CallsHide
  <2>2. c.step = "events" /\ c.stamp = call[r].stamp /\ c.must = call[r].must /\ c.table = Windows(suppressed)
    OBVIOUS
  <2> HIDE DEF c
  <2>3. Hides(c, suppressed, Gone, policies, erased)
    BY <2>1, <2>2 DEF Hides, Windows
  <2> QED BY <1>3, <1>4, <2>1, <2>3
<1>8. CASE ReadEvents(r)
  <2> DEFINE c == [step |-> "policies", stamp |-> call[r].stamp, must |-> call[r].must, table |-> call[r].table,
                   es |-> ToSet(events), ms |-> marks]
  <2>1. /\ call' = [call EXCEPT ![r] = c] /\ UNCHANGED cache
        /\ Hides(call[r], suppressed, Gone, policies, erased) /\ call[r].step = "events"
    BY <1>8 DEF ReadEvents, At, CallsHide
  <2>2. /\ c.step = "policies" /\ c.stamp = call[r].stamp /\ c.must = call[r].must /\ c.table = call[r].table
        /\ EventValues(c.es, c.ms, policies) = Gone
    BY DEF Gone
  <2> HIDE DEF c
  <2>3. Hides(c, suppressed, Gone, policies, erased)
    BY <2>1, <2>2 DEF Hides
  <2> QED BY <1>3, <1>4, <2>1, <2>3
<1>9. CASE ReadPolicies(r)
  <2> DEFINE table == call[r].table \union Windows(EventValues(call[r].es, call[r].ms, policies))
             c == [step |-> "done", table |-> table, must |-> call[r].must]
  <2>1. /\ call' = [call EXCEPT ![r] = c] /\ cache' = [stamp |-> call[r].stamp, table |-> table]
        /\ Hides(call[r], suppressed, Gone, policies, erased) /\ call[r].step = "policies"
    BY <1>9 DEF ReadPolicies, At, CallsHide, StoredUnder
  <2>2. Windows(ToHide(call[r].stamp)) \subseteq table \union erased
    <3>1. Windows(ToHide(call[r].stamp)) = Windows(call[r].stamp[4])
            \union Windows(EventValues(ToSet(call[r].stamp[1]), call[r].stamp[2], call[r].stamp[3]))
      BY DEF ToHide, Windows
    <3>2. EventValues(ToSet(call[r].stamp[1]), call[r].stamp[2], call[r].stamp[3])
            \subseteq EventValues(call[r].es, call[r].ms, policies) \union erased
      BY <2>1 DEF Hides
    <3>3. Windows(EventValues(ToSet(call[r].stamp[1]), call[r].stamp[2], call[r].stamp[3]))
            \subseteq Windows(EventValues(call[r].es, call[r].ms, policies)) \union erased
      BY <3>2 DEF Windows
    <3>4. Windows(call[r].stamp[4]) \subseteq call[r].table
      BY <2>1 DEF Hides
    <3> QED BY <3>1, <3>3, <3>4
  <2>3. call[r].must \subseteq Windows(ToHide(call[r].stamp)) \union erased
    BY <2>1 DEF Hides
  <2>4. c.step = "done" /\ c.table = table /\ c.must = call[r].must
    OBVIOUS
  <2>5. CacheHides'
    <3>1. ToHide(cache'.stamp) = ToHide(call[r].stamp) /\ cache'.table = table
      BY <2>1
    <3>2. \A x : Windows(ToHide(x))' = Windows(ToHide(x))
      BY DEF Windows, ToHide, EventValues, ValuesOf, Denied
    <3> HIDE DEF table
    <3>3. Windows(ToHide(cache'.stamp)) \subseteq cache'.table \union erased'
      BY <1>1, <2>2, <3>1
    <3> QED BY <3>3 DEF CacheHides, Windows, ToHide, EventValues, ValuesOf, Denied
  <2> HIDE DEF c, table
  <2>6. Hides(c, suppressed, Gone, policies, erased)
    BY <2>2, <2>3, <2>4 DEF Hides
  <2> QED BY <1>3, <2>1, <2>5, <2>6
<1>10. CASE Recalled(r)
  BY <1>3, <1>4, <1>10 DEF Recalled
<1> QED BY <1>6, <1>7, <1>8, <1>9, <1>10

(* A recall drops what was forgotten when it began, but for what was erased meanwhile. *)
THEOREM RecallAlwaysHidesTheForgotten ==
  ASSUME NoneIsApart PROVE RSpec => []RecallHidesTheForgotten
<1> DEFINE Inv == /\ StoresAreTyped /\ ForgottenIsHidden
                  /\ CacheHides /\ CallsHide /\ DOMAIN call = Readers
<1>1. RInit => Inv
  <2> SUFFICES ASSUME RInit PROVE Inv
    OBVIOUS
  <2>1. Init /\ cache = None /\ call = [r \in Readers |-> None]
    BY DEF RInit
  <2>2. forgotten = {} /\ gov = None
    BY <2>1 DEF Init
  <2> QED BY <2>1, <2>2, StoresBeginTyped DEF ForgottenIsHidden, IsStep, CacheHides, CallsHide
<1>2. ASSUME Inv, [RNext]_rvars PROVE Inv'
  <2>1. ASSUME Govern, UNCHANGED call, cache' = cache \/ cache' = None PROVE Inv'
    <3>1. StoresAreTyped' /\ ForgottenIsHidden'
      BY <1>2, <2>1, GovernKeepsStores, ForgottenStaysHidden
    <3>2. /\ Gone \subseteq erased' \union Gone' /\ erased \subseteq erased'
          /\ suppressed \subseteq suppressed' /\ policies \subseteq policies'
      BY <1>2, <2>1, HiddenStaysHidden
    <3>3. CacheHides'
      <4>1. \A x : Windows(ToHide(x))' = Windows(ToHide(x))
        BY DEF Windows, ToHide, EventValues, ValuesOf, Denied
      <4>2. cache' # None => Windows(ToHide(cache'.stamp)) \subseteq cache'.table \union erased'
        BY <1>2, <2>1, <3>2 DEF CacheHides
      <4> QED BY <4>2 DEF CacheHides, Windows, ToHide, EventValues, ValuesOf, Denied
    <3>4. CallsHide'
      <4> SUFFICES ASSUME NEW r \in Readers, call[r] # None
                   PROVE  Hides(call[r], suppressed', Gone', policies', erased')
        BY <2>1 DEF CallsHide
      <4>1. Hides(call[r], suppressed, Gone, policies, erased)
        BY <1>2 DEF CallsHide
      <4> QED BY <3>2, <4>1, HidesLater
    <3> QED BY <1>2, <2>1, <3>1, <3>3, <3>4
  <2>2. ASSUME NEW r \in Readers,
               Consult(r) \/ ReadList(r) \/ ReadEvents(r) \/ ReadPolicies(r) \/ Recalled(r)
        PROVE  Inv'
    <3>1. CacheHides' /\ CallsHide' /\ DOMAIN call' = Readers
      BY <1>2, <2>2, ReadersHide
    <3>2. UNCHANGED vars
      BY <2>2 DEF Consult, ReadList, ReadEvents, ReadPolicies, Recalled
    <3>3. StoresAreTyped' /\ ForgottenIsHidden'
      BY <1>2, <3>2 DEF vars, store, history, StoresAreTyped, ForgottenIsHidden, IsStep, Gone, EventValues,
                        ValuesOf, Denied
    <3> QED BY <3>1, <3>3
  <2>3. ASSUME NEW v \in Texts, ForgetTextHere(v) PROVE Inv'
    BY <2>1, <2>3 DEF ForgetTextHere, Govern
  <2>4. CASE UNCHANGED rvars
    <3>1. UNCHANGED <<vars, cache, call>>
      BY <2>4 DEF rvars
    <3>2. StoresAreTyped' /\ ForgottenIsHidden' /\ UNCHANGED <<Gone, erased, suppressed, policies>>
      BY <1>2, <3>1 DEF vars, store, history, StoresAreTyped, ForgottenIsHidden, IsStep, Gone, EventValues,
                        ValuesOf, Denied
    <3>3. CacheHides'
      BY <1>2, <3>1, <3>2 DEF CacheHides, Windows, ToHide, EventValues, ValuesOf, Denied
    <3>4. CallsHide'
      BY <1>2, <3>1, <3>2 DEF CallsHide
    <3> QED BY <1>2, <3>1, <3>2, <3>3, <3>4
  <2> QED BY <1>2, <2>1, <2>2, <2>3, <2>4 DEF RNext
<1>3. Inv => RecallHidesTheForgotten
  BY DEF CallsHide, Hides, RecallHidesTheForgotten, At
<1> HIDE DEF Inv
<1> QED BY <1>1, <1>2, <1>3, PTL DEF RSpec

-----------------------------------------------------------------------------
(* Artifacts. *)
CONSTANTS Sessions, MaxCandidates, NoForget, Writers
VARIABLES lines, hidden, expired, forget, audited, returned, remembered, files, writer

Candidate == INSTANCE Candidates WITH answered <- returned, minted <- remembered

(* What is on disk at each step of a call: a renamed metadata file always has *)
(* its content beside it, also while an error is cleaned up.                  *)
OnDisk(at) ==
  CASE at = "content" -> {{}}
    [] at = "tmp" -> {{"content"}}
    [] at = "rename" -> {{"content", "tmp"}}
    [] at \in {"sync", "answered"} -> {{"content", "metadata"}}
    [] at \in {"unlink tmp", "killed"} ->
         {{}, {"content"}, {"content", "tmp"}, {"content", "metadata"}}
    [] at = "unlink metadata" -> {{}, {"content"}, {"content", "metadata"}}
    [] at = "unlink content" -> {{}, {"content"}}
    [] at = "raised" -> {{}}
WriterSteps == {"content", "tmp", "rename", "sync", "answered", "unlink tmp", "unlink metadata",
          "unlink content", "raised", "killed"}
WritesAreWhole ==
  /\ files = [w \in Writers |-> files[w]] /\ writer = [w \in Writers |-> writer[w]]
  /\ \A w \in Writers : writer[w] \in WriterSteps /\ files[w] \in OnDisk(writer[w])

LEMMA WritesStayWhole ==
  ASSUME WritesAreWhole, [Candidate!ANext]_(Candidate!avars) PROVE WritesAreWhole'
<1> SUFFICES ASSUME Candidate!ANext PROVE WritesAreWhole'
  BY DEF Candidate!avars, WritesAreWhole
<1>1. PICK w \in Writers : Candidate!Persist(w) \/ Candidate!Fail(w) \/ Candidate!CleanUp(w) \/ Candidate!Die(w)
  BY DEF Candidate!ANext
<1>2. writer[w] \in WriterSteps /\ files[w] \in OnDisk(writer[w])
  BY DEF WritesAreWhole
<1>3. SUFFICES ASSUME NEW at, NEW fs, at \in WriterSteps, fs \in OnDisk(at),
                      writer' = [writer EXCEPT ![w] = at], files' = [files EXCEPT ![w] = fs]
               PROVE  WritesAreWhole'
  <2> DEFINE Goal(at, fs) == /\ at \in WriterSteps /\ fs \in OnDisk(at)
                             /\ writer' = [writer EXCEPT ![w] = at] /\ files' = [files EXCEPT ![w] = fs]
  <2>1. UNCHANGED files => files' = [files EXCEPT ![w] = files[w]]
    BY DEF WritesAreWhole
  <2>2. CASE Candidate!Persist(w)
    <3>1. Goal(Candidate!After(writer[w]), Candidate!Wrote(files[w], writer[w]))
      BY <1>2, <2>2 DEF Candidate!Persist, Candidate!Writing, Candidate!After, Candidate!Wrote, OnDisk, WriterSteps
    <3> QED BY <1>3, <3>1
  <2>3. CASE Candidate!Fail(w)
    <3>1. \/ Goal("unlink tmp", files[w]) \/ Goal("unlink tmp", Candidate!Wrote(files[w], writer[w]))
      BY <1>2, <2>1, <2>3 DEF Candidate!Fail, Candidate!Writing, Candidate!Wrote, OnDisk, WriterSteps
    <3> QED BY <1>3, <3>1
  <2>4. CASE Candidate!CleanUp(w)
    <3>1. Goal(Candidate!Unlinks(writer[w]).next, files[w] \ {Candidate!Unlinks(writer[w]).gone})
      BY <1>2, <2>4 DEF Candidate!CleanUp, Candidate!Unlinks, OnDisk, WriterSteps
    <3> QED BY <1>3, <3>1
  <2>5. CASE Candidate!Die(w)
    <3>1. Goal("killed", files[w])
      BY <1>2, <2>1, <2>5 DEF Candidate!Die, OnDisk, WriterSteps
    <3> QED BY <1>3, <3>1
  <2> QED BY <1>1, <2>2, <2>3, <2>4, <2>5
<1> HIDE DEF OnDisk, WriterSteps
<1> QED BY <1>3 DEF WritesAreWhole

(* What a search of artifacts finds has its content, whatever write failed or was killed. *)
THEOREM FoundArtifactsAreAlwaysWhole == Candidate!ASpec => []Candidate!FoundArtifactsAreWhole
<1>1. Candidate!AInit => WritesAreWhole
  BY DEF Candidate!AInit, WritesAreWhole, OnDisk, WriterSteps
<1>2. WritesAreWhole => Candidate!FoundArtifactsAreWhole
  BY DEF WritesAreWhole, Candidate!FoundArtifactsAreWhole, Candidate!Found, Candidate!InCorpus, OnDisk, WriterSteps
<1> QED BY <1>1, <1>2, WritesStayWhole, PTL DEF Candidate!ASpec

-----------------------------------------------------------------------------
(* Candidates. *)
(* What stands for no forget is none. *)
NoForgetIsApart == \A ids, owed : NoForget # [ids |-> ids, owed |-> owed]

Lines == [id : Nat \ {0}, session : Sessions]
(* Ids are handed out once, and what is told or underway is about ids handed out. *)
CandidatesAreTyped ==
  /\ lines \in Seq(Lines) /\ remembered \in Nat
  /\ \A i \in DOMAIN lines : lines[i].id <= remembered
  /\ returned \in SUBSET (1 .. remembered)
  /\ forget # NoForget => /\ forget = [ids |-> forget.ids, owed |-> forget.owed]
                          /\ forget.ids \in SUBSET (1 .. remembered) /\ forget.owed \subseteq forget.ids
(* Until the forget is over, what it does not owe any more has its tombstone; what *)
(* a forget returned has one for as long as it has a line.                         *)
TombstonesStand ==
  /\ returned \subseteq audited
  /\ \A i \in DOMAIN lines : lines[i].id \in returned => lines[i].id \in hidden
  /\ forget # NoForget => forget.ids \ forget.owed \subseteq hidden
CandidatesInv == CandidatesAreTyped /\ TombstonesStand

LEMMA CandidatesInvStays ==
  ASSUME NoForgetIsApart, CandidatesInv, [Candidate!KNext]_(Candidate!kvars) PROVE CandidatesInv'
<1> USE DEF CandidatesInv, CandidatesAreTyped
<1>1. ASSUME NEW s \in Sessions, Candidate!RememberCandidate(s) PROVE CandidatesInv'
  <2> DEFINE e == [id |-> remembered + 1, session |-> s]
  <2>1. /\ lines' = Append(lines, e) /\ remembered' = remembered + 1
        /\ UNCHANGED <<hidden, forget, audited, returned>>
    BY <1>1 DEF Candidate!RememberCandidate
  <2>2. e \in Lines /\ e.id = remembered + 1
    BY DEF Lines
  <2> HIDE DEF e
  <2>3. /\ lines' \in Seq(Lines) /\ DOMAIN lines' = DOMAIN lines \union {Len(lines) + 1}
        /\ \A i \in DOMAIN lines : lines'[i] = lines[i]
        /\ lines'[Len(lines) + 1] = e
    BY <2>1, <2>2, LogsGrow
  <2>4. 1 .. remembered \subseteq 1 .. remembered' /\ e.id \notin returned
    BY <2>1, <2>2
  <2>5. \A i \in DOMAIN lines : lines[i] \in Lines
    OBVIOUS
  <2>6. \A i \in DOMAIN lines' : lines'[i].id <= remembered'
    BY <2>1, <2>2, <2>3, <2>5 DEF Lines
  <2>7. TombstonesStand'
    BY <2>1, <2>3, <2>4 DEF TombstonesStand
  <2> QED BY <2>1, <2>3, <2>4, <2>6, <2>7
<1>2. ASSUME NEW id, Candidate!Expire(id) PROVE CandidatesInv'
  BY <1>2 DEF Candidate!Expire, TombstonesStand
<1>3. ASSUME NEW match, Candidate!ForgetCandidates(match) PROVE CandidatesInv'
  <2> DEFINE ids == Candidate!Selected(match)
  <2>1. /\ forget' = [ids |-> ids, owed |-> ids \ hidden]
        /\ UNCHANGED <<lines, hidden, audited, returned, remembered>>
    BY <1>3 DEF Candidate!ForgetCandidates, Candidate!Owed
  <2>2. ids \in SUBSET (1 .. remembered)
    <3> SUFFICES ASSUME NEW i \in DOMAIN lines PROVE lines[i].id \in 1 .. remembered
      BY DEF Candidate!Selected, Candidate!ToSet
    <3>1. lines[i] \in Lines
      OBVIOUS
    <3> QED BY <3>1 DEF Lines
  <2> HIDE DEF ids
  <2>3. forget'.ids = ids /\ forget'.owed = ids \ hidden
    BY <2>1
  <2> QED BY <2>1, <2>2, <2>3 DEF TombstonesStand
<1>4. CASE Candidate!MarkTombstone
  <2> DEFINE id == CHOOSE i \in forget.owed : \A j \in forget.owed : i <= j
  <2>1. /\ forget # NoForget /\ hidden' = hidden \union {id}
        /\ forget' = [forget EXCEPT !.owed = forget.owed \ {id}]
        /\ UNCHANGED <<lines, audited, returned, remembered>>
    BY <1>4 DEF Candidate!MarkTombstone
  <2> HIDE DEF id
  <2>2. forget'.ids = forget.ids /\ forget'.owed = forget.owed \ {id}
        /\ forget' = [ids |-> forget'.ids, owed |-> forget'.owed]
    BY <2>1
  <2> QED BY <2>1, <2>2 DEF TombstonesStand
<1>5. CASE Candidate!AuditForget
  BY <1>5 DEF Candidate!AuditForget, TombstonesStand
<1>6. CASE Candidate!CompactCandidates
  <2> DEFINE rest == Picked(lines, {i \in DOMAIN lines : lines[i].id \notin hidden})
  <2>1. /\ lines' = rest /\ hidden' = {} /\ forget = NoForget
        /\ UNCHANGED <<forget, audited, returned, remembered>>
    BY <1>6 DEF Candidate!CompactCandidates, Candidate!Picked, Picked, Candidate!Picks, Picks
  <2>2. /\ rest \in Seq(Lines)
        /\ ToSet(rest) = {lines[i] : i \in DOMAIN lines \intersect {i \in DOMAIN lines : lines[i].id \notin hidden}}
    BY LogsShrink
  <2> HIDE DEF rest
  <2>3. ASSUME NEW i \in DOMAIN rest PROVE rest[i].id <= remembered /\ rest[i].id \notin returned
    <3>1. rest[i] \in ToSet(rest)
      BY Elements
    <3> QED BY <2>2, <3>1 DEF TombstonesStand
  <2> QED BY <2>1, <2>2, <2>3 DEF TombstonesStand
<1>7. CASE Candidate!KillForget
  BY <1>7 DEF Candidate!KillForget, TombstonesStand
<1>8. CASE UNCHANGED Candidate!kvars
  BY <1>8 DEF Candidate!kvars, TombstonesStand
<1> QED BY <1>1, <1>2, <1>3, <1>4, <1>5, <1>6, <1>7, <1>8 DEF Candidate!KNext

(* What a returned forget named stays hidden and audited, also when it was killed *)
(* half way before, and the store compacted.                                       *)
THEOREM ForgetsAreAlwaysWhole ==
  ASSUME NoForgetIsApart PROVE Candidate!KSpec => []Candidate!ForgetsAreWhole
<1>1. Candidate!KInit => CandidatesInv
  <2> SUFFICES ASSUME Candidate!KInit PROVE CandidatesInv
    OBVIOUS
  <2> QED BY DEF Candidate!KInit, CandidatesInv, CandidatesAreTyped, TombstonesStand
<1>2. CandidatesInv => Candidate!ForgetsAreWhole
  BY Elements DEF CandidatesInv, TombstonesStand, Candidate!ForgetsAreWhole, Candidate!Listed, Candidate!ToSet, ToSet
<1> QED BY <1>1, <1>2, CandidatesInvStays, PTL DEF Candidate!KSpec

-----------------------------------------------------------------------------
(* Project synchronisation. *)
CONSTANTS MaxCommits, MaxEdits, MaxSyncs
VARIABLES remote, tracking, head, work, upstream, sync, syncLog, edits, syncs

Sync == INSTANCE ProjectSync WITH call <- sync, events <- syncLog

(* A pull is only ever reached by a call that may apply, from a report that was behind and clean. *)
PullsWereReported ==
  /\ sync.pc # "idle" => {"apply", "before", "pc", "pulled", "reasons"} = DOMAIN sync
  /\ sync.pc = "pull" => sync.apply /\ sync.before.state = "behind_clean"

LEMMA PullsStayReported ==
  ASSUME PullsWereReported, [Sync!YNext]_(Sync!yvars) PROVE PullsWereReported'
<1> USE DEF PullsWereReported, Sync!Idle
<1>1. CASE UNCHANGED Sync!yvars \/ Sync!Elsewhere
  BY <1>1 DEF Sync!yvars, Sync!Elsewhere
<1>2. ASSUME NEW apply \in BOOLEAN, NEW fetch \in BOOLEAN, Sync!Begin(apply, fetch) PROVE PullsWereReported'
  BY <1>2 DEF Sync!Begin
<1>3. CASE Sync!Fetch
  <2>1. PICK rs : sync.pc = "fetch" /\ sync' = [sync EXCEPT !.pc = "status", !.reasons = rs]
    BY <1>3 DEF Sync!Fetch
  <2> QED BY <2>1
<1>4. CASE Sync!Status
  <2>1. PICK rs, pc : /\ sync.pc = "status" /\ pc # "pull"
                      /\ sync' = [sync EXCEPT !.pc = pc, !.reasons = rs]
    BY <1>4 DEF Sync!Status
  <2> QED BY <2>1
<1>5. CASE Sync!Counts
  <2>1. PICK rs : sync.pc = "counts" /\ sync' = [sync EXCEPT !.pc = "report", !.reasons = rs]
    BY <1>5 DEF Sync!Counts
  <2> QED BY <2>1
<1>6. CASE Sync!Report
  <2>1. /\ sync.pc = "report"
        /\ \/ sync' = Sync!Idle
           \/ /\ sync' = [sync EXCEPT !.pc = "pull", !.before = [state |-> "behind_clean", ok |-> TRUE]]
              /\ sync.apply
    BY <1>6 DEF Sync!Report, Sync!Log
  <2>2. CASE sync' = Sync!Idle
    <3>1. sync'.pc = "idle"
      BY <2>2
    <3> QED BY <3>1
  <2>3. CASE sync' # Sync!Idle
    <3> DEFINE reported == [state |-> "behind_clean", ok |-> TRUE]
    <3>1. sync' = [sync EXCEPT !.pc = "pull", !.before = reported] /\ sync.apply /\ reported.state = "behind_clean"
      BY <2>1, <2>3
    <3> HIDE DEF reported
    <3>2. DOMAIN sync' = DOMAIN sync /\ DOMAIN sync = {"apply", "before", "pc", "pulled", "reasons"}
      BY <2>1, <3>1
    <3>3. sync'.apply = sync.apply /\ sync'.before = reported
      BY <3>1, <3>2
    <3> QED BY <3>1, <3>2, <3>3
  <2> QED BY <2>2, <2>3
<1>7. CASE Sync!Pull
  <2>1. PICK answer : /\ sync.pc = "pull"
                      /\ sync' = [sync EXCEPT !.pc = "status", !.pulled = answer, !.reasons = {}]
    BY <1>7 DEF Sync!Pull
  <2> QED BY <2>1
<1>8. CASE Sync!Kill
  BY <1>8 DEF Sync!Kill
<1> QED BY <1>1, <1>2, <1>3, <1>4, <1>5, <1>6, <1>7, <1>8 DEF Sync!YNext, Sync!Guard

(* Whatever the operator and the others do between inspection and pull, the guard only fast-forwards. *)
THEOREM GuardsAlwaysFastForward == Sync!YSpec => Sync!OnlyFastForwards
<1>1. Sync!YInit => PullsWereReported
  BY DEF Sync!YInit, PullsWereReported, Sync!Idle
<1>2. ASSUME PullsWereReported, [Sync!YNext]_(Sync!yvars) PROVE [Sync!FastForwards]_(Sync!yvars)
  <2> SUFFICES ASSUME Sync!Guard PROVE Sync!FastForwards
    BY DEF Sync!FastForwards
  <2>1. CASE Sync!Pull
    <3> DEFINE moved == Sync!Forward(head, remote, work)
    <3>1. UNCHANGED <<remote, work>> /\ head' \in {head, moved}
      BY <2>1 DEF Sync!Pull, Sync!Answers
    <3>2. moved # head => /\ head.own = 0 /\ head.base < remote /\ moved.own = 0 /\ moved.base = remote
      BY DEF Sync!Forward
    <3>3. sync.apply /\ sync.before.state = "behind_clean"
      BY <1>2, <2>1 DEF Sync!Pull, PullsWereReported
    <3> QED BY <3>1, <3>2, <3>3 DEF Sync!FastForwards
  <2>2. ~Sync!Pull => UNCHANGED <<remote, work, head>>
    BY DEF Sync!Guard, Sync!Begin, Sync!Fetch, Sync!Status, Sync!Counts, Sync!Report, Sync!Kill
  <2> QED BY <2>1, <2>2 DEF Sync!FastForwards
<1> QED BY <1>1, <1>2, PullsStayReported, PTL DEF Sync!YSpec, Sync!OnlyFastForwards

-----------------------------------------------------------------------------
(* Projection cache. *)
CONSTANTS CacheReaders, Expiries, Instants, MaxVersions, NoFile
VARIABLES grants, inode, sidecar, reader

Projection == INSTANCE ProjectionCache

(* The fold of the first n lines of the log, and a fingerprint of it. *)
FoldOf(n, leases) == [seq |-> n, last |-> IF leases /\ n # 0 THEN grants[n] ELSE NoFile]
Marked(fp) == fp = <<fp[1], fp[2]>> /\ fp[1] \in Nat /\ fp[2] \in 0 .. Len(grants)
LogIsTyped == grants \in Seq(Expiries) /\ inode \in Nat
(* A sidecar is the fold of the log its fingerprint stands for. *)
IsHonestFold(file) ==
  /\ Marked(file.fp) /\ file.leases \in BOOLEAN
  /\ file.fold = FoldOf(file.fp[2], file.leases)
(* A call's fold is of the log since its fingerprint; while it is not published it *)
(* may be of a later log, whose fingerprint differs.                               *)
IsHonestCall(c) ==
  /\ c.leases \in BOOLEAN /\ c.start \in 0 .. Len(grants)
  /\ c.step # "returned" => Marked(c.before) /\ c.start <= c.before[2]
  /\ c.step \in {"confirm", "write"} => c.fold = FoldOf(c.before[2], c.leases)
  /\ c.step = "publish" => \E n \in c.before[2] .. Len(grants) : c.fold = FoldOf(n, c.leases)
  /\ c.step = "returned" => \E n \in c.start .. Len(grants) :
                              c.answer = Projection!Answer(FoldOf(n, c.leases), c.now)
ProjectionInv ==
  /\ LogIsTyped /\ DOMAIN reader = CacheReaders
  /\ sidecar # NoFile => IsHonestFold(sidecar)
  /\ \A r \in CacheReaders : reader[r] # NoFile => IsHonestCall(reader[r])

LEMMA FoldsAreOfLines ==
  ASSUME LogIsTyped, NEW n \in 0 .. Len(grants), NEW leases \in BOOLEAN
  PROVE  Projection!Folded(SubSeq(grants, 1, n), leases) = FoldOf(n, leases)
<1> DEFINE slice == SubSeq(grants, 1, n)
<1>1. Len(slice) = n /\ n \in Nat /\ (slice # <<>> <=> n # 0) /\ (n # 0 => slice[n] = grants[n])
  BY DEF LogIsTyped
<1> HIDE DEF slice
<1> QED BY <1>1 DEF Projection!Folded, FoldOf

LEMMA FoldOfTheLog ==
  ASSUME LogIsTyped, NEW leases \in BOOLEAN
  PROVE  Projection!Folded(grants, leases) = FoldOf(Len(grants), leases)
BY DEF LogIsTyped, Projection!Folded, FoldOf

(* What was honest of a log stays so while the log only grows. *)
LogGrew == \/ UNCHANGED grants
           \/ \E e : grants' = Append(grants, e)

LEMMA HonestyStays ==
  ASSUME LogIsTyped, LogGrew, NEW x
  PROVE  /\ IsHonestFold(x) => IsHonestFold(x)'
         /\ IsHonestCall(x) => IsHonestCall(x)'
<1>1. /\ Len(grants) \in Nat /\ Len(grants') \in Nat /\ Len(grants) <= Len(grants')
      /\ \A n \in 1 .. Len(grants) : grants'[n] = grants[n]
  BY DEF LogIsTyped, LogGrew
<1>2. ASSUME NEW n \in 0 .. Len(grants), NEW l \in BOOLEAN PROVE FoldOf(n, l)' = FoldOf(n, l)
  BY <1>1 DEF FoldOf
<1>3. \A fp : Marked(fp) => Marked(fp)' /\ fp[2] \in 0 .. Len(grants)
  BY <1>1 DEF Marked
<1>4. IsHonestFold(x) => IsHonestFold(x)'
  BY <1>2, <1>3 DEF IsHonestFold
<1>5. ASSUME IsHonestCall(x) PROVE IsHonestCall(x)'
  <2>1. x.leases \in BOOLEAN /\ x.start \in 0 .. Len(grants')
    BY <1>1, <1>5 DEF IsHonestCall
  <2>2. x.step # "returned" => Marked(x.before)' /\ x.start <= x.before[2]
    BY <1>3, <1>5 DEF IsHonestCall
  <2>3. x.step \in {"confirm", "write"} => x.fold = FoldOf(x.before[2], x.leases)'
    BY <1>2, <1>3, <1>5 DEF IsHonestCall
  <2>4. ASSUME x.step = "publish"
        PROVE  \E n \in x.before[2] .. Len(grants') : x.fold = FoldOf(n, x.leases)'
    <3>1. PICK n \in x.before[2] .. Len(grants) : x.fold = FoldOf(n, x.leases)
      BY <1>5, <2>4 DEF IsHonestCall
    <3>2. x.before[2] \in 0 .. Len(grants)
      BY <1>3, <1>5, <2>4 DEF IsHonestCall
    <3> QED BY <1>1, <1>2, <2>1, <3>1, <3>2
  <2>5. ASSUME x.step = "returned"
        PROVE  \E n \in x.start .. Len(grants') : x.answer = Projection!Answer(FoldOf(n, x.leases)', x.now)
    <3>1. PICK n \in x.start .. Len(grants) : x.answer = Projection!Answer(FoldOf(n, x.leases), x.now)
      BY <1>5, <2>5 DEF IsHonestCall
    <3>2. x.start \in 0 .. Len(grants)
      BY <1>5 DEF IsHonestCall
    <3> QED BY <1>1, <1>2, <2>1, <3>1, <3>2
  <2> QED BY <2>1, <2>2, <2>3, <2>4, <2>5 DEF IsHonestCall, Projection!Answer, Projection!ActiveAt
<1> QED BY <1>4, <1>5

(* A step of one reader, and what a call is that it may leave behind. *)
LEMMA ReaderSteps ==
  ASSUME ProjectionInv, NEW r \in CacheReaders, NEW d, reader' = [reader EXCEPT ![r] = d],
         UNCHANGED <<grants, inode>>, d # NoFile => IsHonestCall(d),
         NEW file, sidecar' = file, file # NoFile => IsHonestFold(file)
  PROVE  ProjectionInv'
<1>1. LogGrew /\ LogIsTyped
  BY DEF LogGrew, ProjectionInv
<1>2. \A x : (IsHonestFold(x) => IsHonestFold(x)') /\ (IsHonestCall(x) => IsHonestCall(x)')
  BY <1>1, HonestyStays
<1>3. \A q \in CacheReaders : reader'[q] = IF q = r THEN d ELSE reader[q]
  BY DEF ProjectionInv
<1>4. ASSUME NEW q \in CacheReaders, reader'[q] # NoFile PROVE IsHonestCall(reader'[q])
  BY <1>3, <1>4 DEF ProjectionInv
<1>5. ASSUME NEW q \in CacheReaders, reader'[q] # NoFile PROVE IsHonestCall(reader[q])'
  BY <1>2, <1>4, <1>5, UNCHANGED grants DEF IsHonestCall, FoldOf, Marked, Projection!Answer, Projection!ActiveAt
<1>6. sidecar' # NoFile => IsHonestFold(sidecar)'
  BY DEF IsHonestFold, FoldOf, Marked
<1> QED BY <1>5, <1>6 DEF ProjectionInv, LogIsTyped

LEMMA ProjectionInvStays ==
  ASSUME ProjectionInv, [Projection!PNext]_(Projection!pvars) PROVE ProjectionInv'
<1> DEFINE stays == sidecar # NoFile => IsHonestFold(sidecar)
<1>0. stays /\ LogIsTyped /\ Len(grants) \in Nat /\ Marked(Projection!Fingerprint)
  <2>1. stays /\ LogIsTyped /\ Len(grants) \in Nat /\ inode \in Nat
    BY DEF ProjectionInv, LogIsTyped
  <2> QED BY <2>1 DEF Marked, Projection!Fingerprint
<1>1. ASSUME NEW e \in Expiries, Projection!Write(e) PROVE ProjectionInv'
  <2>1. grants' = Append(grants, e) /\ UNCHANGED <<inode, sidecar, reader>>
    BY <1>1 DEF Projection!Write
  <2>2. LogGrew /\ LogIsTyped /\ LogIsTyped'
    BY <2>1 DEF LogGrew, ProjectionInv, LogIsTyped
  <2>3. \A x : (IsHonestFold(x) => IsHonestFold(x)') /\ (IsHonestCall(x) => IsHonestCall(x)')
    BY <2>2, HonestyStays
  <2>4. sidecar # NoFile => IsHonestFold(sidecar)'
    BY <2>1, <2>3 DEF ProjectionInv
  <2>5. \A r \in CacheReaders : reader[r] # NoFile => IsHonestCall(reader[r])'
    BY <2>1, <2>3 DEF ProjectionInv
  <2> QED BY <2>1, <2>2, <2>4, <2>5 DEF ProjectionInv
<1>2. CASE inode' \in Nat /\ UNCHANGED <<grants, sidecar, reader>>
  <2>1. LogGrew /\ LogIsTyped /\ LogIsTyped'
    BY <1>2 DEF LogGrew, ProjectionInv, LogIsTyped
  <2>2. \A x : (IsHonestFold(x) => IsHonestFold(x)') /\ (IsHonestCall(x) => IsHonestCall(x)')
    BY <2>1, HonestyStays
  <2>3. sidecar # NoFile => IsHonestFold(sidecar)'
    BY <1>2, <2>2 DEF ProjectionInv
  <2>4. \A r \in CacheReaders : reader[r] # NoFile => IsHonestCall(reader[r])'
    BY <1>2, <2>2 DEF ProjectionInv
  <2> QED BY <1>2, <2>1, <2>3, <2>4 DEF ProjectionInv
<1>3. CASE Projection!ReplaceLog \/ UNCHANGED Projection!pvars
  BY <1>2, <1>3 DEF Projection!ReplaceLog, Projection!pvars, ProjectionInv, LogIsTyped
<1>4. ASSUME NEW r \in CacheReaders, NEW now \in Instants, NEW leases \in BOOLEAN,
             Projection!ReadProjection(r, now, leases)
      PROVE  ProjectionInv'
  <2> DEFINE d == [step |-> "load", now |-> now, leases |-> leases, before |-> Projection!Fingerprint,
                   start |-> Len(grants), tries |-> 0]
  <2>1. reader' = [reader EXCEPT ![r] = d] /\ UNCHANGED <<grants, inode, sidecar>>
    BY <1>4 DEF Projection!ReadProjection, Projection!Go
  <2>2. IsHonestCall(d)
    BY <1>0 DEF IsHonestCall, Projection!Fingerprint
  <2> HIDE DEF d
  <2> QED BY <1>0, <2>1, <2>2, ReaderSteps
<1>5. ASSUME NEW r \in CacheReaders, NEW step, Projection!In(r, step), step \in {"load", "confirm", "stamp", "fold", "publish", "write"}
      PROVE  /\ reader[r].step = step /\ IsHonestCall(reader[r]) /\ Marked(reader[r].before)
             /\ reader[r].leases \in BOOLEAN /\ reader[r].start \in 0 .. reader[r].before[2]
             /\ reader[r].before[2] \in 0 .. Len(grants)
  BY <1>0, <1>5 DEF Projection!In, ProjectionInv, IsHonestCall, Marked
<1>6. ASSUME NEW r \in CacheReaders, NEW step \in {"load", "confirm", "stamp", "fold", "publish", "write"}, Projection!In(r, step),
             NEW next \in {"stamp", "fold"}, NEW before \in {reader[r].before, Projection!Fingerprint},
             UNCHANGED <<grants, inode, sidecar>>,
             reader' = [reader EXCEPT ![r] = Projection!Seeking(r, next, before)]
      PROVE  ProjectionInv'
  <2> DEFINE d == Projection!Seeking(r, next, before)
  <2>1. IsHonestCall(d)
    BY <1>0, <1>5, <1>6 DEF IsHonestCall, Projection!Seeking, Projection!Fingerprint
  <2> HIDE DEF d
  <2> QED BY <1>0, <1>6, <2>1, ReaderSteps DEF d
<1>7. ASSUME NEW r \in CacheReaders, NEW step \in {"load", "confirm", "stamp", "fold", "publish", "write"}, Projection!In(r, step),
             NEW n \in reader[r].start .. Len(grants), NEW fold, fold = FoldOf(n, reader[r].leases),
             UNCHANGED <<grants, inode>>, NEW file, sidecar' = file, file # NoFile => IsHonestFold(file),
             reader' = [reader EXCEPT ![r] = Projection!Returned(r, fold)]
      PROVE  ProjectionInv'
  <2> DEFINE d == Projection!Returned(r, fold)
  <2>1. IsHonestCall(d)
    BY <1>0, <1>5, <1>7 DEF IsHonestCall, Projection!Returned
  <2> HIDE DEF d
  <2> QED BY <1>7, <2>1, ReaderSteps DEF d
<1>8. ASSUME NEW r \in CacheReaders, Projection!Load(r) PROVE ProjectionInv'
  <2>1. Projection!In(r, "load") /\ UNCHANGED <<grants, inode, sidecar>>
    BY <1>8 DEF Projection!Load
  <2>2. CASE ~Projection!Usable(r)
    BY <1>6, <1>8, <2>1, <2>2 DEF Projection!Load, Projection!Go
  <2>3. CASE Projection!Usable(r)
    <3> DEFINE fold == IF reader[r].leases THEN sidecar.fold ELSE [sidecar.fold EXCEPT !.last = NoFile]
               d == Projection!Holding(r, "confirm", reader[r].before, fold)
    <3>1. reader' = [reader EXCEPT ![r] = d]
      BY <1>8, <2>3 DEF Projection!Load, Projection!Go
    <3>2. sidecar # NoFile /\ sidecar.fp = reader[r].before /\ (reader[r].leases => sidecar.leases)
      BY <2>3 DEF Projection!Usable
    <3>3. sidecar.fold = FoldOf(reader[r].before[2], sidecar.leases) /\ sidecar.leases \in BOOLEAN
      BY <1>0, <3>2 DEF IsHonestFold
    <3>4. fold = FoldOf(reader[r].before[2], reader[r].leases)
      BY <1>5, <2>1, <3>2, <3>3 DEF FoldOf
    <3> HIDE DEF fold
    <3>5. IsHonestCall(d)
      BY <1>5, <2>1, <3>4, <1>0 DEF IsHonestCall, Projection!Holding
    <3> HIDE DEF d
    <3> QED BY <1>0, <2>1, <3>1, <3>5, ReaderSteps
  <2> QED BY <2>2, <2>3
<1>9. ASSUME NEW r \in CacheReaders, Projection!Confirm(r) PROVE ProjectionInv'
  <2>1. Projection!In(r, "confirm") /\ UNCHANGED <<grants, inode, sidecar>>
    BY <1>9 DEF Projection!Confirm
  <2>2. reader[r].fold = FoldOf(reader[r].before[2], reader[r].leases)
    BY <1>5, <2>1 DEF IsHonestCall
  <2>3. CASE Projection!Fingerprint = reader[r].before
    <3>1. reader' = [reader EXCEPT ![r] = Projection!Returned(r, reader[r].fold)]
      BY <1>9, <2>3 DEF Projection!Confirm, Projection!Go
    <3>2. reader[r].before[2] \in reader[r].start .. Len(grants)
      BY <1>0, <1>5, <2>1
    <3> QED BY <1>0, <1>7, <2>1, <2>2, <3>1, <3>2
  <2>4. CASE Projection!Fingerprint # reader[r].before
    BY <1>6, <1>9, <2>1, <2>4 DEF Projection!Confirm, Projection!Go
  <2> QED BY <2>3, <2>4
<1>10. ASSUME NEW r \in CacheReaders, Projection!StampLog(r) PROVE ProjectionInv'
  BY <1>6, <1>10 DEF Projection!StampLog, Projection!Go
<1>11. ASSUME NEW r \in CacheReaders, Projection!FoldLog(r) PROVE ProjectionInv'
  <2> DEFINE fold == Projection!Folded(grants, reader[r].leases)
             d == [Projection!Holding(r, "publish", reader[r].before, fold) EXCEPT !.tries = @ + 1]
  <2>1. /\ Projection!In(r, "fold") /\ UNCHANGED <<grants, inode, sidecar>>
        /\ reader' = [reader EXCEPT ![r] = d]
    BY <1>11 DEF Projection!FoldLog, Projection!Go
  <2>2. fold = FoldOf(Len(grants), reader[r].leases)
    BY <1>0, <1>5, <2>1, FoldOfTheLog
  <2> HIDE DEF fold
  <2>3. /\ d.step = "publish" /\ d.leases = reader[r].leases /\ d.start = reader[r].start
        /\ d.before = reader[r].before /\ d.fold = fold
    BY DEF Projection!Holding
  <2> HIDE DEF d
  <2>4. IsHonestCall(d)
    BY <1>0, <1>5, <2>1, <2>2, <2>3 DEF IsHonestCall
  <2> QED BY <1>0, <2>1, <2>4, ReaderSteps
<1>12. ASSUME NEW r \in CacheReaders, Projection!PublishFold(r) PROVE ProjectionInv'
  <2>1. Projection!In(r, "publish") /\ UNCHANGED <<grants, inode, sidecar>>
    BY <1>12 DEF Projection!PublishFold
  <2>2. PICK n \in reader[r].before[2] .. Len(grants) : reader[r].fold = FoldOf(n, reader[r].leases)
    BY <1>5, <2>1 DEF IsHonestCall
  <2>3. CASE reader' = [reader EXCEPT ![r] = Projection!Seeking(r, "stamp", reader[r].before)]
    BY <1>6, <2>1, <2>3
  <2>4. CASE reader' = [reader EXCEPT ![r] = Projection!Returned(r, reader[r].fold)]
    <3>1. n \in reader[r].start .. Len(grants)
      BY <1>0, <1>5, <2>1, <2>2
    <3> QED BY <1>0, <1>7, <2>1, <2>2, <2>4, <3>1
  <2>5. CASE /\ Projection!Fingerprint = reader[r].before
             /\ reader' = [reader EXCEPT ![r] =
                  Projection!Holding(r, "write", Projection!Fingerprint, reader[r].fold)]
    <3> DEFINE d == Projection!Holding(r, "write", Projection!Fingerprint, reader[r].fold)
    <3>1. n = reader[r].before[2]
      BY <1>0, <1>5, <2>1, <2>2, <2>5 DEF Projection!Fingerprint
    <3>2. IsHonestCall(d)
      BY <1>0, <1>5, <2>1, <2>2, <2>5, <3>1 DEF IsHonestCall, Projection!Holding
    <3> HIDE DEF d
    <3> QED BY <1>0, <2>1, <2>5, <3>2, ReaderSteps DEF d
  <2> QED BY <1>12, <2>3, <2>4, <2>5 DEF Projection!PublishFold, Projection!Go, Projection!Unchanged
<1>13. ASSUME NEW r \in CacheReaders, Projection!WriteSidecar(r) PROVE ProjectionInv'
  <2> DEFINE file == [fp |-> reader[r].before, fold |-> reader[r].fold, leases |-> reader[r].leases]
  <2>1. /\ Projection!In(r, "write") /\ UNCHANGED <<grants, inode>> /\ sidecar' \in {file, sidecar}
        /\ reader' = [reader EXCEPT ![r] = Projection!Returned(r, reader[r].fold)]
    BY <1>13 DEF Projection!WriteSidecar, Projection!Go
  <2>2. reader[r].fold = FoldOf(reader[r].before[2], reader[r].leases)
    BY <1>5, <2>1 DEF IsHonestCall
  <2>3. IsHonestFold(file)
    BY <1>5, <2>1, <2>2 DEF IsHonestFold
  <2> HIDE DEF file
  <2>4. reader[r].before[2] \in reader[r].start .. Len(grants)
    BY <1>0, <1>5, <2>1
  <2> QED BY <1>0, <1>7, <2>1, <2>2, <2>3, <2>4
<1>14. ASSUME NEW r \in CacheReaders, Projection!Forget(r) PROVE ProjectionInv'
  BY <1>0, <1>14, ReaderSteps DEF Projection!Forget, Projection!Go
<1> QED BY <1>1, <1>3, <1>4, <1>8, <1>9, <1>10, <1>11, <1>12, <1>13, <1>14 DEF Projection!PNext

(* What read_projection answers, cached or not, is the projection of the log at a moment of the call. *)
THEOREM AnswersAreAlwaysOfTheCall == Projection!PSpec => []Projection!AnswersAreOfThisCall
<1>1. Projection!PInit => ProjectionInv
  <2> SUFFICES ASSUME Projection!PInit PROVE ProjectionInv
    OBVIOUS
  <2> QED BY DEF Projection!PInit, ProjectionInv, LogIsTyped
<1>2. ProjectionInv => Projection!AnswersAreOfThisCall
  <2> SUFFICES ASSUME ProjectionInv, NEW r \in CacheReaders, Projection!In(r, "returned")
               PROVE  \E n \in reader[r].start .. Len(grants) : reader[r].answer =
                        Projection!Answer(Projection!Folded(SubSeq(grants, 1, n), reader[r].leases), reader[r].now)
    BY DEF Projection!AnswersAreOfThisCall
  <2>1. LogIsTyped /\ IsHonestCall(reader[r]) /\ reader[r].step = "returned"
    BY DEF ProjectionInv, Projection!In
  <2>2. PICK n \in reader[r].start .. Len(grants) :
          reader[r].answer = Projection!Answer(FoldOf(n, reader[r].leases), reader[r].now)
    BY <2>1 DEF IsHonestCall
  <2>3. n \in 0 .. Len(grants) /\ reader[r].leases \in BOOLEAN
    BY <2>1 DEF IsHonestCall, LogIsTyped
  <2> QED BY <2>1, <2>2, <2>3, FoldsAreOfLines
<1> QED BY <1>1, <1>2, ProjectionInvStays, PTL DEF Projection!PSpec

-----------------------------------------------------------------------------
(* Correction policy. *)
CONSTANTS Scopes, Revisions, Evaluated, Observed, Promoted, Kinds, Moments, RefLists, MaxLines, Nothing
VARIABLES corrections, active, compiling, injected

Correction == INSTANCE Corrections WITH log <- corrections, Instants <- Moments

(* What the host promoted is the digest of its revision at a scope. *)
PromotionsAreDigests ==
  active # Nothing => active.digest = Correction!Digest(active.rev, active.at)

(* What is injected was promoted for the scope it is injected at. *)
THEOREM InjectionsAreAlwaysAsPromoted == Correction!RSpec => []Correction!InjectedAsPromoted
<1> DEFINE Inv == PromotionsAreDigests /\ Correction!InjectedAsPromoted
<1>1. Correction!RInit => Inv
  BY DEF Correction!RInit, PromotionsAreDigests, Correction!InjectedAsPromoted
<1>2. ASSUME Inv, [Correction!RNext]_(Correction!rvars) PROVE Inv'
  <2>1. CASE UNCHANGED <<active, injected>>
    BY <1>2, <2>1 DEF PromotionsAreDigests, Correction!InjectedAsPromoted, Correction!Digest
  <2>2. ASSUME NEW rev, NEW s, Correction!Promote(rev, s) PROVE Inv'
    BY <1>2, <2>2 DEF Correction!Promote, PromotionsAreDigests, Correction!InjectedAsPromoted, Correction!Digest
  <2>3. CASE Correction!CompileInject
    <3> DEFINE l == [rev |-> active.rev, scope |-> Correction!Scope(compiling), promotedAt |-> active.at]
    <3>1. /\ UNCHANGED active
          /\ \/ injected' = injected
             \/ /\ injected' = injected \union {l} /\ active # Nothing
                /\ active.digest = Correction!Digest(active.rev, Correction!Scope(compiling))
      BY <2>3 DEF Correction!CompileInject
    <3>2. CASE injected' = injected
      BY <2>1, <3>1, <3>2
    <3>3. CASE injected' # injected
      <4>1. Correction!Digest(active.rev, active.at) = Correction!Digest(active.rev, Correction!Scope(compiling))
        BY <1>2, <3>1, <3>3 DEF PromotionsAreDigests
      <4>2. active.at = Correction!Scope(compiling)
        <5>1. Correction!Digest(active.rev, active.at).scope = active.at
          BY DEF Correction!Digest
        <5>2. Correction!Digest(active.rev, Correction!Scope(compiling)).scope = Correction!Scope(compiling)
          BY DEF Correction!Digest
        <5> QED BY <4>1, <5>1, <5>2
      <4> QED BY <1>2, <3>1, <3>3, <4>2 DEF PromotionsAreDigests, Correction!InjectedAsPromoted, Correction!Digest
    <3> QED BY <3>2, <3>3
  <2> QED BY <1>2, <2>1, <2>2, <2>3
        DEF Correction!RNext, Correction!HostCall, Correction!rvars, Correction!WriteCall, Correction!ReviseCall, Correction!Write, Correction!CompileRead
<1> HIDE DEF Inv
<1>3. Inv => Correction!InjectedAsPromoted
  BY DEF Inv
<1> QED BY <1>1, <1>2, <1>3, PTL DEF Correction!RSpec

(* ---- widenings ---- *)
LogIsOfItsLines == corrections \in Seq({corrections[i] : i \in DOMAIN corrections})
(* The line was earned by what stands before it. *)
Earned(l, i) ==
  l[i].kind = "scope" /\ l[i].scope > l[i].from =>
    /\ l[i].rev # Correction!First
    /\ \A k \in Kinds : \E j \in Correction!Receipts(l, l[i].rev, k) :
         /\ j < i /\ l[j].verdict = "pass" /\ l[j].scope = l[i].scope
         /\ \A n \in j + 1 .. i - 1 : /\ l[n].kind # "scope"
                                      /\ n \notin Correction!Receipts(l, l[i].rev, k)

LEMMA EarnedIsTheProperty ==
  Correction!WideningsWereEarned <=> \A i \in DOMAIN corrections : Earned(corrections, i)
BY DEF Correction!WideningsWereEarned, Earned, Correction!Positions

LEMMA LatestOf ==
  ASSUME NEW S \in SUBSET Nat, S # {}, NEW n \in Nat, \A i \in S : i < n
  PROVE  Correction!Latest(S) \in S /\ \A j \in S : j <= Correction!Latest(S)
BY GreatestNumber DEF Correction!Latest

(* A line may not widen unless every required kind passed since the scope last changed. *)
LEMMA WideningsAreEarned ==
  ASSUME NEW X, NEW l \in Seq(X), NEW r, Correction!MayAppend(l, r), r.kind = "scope", r.scope > r.from
  PROVE  /\ r.rev # Correction!First
         /\ \A k \in Kinds : \E j \in Correction!Receipts(l, r.rev, k) :
              /\ l[j].verdict = "pass" /\ l[j].scope = r.scope
              /\ \A n \in DOMAIN l : n > j => /\ l[n].kind # "scope"
                                              /\ n \notin Correction!Receipts(l, r.rev, k)
<1>1. Correction!Widens(l, r) /\ r.rev \in Correction!Recorded(l)
  BY DEF Correction!MayAppend
<1>2. DOMAIN l = 1 .. Len(l) /\ Len(l) \in Nat
  OBVIOUS
<1>3. SUFFICES ASSUME NEW k \in Kinds
               PROVE  \E j \in Correction!Receipts(l, r.rev, k) :
                        /\ l[j].verdict = "pass" /\ l[j].scope = r.scope
                        /\ \A n \in DOMAIN l : n > j => /\ l[n].kind # "scope"
                                                        /\ n \notin Correction!Receipts(l, r.rev, k)
  BY <1>1 DEF Correction!Widens
<1> DEFINE found == Correction!Receipts(l, r.rev, k)
           recorded == Correction!Positions(l, "capture") \union Correction!Positions(l, "revision")
           changed == {Correction!RevisedAt(l, r.rev)} \union Correction!Positions(l, "scope")
           j == Correction!Latest(found)
<1>4. /\ found # {} /\ l[j].verdict = "pass" /\ l[j].scope = r.scope
      /\ j > Correction!Latest(changed)
  BY <1>1 DEF Correction!Widens, Correction!Boundary
<1>5. found \subseteq 1 .. Len(l)
  <2>1. found \subseteq DOMAIN l
    BY DEF Correction!Receipts, Correction!Positions
  <2> HIDE DEF found
  <2> QED BY <1>2, <2>1
<1>6. j \in found /\ \A n \in found : n <= j
  <2>1. found \in SUBSET Nat /\ Len(l) + 1 \in Nat /\ \A n \in found : n < Len(l) + 1
    BY <1>2, <1>5
  <2> QED BY <1>4, <2>1, LatestOf
<1>7. Correction!RevisedAt(l, r.rev) \in 1 .. Len(l)
  <2>1. \E i \in recorded : l[i].rev = r.rev
    BY <1>1 DEF Correction!Recorded
  <2>2. Correction!RevisedAt(l, r.rev) \in recorded
    BY <2>1 DEF Correction!RevisedAt
  <2> QED BY <1>2, <2>2 DEF Correction!Positions
<1>8. changed \subseteq 1 .. Len(l) /\ changed # {}
  <2>1. Correction!Positions(l, "scope") \subseteq DOMAIN l
    BY DEF Correction!Positions
  <2> QED BY <1>2, <1>7, <2>1
<1>9. Correction!Latest(changed) \in 1 .. Len(l) /\ \A n \in changed : n <= Correction!Latest(changed)
  <2>1. changed \in SUBSET Nat /\ Len(l) + 1 \in Nat /\ \A n \in changed : n < Len(l) + 1
    <3> HIDE DEF changed
    <3>1. \A n \in changed : n \in Nat /\ n < Len(l) + 1
      BY <1>2, <1>8
    <3> QED BY <1>2, <3>1
  <2> QED BY <1>8, <2>1, LatestOf
<1>10. ASSUME NEW n \in DOMAIN l, n > j PROVE l[n].kind # "scope" /\ n \notin found
  <2>1. n \notin found
    BY <1>2, <1>5, <1>6, <1>10
  <2>2. n \notin changed
    <3> DEFINE bound == Correction!Latest(changed)
    <3>1. n \in Nat /\ j \in Nat /\ bound \in Nat /\ n > j /\ j > bound
      BY <1>2, <1>4, <1>5, <1>6, <1>9, <1>10
    <3>2. n \in changed => n <= bound
      BY <1>9
    <3> HIDE DEF bound, j, changed
    <3> QED BY <3>1, <3>2
  <2> QED BY <2>1, <2>2 DEF Correction!Positions
<1> HIDE DEF j, found
<1> QED BY <1>4, <1>6, <1>10 DEF found

LEMMA WritesAreEarned ==
  ASSUME LogIsOfItsLines, Correction!WideningsWereEarned, NEW r, Correction!Write(r)
  PROVE  LogIsOfItsLines' /\ Correction!WideningsWereEarned'
<1> DEFINE l == corrections
           X == {l[i] : i \in DOMAIN l} \union {r}
           m == Append(l, r)
           last == Len(l) + 1
<1>1. corrections' = m /\ Correction!MayAppend(l, r)
  BY DEF Correction!Write
<1>2. l \in Seq(X) /\ r \in X
  BY DEF LogIsOfItsLines
<1>3. /\ m \in Seq(X) /\ DOMAIN m = DOMAIN l \union {last} /\ m[last] = r
      /\ \A i \in DOMAIN l : m[i] = l[i]
      /\ DOMAIN l = 1 .. Len(l) /\ Len(l) \in Nat
  BY <1>2, LogsGrow
<1> HIDE DEF m
<1>4. LogIsOfItsLines'
  <2>1. \A i \in DOMAIN m : m[i] \in {m[n] : n \in DOMAIN m}
    OBVIOUS
  <2>2. m \in Seq({m[n] : n \in DOMAIN m})
    BY <1>3, <2>1
  <2> QED BY <1>1, <2>2 DEF LogIsOfItsLines
<1>5. \A rev, k : Correction!Receipts(l, rev, k) \subseteq Correction!Receipts(m, rev, k)
  BY <1>3 DEF Correction!Receipts, Correction!Positions
<1>6. \A rev, k : \A n \in DOMAIN l : n \in Correction!Receipts(m, rev, k) => n \in Correction!Receipts(l, rev, k)
  BY <1>3 DEF Correction!Receipts, Correction!Positions
<1>7. \A rev, k : Correction!Receipts(l, rev, k) \subseteq DOMAIN l
  BY DEF Correction!Receipts, Correction!Positions
<1>8. ASSUME NEW i \in DOMAIN l PROVE Earned(m, i)
  <2> SUFFICES ASSUME l[i].kind = "scope", l[i].scope > l[i].from
               PROVE  /\ l[i].rev # Correction!First
                      /\ \A k \in Kinds : \E j \in Correction!Receipts(m, l[i].rev, k) :
                           /\ j < i /\ m[j].verdict = "pass" /\ m[j].scope = l[i].scope
                           /\ \A n \in j + 1 .. i - 1 : /\ m[n].kind # "scope"
                                                        /\ n \notin Correction!Receipts(m, l[i].rev, k)
    BY <1>3 DEF Earned
  <2>1. Earned(l, i)
    BY EarnedIsTheProperty
  <2>2. l[i].rev # Correction!First
    BY <2>1 DEF Earned
  <2>3. ASSUME NEW k \in Kinds
        PROVE  \E j \in Correction!Receipts(m, l[i].rev, k) :
                 /\ j < i /\ m[j].verdict = "pass" /\ m[j].scope = l[i].scope
                 /\ \A n \in j + 1 .. i - 1 : /\ m[n].kind # "scope"
                                              /\ n \notin Correction!Receipts(m, l[i].rev, k)
    <3>1. PICK j \in Correction!Receipts(l, l[i].rev, k) :
                 /\ j < i /\ l[j].verdict = "pass" /\ l[j].scope = l[i].scope
                 /\ \A n \in j + 1 .. i - 1 : /\ l[n].kind # "scope"
                                              /\ n \notin Correction!Receipts(l, l[i].rev, k)
      BY <2>1 DEF Earned
    <3>2. j \in DOMAIN l /\ j \in Correction!Receipts(m, l[i].rev, k) /\ m[j] = l[j]
      BY <1>3, <1>5, <1>7
    <3>3. \A n \in j + 1 .. i - 1 : n \in DOMAIN l /\ m[n] = l[n]
      BY <1>3, <3>2
    <3> QED BY <1>6, <3>1, <3>2, <3>3
  <2> QED BY <2>2, <2>3
<1>9. Earned(m, last)
  <2> SUFFICES ASSUME r.kind = "scope", r.scope > r.from
               PROVE  /\ r.rev # Correction!First
                      /\ \A k \in Kinds : \E j \in Correction!Receipts(m, r.rev, k) :
                           /\ j < last /\ m[j].verdict = "pass" /\ m[j].scope = r.scope
                           /\ \A n \in j + 1 .. last - 1 : /\ m[n].kind # "scope"
                                                           /\ n \notin Correction!Receipts(m, r.rev, k)
    BY <1>3 DEF Earned
  <2>1. r.rev # Correction!First
    BY <1>1, <1>2, WideningsAreEarned
  <2>2. ASSUME NEW k \in Kinds
        PROVE  \E j \in Correction!Receipts(m, r.rev, k) :
                 /\ j < last /\ m[j].verdict = "pass" /\ m[j].scope = r.scope
                 /\ \A n \in j + 1 .. last - 1 : /\ m[n].kind # "scope"
                                                 /\ n \notin Correction!Receipts(m, r.rev, k)
    <3>1. PICK j \in Correction!Receipts(l, r.rev, k) :
                 /\ l[j].verdict = "pass" /\ l[j].scope = r.scope
                 /\ \A n \in DOMAIN l : n > j => /\ l[n].kind # "scope"
                                                 /\ n \notin Correction!Receipts(l, r.rev, k)
      BY <1>1, <1>2, WideningsAreEarned
    <3>2. j \in DOMAIN l /\ j \in Correction!Receipts(m, r.rev, k) /\ m[j] = l[j] /\ j < last
      BY <1>3, <1>5, <1>7
    <3>3. \A n \in j + 1 .. last - 1 : n \in DOMAIN l /\ n > j /\ m[n] = l[n]
      BY <1>3, <3>2
    <3> QED BY <1>6, <3>1, <3>2, <3>3
  <2> QED BY <2>1, <2>2
<1>10. \A i \in DOMAIN m : Earned(m, i)
  BY <1>3, <1>8, <1>9
<1>11. \A i \in DOMAIN corrections' : Earned(corrections', i)
  BY <1>1, <1>10
<1>12. Correction!WideningsWereEarned'
  BY <1>11 DEF Correction!WideningsWereEarned, Earned, Correction!Positions, Correction!Receipts, Correction!First
<1> QED BY <1>4, <1>12

(* Whenever a scope was widened, every required evaluation had passed for it since the last change. *)
THEOREM WideningsWereAlwaysEarned == Correction!RSpec => []Correction!WideningsWereEarned
<1> DEFINE Inv == LogIsOfItsLines /\ Correction!WideningsWereEarned
<1>1. Correction!RInit => Inv
  BY DEF Correction!RInit, LogIsOfItsLines, Correction!WideningsWereEarned, Correction!Positions
<1>2. ASSUME Inv, [Correction!RNext]_(Correction!rvars) PROVE Inv'
  <2>1. CASE UNCHANGED corrections
    BY <1>2, <2>1 DEF LogIsOfItsLines, Correction!WideningsWereEarned, Correction!Positions, Correction!Receipts
  <2>2. CASE \E r : Correction!Write(r)
    BY <1>2, <2>2, WritesAreEarned
  <2> QED BY <1>2, <2>1, <2>2
        DEF Correction!RNext, Correction!HostCall, Correction!rvars, Correction!WriteCall, Correction!ReviseCall, Correction!Promote,
            Correction!CompileRead, Correction!CompileInject
<1>3. Inv => Correction!WideningsWereEarned
  OBVIOUS
<1> HIDE DEF Inv
<1> QED BY <1>1, <1>2, <1>3, PTL DEF Correction!RSpec

-----------------------------------------------------------------------------
(* Project memory. *)
CONSTANTS Files, Contents, TooLarge, Configs, Dates, Compilers, Viewers, BuildEdits, MaxBuilds, Nobody
VARIABLES sources, root, snapshots, manifest, holder, build, view, changes, builds, provenance, named, kills

Memory == INSTANCE ProjectMemory WITH MaxEdits <- BuildEdits, Nothing <- Nobody, edits <- changes

(* What stands for no manifest, no lock holder, no call is none of them. *)
NobodyIsNoCompiler ==
  /\ Nobody \notin Compilers
  /\ \A id, config, inputs : Nobody # [id |-> id, config |-> config, inputs |-> inputs]
  /\ \A step, config, date, inputs :
       Nobody # [step |-> step, config |-> config, date |-> date, inputs |-> inputs]

CallFields(b) == b = [step |-> b.step, config |-> b.config, date |-> b.date, inputs |-> b.inputs]
IdOf(b) == Memory!SnapshotId(b.inputs, b.config, b.date)
UnderLock(b) == b.step \in {"check", "snapshot", "manifest", "sync"}
(* An identity a build has not published yet is not there; one it has published is *)
(* there, and until the manifest names it nobody has read it.                      *)
IsRead(id) ==
  \/ manifest # Nobody /\ manifest.id = id
  \/ \E v \in Viewers : view[v] # Nobody /\ view[v].step = "open" /\ view[v].id = id
BuildIsSafe(c, b) ==
  /\ CallFields(b) /\ b.config \in Configs \union {Files} /\ b.date \in Dates
  /\ UnderLock(b) => holder = c
  /\ b.step = "snapshot" => IdOf(b) \notin snapshots
  /\ b.step = "manifest" => ~IsRead(IdOf(b))
  /\ b.step \in {"manifest", "sync"} => IdOf(b) \in snapshots
ManifestIsHonest ==
  manifest # Nobody =>
    /\ manifest.id \in snapshots
    /\ manifest.config \in Configs \union {Files}
    /\ \E d \in Dates : manifest.id = Memory!SnapshotId(manifest.inputs, manifest.config, d)
(* What a context was shown is of the sources as they were, or is said to be stale. *)
ShownHonestly(w) ==
  w.current /\ ~w.stale => \E g \in Configs \union {Files}, d \in Dates :
                             w.id = Memory!SnapshotId(Memory!Restrict(w.truth, g), g, d)
ViewIsSafe(w) ==
  /\ w.step = "open" => manifest # Nobody /\ w.id \in snapshots
  /\ w.step = "shown" => w.found /\ ShownHonestly(w)
MemoryInv ==
  /\ DOMAIN build = Compilers /\ DOMAIN view = Viewers
  /\ ManifestIsHonest
  /\ \A c \in Compilers : build[c] # Nobody => BuildIsSafe(c, build[c])
  /\ \A v \in Viewers : view[v] # Nobody => ViewIsSafe(view[v])

(* A step of a build that publishes and removes nothing. *)
LEMMA QuietBuildSteps ==
  ASSUME MemoryInv, NEW c \in Compilers, NEW b, build' = [build EXCEPT ![c] = b],
         UNCHANGED <<snapshots, manifest, view>>,
         \A d \in Compilers : d # c /\ holder = d => holder' = d,
         b # Nobody =>
           /\ CallFields(b) /\ b.config \in Configs \union {Files} /\ b.date \in Dates
           /\ UnderLock(b) => holder' = c
           /\ b.step = "snapshot" => IdOf(b) \notin snapshots
           /\ b.step # "manifest" /\ b.step # "sync"
  PROVE  MemoryInv'
<1>1. \A d \in Compilers : build'[d] = IF d = c THEN b ELSE build[d]
  BY DEF MemoryInv
<1>2. \A id : IsRead(id)' <=> IsRead(id)
  BY DEF IsRead
<1>3. ManifestIsHonest' /\ \A v \in Viewers : view'[v] # Nobody => ViewIsSafe(view[v])'
  BY DEF MemoryInv, ManifestIsHonest, ViewIsSafe, ShownHonestly
<1>4. ASSUME NEW d \in Compilers, build'[d] # Nobody PROVE BuildIsSafe(d, build[d])'
  <2>1. CASE d = c
    BY <1>1, <1>4, <2>1 DEF BuildIsSafe, CallFields, UnderLock, IdOf
  <2>2. CASE d # c
    <3>1. BuildIsSafe(d, build[d]) /\ build'[d] = build[d]
      BY <1>1, <1>4, <2>2 DEF MemoryInv
    <3>2. UnderLock(build[d]) => holder' = d
      BY <2>2, <3>1 DEF BuildIsSafe
    <3> QED BY <1>2, <3>1, <3>2 DEF BuildIsSafe, CallFields, UnderLock, IdOf
  <2> QED BY <2>1, <2>2
<1> QED BY <1>1, <1>3, <1>4 DEF MemoryInv

LEMMA MemoryInvStays ==
  ASSUME NobodyIsNoCompiler, MemoryInv, [Memory!MNext]_(Memory!mvars) PROVE MemoryInv'
<1> USE DEF NobodyIsNoCompiler
<1> DEFINE Quiet == UNCHANGED <<snapshots, manifest, view>>
           Step(c, step) == build' = [build EXCEPT ![c] = [build[c] EXCEPT !.step = step]]
           Drops(c) == build' = [build EXCEPT ![c] = Nobody]
<1>1. ASSUME NEW c \in Compilers, build[c] # Nobody
      PROVE  BuildIsSafe(c, build[c]) /\ Memory!Id(c) = IdOf(build[c]) /\ Memory!Manifest(build[c]).id = IdOf(build[c])
  <2>1. BuildIsSafe(c, build[c])
    BY <1>1 DEF MemoryInv
  <2> QED BY <2>1 DEF Memory!Id, Memory!Manifest, IdOf
(* What a step of the build makes of its call. *)
<1>2. ASSUME NEW b, CallFields(b), NEW step
      PROVE  LET n == [b EXCEPT !.step = step]
             IN  /\ CallFields(n) /\ n.step = step /\ n.config = b.config /\ n.date = b.date
                 /\ n.inputs = b.inputs /\ IdOf(n) = IdOf(b)
  <2> DEFINE n == [b EXCEPT !.step = step]
  <2>1. n = [step |-> step, config |-> b.config, date |-> b.date, inputs |-> b.inputs]
    BY <1>2 DEF CallFields
  <2> HIDE DEF n
  <2>2. CallFields(n) /\ n.step = step /\ n.config = b.config /\ n.date = b.date /\ n.inputs = b.inputs
    BY <2>1 DEF CallFields
  <2> QED BY <2>2 DEF n, IdOf
<1>3. ASSUME NEW c \in Compilers, build[c] # Nobody, Quiet, NEW step, Step(c, step),
             step \in {"own", "mark", "lock", "record"}, holder' = holder \/ UnderLock(build[c])
      PROVE  MemoryInv'
  <2> DEFINE n == [build[c] EXCEPT !.step = step]
  <2>1. BuildIsSafe(c, build[c])
    BY <1>1, <1>3
  <2>2. CallFields(n) /\ n.step = step /\ n.config = build[c].config /\ n.date = build[c].date
    BY <1>2, <2>1 DEF BuildIsSafe
  <2> HIDE DEF n
  <2>3. build' = [build EXCEPT ![c] = n]
    BY <1>3 DEF n
  <2>4. \A d \in Compilers : d # c /\ holder = d => holder' = d
    BY <1>3, <2>1 DEF BuildIsSafe
  <2>5. /\ CallFields(n) /\ n.config \in Configs \union {Files} /\ n.date \in Dates
        /\ n.step \in {"own", "mark", "lock", "record"}
    BY <1>3, <2>1, <2>2 DEF BuildIsSafe
  <2> QED BY <1>3, <2>3, <2>4, <2>5, QuietBuildSteps DEF UnderLock
<1>4. ASSUME NEW c \in Compilers, Quiet, Drops(c), \A d \in Compilers : d # c /\ holder = d => holder' = d
      PROVE  MemoryInv'
  BY <1>4, QuietBuildSteps
<1>5. ASSUME NEW f \in Files, NEW x \in Contents, Memory!EditSource(f, x) PROVE MemoryInv'
  BY <1>5 DEF Memory!EditSource, Memory!disk, MemoryInv, BuildIsSafe, ManifestIsHonest, ViewIsSafe, ShownHonestly,
              CallFields, UnderLock, IdOf, IsRead
<1>6. ASSUME NEW c \in Compilers, NEW g \in Configs \union {Files}, NEW d \in Dates, Memory!Begin(c, g, d)
      PROVE  MemoryInv'
  <2> DEFINE b == [step |-> "scan", config |-> g, date |-> d, inputs |-> <<>>]
  <2>1. build' = [build EXCEPT ![c] = b] /\ Quiet /\ holder' = holder
    BY <1>6 DEF Memory!Begin, Memory!disk
  <2>2. CallFields(b) /\ b.config = g /\ b.date = d /\ b.step = "scan"
    BY DEF CallFields
  <2> HIDE DEF b
  <2> QED BY <2>1, <2>2, QuietBuildSteps DEF UnderLock
<1>7. ASSUME NEW c \in Compilers, NEW d \in Dates, Memory!ProjectUpdate(c, d) PROVE MemoryInv'
  BY <1>6, <1>7 DEF Memory!ProjectUpdate, MemoryInv, ManifestIsHonest
<1>8. ASSUME NEW c \in Compilers, NEW f, Memory!Scan(c, f) PROVE MemoryInv'
  <2> DEFINE inputs == [g \in DOMAIN build[c].inputs \union {f} |-> IF g = f THEN sources[f] ELSE build[c].inputs[g]]
             b == [build[c] EXCEPT !.inputs = inputs]
  <2>1. build' = [build EXCEPT ![c] = b] /\ Quiet /\ holder' = holder /\ build[c] # Nobody /\ build[c].step = "scan"
    BY <1>8 DEF Memory!Scan, Memory!Building, Memory!Calm, Memory!disk
  <2>2. BuildIsSafe(c, build[c])
    BY <1>1, <2>1
  <2> HIDE DEF inputs
  <2>3. b = [step |-> "scan", config |-> build[c].config, date |-> build[c].date, inputs |-> inputs]
    BY <2>1, <2>2 DEF BuildIsSafe, CallFields
  <2> HIDE DEF b
  <2>4. CallFields(b) /\ b.step = "scan" /\ b.config = build[c].config /\ b.date = build[c].date
    BY <2>3 DEF CallFields
  <2> QED BY <2>1, <2>2, <2>4, QuietBuildSteps DEF BuildIsSafe, UnderLock
<1>9. ASSUME NEW c \in Compilers,
             \/ Memory!Compile(c) \/ Memory!PlanOnly(c) \/ Memory!CreateRoot(c) \/ Memory!WriteMarker(c)
             \/ Memory!ValidateOwned(c) \/ Memory!Applied(c) \/ Memory!RecordProvenance(c)
      PROVE  MemoryInv'
  <2>1. /\ Quiet /\ build[c] # Nobody /\ (holder' = holder \/ build[c].step = "sync")
        /\ (Drops(c) /\ holder' = holder) \/ \E step \in {"own", "mark", "lock", "record"} : Step(c, step)
    BY <1>9 DEF Memory!Compile, Memory!PlanOnly, Memory!CreateRoot, Memory!WriteMarker, Memory!ValidateOwned,
                Memory!Applied, Memory!RecordProvenance, Memory!Building, Memory!To, Memory!Done, Memory!Calm, Memory!disk
  <2> QED BY <1>3, <1>4, <2>1 DEF UnderLock
<1>10. ASSUME NEW c \in Compilers, Memory!LockStore(c) PROVE MemoryInv'
  <2>1. Quiet /\ build[c] # Nobody
    BY <1>10 DEF Memory!LockStore, Memory!Building, Memory!Calm, Memory!disk
  <2>2. CASE holder = Nobody
    <3> DEFINE n == [build[c] EXCEPT !.step = "check"]
    <3>1. holder' = c /\ build' = [build EXCEPT ![c] = n]
      BY <1>10, <2>2 DEF Memory!LockStore, Memory!To
    <3>2. BuildIsSafe(c, build[c])
      BY <1>1, <2>1
    <3>3. CallFields(n) /\ n.step = "check" /\ n.config = build[c].config /\ n.date = build[c].date
      BY <1>2, <3>2 DEF BuildIsSafe
    <3> HIDE DEF n
    <3> QED BY <2>1, <2>2, <3>1, <3>2, <3>3, QuietBuildSteps DEF BuildIsSafe
  <2>3. CASE holder # Nobody
    BY <1>4, <1>10, <2>1, <2>3 DEF Memory!LockStore, Memory!Done
  <2> QED BY <2>2, <2>3
<1>11. ASSUME NEW c \in Compilers, Memory!CheckIdentity(c) PROVE MemoryInv'
  <2>1. Quiet /\ build[c] # Nobody /\ build[c].step = "check" /\ BuildIsSafe(c, build[c]) /\ holder = c
    <3>1. Quiet /\ build[c] # Nobody /\ build[c].step = "check"
      BY <1>11 DEF Memory!CheckIdentity, Memory!Building, Memory!Calm, Memory!disk
    <3> QED BY <1>1, <3>1 DEF BuildIsSafe, UnderLock
  <2>2. CASE Memory!Refused(c)
    BY <1>4, <1>11, <2>1, <2>2 DEF Memory!CheckIdentity, Memory!Done
  <2>3. CASE ~Memory!Refused(c)
    <3> DEFINE n == [build[c] EXCEPT !.step = "snapshot"]
    <3>1. holder' = holder /\ build' = [build EXCEPT ![c] = n] /\ IdOf(build[c]) \notin snapshots
      BY <1>1, <1>11, <2>1, <2>3 DEF Memory!CheckIdentity, Memory!To, Memory!Refused
    <3>2. CallFields(n) /\ n.step = "snapshot" /\ n.config = build[c].config /\ n.date = build[c].date
          /\ IdOf(n) = IdOf(build[c])
      BY <1>2, <2>1 DEF BuildIsSafe
    <3> HIDE DEF n
    <3> QED BY <2>1, <3>1, <3>2, QuietBuildSteps DEF BuildIsSafe
  <2> QED BY <2>2, <2>3
(* What publishes holds the lock, so that no other build is past its own check. *)
<1>12. ASSUME NEW c \in Compilers, build[c] # Nobody, UnderLock(build[c]), NEW d \in Compilers, d # c, build[d] # Nobody
       PROVE  BuildIsSafe(d, build[d]) /\ ~UnderLock(build[d]) /\ holder = c
  BY <1>1, <1>12 DEF BuildIsSafe
<1>13. ASSUME NEW c \in Compilers, build[c] # Nobody, UnderLock(build[c]), build' = [build EXCEPT ![c] = Nobody] \/ holder' = c,
              \A d \in Compilers : d # c => build'[d] = build[d],
              build'[c] # Nobody => BuildIsSafe(c, build[c])', ManifestIsHonest',
              DOMAIN build' = Compilers, DOMAIN view' = Viewers,
              \A v \in Viewers : view'[v] # Nobody => ViewIsSafe(view[v])'
       PROVE  MemoryInv'
  <2>1. ASSUME NEW d \in Compilers, d # c, build'[d] # Nobody PROVE BuildIsSafe(d, build[d])'
    <3>1. BuildIsSafe(d, build[d]) /\ ~UnderLock(build[d]) /\ build'[d] = build[d]
      BY <1>12, <1>13, <2>1
    <3> QED BY <3>1 DEF BuildIsSafe, UnderLock, CallFields
  <2> QED BY <1>13, <2>1 DEF MemoryInv
<1>14. ASSUME NEW c \in Compilers, Memory!PublishSnapshot(c) PROVE MemoryInv'
  <2> DEFINE n == [build[c] EXCEPT !.step = "manifest"]
             id == IdOf(build[c])
  <2>1. /\ build[c] # Nobody /\ build[c].step = "snapshot" /\ snapshots' = snapshots \union {Memory!Id(c)}
        /\ build' = [build EXCEPT ![c] = n] /\ UNCHANGED <<manifest, view, holder>>
    BY <1>14 DEF Memory!PublishSnapshot, Memory!Building, Memory!To, Memory!Calm
  <2>2. BuildIsSafe(c, build[c]) /\ Memory!Id(c) = id /\ holder = c /\ UnderLock(build[c]) /\ id \notin snapshots
    BY <1>1, <2>1 DEF BuildIsSafe, UnderLock
  <2>3. /\ CallFields(n) /\ n.step = "manifest" /\ n.config = build[c].config /\ n.date = build[c].date
        /\ IdOf(n) = id
    BY <1>2, <2>2 DEF BuildIsSafe
  <2> HIDE DEF n, id
  <2>4. ManifestIsHonest' /\ \A v \in Viewers : view'[v] # Nobody => ViewIsSafe(view[v])'
    BY <2>1 DEF MemoryInv, ManifestIsHonest, ViewIsSafe, ShownHonestly
  <2>5. ~IsRead(id)
    BY <2>2 DEF IsRead, MemoryInv, ManifestIsHonest, ViewIsSafe
  <2>6. build'[c] = n /\ DOMAIN build' = Compilers /\ DOMAIN view' = Viewers
        /\ \A d \in Compilers : d # c => build'[d] = build[d]
    BY <2>1 DEF MemoryInv
  <2>7. BuildIsSafe(c, build[c])'
    <3>1. /\ ~(manifest' # Nobody /\ manifest'.id = id)
          /\ ~\E v \in Viewers : view'[v] # Nobody /\ view'[v].step = "open" /\ view'[v].id = id
      BY <2>1, <2>5 DEF IsRead
    <3>2. id \in snapshots'
      BY <2>1, <2>2
    <3>3. IdOf(build'[c]) = id
      BY <2>3, <2>6
    <3>4. ~IsRead(IdOf(build[c]))'
      BY <3>1, <3>3 DEF IsRead, IdOf
    <3> QED BY <2>1, <2>2, <2>3, <2>6, <3>2, <3>3, <3>4 DEF BuildIsSafe, CallFields, IdOf, UnderLock
  <2> QED BY <1>13, <2>1, <2>2, <2>4, <2>6, <2>7
<1>15. ASSUME NEW c \in Compilers, Memory!PublishManifest(c) PROVE MemoryInv'
  <2> DEFINE n == [build[c] EXCEPT !.step = "sync"]
             m == Memory!Manifest(build[c])
  <2>1. /\ build[c] # Nobody /\ build[c].step = "manifest" /\ manifest' = m
        /\ build' = [build EXCEPT ![c] = n] /\ UNCHANGED <<snapshots, view, holder>>
    BY <1>15 DEF Memory!PublishManifest, Memory!Building, Memory!To, Memory!Calm
  <2>2. /\ BuildIsSafe(c, build[c]) /\ holder = c /\ UnderLock(build[c]) /\ IdOf(build[c]) \in snapshots
        /\ build[c].config \in Configs \union {Files} /\ build[c].date \in Dates
    BY <1>1, <2>1 DEF BuildIsSafe, UnderLock
  <2>3. /\ CallFields(n) /\ n.step = "sync" /\ n.config = build[c].config /\ n.date = build[c].date
        /\ IdOf(n) = IdOf(build[c])
    BY <1>2, <2>2 DEF BuildIsSafe
  <2>4. /\ m # Nobody /\ m.id = IdOf(build[c]) /\ m.config = build[c].config /\ m.inputs = build[c].inputs
    BY DEF Memory!Manifest, IdOf
  <2> HIDE DEF n, m
  <2>5. ManifestIsHonest'
    BY <2>1, <2>2, <2>4 DEF ManifestIsHonest, IdOf
  <2>6. \A v \in Viewers : view'[v] # Nobody => ViewIsSafe(view[v])'
    BY <2>1, <2>4 DEF MemoryInv, ViewIsSafe, ShownHonestly
  <2>7. build'[c] = n /\ DOMAIN build' = Compilers /\ DOMAIN view' = Viewers
        /\ \A d \in Compilers : d # c => build'[d] = build[d]
    BY <2>1 DEF MemoryInv
  <2>8. IdOf(n) \in snapshots'
    BY <2>1, <2>2, <2>3
  <2>9. BuildIsSafe(c, build[c])'
    BY <2>1, <2>2, <2>3, <2>7, <2>8 DEF BuildIsSafe, CallFields, IdOf
  <2> QED BY <1>13, <2>1, <2>2, <2>5, <2>6, <2>7, <2>9
<1>16. ASSUME NEW c \in Compilers, Memory!Fail(c) PROVE MemoryInv'
  <2>1. /\ build[c] # Nobody /\ UnderLock(build[c]) /\ Drops(c) /\ UNCHANGED <<manifest, view>>
        /\ snapshots' = (IF build[c].step = "manifest" THEN snapshots \ {IdOf(build[c])} ELSE snapshots)
    BY <1>1, <1>16 DEF Memory!Fail, Memory!Done, Memory!Orphan, Memory!Calm, UnderLock
  <2>2. build[c].step = "manifest" => ~IsRead(IdOf(build[c]))
    BY <1>1, <2>1 DEF BuildIsSafe
  <2> DEFINE id == IdOf(build[c])
  <2>3. ManifestIsHonest'
    <3> HIDE DEF id
    <3>1. manifest # Nobody => manifest.id \in snapshots'
      BY <2>1, <2>2 DEF id, MemoryInv, ManifestIsHonest, IsRead
    <3> QED BY <2>1, <3>1 DEF MemoryInv, ManifestIsHonest
  <2>4. ASSUME NEW v \in Viewers, view'[v] # Nobody PROVE ViewIsSafe(view[v])'
    <3>1. view'[v] = view[v] /\ ViewIsSafe(view[v])
      BY <2>1, <2>4 DEF MemoryInv
    <3>2. view[v].step = "open" => view[v].id \in snapshots'
      BY <2>1, <2>2, <2>4, <3>1 DEF ViewIsSafe, IsRead
    <3> QED BY <2>1, <3>1, <3>2 DEF ViewIsSafe, ShownHonestly
  <2>5. DOMAIN build' = Compilers /\ DOMAIN view' = Viewers /\ build'[c] = Nobody
        /\ \A d \in Compilers : d # c => build'[d] = build[d]
    BY <2>1 DEF MemoryInv
  <2> QED BY <1>13, <2>1, <2>3, <2>4, <2>5
<1>17. ASSUME NEW c \in Compilers, Memory!KillBuild(c) PROVE MemoryInv'
  <2>1. Quiet /\ Drops(c) /\ holder' = IF holder = c THEN Nobody ELSE holder
    BY <1>17 DEF Memory!KillBuild, Memory!Done, Memory!Calm, Memory!disk
  <2> QED BY <1>4, <2>1
<1>18. ASSUME NEW v \in Viewers, NEW w, view' = [view EXCEPT ![v] = w],
              UNCHANGED <<build, snapshots, manifest, holder>>, w # Nobody => ViewIsSafe(w),
              w # Nobody /\ w.step = "open" => manifest # Nobody /\ w.id = manifest.id
       PROVE  MemoryInv'
  <2>1. \A u \in Viewers : view'[u] = IF u = v THEN w ELSE view[u]
    BY <1>18 DEF MemoryInv
  <2>2. \A id : IsRead(id)' => IsRead(id)
    BY <1>18, <2>1 DEF IsRead
  <2>3. ASSUME NEW u \in Viewers, view'[u] # Nobody PROVE ViewIsSafe(view[u])'
    BY <1>18, <2>1, <2>3 DEF MemoryInv, ViewIsSafe, ShownHonestly
  <2>4. ASSUME NEW c \in Compilers, build'[c] # Nobody PROVE BuildIsSafe(c, build[c])'
    BY <1>1, <1>18, <2>2, <2>4 DEF BuildIsSafe, CallFields, UnderLock, IdOf
  <2> QED BY <1>18, <2>3, <2>4 DEF MemoryInv, ManifestIsHonest
<1>19. ASSUME NEW v \in Viewers, Memory!ReadManifest(v) PROVE MemoryInv'
  <2> DEFINE w == [step |-> "open", id |-> manifest.id]
  <2>1. manifest # Nobody /\ view' = [view EXCEPT ![v] = w] /\ UNCHANGED <<build, snapshots, manifest, holder>>
    BY <1>19 DEF Memory!ReadManifest, Memory!disk
  <2>2. w.step = "open" /\ w.id = manifest.id /\ manifest.id \in snapshots
    BY <2>1 DEF MemoryInv, ManifestIsHonest
  <2> HIDE DEF w
  <2> QED BY <1>18, <2>1, <2>2 DEF ViewIsSafe
<1>20. ASSUME NEW v \in Viewers, Memory!OpenSnapshot(v) PROVE MemoryInv'
  <2> DEFINE id == view[v].id
             w == [step |-> "shown", id |-> id, found |-> id \in snapshots, current |-> manifest.id = id,
                   stale |-> Memory!Stale(manifest), truth |-> sources]
  <2>1. /\ view[v] # Nobody /\ view[v].step = "open" /\ view' = [view EXCEPT ![v] = w]
        /\ UNCHANGED <<build, snapshots, manifest, holder>>
    BY <1>20 DEF Memory!OpenSnapshot, Memory!disk
  <2>2. manifest # Nobody /\ id \in snapshots
    BY <2>1 DEF MemoryInv, ViewIsSafe
  <2>3. ShownHonestly(w)
    <3> SUFFICES ASSUME manifest.id = id, ~Memory!Stale(manifest)
                 PROVE  \E g \in Configs \union {Files}, d \in Dates :
                          id = Memory!SnapshotId(Memory!Restrict(sources, g), g, d)
      BY DEF ShownHonestly
    <3>1. PICK d \in Dates : manifest.id = Memory!SnapshotId(manifest.inputs, manifest.config, d)
      BY <2>2 DEF MemoryInv, ManifestIsHonest
    <3>2. manifest.config \in Configs \union {Files}
      BY <2>2 DEF MemoryInv, ManifestIsHonest
    <3>3. manifest.inputs = Memory!Restrict(sources, manifest.config)
      BY DEF Memory!Stale
    <3> QED BY <3>1, <3>2, <3>3
  <2>4. w.step = "shown" /\ w.found
    BY <2>2
  <2> HIDE DEF w
  <2> QED BY <1>18, <2>1, <2>3, <2>4 DEF ViewIsSafe
<1>21. ASSUME NEW v \in Viewers, Memory!CloseView(v) PROVE MemoryInv'
  BY <1>18, <1>21 DEF Memory!CloseView, Memory!disk
<1>22. CASE UNCHANGED Memory!mvars
  BY <1>22 DEF Memory!mvars, Memory!disk, MemoryInv, BuildIsSafe, ManifestIsHonest, ViewIsSafe, ShownHonestly,
              CallFields, UnderLock, IdOf, IsRead
<1> QED BY <1>5, <1>6, <1>7, <1>8, <1>9, <1>10, <1>11, <1>14, <1>15, <1>16, <1>17, <1>19, <1>20, <1>21, <1>22
        DEF Memory!MNext, Memory!ProjectBuild

LEMMA MemoryBeginsSafe == ASSUME NobodyIsNoCompiler PROVE Memory!MInit => MemoryInv
<1> SUFFICES ASSUME Memory!MInit PROVE MemoryInv
  OBVIOUS
<1>1. manifest = Nobody /\ build = [c \in Compilers |-> Nobody] /\ view = [v \in Viewers |-> Nobody]
  BY DEF Memory!MInit
<1> QED BY <1>1 DEF MemoryInv, ManifestIsHonest

(* Whatever fails, is killed or overlaps, the manifest names a snapshot that is there, *)
(* and a reader of an earlier manifest finds its own.                                  *)
THEOREM NamedSnapshotsAlwaysExist ==
  ASSUME NobodyIsNoCompiler PROVE Memory!MSpec => []Memory!NamedSnapshotsExist
<1>1. MemoryInv => Memory!NamedSnapshotsExist
  BY DEF MemoryInv, ManifestIsHonest, ViewIsSafe, Memory!NamedSnapshotsExist
<1> QED BY <1>1, MemoryBeginsSafe, MemoryInvStays, PTL DEF Memory!MSpec

(* A context that is not reported stale is of the sources as they were when it was shown. *)
THEOREM ContextsAreAlwaysHonest ==
  ASSUME NobodyIsNoCompiler PROVE Memory!MSpec => []Memory!ContextsAreHonest
<1>1. MemoryInv => Memory!ContextsAreHonest
  BY DEF MemoryInv, ViewIsSafe, ShownHonestly, Memory!ContextsAreHonest
<1> QED BY <1>1, MemoryBeginsSafe, MemoryInvStays, PTL DEF Memory!MSpec

(* ---- what faults leave behind ---- *)
IsAt(b, steps) == b # Nobody /\ b.step \in steps
Between(id, steps) == \E c \in Compilers : IsAt(build[c], steps) /\ IdOf(build[c]) = id
(* A snapshot is named, cut short or about to be named; one that is named has its *)
(* provenance, was cut short or is about to have it.                              *)
LeftoversAreKnown ==
  /\ \A id \in snapshots : id \in named \union kills \/ Between(id, {"manifest"})
  /\ \A id \in named : id \in provenance \union kills \/ Between(id, {"sync", "record"})
ScansAreComplete ==
  \A c \in Compilers : build[c] # Nobody /\ build[c].step # "scan" => DOMAIN build[c].inputs = build[c].config

LEMMA BuildsKeepLeftovers ==
  ASSUME LeftoversAreKnown, ScansAreComplete, NEW c \in Compilers, DOMAIN build = Compilers, NEW b,
         build' = [build EXCEPT ![c] = b],
         named \subseteq named', provenance \subseteq provenance', kills \subseteq kills',
         b # Nobody /\ b.step # "scan" => DOMAIN b.inputs = b.config,
         \A id \in snapshots' :
           id \notin snapshots \/ (IsAt(build[c], {"manifest"}) /\ IdOf(build[c]) = id) =>
             id \in named' \union kills' \/ (IsAt(b, {"manifest"}) /\ IdOf(b) = id),
         \A id \in named' :
           id \notin named \/ (IsAt(build[c], {"sync", "record"}) /\ IdOf(build[c]) = id) =>
             id \in provenance' \union kills' \/ (IsAt(b, {"sync", "record"}) /\ IdOf(b) = id)
  PROVE  LeftoversAreKnown' /\ ScansAreComplete'
<1>1. \A d \in Compilers : build'[d] = IF d = c THEN b ELSE build[d]
  OBVIOUS
<1>2. ScansAreComplete'
  BY <1>1 DEF ScansAreComplete
<1>3. ASSUME NEW id, NEW steps, Between(id, steps)
      PROVE  (IsAt(build[c], steps) /\ IdOf(build[c]) = id) \/ Between(id, steps)'
  <2>1. PICK d \in Compilers : IsAt(build[d], steps) /\ IdOf(build[d]) = id
    BY <1>3 DEF Between
  <2>2. d # c => IsAt(build'[d], steps) /\ IdOf(build'[d]) = id
    BY <1>1, <2>1
  <2> QED BY <2>1, <2>2 DEF Between, IsAt, IdOf
<1>4. ASSUME NEW id, NEW steps, IsAt(b, steps), IdOf(b) = id PROVE Between(id, steps)'
  BY <1>1, <1>4 DEF Between, IsAt, IdOf
<1>5. ASSUME NEW id \in snapshots' PROVE id \in named' \union kills' \/ Between(id, {"manifest"})'
  <2>1. id \in snapshots => id \in named \union kills \/ Between(id, {"manifest"})
    BY DEF LeftoversAreKnown
  <2> QED BY <1>3, <1>4, <2>1
<1>6. ASSUME NEW id \in named' PROVE id \in provenance' \union kills' \/ Between(id, {"sync", "record"})'
  <2>1. id \in named => id \in provenance \union kills \/ Between(id, {"sync", "record"})
    BY DEF LeftoversAreKnown
  <2> QED BY <1>3, <1>4, <2>1
<1> QED BY <1>2, <1>5, <1>6 DEF LeftoversAreKnown

LEMMA LeftoversStayKnown ==
  ASSUME NobodyIsNoCompiler, MemoryInv, LeftoversAreKnown, ScansAreComplete, [Memory!MNext]_(Memory!mvars)
  PROVE  LeftoversAreKnown' /\ ScansAreComplete'
<1> DEFINE Keeping == UNCHANGED <<snapshots, named, provenance>> /\ kills \subseteq kills'
           Step(c, step) == build' = [build EXCEPT ![c] = [build[c] EXCEPT !.step = step]]
           Drops(c) == build' = [build EXCEPT ![c] = Nobody]
<1>1. DOMAIN build = Compilers /\ \A c \in Compilers : build[c] # Nobody =>
        BuildIsSafe(c, build[c]) /\ Memory!Id(c) = IdOf(build[c]) /\ CallFields(build[c])
  BY DEF MemoryInv, Memory!Id, Memory!Manifest, IdOf, BuildIsSafe
<1>2. ASSUME NEW c \in Compilers, build[c] # Nobody, NEW step
      PROVE  LET n == [build[c] EXCEPT !.step = step]
             IN  /\ n # Nobody /\ n.step = step /\ n.config = build[c].config /\ n.inputs = build[c].inputs
                 /\ IdOf(n) = IdOf(build[c])
  <2> DEFINE n == [build[c] EXCEPT !.step = step]
  <2>1. n = [step |-> step, config |-> build[c].config, date |-> build[c].date, inputs |-> build[c].inputs]
    BY <1>1, <1>2 DEF CallFields
  <2>2. n # Nobody
    BY <2>1 DEF NobodyIsNoCompiler
  <2> HIDE DEF n
  <2> QED BY <2>1, <2>2 DEF n, IdOf
<1>3. CASE UNCHANGED <<build, snapshots, named, provenance, kills>>
  BY <1>3 DEF LeftoversAreKnown, ScansAreComplete, Between, IsAt, IdOf
<1>4. ASSUME NEW c \in Compilers, Keeping, NEW b, build' = [build EXCEPT ![c] = b],
             b # Nobody => DOMAIN b.inputs = b.config \/ b.step = "scan",
             ~IsAt(build[c], {"manifest", "sync", "record"}) \/ IdOf(build[c]) \in kills'
      PROVE  LeftoversAreKnown' /\ ScansAreComplete'
  <2>1. ~IsAt(build[c], {"manifest"}) \/ IdOf(build[c]) \in kills'
    BY <1>4 DEF IsAt
  <2>2. ~IsAt(build[c], {"sync", "record"}) \/ IdOf(build[c]) \in kills'
    BY <1>4 DEF IsAt
  <2> QED BY <1>1, <1>4, <2>1, <2>2, BuildsKeepLeftovers
<1>5. ASSUME NEW f \in Files, NEW x \in Contents, Memory!EditSource(f, x)
      PROVE  LeftoversAreKnown' /\ ScansAreComplete'
  BY <1>3, <1>5 DEF Memory!EditSource, Memory!disk, Memory!history
<1>6. ASSUME NEW c \in Compilers, NEW g, NEW d, Memory!Begin(c, g, d)
      PROVE  LeftoversAreKnown' /\ ScansAreComplete'
  <2> DEFINE b == [step |-> "scan", config |-> g, date |-> d, inputs |-> <<>>]
  <2>1. build' = [build EXCEPT ![c] = b] /\ Keeping /\ build[c] = Nobody /\ b.step = "scan"
    BY <1>6 DEF Memory!Begin, Memory!disk, Memory!history
  <2> HIDE DEF b
  <2> QED BY <1>4, <2>1 DEF IsAt
<1>7. ASSUME NEW c \in Compilers, NEW f, Memory!Scan(c, f) PROVE LeftoversAreKnown' /\ ScansAreComplete'
  <2> DEFINE inputs == [g \in DOMAIN build[c].inputs \union {f} |-> IF g = f THEN sources[f] ELSE build[c].inputs[g]]
             b == [build[c] EXCEPT !.inputs = inputs]
  <2>1. build' = [build EXCEPT ![c] = b] /\ Keeping /\ build[c] # Nobody /\ build[c].step = "scan"
    BY <1>7 DEF Memory!Scan, Memory!Building, Memory!Calm, Memory!disk, Memory!history
  <2> HIDE DEF inputs
  <2>2. b.step = "scan"
    BY <1>1, <2>1 DEF CallFields
  <2> HIDE DEF b
  <2> QED BY <1>4, <2>1, <2>2 DEF IsAt
<1>8. ASSUME NEW c \in Compilers, build[c] # Nobody, Keeping, NEW step, Step(c, step),
             build[c].step \notin {"manifest", "sync", "record"},
             build[c].step = "scan" => DOMAIN build[c].inputs = build[c].config
      PROVE  LeftoversAreKnown' /\ ScansAreComplete'
  <2> DEFINE n == [build[c] EXCEPT !.step = step]
  <2>1. DOMAIN n.inputs = n.config
    BY <1>2, <1>8 DEF ScansAreComplete
  <2> HIDE DEF n
  <2>2. build' = [build EXCEPT ![c] = n]
    BY <1>8 DEF n
  <2> QED BY <1>4, <1>8, <2>1, <2>2 DEF IsAt
<1>9. ASSUME NEW c \in Compilers, Keeping, Drops(c), ~IsAt(build[c], {"manifest", "sync", "record"}) \/ IdOf(build[c]) \in kills'
      PROVE  LeftoversAreKnown' /\ ScansAreComplete'
  BY <1>4, <1>9
<1>10. ASSUME NEW c \in Compilers,
              \/ Memory!Compile(c) \/ Memory!PlanOnly(c) \/ Memory!CreateRoot(c) \/ Memory!WriteMarker(c)
              \/ Memory!ValidateOwned(c) \/ Memory!LockStore(c) \/ Memory!CheckIdentity(c)
      PROVE  LeftoversAreKnown' /\ ScansAreComplete'
  <2>1. /\ Keeping /\ build[c] # Nobody /\ build[c].step \in {"scan", "own", "mark", "lock", "check"}
        /\ Drops(c) \/ \E step : /\ Step(c, step)
                                 /\ build[c].step = "scan" => DOMAIN build[c].inputs = build[c].config
    BY <1>10 DEF Memory!Compile, Memory!PlanOnly, Memory!CreateRoot, Memory!WriteMarker, Memory!ValidateOwned,
                 Memory!LockStore, Memory!CheckIdentity, Memory!Building, Memory!To, Memory!Done, Memory!Calm,
                 Memory!disk, Memory!history
  <2> QED BY <1>8, <1>9, <2>1 DEF IsAt
<1>11. ASSUME NEW c \in Compilers, Memory!PublishSnapshot(c) PROVE LeftoversAreKnown' /\ ScansAreComplete'
  <2> DEFINE n == [build[c] EXCEPT !.step = "manifest"]
  <2>1. /\ build[c] # Nobody /\ build[c].step = "snapshot" /\ snapshots' = snapshots \union {IdOf(build[c])}
        /\ build' = [build EXCEPT ![c] = n] /\ UNCHANGED <<named, provenance, kills>>
    BY <1>1, <1>11 DEF Memory!PublishSnapshot, Memory!Building, Memory!To, Memory!history
  <2>2. n # Nobody /\ n.step = "manifest" /\ IdOf(n) = IdOf(build[c]) /\ DOMAIN n.inputs = n.config
    BY <1>2, <2>1 DEF ScansAreComplete
  <2> HIDE DEF n
  <2> QED BY <1>1, <2>1, <2>2, BuildsKeepLeftovers DEF IsAt
<1>12. ASSUME NEW c \in Compilers, Memory!PublishManifest(c) PROVE LeftoversAreKnown' /\ ScansAreComplete'
  <2> DEFINE n == [build[c] EXCEPT !.step = "sync"]
  <2>1. /\ build[c] # Nobody /\ build[c].step = "manifest" /\ named' = named \union {IdOf(build[c])}
        /\ build' = [build EXCEPT ![c] = n] /\ UNCHANGED <<snapshots, provenance, kills>>
    BY <1>1, <1>12 DEF Memory!PublishManifest, Memory!Building, Memory!To
  <2>2. n # Nobody /\ n.step = "sync" /\ IdOf(n) = IdOf(build[c]) /\ DOMAIN n.inputs = n.config
    BY <1>2, <2>1 DEF ScansAreComplete
  <2> HIDE DEF n
  <2> QED BY <1>1, <2>1, <2>2, BuildsKeepLeftovers DEF IsAt
<1>13. ASSUME NEW c \in Compilers, Memory!Applied(c) PROVE LeftoversAreKnown' /\ ScansAreComplete'
  <2> DEFINE n == [build[c] EXCEPT !.step = "record"]
  <2>1. /\ build[c] # Nobody /\ build[c].step = "sync" /\ Keeping /\ build' = [build EXCEPT ![c] = n]
    BY <1>1, <1>13 DEF Memory!Applied, Memory!Building, Memory!To, Memory!disk, Memory!history
  <2>2. n # Nobody /\ n.step = "record" /\ IdOf(n) = IdOf(build[c]) /\ DOMAIN n.inputs = n.config
    BY <1>2, <2>1 DEF ScansAreComplete
  <2> HIDE DEF n
  <2> QED BY <1>1, <2>1, <2>2, BuildsKeepLeftovers DEF IsAt
<1>14. ASSUME NEW c \in Compilers, Memory!RecordProvenance(c) PROVE LeftoversAreKnown' /\ ScansAreComplete'
  <2>1. /\ build[c] # Nobody /\ build[c].step = "record" /\ provenance' = provenance \union {IdOf(build[c])}
        /\ Drops(c) /\ UNCHANGED <<snapshots, named, kills>>
    BY <1>1, <1>14 DEF Memory!RecordProvenance, Memory!Building, Memory!Done, Memory!disk
  <2> QED BY <1>1, <2>1, BuildsKeepLeftovers DEF IsAt
<1>15. ASSUME NEW c \in Compilers, Memory!Fail(c) PROVE LeftoversAreKnown' /\ ScansAreComplete'
  <2>1. /\ build[c] # Nobody /\ Drops(c) /\ UNCHANGED <<named, provenance>> /\ kills \subseteq kills'
        /\ build[c].step \in {"snapshot", "manifest", "sync"}
        /\ build[c].step = "sync" => IdOf(build[c]) \in kills'
        /\ snapshots' \subseteq snapshots
        /\ build[c].step = "manifest" => IdOf(build[c]) \notin snapshots'
    BY <1>1, <1>15 DEF Memory!Fail, Memory!Done, Memory!Orphan
  <2> QED BY <1>1, <2>1, BuildsKeepLeftovers DEF IsAt
<1>16. ASSUME NEW c \in Compilers, Memory!KillBuild(c) PROVE LeftoversAreKnown' /\ ScansAreComplete'
  <2>1. /\ build[c] # Nobody /\ Drops(c) /\ Keeping
        /\ DOMAIN build[c].inputs = build[c].config => IdOf(build[c]) \in kills'
    BY <1>1, <1>16 DEF Memory!KillBuild, Memory!Done, Memory!disk
  <2>2. build[c].step # "scan" => IdOf(build[c]) \in kills'
    BY <2>1 DEF ScansAreComplete
  <2> QED BY <1>9, <2>1, <2>2 DEF IsAt
<1>17. ASSUME NEW v \in Viewers, Memory!ReadManifest(v) \/ Memory!OpenSnapshot(v) \/ Memory!CloseView(v)
       PROVE  LeftoversAreKnown' /\ ScansAreComplete'
  BY <1>3, <1>17 DEF Memory!ReadManifest, Memory!OpenSnapshot, Memory!CloseView, Memory!disk, Memory!history
<1>18. CASE UNCHANGED Memory!mvars
  BY <1>3, <1>18 DEF Memory!mvars, Memory!disk, Memory!history
<1>19. ASSUME NEW c \in Compilers, NEW d \in Dates, Memory!ProjectUpdate(c, d)
       PROVE  LeftoversAreKnown' /\ ScansAreComplete'
  BY <1>6, <1>19 DEF Memory!ProjectUpdate
<1> QED BY <1>5, <1>6, <1>7, <1>10, <1>11, <1>12, <1>13, <1>14, <1>15, <1>16, <1>17, <1>18, <1>19
        DEF Memory!MNext, Memory!ProjectBuild

LEMMA LeftoversBeginKnown == Memory!MInit => LeftoversAreKnown /\ ScansAreComplete
<1> SUFFICES ASSUME Memory!MInit PROVE LeftoversAreKnown /\ ScansAreComplete
  OBVIOUS
<1>1. snapshots = {} /\ named = {} /\ build = [c \in Compilers |-> Nobody]
  BY DEF Memory!MInit
<1> QED BY <1>1 DEF LeftoversAreKnown, ScansAreComplete

(* When no build holds the lock, a snapshot no manifest ever named was left by a process *)
(* killed between the two renames, and one without provenance by a kill or a failure.    *)
THEOREM LeftoversAlwaysComeFromFaults ==
  ASSUME NobodyIsNoCompiler PROVE Memory!MSpec => []Memory!LeftoversComeFromFaults
<1>1. ASSUME MemoryInv, LeftoversAreKnown PROVE Memory!LeftoversComeFromFaults
  <2> SUFFICES ASSUME holder = Nobody
               PROVE  /\ snapshots \subseteq named \union kills
                      /\ \A id \in named : id \in provenance \union kills \/
                           \E c \in {d \in Compilers : Memory!Building(d, "record")} : id = Memory!Id(c)
    BY DEF Memory!LeftoversComeFromFaults
  <2>1. ASSUME NEW c \in Compilers, build[c] # Nobody
        PROVE  build[c].step \notin {"manifest", "sync"} /\ Memory!Id(c) = IdOf(build[c])
    BY <1>1, <2>1 DEF MemoryInv, BuildIsSafe, UnderLock, NobodyIsNoCompiler, Memory!Id, Memory!Manifest, IdOf
  <2>2. \A id : ~Between(id, {"manifest"})
    BY <2>1 DEF Between, IsAt
  <2>3. ASSUME NEW id, Between(id, {"sync", "record"})
        PROVE  \E c \in {d \in Compilers : Memory!Building(d, "record")} : id = Memory!Id(c)
    BY <2>1, <2>3 DEF Between, IsAt, Memory!Building
  <2> QED BY <1>1, <2>2, <2>3 DEF LeftoversAreKnown
<1>2. NobodyIsNoCompiler /\ MemoryInv /\ LeftoversAreKnown /\ ScansAreComplete /\ [Memory!MNext]_(Memory!mvars)
        => MemoryInv' /\ LeftoversAreKnown' /\ ScansAreComplete'
  BY MemoryInvStays, LeftoversStayKnown
<1> QED BY <1>1, <1>2, MemoryBeginsSafe, LeftoversBeginKnown, PTL DEF Memory!MSpec

-----------------------------------------------------------------------------
(* The cache of search results. *)
CONSTANTS Searchers, Mutators, Queries, Capacity, Ttl, MaxVersion, MaxNow, MaxMeddles, MaxAnswers, Idle, NoHits
VARIABLES version, generation, entries, clock, searcher, mutator, returnedVersion, backwards, handed, meddles

Search == INSTANCE SearchCache WITH gen <- generation, store <- entries, now <- clock, returned <- returnedVersion

(* What stands for no call and no result yet is neither. *)
IdleIsApart ==
  /\ Idle \notin Nat
  /\ \A key, value, owed : Idle # [key |-> key, value |-> value, owed |-> owed]
  /\ \A wrote, read : Idle # [wrote |-> wrote, read |-> read]

KeysApart(s) == \A i, j \in DOMAIN s : s[i].key = s[j].key => i = j
(* What is left of a sequence without some places is no longer, and shorter when *)
(* a place is missing; its elements have keys of their own if the sequence's do.  *)
LEMMA PickedKeys ==
  ASSUME NEW X, NEW s \in Seq(X), NEW places, KeysApart(s)
  PROVE  /\ KeysApart(Picked(s, places)) /\ Len(Picked(s, places)) <= Len(s)
         /\ (\E i \in DOMAIN s : i \notin places) => Len(Picked(s, places)) < Len(s)
<1> DEFINE P == Picks(s, places)
           Ok(n) == /\ P[n] \in Seq(X) /\ Len(P[n]) <= n
                    /\ (\E i \in 1 .. n : i \notin places) => Len(P[n]) < n
                    /\ \A i, j \in 1 .. Len(P[n]) : P[n][i].key = P[n][j].key => i = j
           G == {n \in 0 .. Len(s) : Ok(n)}
<1>1. P[0] = <<>> /\ \A n \in 0 .. Len(s) - 1 :
        P[n + 1] = IF n + 1 \in places THEN Append(P[n], s[n + 1]) ELSE P[n]
  BY PicksStep
<1>2. \A n \in 0 .. Len(s) : \A k \in 1 .. Len(P[n]) : \E i \in 1 .. n : P[n][k] = s[i]
  BY PicksElements
<1> HIDE DEF P
<1>3. Ok(0)
  <2>1. P[0] \in Seq(X) /\ Len(P[0]) = 0
    BY <1>1
  <2> QED BY <2>1
<1>4. ASSUME NEW n \in 0 .. Len(s) - 1, Ok(n) PROVE Ok(n + 1)
  <2> DEFINE p == P[n]
             q == P[n + 1]
             e == s[n + 1]
  <2>1. /\ p \in Seq(X) /\ Len(p) <= n /\ Len(p) \in Nat /\ ((\E i \in 1 .. n : i \notin places) => Len(p) < n)
        /\ \A i, j \in 1 .. Len(p) : p[i].key = p[j].key => i = j
    BY <1>4
  <2>2. \A k \in 1 .. Len(p) : p[k].key # e.key
    <3>1. ASSUME NEW i \in 1 .. n PROVE s[i].key # e.key
      BY <3>1 DEF KeysApart
    <3> QED BY <1>2, <3>1
  <2>3. q = IF n + 1 \in places THEN Append(p, e) ELSE p
    BY <1>1
  <2>4. e \in X
    OBVIOUS
  <2> HIDE DEF p, q, e
  <2>5. CASE n + 1 \in places
    <3>1. /\ q \in Seq(X) /\ Len(q) = Len(p) + 1 /\ q[Len(p) + 1] = e
          /\ \A i \in 1 .. Len(p) : q[i] = p[i]
      BY <2>1, <2>3, <2>4, <2>5
    <3>2. (\E i \in 1 .. n + 1 : i \notin places) => \E i \in 1 .. n : i \notin places
      BY <2>5
    <3>3. ASSUME NEW i \in 1 .. Len(q), NEW j \in 1 .. Len(q), q[i].key = q[j].key PROVE i = j
      <4>1. i \in 1 .. Len(p) \/ i = Len(p) + 1
        BY <2>1, <3>1
      <4>2. j \in 1 .. Len(p) \/ j = Len(p) + 1
        BY <2>1, <3>1
      <4> QED BY <2>1, <2>2, <3>1, <3>3, <4>1, <4>2
    <3>4. Len(q) <= n + 1 /\ ((\E i \in 1 .. n + 1 : i \notin places) => Len(q) < n + 1)
      BY <2>1, <3>1, <3>2
    <3> QED BY <3>1, <3>3, <3>4 DEF q
  <2>6. CASE n + 1 \notin places
    <3>1. q = p
      BY <2>3, <2>6
    <3>2. Len(q) <= n + 1 /\ Len(q) < n + 1
      BY <2>1, <3>1
    <3> QED BY <2>1, <3>1, <3>2 DEF q
  <2> QED BY <2>5, <2>6
<1>5. 0 .. Len(s) \subseteq G
  <2> HIDE DEF Ok
  <2>1. 0 \in G /\ \A n \in 0 .. Len(s) - 1 : n \in G => n + 1 \in G
    BY <1>3, <1>4
  <2> HIDE DEF G
  <2> QED BY <2>1, TurnByTurn
<1>6. Ok(Len(s))
  <2> HIDE DEF Ok
  <2> QED BY <1>5
<1>7. DOMAIN s = 1 .. Len(s) /\ DOMAIN P[Len(s)] = 1 .. Len(P[Len(s)])
  BY <1>6
<1> QED BY <1>6, <1>7 DEF P, Picked, KeysApart

SearchKeys == [query : Queries, gen : Nat]
Entries == [key : SearchKeys, at : Nat, value : Nat \union {NoHits}, list : Nat]
Searches == [key : SearchKeys, value : Nat \union {Idle}, owed : Nat]
Mutations == [wrote : Nat, read : Nat \union {Idle}]
SearchIsTyped ==
  /\ version \in Nat /\ generation \in Nat /\ clock \in Nat /\ returnedVersion \in Nat /\ meddles \in Nat
  /\ backwards \in BOOLEAN
  /\ entries \in Seq(Entries) /\ KeysApart(entries) /\ Len(entries) <= Capacity
  /\ handed \in Seq([value : Nat \union {NoHits}, owed : Nat, shares : Nat])
  /\ searcher \in [Searchers -> Searches \union {Idle}]
  /\ mutator \in [Mutators -> Mutations \union {Idle}]

HasRead(m) == mutator[m] # Idle /\ mutator[m].read # Idle
(* What a search under generation g has to have seen: the mutations that returned, and *)
(* those that are about to write the generation that is there already.                *)
Sees(g, v) ==
  /\ v \in Nat /\ g <= generation
  /\ g = generation => /\ v >= returnedVersion
                       /\ \A m \in Mutators : HasRead(m) /\ mutator[m].read + 1 = generation => v >= mutator[m].wrote
SearchesAreCurrent ==
  /\ returnedVersion <= version
  /\ \A m \in Mutators : mutator[m] # Idle => mutator[m].wrote <= version
  /\ \A m \in Mutators : HasRead(m) => mutator[m].read <= generation
  /\ \A i \in DOMAIN entries : Sees(entries[i].key.gen, entries[i].value)
  /\ \A s \in Searchers : searcher[s] # Idle =>
       /\ searcher[s].owed <= returnedVersion /\ searcher[s].key.gen <= generation
       /\ searcher[s].value # Idle => /\ Sees(searcher[s].key.gen, searcher[s].value)
                                      /\ searcher[s].value >= searcher[s].owed
  /\ \A k \in DOMAIN handed : handed[k].value \in Nat /\ handed[k].value >= handed[k].owed
SearchInv == SearchIsTyped /\ (~backwards /\ meddles = 0 => SearchesAreCurrent)

(* The entries without those of a key, and with one of its own. *)
LEMMA EntriesWithout ==
  ASSUME entries \in Seq(Entries), KeysApart(entries), NEW key
  PROVE  /\ Search!Without(key) \in Seq(Entries) /\ KeysApart(Search!Without(key))
         /\ Len(Search!Without(key)) <= Len(entries)
         /\ Search!At(key) # {} => Len(Search!Without(key)) < Len(entries)
         /\ \A k \in DOMAIN Search!Without(key) :
              /\ Search!Without(key)[k].key # key
              /\ \E i \in DOMAIN entries : Search!Without(key)[k] = entries[i]
<1> DEFINE places == {i \in DOMAIN entries : entries[i].key # key}
           w == Picked(entries, places)
<1>1. /\ w \in Seq(Entries) /\ KeysApart(w) /\ Len(w) <= Len(entries)
      /\ (\E i \in DOMAIN entries : i \notin places) => Len(w) < Len(entries)
      /\ \A k \in 1 .. Len(w) : \E i \in 1 .. Len(entries) : i \in places /\ w[k] = entries[i]
  <2>1. /\ KeysApart(w) /\ Len(w) <= Len(entries)
        /\ (\E i \in DOMAIN entries : i \notin places) => Len(w) < Len(entries)
    <3> HIDE DEF places
    <3> QED BY PickedKeys
  <2>2. w \in Seq(Entries) /\ \A k \in 1 .. Len(w) : \E i \in 1 .. Len(entries) : i \in places /\ w[k] = entries[i]
    <3> HIDE DEF places
    <3> QED BY PickedElements
  <2> QED BY <2>1, <2>2
<1>2. Search!Without(key) = w
  BY DEF Search!Without, Search!Picked, Picked, Search!Picks, Picks
<1> HIDE DEF w
<1>3. DOMAIN w = 1 .. Len(w)
  BY <1>1
<1>4. Search!At(key) # {} => Len(w) < Len(entries)
  BY <1>1 DEF Search!At
<1> QED BY <1>1, <1>2, <1>3, <1>4

LEMMA EntriesWith ==
  ASSUME NEW w \in Seq(Entries), KeysApart(w), NEW e \in Entries, \A k \in DOMAIN w : w[k].key # e.key
  PROVE  /\ Append(w, e) \in Seq(Entries) /\ KeysApart(Append(w, e)) /\ Len(Append(w, e)) = Len(w) + 1
         /\ \A k \in DOMAIN Append(w, e) : Append(w, e)[k] = e \/ \E i \in DOMAIN w : Append(w, e)[k] = w[i]
<1> DEFINE a == Append(w, e)
<1>1. /\ a \in Seq(Entries) /\ Len(a) = Len(w) + 1 /\ DOMAIN a = DOMAIN w \union {Len(w) + 1}
      /\ a[Len(w) + 1] = e /\ \A i \in DOMAIN w : a[i] = w[i]
  BY LogsGrow
<1> HIDE DEF a
<1>2. KeysApart(a)
  BY <1>1 DEF KeysApart
<1> QED BY <1>1, <1>2 DEF a

LEMMA EntriesBounded ==
  ASSUME NEW s \in Seq(Entries), KeysApart(s), Capacity \in Nat
  PROVE  /\ Search!Bounded(s) \in Seq(Entries) /\ KeysApart(Search!Bounded(s)) /\ Len(Search!Bounded(s)) <= Capacity
         /\ \A k \in DOMAIN Search!Bounded(s) : \E i \in DOMAIN s : Search!Bounded(s)[k] = s[i]
<1> DEFINE from == IF Len(s) > Capacity THEN Len(s) - Capacity + 1 ELSE 1
           b == SubSeq(s, from, Len(s))
<1>1. /\ b \in Seq(Entries) /\ Len(b) <= Capacity /\ Len(b) = Len(s) - from + 1 /\ from \in 1 .. Len(s) + 1
      /\ \A k \in 1 .. Len(b) : b[k] = s[k + from - 1] /\ k + from - 1 \in 1 .. Len(s)
  <2>1. from \in 1 .. Len(s) + 1 /\ Len(s) - from + 1 <= Capacity
    OBVIOUS
  <2> HIDE DEF from
  <2>2. b \in Seq(Entries) /\ Len(b) = Len(s) - from + 1
    BY <2>1
  <2>3. ASSUME NEW k \in 1 .. Len(b) PROVE b[k] = s[k + from - 1] /\ k + from - 1 \in 1 .. Len(s)
    BY <2>1, <2>2, <2>3
  <2> QED BY <2>1, <2>2, <2>3
<1>2. b = Search!Bounded(s)
  BY DEF Search!Bounded
<1> HIDE DEF b, from
<1>3. DOMAIN b = 1 .. Len(b) /\ DOMAIN s = 1 .. Len(s) /\ from \in Nat /\ Len(b) \in Nat
  BY <1>1
<1>4. KeysApart(b)
  <2>1. ASSUME NEW i \in DOMAIN b, NEW j \in DOMAIN b, b[i].key = b[j].key PROVE i = j
    <3>1. /\ i + from - 1 \in DOMAIN s /\ j + from - 1 \in DOMAIN s
          /\ b[i] = s[i + from - 1] /\ b[j] = s[j + from - 1]
      BY <1>1, <1>3
    <3>2. i + from - 1 = j + from - 1
      BY <2>1, <3>1 DEF KeysApart
    <3> QED BY <1>3, <3>2
  <2> QED BY <2>1 DEF KeysApart
<1> QED BY <1>1, <1>2, <1>3, <1>4

LEMMA SearchStaysTyped ==
  ASSUME IdleIsApart, Capacity \in Nat, SearchIsTyped, [Search!HNext]_(Search!hvars)
  PROVE  SearchIsTyped'
<1> USE DEF IdleIsApart
<1> DEFINE Thread(s, x) == searcher' = [searcher EXCEPT ![s] = x]
           Mutator(m, x) == mutator' = [mutator EXCEPT ![m] = x]
           Answered == [value : Nat \union {NoHits}, owed : Nat, shares : Nat]
<1>0. /\ version \in Nat /\ generation \in Nat /\ clock \in Nat /\ returnedVersion \in Nat /\ meddles \in Nat
      /\ backwards \in BOOLEAN
      /\ entries \in Seq(Entries) /\ KeysApart(entries) /\ Len(entries) <= Capacity
      /\ handed \in Seq(Answered)
      /\ searcher \in [Searchers -> Searches \union {Idle}]
      /\ mutator \in [Mutators -> Mutations \union {Idle}]
  BY DEF SearchIsTyped
<1>1. ASSUME NEW s \in Searchers, NEW v \in Nat \union {NoHits}, NEW owed \in Nat, NEW shares \in Nat,
             Search!Answer(s, v, owed, shares)
      PROVE  handed' \in Seq(Answered) /\ searcher' \in [Searchers -> Searches \union {Idle}]
  <2> DEFINE e == [value |-> v, owed |-> owed, shares |-> shares]
  <2>1. e \in Answered
    OBVIOUS
  <2>2. handed' = Append(handed, e) /\ Thread(s, Idle)
    BY <1>1 DEF Search!Answer
  <2> HIDE DEF e, Answered
  <2> QED BY <1>0, <2>1, <2>2
<1>2. ASSUME NEW s \in Searchers, NEW q \in Queries, Search!Hit(s, q) PROVE SearchIsTyped'
  <2> DEFINE key == Search!Key(q)
             w == Search!Without(key)
  <2>1. PICK i \in Search!At(key) : /\ entries' = Append(w, entries[i])
                                    /\ Search!Answer(s, entries[i].value, returnedVersion, 0)
    BY <1>2 DEF Search!Hit
  <2>2. i \in DOMAIN entries /\ entries[i].key = key
    BY DEF Search!At
  <2>3. entries[i] \in Entries /\ entries[i].value \in Nat \union {NoHits}
    <3>1. entries[i] \in Entries
      BY <1>0, <2>2
    <3> QED BY <3>1 DEF Entries
  <2>4. /\ w \in Seq(Entries) /\ KeysApart(w) /\ Len(w) < Len(entries)
        /\ \A k \in DOMAIN w : w[k].key # entries[i].key
    BY <1>0, <2>2, EntriesWithout
  <2> HIDE DEF w, key
  <2>5. entries' \in Seq(Entries) /\ KeysApart(entries)' /\ Len(entries') = Len(w) + 1
    <3>1. KeysApart(Append(w, entries[i]))
      BY <2>3, <2>4, EntriesWith
    <3> QED BY <2>1, <2>3, <2>4, <3>1, EntriesWith DEF KeysApart
  <2>6. Len(entries') <= Capacity
    BY <1>0, <2>4, <2>5
  <2>7. UNCHANGED <<version, generation, clock, mutator, returnedVersion, backwards, meddles>>
    BY <1>2 DEF Search!Hit
  <2> QED BY <1>0, <1>1, <2>1, <2>3, <2>5, <2>6, <2>7 DEF SearchIsTyped
<1>3. ASSUME NEW s \in Searchers, NEW q \in Queries, Search!Miss(s, q) PROVE SearchIsTyped'
  <2> DEFINE key == Search!Key(q)
             x == [key |-> key, value |-> Idle, owed |-> returnedVersion]
  <2>1. /\ entries' = Search!Without(key) /\ Thread(s, x)
        /\ UNCHANGED <<version, generation, clock, mutator, returnedVersion, backwards, handed, meddles>>
    BY <1>3 DEF Search!Miss
  <2>2. x \in Searches
    BY <1>0 DEF Searches, SearchKeys, Search!Key
  <2>3. /\ Search!Without(key) \in Seq(Entries) /\ KeysApart(Search!Without(key))
        /\ Len(Search!Without(key)) <= Len(entries)
    BY <1>0, EntriesWithout
  <2> HIDE DEF key, x
  <2>4. entries' \in Seq(Entries) /\ KeysApart(entries)' /\ Len(entries') <= Capacity
    BY <1>0, <2>1, <2>3 DEF KeysApart
  <2>5. searcher' \in [Searchers -> Searches \union {Idle}]
    BY <1>0, <2>1, <2>2
  <2> QED BY <1>0, <2>1, <2>4, <2>5 DEF SearchIsTyped
<1>4. ASSUME NEW s \in Searchers, Search!Compute(s) PROVE SearchIsTyped'
  <2> DEFINE x == [searcher[s] EXCEPT !.value = version]
  <2>1. /\ searcher[s] # Idle /\ Thread(s, x)
        /\ UNCHANGED <<version, generation, entries, clock, mutator, returnedVersion, backwards, handed, meddles>>
    BY <1>4 DEF Search!Compute
  <2>2. searcher[s] \in Searches
    BY <1>0, <2>1
  <2>3. x \in Searches
    BY <1>0, <2>2 DEF Searches
  <2> HIDE DEF x
  <2>4. searcher' \in [Searchers -> Searches \union {Idle}]
    BY <1>0, <2>1, <2>3
  <2> QED BY <1>0, <2>1, <2>4 DEF SearchIsTyped, KeysApart
<1>5. ASSUME NEW s \in Searchers, Search!Put(s) PROVE SearchIsTyped'
  <2> DEFINE w == Search!Without(searcher[s].key)
             e == [key |-> searcher[s].key, at |-> clock, value |-> searcher[s].value, list |-> Len(handed) + 1]
  <2>1. /\ searcher[s] # Idle /\ searcher[s].value # Idle
        /\ entries' = Search!Bounded(Append(w, e))
        /\ Search!Answer(s, searcher[s].value, searcher[s].owed, Len(handed) + 1)
        /\ UNCHANGED <<version, generation, clock, mutator, returnedVersion, backwards, meddles>>
    BY <1>5 DEF Search!Put
  <2>2. searcher[s] \in Searches /\ searcher[s].value \in Nat /\ searcher[s].owed \in Nat /\ Len(handed) + 1 \in Nat
    BY <1>0, <2>1 DEF Searches
  <2>3. e \in Entries /\ e.key = searcher[s].key
    BY <1>0, <2>2 DEF Entries, Searches
  <2>4. w \in Seq(Entries) /\ KeysApart(w) /\ \A k \in DOMAIN w : w[k].key # e.key
    BY <1>0, <2>3, EntriesWithout
  <2> HIDE DEF w, e
  <2>5. Append(w, e) \in Seq(Entries) /\ KeysApart(Append(w, e))
    BY <2>3, <2>4, EntriesWith
  <2> DEFINE a == Append(w, e)
  <2> HIDE DEF a
  <2>6. Search!Bounded(a) \in Seq(Entries) /\ KeysApart(Search!Bounded(a)) /\ Len(Search!Bounded(a)) <= Capacity
    BY <2>5, EntriesBounded DEF a
  <2>7. entries' \in Seq(Entries) /\ KeysApart(entries)' /\ Len(entries') <= Capacity
    BY <2>1, <2>6 DEF a, KeysApart
  <2> QED BY <1>0, <1>1, <2>1, <2>2, <2>7 DEF SearchIsTyped
<1>6. ASSUME NEW k, Search!Meddle(k) PROVE SearchIsTyped'
  <2> DEFINE Spoiled(i) == handed[k].shares # 0 /\ entries[i].list = handed[k].shares
             E(i) == IF Spoiled(i) THEN [entries[i] EXCEPT !.value = NoHits] ELSE entries[i]
  <2>1. /\ entries' = [i \in DOMAIN entries |-> E(i)] /\ meddles' = meddles + 1
        /\ UNCHANGED <<version, generation, clock, searcher, mutator, returnedVersion, backwards, handed>>
    BY <1>6 DEF Search!Meddle
  <2>2. ASSUME NEW i \in DOMAIN entries PROVE E(i) \in Entries /\ E(i).key = entries[i].key
    <3>1. entries[i] \in Entries
      BY <1>0
    <3>2. [entries[i] EXCEPT !.value = NoHits] \in Entries /\ [entries[i] EXCEPT !.value = NoHits].key = entries[i].key
      BY <3>1 DEF Entries
    <3> QED BY <3>1, <3>2
  <2> HIDE DEF E
  <2>3. DOMAIN entries = 1 .. Len(entries) /\ Len(entries) \in Nat
    BY <1>0
  <2>4. entries' \in Seq(Entries) /\ Len(entries') = Len(entries) /\ DOMAIN entries' = DOMAIN entries
    BY <2>1, <2>2, <2>3
  <2>5. KeysApart(entries)'
    <3> SUFFICES ASSUME NEW i \in DOMAIN entries', NEW j \in DOMAIN entries', entries'[i].key = entries'[j].key
                 PROVE  i = j
      BY DEF KeysApart
    <3>1. i \in DOMAIN entries /\ j \in DOMAIN entries
      BY <2>4
    <3>2. entries'[i] = E(i) /\ entries'[j] = E(j)
      BY <2>1, <3>1
    <3>3. entries[i].key = entries[j].key
      BY <2>2, <3>1, <3>2
    <3> QED BY <1>0, <3>1, <3>3 DEF KeysApart
  <2> QED BY <1>0, <2>1, <2>4, <2>5 DEF SearchIsTyped
<1>7. ASSUME NEW m \in Mutators, Search!Mutate(m) PROVE SearchIsTyped'
  <2> DEFINE x == [wrote |-> version + 1, read |-> Idle]
  <2>1. /\ version' = version + 1 /\ Mutator(m, x)
        /\ UNCHANGED <<generation, entries, clock, searcher, returnedVersion, backwards, handed, meddles>>
    BY <1>7 DEF Search!Mutate
  <2>2. x \in Mutations
    BY <1>0 DEF Mutations
  <2> HIDE DEF x
  <2>3. mutator' \in [Mutators -> Mutations \union {Idle}]
    BY <1>0, <2>1, <2>2
  <2> QED BY <1>0, <2>1, <2>3 DEF SearchIsTyped, KeysApart
<1>8. ASSUME NEW m \in Mutators, Search!BumpRead(m) PROVE SearchIsTyped'
  <2> DEFINE x == [mutator[m] EXCEPT !.read = generation]
  <2>1. /\ mutator[m] # Idle /\ Mutator(m, x)
        /\ UNCHANGED <<version, generation, entries, clock, searcher, returnedVersion, backwards, handed, meddles>>
    BY <1>8 DEF Search!BumpRead
  <2>2. mutator[m] \in Mutations
    BY <1>0, <2>1
  <2>3. x \in Mutations
    BY <1>0, <2>2 DEF Mutations
  <2> HIDE DEF x
  <2>4. mutator' \in [Mutators -> Mutations \union {Idle}]
    BY <1>0, <2>1, <2>3
  <2> QED BY <1>0, <2>1, <2>4 DEF SearchIsTyped, KeysApart
<1>9. ASSUME NEW m \in Mutators, Search!BumpWrite(m) PROVE SearchIsTyped'
  <2>1. /\ mutator[m] # Idle /\ mutator[m].read # Idle /\ generation' = mutator[m].read + 1
        /\ backwards' = (backwards \/ mutator[m].read + 1 < generation)
        /\ returnedVersion' = (IF mutator[m].wrote > returnedVersion THEN mutator[m].wrote ELSE returnedVersion)
        /\ Mutator(m, Idle)
        /\ UNCHANGED <<version, entries, clock, searcher, handed, meddles>>
    BY <1>9 DEF Search!BumpWrite, Search!Bumped
  <2>2. mutator[m].read \in Nat /\ mutator[m].wrote \in Nat
    BY <1>0, <2>1 DEF Mutations
  <2>3. mutator' \in [Mutators -> Mutations \union {Idle}]
    BY <1>0, <2>1
  <2>4. generation' \in Nat /\ returnedVersion' \in Nat
    BY <1>0, <2>1, <2>2
  <2>5. backwards' \in BOOLEAN
    BY <1>0, <2>1
  <2> QED BY <1>0, <2>1, <2>3, <2>4, <2>5 DEF SearchIsTyped, KeysApart
<1>10. CASE Search!WriteElsewhere
  BY <1>0, <1>10 DEF Search!WriteElsewhere, SearchIsTyped, KeysApart
<1>11. CASE Search!Tick
  BY <1>0, <1>11 DEF Search!Tick, SearchIsTyped, KeysApart
<1>12. CASE Search!Clear
  <2>1. entries' = <<>>
    BY <1>12 DEF Search!Clear
  <2>2. entries' \in Seq(Entries) /\ KeysApart(entries)' /\ Len(entries') <= Capacity
    BY <2>1 DEF KeysApart
  <2> QED BY <1>0, <1>12, <2>2 DEF Search!Clear, SearchIsTyped
<1>13. CASE UNCHANGED Search!hvars
  BY <1>13 DEF Search!hvars, SearchIsTyped, KeysApart
<1> QED BY <1>2, <1>3, <1>4, <1>5, <1>6, <1>7, <1>8, <1>9, <1>10, <1>11, <1>12, <1>13 DEF Search!HNext

LEMMA SearchStaysCurrent ==
  ASSUME IdleIsApart, Capacity \in Nat, SearchIsTyped, SearchesAreCurrent, ~backwards', meddles' = 0,
         [Search!HNext]_(Search!hvars)
  PROVE  SearchesAreCurrent'
<1> USE DEF IdleIsApart
<1>0. /\ version \in Nat /\ generation \in Nat /\ returnedVersion \in Nat /\ meddles \in Nat
      /\ entries \in Seq(Entries) /\ KeysApart(entries)
      /\ handed \in Seq([value : Nat \union {NoHits}, owed : Nat, shares : Nat])
      /\ searcher \in [Searchers -> Searches \union {Idle}]
      /\ mutator \in [Mutators -> Mutations \union {Idle}]
      /\ \A s \in Searchers : searcher[s] # Idle => searcher[s] \in Searches
      /\ \A m \in Mutators : mutator[m] # Idle => mutator[m] \in Mutations
  BY DEF SearchIsTyped
<1> DEFINE EntriesSee == \A i \in DOMAIN entries : Sees(entries[i].key.gen, entries[i].value)
           MutatorsAre == \A m \in Mutators : /\ mutator[m] # Idle => mutator[m].wrote <= version
                                              /\ HasRead(m) => mutator[m].read <= generation
           SearcherIs(s) == searcher[s] # Idle =>
             /\ searcher[s].owed <= returnedVersion /\ searcher[s].key.gen <= generation
             /\ searcher[s].value # Idle => /\ Sees(searcher[s].key.gen, searcher[s].value)
                                            /\ searcher[s].value >= searcher[s].owed
           AnswersAre == \A k \in DOMAIN handed : handed[k].value \in Nat /\ handed[k].value >= handed[k].owed
<1>1. /\ returnedVersion <= version /\ MutatorsAre /\ EntriesSee /\ AnswersAre
      /\ \A s \in Searchers : SearcherIs(s)
  BY DEF SearchesAreCurrent
<1>2. ASSUME UNCHANGED <<generation, returnedVersion, mutator>>, NEW g, NEW v
      PROVE  Sees(g, v)' <=> Sees(g, v)
  BY <1>2 DEF Sees, HasRead
<1>3. ASSUME returnedVersion' <= version', MutatorsAre', EntriesSee', AnswersAre', \A s \in Searchers : SearcherIs(s)'
      PROVE  SearchesAreCurrent'
  BY <1>3 DEF SearchesAreCurrent
(* What a search that reads the notes now finds. *)
<1>4. \A g \in Nat : g <= generation => Sees(g, version)
  BY <1>0, <1>1 DEF Sees, HasRead, Mutations
(* A thread answers, and what it answers is what it was owed. *)
<1>5. ASSUME NEW s \in Searchers, NEW v \in Nat, NEW owed \in Nat, v >= owed, NEW shares \in Nat,
             Search!Answer(s, v, owed, shares)
      PROVE  AnswersAre' /\ \A z \in Searchers : searcher'[z] = IF z = s THEN Idle ELSE searcher[z]
  <2> DEFINE Answered == [value : Nat \union {NoHits}, owed : Nat, shares : Nat]
             e == [value |-> v, owed |-> owed, shares |-> shares]
  <2>1. e \in Answered /\ e.value = v /\ e.owed = owed
    OBVIOUS
  <2>2. handed' = Append(handed, e) /\ searcher' = [searcher EXCEPT ![s] = Idle]
    BY <1>5 DEF Search!Answer
  <2> HIDE DEF e
  <2>3. /\ DOMAIN handed' = DOMAIN handed \union {Len(handed) + 1} /\ handed'[Len(handed) + 1] = e
        /\ \A k \in DOMAIN handed : handed'[k] = handed[k]
    <3> HIDE DEF Answered
    <3>1. handed \in Seq(Answered)
      BY <1>0 DEF Answered
    <3> QED BY <2>1, <2>2, <3>1, LogsGrow
  <2>4. AnswersAre'
    BY <1>1, <1>5, <2>1, <2>3
  <2> QED BY <1>0, <2>2, <2>4
<1>6. ASSUME NEW s \in Searchers, NEW q \in Queries, Search!Hit(s, q) PROVE SearchesAreCurrent'
  <2> DEFINE key == Search!Key(q)
             w == Search!Without(key)
  <2>1. PICK i \in Search!At(key) : /\ entries' = Append(w, entries[i])
                                    /\ Search!Answer(s, entries[i].value, returnedVersion, 0)
    BY <1>6 DEF Search!Hit
  <2>2. i \in DOMAIN entries /\ entries[i].key = key /\ key.gen = generation
    BY DEF Search!At, Search!Key
  <2>3. entries[i] \in Entries /\ entries[i].value \in Nat /\ entries[i].value >= returnedVersion
    <3>1. entries[i] \in Entries
      BY <1>0, <2>2
    <3>2. Sees(generation, entries[i].value)
      BY <1>1, <2>2
    <3> QED BY <3>1, <3>2 DEF Sees
  <2>4. /\ w \in Seq(Entries) /\ KeysApart(w) /\ \A k \in DOMAIN w : w[k].key # entries[i].key
        /\ \A k \in DOMAIN w : \E j \in DOMAIN entries : w[k] = entries[j]
    BY <1>0, <2>2, EntriesWithout
  <2>5. UNCHANGED <<version, generation, mutator, returnedVersion>>
    BY <1>6 DEF Search!Hit
  <2> HIDE DEF w, key
  <2>6. \A k \in DOMAIN entries' : \E j \in DOMAIN entries : entries'[k] = entries[j]
    <3>1. \A k \in DOMAIN Append(w, entries[i]) :
            Append(w, entries[i])[k] = entries[i] \/ \E j \in DOMAIN w : Append(w, entries[i])[k] = w[j]
      BY <2>3, <2>4, EntriesWith
    <3> QED BY <2>1, <2>2, <2>4, <3>1
  <2>7. EntriesSee'
    <3>1. ASSUME NEW k \in DOMAIN entries' PROVE Sees(entries[k].key.gen, entries[k].value)'
      <4>1. PICK j \in DOMAIN entries : entries'[k] = entries[j]
        BY <2>6
      <4>2. Sees(entries[j].key.gen, entries[j].value)
        BY <1>1
      <4> QED BY <2>5, <4>1, <4>2 DEF Sees, HasRead
    <3> QED BY <3>1
  <2>8. AnswersAre' /\ \A z \in Searchers : searcher'[z] = IF z = s THEN Idle ELSE searcher[z]
    BY <1>0, <1>5, <2>1, <2>3
  <2>9. \A z \in Searchers : SearcherIs(z)'
    BY <1>1, <2>5, <2>8 DEF Sees, HasRead
  <2>10. returnedVersion' <= version' /\ MutatorsAre'
    BY <1>1, <2>5 DEF HasRead
  <2> QED BY <1>3, <2>7, <2>8, <2>9, <2>10
<1>7. ASSUME NEW s \in Searchers, NEW q \in Queries, Search!Miss(s, q) PROVE SearchesAreCurrent'
  <2> DEFINE key == Search!Key(q)
             x == [key |-> key, value |-> Idle, owed |-> returnedVersion]
  <2>1. /\ entries' = Search!Without(key) /\ searcher' = [searcher EXCEPT ![s] = x]
        /\ UNCHANGED <<version, generation, mutator, returnedVersion, handed>>
    BY <1>7 DEF Search!Miss
  <2>2. x.key.gen = generation /\ x.value = Idle /\ x.owed = returnedVersion
    BY DEF Search!Key
  <2>3. \A k \in DOMAIN Search!Without(key) : \E j \in DOMAIN entries : Search!Without(key)[k] = entries[j]
    BY <1>0, EntriesWithout
  <2> HIDE DEF key, x
  <2>4. EntriesSee'
    BY <1>1, <2>1, <2>3 DEF Sees, HasRead
  <2>5. \A z \in Searchers : searcher'[z] = IF z = s THEN x ELSE searcher[z]
    BY <1>0, <2>1
  <2>6. \A z \in Searchers : SearcherIs(z)'
    BY <1>0, <1>1, <2>1, <2>2, <2>5 DEF Sees, HasRead
  <2>7. AnswersAre' /\ returnedVersion' <= version' /\ MutatorsAre'
    BY <1>1, <2>1 DEF HasRead
  <2> QED BY <1>3, <2>4, <2>6, <2>7
<1>8. ASSUME NEW s \in Searchers, Search!Compute(s) PROVE SearchesAreCurrent'
  <2> DEFINE c == searcher[s]
             x == [c EXCEPT !.value = version]
  <2>1. /\ c # Idle /\ searcher' = [searcher EXCEPT ![s] = x]
        /\ UNCHANGED <<version, generation, entries, mutator, returnedVersion, handed>>
    BY <1>8 DEF Search!Compute
  <2>2. c \in Searches
    BY <1>0, <2>1
  <2>3. x.key = c.key /\ x.value = version /\ x.owed = c.owed /\ c.key.gen \in Nat /\ c.owed \in Nat
    BY <2>2 DEF Searches, SearchKeys
  <2>4. c.owed <= returnedVersion /\ c.key.gen <= generation
    BY <1>1, <2>1
  <2> HIDE DEF x, c
  <2>5. Sees(x.key.gen, x.value) /\ x.value >= x.owed /\ x.owed <= returnedVersion /\ x.key.gen <= generation
    BY <1>0, <1>1, <1>4, <2>3, <2>4
  <2>6. \A z \in Searchers : searcher'[z] = IF z = s THEN x ELSE searcher[z]
    BY <1>0, <2>1
  <2>7. \A z \in Searchers : SearcherIs(z)'
    BY <1>1, <2>1, <2>5, <2>6 DEF Sees, HasRead
  <2>8. EntriesSee' /\ AnswersAre' /\ returnedVersion' <= version' /\ MutatorsAre'
    BY <1>1, <2>1 DEF Sees, HasRead
  <2> QED BY <1>3, <2>7, <2>8
<1>9. ASSUME NEW s \in Searchers, Search!Put(s) PROVE SearchesAreCurrent'
  <2> DEFINE w == Search!Without(searcher[s].key)
             e == [key |-> searcher[s].key, at |-> clock, value |-> searcher[s].value, list |-> Len(handed) + 1]
             a == Append(w, e)
  <2>1. /\ searcher[s] # Idle /\ searcher[s].value # Idle
        /\ entries' = Search!Bounded(a)
        /\ Search!Answer(s, searcher[s].value, searcher[s].owed, Len(handed) + 1)
        /\ UNCHANGED <<version, generation, mutator, returnedVersion>>
    BY <1>9 DEF Search!Put
  <2>2. searcher[s] \in Searches /\ searcher[s].value \in Nat /\ searcher[s].owed \in Nat /\ Len(handed) + 1 \in Nat
    BY <1>0, <2>1 DEF Searches
  <2>3. Sees(searcher[s].key.gen, searcher[s].value) /\ searcher[s].value >= searcher[s].owed
    BY <1>1, <2>1
  <2>4. e \in Entries /\ e.key = searcher[s].key /\ Sees(e.key.gen, e.value)
    BY <2>2, <2>3, SearchIsTyped DEF Entries, Searches, SearchIsTyped
  <2>5. /\ w \in Seq(Entries) /\ KeysApart(w) /\ \A k \in DOMAIN w : w[k].key # e.key
        /\ \A k \in DOMAIN w : \E j \in DOMAIN entries : w[k] = entries[j]
    BY <1>0, <2>4, EntriesWithout
  <2> HIDE DEF w, e
  <2>6. /\ a \in Seq(Entries) /\ KeysApart(a)
        /\ \A k \in DOMAIN a : a[k] = e \/ \E j \in DOMAIN w : a[k] = w[j]
    BY <2>4, <2>5, EntriesWith
  <2> HIDE DEF a
  <2>7. \A k \in DOMAIN entries' : entries'[k] = e \/ \E j \in DOMAIN entries : entries'[k] = entries[j]
    <3>1. \A k \in DOMAIN Search!Bounded(a) : \E j \in DOMAIN a : Search!Bounded(a)[k] = a[j]
      BY <2>6, EntriesBounded
    <3> QED BY <2>1, <2>5, <2>6, <3>1
  <2>8. ASSUME NEW k \in DOMAIN entries' PROVE Sees(entries[k].key.gen, entries[k].value)'
    <3>1. Sees(entries'[k].key.gen, entries'[k].value)
      BY <1>1, <2>4, <2>7
    <3> QED BY <2>1, <3>1 DEF Sees, HasRead
  <2>9. AnswersAre' /\ \A z \in Searchers : searcher'[z] = IF z = s THEN Idle ELSE searcher[z]
    BY <1>5, <2>1, <2>2, <2>3
  <2>10. \A z \in Searchers : SearcherIs(z)'
    BY <1>1, <2>1, <2>9 DEF Sees, HasRead
  <2>11. returnedVersion' <= version' /\ MutatorsAre'
    BY <1>1, <2>1 DEF HasRead
  <2> QED BY <1>3, <2>8, <2>9, <2>10, <2>11
<1>10. ASSUME NEW k, Search!Meddle(k) PROVE FALSE
  BY <1>0, <1>10 DEF Search!Meddle
<1>11. ASSUME NEW m \in Mutators, Search!Mutate(m) PROVE SearchesAreCurrent'
  <2> DEFINE x == [wrote |-> version + 1, read |-> Idle]
  <2>1. /\ version' = version + 1 /\ mutator' = [mutator EXCEPT ![m] = x]
        /\ UNCHANGED <<generation, entries, searcher, returnedVersion, handed>>
    BY <1>11 DEF Search!Mutate
  <2>2. x.wrote = version + 1 /\ x.read = Idle
    OBVIOUS
  <2> HIDE DEF x
  <2>3. \A n \in Mutators : mutator'[n] = IF n = m THEN x ELSE mutator[n]
    BY <1>0, <2>1
  <2>4. \A n \in Mutators : HasRead(n)' => HasRead(n) /\ mutator'[n] = mutator[n]
    BY <2>2, <2>3 DEF HasRead
  <2>5. \A g, v : Sees(g, v) => Sees(g, v)'
    BY <2>1, <2>4 DEF Sees
  <2>6. EntriesSee' /\ AnswersAre'
    BY <1>1, <2>1, <2>5 DEF Sees
  <2>7. \A z \in Searchers : SearcherIs(z)'
    BY <1>1, <2>1, <2>5
  <2>8. \A n \in Mutators : mutator[n] # Idle => mutator[n].wrote \in Nat
    BY <1>0 DEF Mutations
  <2>9. MutatorsAre' /\ returnedVersion' <= version'
    BY <1>0, <1>1, <2>1, <2>2, <2>3, <2>4, <2>8
  <2> QED BY <1>3, <2>6, <2>7, <2>9
<1>12. ASSUME NEW m \in Mutators, Search!BumpRead(m) PROVE SearchesAreCurrent'
  <2> DEFINE x == [mutator[m] EXCEPT !.read = generation]
  <2>1. /\ mutator[m] # Idle /\ mutator' = [mutator EXCEPT ![m] = x]
        /\ UNCHANGED <<version, generation, entries, searcher, returnedVersion, handed>>
    BY <1>12 DEF Search!BumpRead
  <2>2. mutator[m] \in Mutations
    BY <1>0, <2>1
  <2>3. x.wrote = mutator[m].wrote /\ x.read = generation
    BY <2>2 DEF Mutations
  <2> HIDE DEF x
  <2>4. \A n \in Mutators : mutator'[n] = IF n = m THEN x ELSE mutator[n]
    BY <1>0, <2>1
  <2>5. \A n \in Mutators : HasRead(n)' => n = m \/ (HasRead(n) /\ mutator'[n] = mutator[n])
    BY <2>4 DEF HasRead
  <2>6. ASSUME NEW g, NEW v, Sees(g, v) PROVE Sees(g, v)'
    <3>1. generation + 1 # generation
      BY <1>0
    <3> QED BY <2>1, <2>3, <2>4, <2>5, <2>6, <3>1 DEF Sees
  <2>7. EntriesSee' /\ AnswersAre'
    BY <1>1, <2>1, <2>6
  <2>8. \A z \in Searchers : SearcherIs(z)'
    BY <1>1, <2>1, <2>6
  <2>9. MutatorsAre' /\ returnedVersion' <= version'
    BY <1>0, <1>1, <2>1, <2>3, <2>4, <2>5
  <2> QED BY <1>3, <2>7, <2>8, <2>9
<1>13. ASSUME NEW m \in Mutators, Search!BumpWrite(m) PROVE SearchesAreCurrent'
  <2> DEFINE wrote == mutator[m].wrote
             read == mutator[m].read
  <2>1. /\ mutator[m] # Idle /\ read # Idle /\ generation' = read + 1
        /\ ~(read + 1 < generation)
        /\ returnedVersion' = (IF wrote > returnedVersion THEN wrote ELSE returnedVersion)
        /\ mutator' = [mutator EXCEPT ![m] = Idle]
        /\ UNCHANGED <<version, entries, searcher, handed>>
    BY <1>13 DEF Search!BumpWrite, Search!Bumped
  <2>2. read \in Nat /\ wrote \in Nat /\ wrote <= version /\ read <= generation
    BY <1>0, <1>1, <2>1 DEF Mutations, HasRead
  <2>3. \A n \in Mutators : mutator'[n] = IF n = m THEN Idle ELSE mutator[n]
    BY <1>0, <2>1
  <2>4. \A n \in Mutators : HasRead(n)' => n # m /\ HasRead(n) /\ mutator'[n] = mutator[n]
    BY <2>3 DEF HasRead
  <2>5. \A n \in Mutators : HasRead(n) => mutator[n].read \in Nat /\ mutator[n].wrote \in Nat
    BY <1>0 DEF HasRead, Mutations
  <2>6. ASSUME NEW g \in Nat, NEW v, Sees(g, v) PROVE Sees(g, v)'
    <3>1. CASE read + 1 = generation
      <4>1. HasRead(m)
        BY <2>1 DEF HasRead
      <4>2. g = generation => v >= wrote /\ v >= returnedVersion
        BY <2>6, <3>1, <4>1 DEF Sees
      <4> HIDE DEF read, wrote
      <4> QED BY <2>1, <2>4, <2>6, <3>1, <4>2 DEF Sees
    <3>2. CASE read = generation
      <4>1. v \in Nat /\ g <= generation /\ generation' = generation + 1
        BY <2>1, <2>6, <3>2 DEF Sees
      <4>2. g <= generation' /\ g # generation'
        BY <1>0, <4>1
      <4> QED BY <4>1, <4>2 DEF Sees
    <3> QED BY <1>0, <2>1, <2>2, <3>1, <3>2
  <2>7. \A i \in DOMAIN entries : entries[i].key.gen \in Nat
    <3>1. \A i \in DOMAIN entries : entries[i] \in Entries
      BY <1>0
    <3> QED BY <3>1 DEF Entries, SearchKeys
  <2>8. EntriesSee' /\ AnswersAre'
    BY <1>1, <2>1, <2>6, <2>7
  <2>9. \A z \in Searchers : searcher[z] # Idle => searcher[z].key.gen \in Nat /\ searcher[z].owed \in Nat
    BY <1>0 DEF Searches, SearchKeys
  <2> HIDE DEF read, wrote
  <2>10. returnedVersion <= returnedVersion' /\ generation <= generation' /\ returnedVersion' \in Nat /\ generation' \in Nat
    BY <1>0, <2>1, <2>2
  <2>11. ASSUME NEW z \in Searchers PROVE SearcherIs(z)'
    BY <1>0, <1>1, <2>1, <2>6, <2>9, <2>10
  <2>12. MutatorsAre' /\ returnedVersion' <= version'
    BY <1>0, <1>1, <2>1, <2>2, <2>3, <2>4, <2>5, <2>10
  <2> QED BY <1>3, <2>8, <2>11, <2>12
<1>14. CASE Search!WriteElsewhere
  <2>1. version' = version + 1 /\ UNCHANGED <<generation, entries, searcher, mutator, returnedVersion, handed>>
    BY <1>14 DEF Search!WriteElsewhere
  <2>2. \A n \in Mutators : mutator[n] # Idle => mutator[n].wrote \in Nat
    BY <1>0 DEF Mutations
  <2>3. EntriesSee' /\ AnswersAre' /\ \A z \in Searchers : SearcherIs(z)'
    BY <1>1, <2>1 DEF Sees, HasRead
  <2>4. MutatorsAre' /\ returnedVersion' <= version'
    BY <1>0, <1>1, <2>1, <2>2 DEF HasRead
  <2> QED BY <1>3, <2>3, <2>4
<1>15. ASSUME UNCHANGED <<version, generation, searcher, mutator, returnedVersion, handed>>, entries' = entries \/ entries' = <<>>
       PROVE  SearchesAreCurrent'
  <2>1. AnswersAre' /\ (\A z \in Searchers : SearcherIs(z)') /\ MutatorsAre' /\ returnedVersion' <= version'
    BY <1>1, <1>15 DEF Sees, HasRead
  <2>2. EntriesSee'
    BY <1>1, <1>15 DEF Sees, HasRead
  <2> QED BY <1>3, <2>1, <2>2
<1>16. CASE Search!Tick \/ Search!Clear \/ UNCHANGED Search!hvars
  BY <1>15, <1>16 DEF Search!Tick, Search!Clear, Search!hvars
<1> QED BY <1>6, <1>7, <1>8, <1>9, <1>10, <1>11, <1>12, <1>13, <1>14, <1>16 DEF Search!HNext

(* What a bump overwrote and what a caller emptied is on record from then on. *)
LEMMA FaultsStay ==
  ASSUME [Search!HNext]_(Search!hvars)
  PROVE  (meddles' = meddles \/ meddles' = meddles + 1) /\ (backwards => backwards')
<1> DEFINE Counts == (meddles' = meddles \/ meddles' = meddles + 1) /\ (backwards => backwards')
<1>1. ASSUME NEW s \in Searchers, NEW q \in Queries, Search!Hit(s, q) \/ Search!Miss(s, q)
      PROVE  Counts
  BY <1>1 DEF Search!Hit, Search!Miss
<1>2. ASSUME NEW s \in Searchers, Search!Compute(s) \/ Search!Put(s) PROVE Counts
  BY <1>2 DEF Search!Compute, Search!Put
<1>3. ASSUME NEW m \in Mutators, Search!Mutate(m) \/ Search!BumpRead(m) PROVE Counts
  BY <1>3 DEF Search!Mutate, Search!BumpRead
<1>4. ASSUME NEW m \in Mutators, Search!BumpWrite(m) PROVE Counts
  <2>1. backwards' = (backwards \/ Search!Bumped(mutator[m].read) < generation) /\ meddles' = meddles
    BY <1>4 DEF Search!BumpWrite
  <2> QED BY <2>1
<1>5. ASSUME NEW k, Search!Meddle(k) PROVE Counts
  BY <1>5 DEF Search!Meddle
<1>6. CASE Search!WriteElsewhere \/ Search!Tick \/ Search!Clear \/ UNCHANGED Search!hvars
  BY <1>6 DEF Search!WriteElsewhere, Search!Tick, Search!Clear, Search!hvars
<1> QED BY <1>1, <1>2, <1>3, <1>4, <1>5, <1>6 DEF Search!HNext

(* A search that began after a mutation returned answers at least what it wrote, unless two *)
(* bumps overlapped and the generation went back, or a caller changed a list it was given;  *)
(* the cache keeps its capacity and one entry a key.                                        *)
THEOREM SearchesAlwaysSeeReturnedMutations ==
  ASSUME IdleIsApart, Capacity \in Nat PROVE Search!HSpec => []Search!SearchesSeeReturnedMutations
<1>1. Search!HInit => SearchInv
  <2> SUFFICES ASSUME Search!HInit PROVE SearchInv
    OBVIOUS
  <2>1. /\ version = 0 /\ generation = 0 /\ entries = <<>> /\ clock = 0 /\ returnedVersion = 0 /\ backwards = FALSE
        /\ handed = <<>> /\ meddles = 0
        /\ searcher = [s \in Searchers |-> Idle] /\ mutator = [m \in Mutators |-> Idle]
    BY DEF Search!HInit
  <2>2. SearchIsTyped
    <3>1. entries \in Seq(Entries) /\ KeysApart(entries) /\ Len(entries) <= Capacity
      BY <2>1 DEF KeysApart
    <3>2. handed \in Seq([value : Nat \union {NoHits}, owed : Nat, shares : Nat])
      BY <2>1
    <3> QED BY <2>1, <3>1, <3>2 DEF SearchIsTyped
  <2>3. SearchesAreCurrent
    BY <2>1 DEF SearchesAreCurrent, HasRead
  <2> QED BY <2>2, <2>3 DEF SearchInv
<1>2. SearchInv /\ [Search!HNext]_(Search!hvars) => SearchInv'
  <2> SUFFICES ASSUME SearchInv, [Search!HNext]_(Search!hvars) PROVE SearchInv'
    OBVIOUS
  <2>1. SearchIsTyped /\ SearchIsTyped'
    BY SearchStaysTyped DEF SearchInv
  <2>2. (meddles' = meddles \/ meddles' = meddles + 1) /\ (backwards => backwards')
    BY FaultsStay
  <2>3. meddles \in Nat
    BY <2>1 DEF SearchIsTyped
  <2>4. ~backwards' /\ meddles' = 0 => ~backwards /\ meddles = 0
    BY <2>2, <2>3
  <2> QED BY <2>1, <2>4, SearchStaysCurrent DEF SearchInv
<1>3. SearchInv => Search!SearchesSeeReturnedMutations
  BY DEF SearchInv, SearchIsTyped, SearchesAreCurrent, KeysApart, Search!SearchesSeeReturnedMutations
<1> QED BY <1>1, <1>2, <1>3, PTL DEF Search!HSpec

-----------------------------------------------------------------------------
(* The shared search index of a process. *)
CONSTANTS Docs, Seekers, MaxDocVersion, Trusted, Expires, MaxRestarts, NoIndex
VARIABLES seeker, corpusIndex, indexGen, verified, tokens, owing, toldOf, restarts, deleted, noted, overtaken

Corpus == INSTANCE CorpusIndex WITH
  Searchers <- Seekers, MaxVersion <- MaxDocVersion, searcher <- seeker,
  Ttl <- Expires, gen <- generation, index <- corpusIndex, disk <- tokens, owed <- owing,
  told <- toldOf, gone <- deleted, pending <- noted, raced <- overtaken

VersionMaps == [Docs -> Nat]
CorpusIndexes == [stat : VersionMaps, body : VersionMaps]
CorpusCalls ==
  [at : {"idle", "observe", "scan", "check", "decide", "build", "publish", "mark", "answered"},
   begun : {0} \cup VersionMaps, told : {0} \cup VersionMaps, items : {0} \cup VersionMaps,
   gen : Nat, pending : SUBSET Docs, missed : BOOLEAN, result : {NoIndex} \cup CorpusIndexes,
   scanned : BOOLEAN, excused : BOOLEAN]

(* A version a document has had; a deleted one, until its last deletion. *)
WasVersion(d, v) == v <= version[d] /\ (~Corpus!Present(v) => v <= deleted[d])
(* An index has, of every document, a body it once had: of the stat or a later one, *)
(* and of a document the stat did not find, none.                                   *)
IsSound(i) ==
  \A d \in Docs : /\ WasVersion(d, i.body[d])
                  /\ IF Corpus!Present(i.stat[d]) THEN i.stat[d] <= i.body[d] ELSE ~Corpus!Present(i.body[d])
(* A body of a document is that of a sound index of the same stat. *)
SoundBody(d, text, item) ==
  \E i \in CorpusIndexes : IsSound(i) /\ text = i.body[d] /\ i.stat[d] = Corpus!Stat(item)
HasScanned(c) == c.at \in {"check", "decide", "build", "publish"}
HasResult(c) == c.at \in {"mark", "answered"}

CorpusTyped ==
  /\ version \in VersionMaps /\ toldOf \in VersionMaps /\ deleted \in VersionMaps
  /\ generation \in Nat /\ indexGen \in Nat /\ noted \subseteq Docs /\ owing \subseteq Docs /\ overtaken \in BOOLEAN
  /\ corpusIndex \in {NoIndex} \cup CorpusIndexes /\ tokens \in {NoIndex} \cup CorpusIndexes
  /\ seeker \in [Seekers -> CorpusCalls]
DocsAreTold == \A d \in Docs : toldOf[d] <= version[d] /\ deleted[d] <= version[d] /\ WasVersion(d, version[d])
IndexesAreSound == (corpusIndex # NoIndex => IsSound(corpusIndex)) /\ (tokens # NoIndex => IsSound(tokens))
(* An index of the current generation shows what was reported. *)
IndexKeepsUp ==
  /\ indexGen <= generation
  /\ (corpusIndex # NoIndex /\ indexGen = generation /\ ~overtaken) => \A d \in Docs : Corpus!Shows(corpusIndex, d, toldOf[d])
CallIsSound(c) ==
  /\ c.gen <= generation
  /\ c.at \in {"observe", "scan", "check"} => ~c.missed
  /\ c.at # "idle" => /\ c.begun \in VersionMaps /\ c.told \in VersionMaps
                      /\ \A d \in Docs : c.told[d] <= c.begun[d] /\ c.begun[d] <= version[d]
  /\ HasScanned(c) => /\ c.items \in VersionMaps
                      /\ \A d \in Docs : c.begun[d] <= c.items[d] /\ WasVersion(d, c.items[d])
                      /\ (c.gen = generation /\ ~c.missed) => \A d \in Docs : toldOf[d] <= c.items[d]
  /\ c.at = "publish" => c.result \in CorpusIndexes /\ IsSound(c.result) /\ c.result.stat = Corpus!Stats(c.items)
  /\ HasResult(c) => /\ c.scanned => \A d \in Docs : Corpus!Shows(c.result, d, c.begun[d])
                     /\ c.excused \/ \A d \in Docs : Corpus!Shows(c.result, d, c.told[d])
                     /\ c.result \in CorpusIndexes
CorpusInv ==
  /\ CorpusTyped /\ DocsAreTold /\ IndexesAreSound /\ IndexKeepsUp
  /\ \A s \in Seekers : CallIsSound(seeker[s])

LEMMA IdleCall ==
  /\ Corpus!Idle \in CorpusCalls /\ Corpus!Idle.at = "idle" /\ Corpus!Idle.gen = 0 /\ Corpus!Idle.missed = FALSE
  /\ \A c, i, scanned : Corpus!Answer(c, i, scanned) =
       [Corpus!Idle EXCEPT !.at = "answered", !.begun = c.begun, !.told = c.told, !.result = i,
                           !.scanned = scanned, !.excused = overtaken]
<1>1. Corpus!Idle \in CorpusCalls /\ Corpus!Idle.at = "idle" /\ Corpus!Idle.gen = 0 /\ Corpus!Idle.missed = FALSE
  BY DEF Corpus!Idle, CorpusCalls
<1> QED BY <1>1 DEF Corpus!Answer

LEMMA AnswerFields ==
  ASSUME NEW c, c.begun \in VersionMaps, c.told \in VersionMaps, NEW i \in CorpusIndexes, NEW scanned \in BOOLEAN,
         overtaken \in BOOLEAN
  PROVE  LET answer == Corpus!Answer(c, i, scanned)
         IN  /\ answer \in CorpusCalls /\ answer.at = "answered" /\ answer.gen = 0 /\ answer.begun = c.begun
             /\ answer.told = c.told /\ answer.result = i /\ answer.scanned = scanned /\ answer.excused = overtaken
<1>1. PICK r \in CorpusCalls : r = Corpus!Idle /\ r.gen = 0
  BY IdleCall
<1>2. Corpus!Answer(c, i, scanned) = [r EXCEPT !.at = "answered", !.begun = c.begun, !.told = c.told, !.result = i,
                                               !.scanned = scanned, !.excused = overtaken]
  BY <1>1, IdleCall
<1>3. PICK begun \in VersionMaps, told \in VersionMaps : begun = c.begun /\ told = c.told
  OBVIOUS
<1> DEFINE e == [r EXCEPT !.at = "answered", !.begun = begun, !.told = told, !.result = i,
                          !.scanned = scanned, !.excused = overtaken]
<1>4. e \in CorpusCalls
  BY DEF CorpusCalls
<1>5. /\ e.at = "answered" /\ e.gen = 0 /\ e.begun = begun /\ e.told = told /\ e.result = i
      /\ e.scanned = scanned /\ e.excused = overtaken
  BY <1>1 DEF CorpusCalls
<1> QED BY <1>2, <1>3, <1>4, <1>5

(* What an index shows of a version it shows of an earlier one. *)
LEMMA ShowsEarlier ==
  ASSUME NEW i \in CorpusIndexes, NEW d \in Docs, deleted[d] \in Nat, NEW a \in Nat, NEW b \in Nat, a <= b,
         Corpus!Shows(i, d, b)
  PROVE  Corpus!Shows(i, d, a)
<1>1. i.body[d] \in Nat
  BY DEF CorpusIndexes, VersionMaps
<1> QED BY <1>1 DEF Corpus!Shows

(* A sound index of a scan shows every document as the scan found it. *)
LEMMA SoundShows ==
  ASSUME NEW i \in CorpusIndexes, deleted \in VersionMaps, IsSound(i), NEW items \in VersionMaps,
         \A d \in Docs : WasVersion(d, items[d]), i.stat = Corpus!Stats(items)
  PROVE  \A d \in Docs : Corpus!Shows(i, d, items[d])
<1> SUFFICES ASSUME NEW d \in Docs PROVE Corpus!Shows(i, d, items[d])
  OBVIOUS
<1>1. i.body[d] \in Nat /\ items[d] \in Nat /\ deleted[d] \in Nat
  BY DEF CorpusIndexes, VersionMaps
<1>2. i.stat[d] = IF Corpus!Present(items[d]) THEN items[d] ELSE 0
  BY DEF Corpus!Stats, Corpus!Stat
<1>3. ~Corpus!Present(0)
  BY DEF Corpus!Present
<1>4. IF Corpus!Present(i.stat[d]) THEN i.stat[d] <= i.body[d] ELSE ~Corpus!Present(i.body[d])
  BY DEF IsSound
<1>5. ~Corpus!Present(items[d]) => items[d] <= deleted[d]
  BY DEF WasVersion
<1> QED BY <1>1, <1>2, <1>3, <1>4, <1>5 DEF Corpus!Shows

(* An index made of a scan is sound when each body is that of a sound index of the *)
(* same stat, the text as it is now, or nothing for a document the scan missed.    *)
LEMMA MadeIsSound ==
  ASSUME version \in VersionMaps, deleted \in VersionMaps, DocsAreTold, NEW items \in VersionMaps,
         NEW body \in [Docs -> Nat],
         \A d \in Docs : WasVersion(d, items[d]),
         \A d \in Docs : \/ ~Corpus!Present(items[d]) /\ body[d] = items[d]
                         \/ Corpus!Present(items[d]) /\ body[d] = version[d]
                         \/ SoundBody(d, body[d], items[d])
  PROVE  /\ Corpus!Index(items, body) \in CorpusIndexes /\ IsSound(Corpus!Index(items, body))
         /\ Corpus!Index(items, body).stat = Corpus!Stats(items)
<1> DEFINE new == Corpus!Index(items, body)
<1>1. new = [stat |-> Corpus!Stats(items), body |-> body]
  BY DEF Corpus!Index
<1>2. Corpus!Stats(items) \in VersionMaps /\ \A d \in Docs : Corpus!Stats(items)[d] = Corpus!Stat(items[d])
  BY DEF Corpus!Stats, Corpus!Stat, VersionMaps
<1>3. new \in CorpusIndexes /\ new.stat = Corpus!Stats(items) /\ new.body = body
  BY <1>1, <1>2 DEF CorpusIndexes, VersionMaps
<1>4. ~Corpus!Present(0)
  BY DEF Corpus!Present
<1>5. ASSUME NEW d \in Docs
      PROVE  /\ WasVersion(d, body[d])
             /\ IF Corpus!Present(Corpus!Stat(items[d])) THEN Corpus!Stat(items[d]) <= body[d] ELSE ~Corpus!Present(body[d])
  <2>1. items[d] \in Nat /\ body[d] \in Nat /\ version[d] \in Nat /\ deleted[d] \in Nat
    BY DEF VersionMaps
  <2>2. WasVersion(d, items[d]) /\ WasVersion(d, version[d]) /\ items[d] <= version[d]
    BY DEF DocsAreTold, WasVersion
  <2>3. Corpus!Stat(items[d]) = IF Corpus!Present(items[d]) THEN items[d] ELSE 0
    BY DEF Corpus!Stat
  <2>4. CASE ~Corpus!Present(items[d]) /\ body[d] = items[d]
    BY <1>4, <2>2, <2>3, <2>4
  <2>5. CASE Corpus!Present(items[d]) /\ body[d] = version[d]
    BY <2>1, <2>2, <2>3, <2>5
  <2>6. CASE SoundBody(d, body[d], items[d])
    <3>1. PICK i \in CorpusIndexes : IsSound(i) /\ body[d] = i.body[d] /\ i.stat[d] = Corpus!Stat(items[d])
      BY <2>6 DEF SoundBody
    <3>2. /\ WasVersion(d, i.body[d])
          /\ IF Corpus!Present(i.stat[d]) THEN i.stat[d] <= i.body[d] ELSE ~Corpus!Present(i.body[d])
      BY <3>1 DEF IsSound
    <3> QED BY <3>1, <3>2
  <2> QED BY <2>4, <2>5, <2>6
<1>6. IsSound(new)
  BY <1>2, <1>3, <1>5 DEF IsSound
<1> QED BY <1>3, <1>6

(* A call in progress stays sound while versions, deletions and reports only grow *)
(* and nothing was reported in its generation.                                     *)
LEMMA CallsStaySound ==
  ASSUME CorpusTyped, CorpusTyped',
         \A d \in Docs : version[d] <= version'[d] /\ deleted[d] <= deleted'[d],
         generation <= generation', generation' = generation => toldOf' = toldOf,
         NEW c \in CorpusCalls, CallIsSound(c)
  PROVE  CallIsSound(c)'
<1>1. \A d \in Docs : /\ version[d] \in Nat /\ version'[d] \in Nat /\ deleted[d] \in Nat /\ deleted'[d] \in Nat
                      /\ toldOf[d] \in Nat /\ toldOf'[d] \in Nat
  BY DEF CorpusTyped, VersionMaps
<1>2. generation \in Nat /\ generation' \in Nat /\ c.gen \in Nat
  BY DEF CorpusTyped, CorpusCalls
<1>3. \A d \in Docs, v \in Nat : WasVersion(d, v) => WasVersion(d, v)'
  BY <1>1 DEF WasVersion
<1>4. \A i \in CorpusIndexes : IsSound(i) => IsSound(i)'
  <2> SUFFICES ASSUME NEW i \in CorpusIndexes, IsSound(i) PROVE IsSound(i)'
    OBVIOUS
  <2>1. \A d \in Docs : i.body[d] \in Nat
    BY DEF CorpusIndexes, VersionMaps
  <2> QED BY <1>3, <2>1 DEF IsSound
<1>5. \A i \in CorpusIndexes, d \in Docs, v \in Nat : Corpus!Shows(i, d, v) => Corpus!Shows(i, d, v)'
  BY <1>1 DEF Corpus!Shows
<1>6. (c.gen <= generation)'
  BY <1>2 DEF CallIsSound
<1>7. ASSUME c.at # "idle"
      PROVE  /\ c.begun \in VersionMaps /\ c.told \in VersionMaps
             /\ \A d \in Docs : c.told[d] <= c.begun[d] /\ c.begun[d] <= version'[d]
  <2>1. /\ c.begun \in VersionMaps /\ c.told \in VersionMaps
        /\ \A d \in Docs : c.told[d] <= c.begun[d] /\ c.begun[d] <= version[d]
    BY <1>7 DEF CallIsSound
  <2>2. \A d \in Docs : c.begun[d] \in Nat
    BY <2>1 DEF VersionMaps
  <2> QED BY <1>1, <2>1, <2>2
<1>8. ASSUME HasScanned(c)
      PROVE  /\ c.items \in VersionMaps
             /\ \A d \in Docs : c.begun[d] <= c.items[d] /\ WasVersion(d, c.items[d])'
             /\ (c.gen = generation' /\ ~c.missed) => \A d \in Docs : toldOf'[d] <= c.items[d]
  <2>1. /\ c.items \in VersionMaps
        /\ \A d \in Docs : c.begun[d] <= c.items[d] /\ WasVersion(d, c.items[d])
        /\ (c.gen = generation /\ ~c.missed) => \A d \in Docs : toldOf[d] <= c.items[d]
    BY <1>8 DEF CallIsSound
  <2>2. \A d \in Docs : c.items[d] \in Nat
    BY <2>1 DEF VersionMaps
  <2>3. c.gen = generation' => generation' = generation
    BY <1>2 DEF CallIsSound
  <2> QED BY <1>3, <2>1, <2>2, <2>3
<1>9. c.at = "publish" => c.result \in CorpusIndexes /\ IsSound(c.result)' /\ c.result.stat = Corpus!Stats(c.items)
  BY <1>4 DEF CallIsSound
<1>10. ASSUME HasResult(c)
       PROVE  /\ c.scanned => \A d \in Docs : Corpus!Shows(c.result, d, c.begun[d])'
              /\ c.excused \/ \A d \in Docs : Corpus!Shows(c.result, d, c.told[d])'
              /\ c.result \in CorpusIndexes
  <2>1. c.at # "idle"
    BY <1>10 DEF HasResult
  <2>2. \A d \in Docs : c.begun[d] \in Nat /\ c.told[d] \in Nat
    BY <1>7, <2>1 DEF VersionMaps
  <2> QED BY <1>5, <1>10, <2>2 DEF CallIsSound
<1> QED
  <2>1. Corpus!Stats(c.items)' = Corpus!Stats(c.items)
    BY DEF Corpus!Stats, Corpus!Stat, Corpus!Present
  <2>2. (HasScanned(c)' <=> HasScanned(c)) /\ (HasResult(c)' <=> HasResult(c))
    BY DEF HasScanned, HasResult
  <2> QED BY <1>6, <1>7, <1>8, <1>9, <1>10, <2>1, <2>2 DEF CallIsSound

(* What a call answers that scanned, an index sound and of its scan, is sound. *)
LEMMA FinishedIsSound ==
  ASSUME CorpusTyped, NEW s \in Seekers, NEW c \in CorpusCalls, c = seeker[s], HasScanned(c), CallIsSound(c),
         NEW i \in CorpusIndexes, IsSound(i), i.stat = Corpus!Stats(c.items), Corpus!Finish(s, i)
  PROVE  \E turn \in CorpusCalls : Corpus!Goes(s, turn) /\ CallIsSound(turn)
<1> DEFINE answer == Corpus!Answer(c, i, TRUE)
           turn == IF s \in Trusted THEN [answer EXCEPT !.at = "mark"] ELSE answer
<1>1. Corpus!Goes(s, turn)
  BY DEF Corpus!Finish
<1>2. /\ c.begun \in VersionMaps /\ c.told \in VersionMaps /\ c.items \in VersionMaps
      /\ \A d \in Docs : /\ c.told[d] <= c.begun[d] /\ c.begun[d] <= version[d] /\ c.begun[d] <= c.items[d]
                         /\ WasVersion(d, c.items[d])
  BY DEF HasScanned, CallIsSound
<1>3. \A d \in Docs : c.told[d] \in Nat /\ c.begun[d] \in Nat /\ c.items[d] \in Nat /\ deleted[d] \in Nat
  BY <1>2 DEF VersionMaps, CorpusTyped
<1>4. \A d \in Docs : Corpus!Shows(i, d, c.items[d])
  BY <1>2, SoundShows DEF CorpusTyped
<1>5. \A d \in Docs : Corpus!Shows(i, d, c.begun[d])
  BY <1>2, <1>3, <1>4, ShowsEarlier
<1>6. \A d \in Docs : Corpus!Shows(i, d, c.told[d])
  BY <1>2, <1>3, <1>5, ShowsEarlier
<1>7. /\ answer \in CorpusCalls /\ answer.at = "answered" /\ answer.gen = 0 /\ answer.begun = c.begun
      /\ answer.told = c.told /\ answer.result = i
  BY <1>2, AnswerFields DEF CorpusTyped
<1> HIDE DEF answer
<1>8. /\ turn \in CorpusCalls /\ turn.at \in {"mark", "answered"} /\ turn.gen = 0 /\ turn.begun = c.begun
      /\ turn.told = c.told /\ turn.result = i
  BY <1>7 DEF CorpusCalls
<1> HIDE DEF turn
<1>9. CallIsSound(turn)
  <2>1. generation \in Nat
    BY DEF CorpusTyped
  <2>2. ~HasScanned(turn) /\ turn.at # "publish"
    BY <1>8 DEF HasScanned
  <2> QED BY <1>2, <1>5, <1>6, <1>8, <2>1, <2>2 DEF CallIsSound
<1> QED BY <1>1, <1>8, <1>9

(* A call that ends in a sound state, with an index as sound and as fresh as *)
(* before, keeps the invariant.                                              *)
LEMMA CallsKeep ==
  ASSUME CorpusInv, NEW s \in Seekers, NEW turn \in CorpusCalls, CallIsSound(turn), Corpus!Goes(s, turn),
         generation' = generation, noted' \subseteq Docs, overtaken' \in BOOLEAN,
         corpusIndex' \in {NoIndex} \cup CorpusIndexes, tokens' \in {NoIndex} \cup CorpusIndexes,
         corpusIndex' # NoIndex => IsSound(corpusIndex'), tokens' # NoIndex => IsSound(tokens'),
         indexGen' \in Nat, indexGen' <= generation,
         (corpusIndex' # NoIndex /\ indexGen' = generation /\ ~overtaken')
           => \A d \in Docs : Corpus!Shows(corpusIndex', d, toldOf[d])
  PROVE  CorpusInv'
<1>1. /\ seeker' = [seeker EXCEPT ![s] = turn]
      /\ version' = version /\ owing' = owing /\ toldOf' = toldOf /\ deleted' = deleted
  BY DEF Corpus!Goes
<1>2. CorpusTyped'
  BY <1>1 DEF CorpusInv, CorpusTyped
<1>3. DocsAreTold'
  BY <1>1 DEF CorpusInv, DocsAreTold, WasVersion
<1>4. IndexesAreSound' /\ IndexKeepsUp'
  <2>1. IndexesAreSound'
    BY <1>1 DEF IndexesAreSound, IsSound, WasVersion
  <2>2. IndexKeepsUp'
    BY <1>1 DEF IndexKeepsUp, Corpus!Shows
  <2> QED BY <2>1, <2>2
<1>5. ASSUME NEW r \in Seekers PROVE CallIsSound(seeker[r])'
  <2> DEFINE c == IF r = s THEN turn ELSE seeker[r]
  <2>1. c \in CorpusCalls /\ CallIsSound(c) /\ seeker'[r] = c
    BY <1>1 DEF CorpusInv, CorpusTyped
  <2>2. \A d \in Docs : version[d] <= version'[d] /\ deleted[d] <= deleted'[d]
    BY <1>1 DEF CorpusInv, CorpusTyped, VersionMaps
  <2>3. generation <= generation'
    BY DEF CorpusInv, CorpusTyped
  <2>4. CorpusTyped
    BY DEF CorpusInv
  <2> HIDE DEF c
  <2>5. PICK k \in CorpusCalls : k = c
    BY <2>1
  <2>6. CallIsSound(k)'
    BY <1>1, <1>2, <2>1, <2>2, <2>3, <2>4, <2>5, CallsStaySound
  <2> QED BY <2>1, <2>5, <2>6
<1> QED BY <1>2, <1>3, <1>4, <1>5 DEF CorpusInv

(* A call that touches nothing else of the process. *)
LEMMA LookersKeep ==
  ASSUME CorpusInv, NEW s \in Seekers, NEW turn \in CorpusCalls, CallIsSound(turn), Corpus!Goes(s, turn),
         generation' = generation, noted' = noted, overtaken' = overtaken, corpusIndex' = corpusIndex,
         indexGen' = indexGen, tokens' \in {NoIndex} \cup CorpusIndexes, tokens' # NoIndex => IsSound(tokens')
  PROVE  CorpusInv'
BY CallsKeep DEF CorpusInv, CorpusTyped, IndexesAreSound, IndexKeepsUp

(* The publication of an index of a call's scan. *)
LEMMA PublicationsKeep ==
  ASSUME CorpusInv, NEW s \in Seekers, NEW c \in CorpusCalls, c = seeker[s], HasScanned(c),
         NEW i \in CorpusIndexes, IsSound(i), i.stat = Corpus!Stats(c.items), Corpus!Finish(s, i),
         Corpus!Publish(c, i), generation' = generation, noted' \subseteq Docs, tokens' = tokens
  PROVE  CorpusInv'
<1>1. CallIsSound(c) /\ CorpusTyped
  BY DEF CorpusInv
<1>2. PICK turn \in CorpusCalls : Corpus!Goes(s, turn) /\ CallIsSound(turn)
  BY <1>1, FinishedIsSound
<1>3. corpusIndex' = i /\ indexGen' = c.gen /\ overtaken' = c.missed
  BY DEF Corpus!Publish
<1>4. /\ c.items \in VersionMaps /\ c.gen <= generation /\ c.gen \in Nat /\ c.missed \in BOOLEAN
      /\ \A d \in Docs : WasVersion(d, c.items[d])
      /\ (c.gen = generation /\ ~c.missed) => \A d \in Docs : toldOf[d] <= c.items[d]
  BY <1>1 DEF CallIsSound, CorpusCalls
<1>5. \A d \in Docs : Corpus!Shows(i, d, c.items[d])
  BY <1>1, <1>4, SoundShows DEF CorpusTyped
<1>6. \A d \in Docs : toldOf[d] \in Nat /\ c.items[d] \in Nat /\ deleted[d] \in Nat
  BY <1>1, <1>4 DEF CorpusTyped, VersionMaps
<1>7. (c.gen = generation /\ ~c.missed) => \A d \in Docs : Corpus!Shows(i, d, toldOf[d])
  BY <1>4, <1>5, <1>6, ShowsEarlier
<1>8. tokens' \in {NoIndex} \cup CorpusIndexes /\ (tokens' # NoIndex => IsSound(tokens'))
  BY DEF CorpusInv, CorpusTyped, IndexesAreSound
<1> QED BY <1>2, <1>3, <1>4, <1>7, <1>8, CallsKeep

LEMMA BeginKeeps == ASSUME CorpusInv, NEW s \in Seekers, Corpus!Begin(s) PROVE CorpusInv'
<1> DEFINE c == [Corpus!Idle EXCEPT !.begun = version, !.told = toldOf]
           answer == Corpus!Answer(c, corpusIndex, FALSE)
           wait == [c EXCEPT !.at = IF s \in Trusted THEN "scan" ELSE "observe"]
<1>1. CorpusTyped /\ DocsAreTold /\ IndexesAreSound /\ IndexKeepsUp
  BY DEF CorpusInv
<1>2. UNCHANGED <<generation, noted, corpusIndex, indexGen, overtaken, tokens>>
  BY DEF Corpus!Begin, Corpus!process
<1>3. tokens \in {NoIndex} \cup CorpusIndexes /\ (tokens # NoIndex => IsSound(tokens))
  BY <1>1 DEF CorpusTyped, IndexesAreSound
<1>4. /\ version \in VersionMaps /\ toldOf \in VersionMaps /\ generation \in Nat /\ overtaken \in BOOLEAN
      /\ \A d \in Docs : toldOf[d] <= version[d] /\ version[d] <= version[d]
      /\ \A d \in Docs : version[d] \in Nat
  BY <1>1 DEF CorpusTyped, DocsAreTold, VersionMaps
<1>5. c \in CorpusCalls /\ c.gen = 0 /\ c.begun = version /\ c.told = toldOf /\ c.missed = FALSE
  <2>1. PICK r \in CorpusCalls : r = Corpus!Idle /\ r.gen = 0 /\ r.missed = FALSE
    BY IdleCall
  <2>2. [r EXCEPT !.begun = version, !.told = toldOf] \in CorpusCalls
    BY <1>4 DEF CorpusCalls
  <2>3. LET e == [r EXCEPT !.begun = version, !.told = toldOf]
        IN  e.gen = 0 /\ e.begun = version /\ e.told = toldOf /\ e.missed = FALSE
    BY <2>1 DEF CorpusCalls
  <2> QED BY <2>1, <2>2, <2>3
<1> HIDE DEF c
<1>6. CASE /\ corpusIndex # NoIndex /\ indexGen = generation
           /\ Corpus!Goes(s, answer)
  <2>1. corpusIndex \in CorpusIndexes /\ (~overtaken => \A d \in Docs : Corpus!Shows(corpusIndex, d, toldOf[d]))
    BY <1>1, <1>6 DEF CorpusTyped, IndexKeepsUp
  <2>2. /\ answer \in CorpusCalls /\ answer.at = "answered" /\ answer.gen = 0 /\ answer.begun = version
        /\ answer.told = toldOf /\ answer.result = corpusIndex /\ answer.scanned = FALSE /\ answer.excused = overtaken
    BY <1>4, <1>5, <2>1, AnswerFields
  <2> HIDE DEF answer
  <2>3. CallIsSound(answer)
    <3>1. answer.at # "idle" /\ ~HasScanned(answer) /\ answer.at # "publish" /\ HasResult(answer) /\ answer.gen <= generation
      BY <1>4, <2>2 DEF HasScanned, HasResult
    <3> QED BY <1>4, <2>1, <2>2, <3>1 DEF CallIsSound
  <2> QED BY <1>2, <1>3, <1>6, <2>2, <2>3, LookersKeep
<1>7. CASE Corpus!Goes(s, wait)
  <2>1. /\ wait \in CorpusCalls /\ wait.at \in {"scan", "observe"} /\ wait.gen = 0 /\ wait.begun = version
        /\ wait.told = toldOf /\ wait.missed = FALSE
    BY <1>5 DEF CorpusCalls
  <2> HIDE DEF wait
  <2>2. CallIsSound(wait)
    BY <1>4, <2>1 DEF CallIsSound, HasScanned, HasResult
  <2> QED BY <1>2, <1>3, <1>7, <2>1, <2>2, LookersKeep
<1> QED BY <1>6, <1>7 DEF Corpus!Begin, c

LEMMA ScanKeeps == ASSUME CorpusInv, NEW s \in Seekers, Corpus!Observe(s) \/ Corpus!Scan(s) PROVE CorpusInv'
<1>1. CorpusTyped /\ DocsAreTold /\ IndexesAreSound /\ IndexKeepsUp /\ CallIsSound(seeker[s])
  BY DEF CorpusInv
<1>2. UNCHANGED <<generation, noted, corpusIndex, indexGen, overtaken, tokens>>
  BY DEF Corpus!Observe, Corpus!Scan, Corpus!process
<1>3. tokens \in {NoIndex} \cup CorpusIndexes /\ (tokens # NoIndex => IsSound(tokens))
  BY <1>1 DEF CorpusTyped, IndexesAreSound
<1> DEFINE c == seeker[s]
<1>4. /\ c \in CorpusCalls /\ version \in VersionMaps /\ generation \in Nat /\ noted \subseteq Docs
      /\ \A d \in Docs : toldOf[d] <= version[d] /\ WasVersion(d, version[d])
  BY <1>1 DEF CorpusTyped, DocsAreTold
<1>5. c.at \in {"observe", "scan"}
  BY DEF Corpus!Observe, Corpus!Scan
<1>6. /\ c.begun \in VersionMaps /\ c.told \in VersionMaps /\ c.gen <= generation /\ ~c.missed
      /\ \A d \in Docs : c.told[d] <= c.begun[d] /\ c.begun[d] <= version[d]
  BY <1>1, <1>5 DEF CallIsSound
<1>7. ASSUME NEW turn \in CorpusCalls, Corpus!Goes(s, turn), turn.gen <= generation,
             turn.begun = c.begun, turn.told = c.told, turn.missed = c.missed,
             turn.at = "scan" \/ (turn.at \in {"check", "decide"} /\ turn.items = version)
      PROVE  CorpusInv'
  <2>1. turn.at # "idle" /\ turn.at # "publish" /\ ~HasResult(turn) /\ (HasScanned(turn) => turn.items = version)
    BY <1>7 DEF HasScanned, HasResult
  <2>2. CallIsSound(turn)
    BY <1>4, <1>6, <1>7, <2>1 DEF CallIsSound
  <2> QED BY <1>2, <1>3, <1>7, <2>2, LookersKeep
<1>8. CASE Corpus!Observe(s)
  <2> DEFINE turn == [c EXCEPT !.at = "scan", !.gen = generation, !.pending = noted]
  <2>1. Corpus!Goes(s, turn)
    BY <1>8 DEF Corpus!Observe
  <2>2. /\ turn \in CorpusCalls /\ turn.gen = generation /\ turn.begun = c.begun /\ turn.told = c.told /\ turn.missed = c.missed
        /\ turn.at = "scan"
    <3>1. PICK r \in CorpusCalls : r = c
      BY <1>4
    <3>2. [r EXCEPT !.at = "scan", !.gen = generation, !.pending = noted] \in CorpusCalls
      BY <1>4 DEF CorpusCalls
    <3>3. LET e == [r EXCEPT !.at = "scan", !.gen = generation, !.pending = noted]
          IN  e.gen = generation /\ e.begun = r.begun /\ e.told = r.told /\ e.missed = r.missed /\ e.at = "scan"
      BY DEF CorpusCalls
    <3> QED BY <3>1, <3>2, <3>3
  <2>3. turn.gen <= generation
    BY <1>4, <2>2
  <2> HIDE DEF turn
  <2> QED BY <1>7, <2>1, <2>2, <2>3
<1>9. CASE Corpus!Scan(s)
  <2> DEFINE turn == IF s \in Trusted THEN [c EXCEPT !.at = "check", !.items = version, !.gen = generation]
                     ELSE [c EXCEPT !.at = "decide", !.items = version]
  <2>1. Corpus!Goes(s, turn)
    BY <1>9 DEF Corpus!Scan
  <2>2. /\ turn \in CorpusCalls /\ turn.gen <= generation /\ turn.begun = c.begun /\ turn.told = c.told /\ turn.missed = c.missed
        /\ turn.at \in {"check", "decide"} /\ turn.items = version
    <3>1. PICK r \in CorpusCalls : r = c
      BY <1>4
    <3> DEFINE e == [r EXCEPT !.at = "check", !.items = version, !.gen = generation]
               f == [r EXCEPT !.at = "decide", !.items = version]
    <3>2. e \in CorpusCalls /\ f \in CorpusCalls
      BY <1>4 DEF CorpusCalls
    <3>3. e.gen = generation /\ e.begun = r.begun /\ e.told = r.told /\ e.missed = r.missed /\ e.at = "check" /\ e.items = version
      BY DEF CorpusCalls
    <3>4. f.gen = r.gen /\ f.begun = r.begun /\ f.told = r.told /\ f.missed = r.missed /\ f.at = "decide" /\ f.items = version
      BY DEF CorpusCalls
    <3>5. turn = IF s \in Trusted THEN e ELSE f
      BY <3>1
    <3> HIDE DEF turn, e, f
    <3> QED BY <1>4, <1>6, <3>1, <3>2, <3>3, <3>4, <3>5
  <2> HIDE DEF turn
  <2> QED BY <1>7, <2>1, <2>2
<1> QED BY <1>8, <1>9

LEMMA CheckKeeps == ASSUME CorpusInv, NEW s \in Seekers, Corpus!Check(s) PROVE CorpusInv'
<1> DEFINE c == seeker[s]
           turn == [c EXCEPT !.at = "decide", !.gen = generation, !.pending = noted, !.missed = (c.gen # generation)]
<1>1. CorpusTyped /\ DocsAreTold /\ IndexesAreSound /\ CallIsSound(c) /\ c \in CorpusCalls
  BY DEF CorpusInv, CorpusTyped
<1>2. UNCHANGED <<generation, noted, corpusIndex, indexGen, overtaken, tokens>>
  BY DEF Corpus!Check, Corpus!process
<1>3. tokens \in {NoIndex} \cup CorpusIndexes /\ (tokens # NoIndex => IsSound(tokens))
  BY <1>1 DEF CorpusTyped, IndexesAreSound
<1>4. c.at = "check" /\ HasScanned(c)
  BY DEF Corpus!Check, HasScanned
<1>5. CASE Corpus!Matches(corpusIndex, c.items) /\ Corpus!Finish(s, corpusIndex)
  <2>1. /\ corpusIndex \in CorpusIndexes /\ IsSound(corpusIndex) /\ corpusIndex.stat = Corpus!Stats(c.items)
    BY <1>1, <1>5 DEF Corpus!Matches, CorpusTyped, IndexesAreSound
  <2>2. PICK k \in CorpusCalls : Corpus!Goes(s, k) /\ CallIsSound(k)
    BY <1>1, <1>4, <1>5, <2>1, FinishedIsSound
  <2> QED BY <1>2, <1>3, <2>2, LookersKeep
<1>6. CASE Corpus!Goes(s, turn)
  <2>1. /\ turn \in CorpusCalls /\ turn.at = "decide" /\ turn.gen = generation /\ turn.items = c.items
        /\ turn.begun = c.begun /\ turn.told = c.told /\ (~turn.missed => c.gen = generation)
    BY <1>1 DEF CorpusCalls, CorpusTyped
  <2>3. generation \in Nat
    BY <1>1 DEF CorpusTyped
  <2> HIDE DEF turn
  <2>4. ~turn.missed => \A d \in Docs : toldOf[d] <= c.items[d]
    BY <1>1, <1>4, <2>1 DEF CallIsSound
  <2>5. CallIsSound(turn)
    BY <1>1, <1>4, <2>1, <2>3, <2>4 DEF CallIsSound, HasScanned, HasResult
  <2> QED BY <1>2, <1>3, <1>6, <2>1, <2>5, LookersKeep
<1> QED BY <1>5, <1>6 DEF Corpus!Check

LEMMA DecideKeeps == ASSUME CorpusInv, NEW s \in Seekers, Corpus!Decide(s) PROVE CorpusInv'
<1> DEFINE c == seeker[s]
<1>1. CorpusTyped /\ DocsAreTold /\ IndexesAreSound /\ IndexKeepsUp /\ CallIsSound(c) /\ c \in CorpusCalls
  BY DEF CorpusInv, CorpusTyped
<1>2. c.at = "decide" /\ HasScanned(c) /\ generation' = generation /\ tokens' = tokens
  BY DEF Corpus!Decide, HasScanned
<1>3. tokens \in {NoIndex} \cup CorpusIndexes /\ (tokens # NoIndex => IsSound(tokens))
  BY <1>1 DEF CorpusTyped, IndexesAreSound
<1>4. /\ c.items \in VersionMaps /\ version \in VersionMaps /\ deleted \in VersionMaps /\ noted \subseteq Docs
      /\ \A d \in Docs : WasVersion(d, c.items[d])
  BY <1>1, <1>2 DEF CallIsSound, CorpusTyped
<1>5. CASE /\ Corpus!Matches(corpusIndex, c.items) /\ Corpus!Publish(c, corpusIndex) /\ noted' = {}
           /\ Corpus!Finish(s, corpusIndex)
  <2>1. /\ corpusIndex \in CorpusIndexes /\ IsSound(corpusIndex) /\ corpusIndex.stat = Corpus!Stats(c.items)
    BY <1>1, <1>5 DEF Corpus!Matches, CorpusTyped, IndexesAreSound
  <2>2. noted' \subseteq Docs
    BY <1>5
  <2> QED BY <1>1, <1>2, <1>5, <2>1, <2>2, PublicationsKeep
<1>6. CASE /\ Corpus!Incremental(c)
           /\ Corpus!Publish(c, Corpus!Index(c.items, Corpus!Body(corpusIndex, c.items, version)))
           /\ noted' = noted \ c.pending /\ Corpus!Finish(s, corpusIndex')
  <2> DEFINE body == Corpus!Body(corpusIndex, c.items, version)
  <2>1. corpusIndex \in CorpusIndexes /\ IsSound(corpusIndex)
    BY <1>1, <1>6 DEF Corpus!Incremental, CorpusTyped, IndexesAreSound
  <2>2. \A d \in Docs : body[d] = IF corpusIndex.stat[d] = Corpus!Stat(c.items[d]) THEN corpusIndex.body[d]
                                 ELSE IF Corpus!Present(c.items[d]) THEN version[d] ELSE c.items[d]
    BY DEF Corpus!Body
  <2>3. body \in [Docs -> Nat]
    <3>1. body = [d \in Docs |-> body[d]]
      BY DEF Corpus!Body
    <3>2. \A d \in Docs : corpusIndex.body[d] \in Nat /\ version[d] \in Nat /\ c.items[d] \in Nat
      BY <1>4, <2>1 DEF CorpusIndexes, VersionMaps
    <3>3. \A d \in Docs : body[d] \in Nat
      BY <2>2, <3>2
    <3> HIDE DEF body
    <3> QED BY <3>1, <3>3
  <2> HIDE DEF body
  <2>4. \A d \in Docs : \/ ~Corpus!Present(c.items[d]) /\ body[d] = c.items[d]
                        \/ Corpus!Present(c.items[d]) /\ body[d] = version[d]
                        \/ SoundBody(d, body[d], c.items[d])
    <3>1. ASSUME NEW d \in Docs, corpusIndex.stat[d] = Corpus!Stat(c.items[d])
          PROVE  SoundBody(d, body[d], c.items[d])
      BY <2>1, <2>2, <3>1 DEF SoundBody
    <3> QED BY <2>2, <3>1
  <2>5. PICK i : i = Corpus!Index(c.items, body)
    OBVIOUS
  <2>6. i \in CorpusIndexes /\ IsSound(i) /\ i.stat = Corpus!Stats(c.items)
    BY <1>1, <1>4, <2>3, <2>4, <2>5, MadeIsSound
  <2>7. Corpus!Publish(c, i) /\ corpusIndex' = i
    BY <1>6, <2>5 DEF body, Corpus!Publish
  <2>8. Corpus!Finish(s, i)
    BY <1>6, <2>7 DEF Corpus!Finish
  <2>9. noted' \subseteq Docs
    BY <1>4, <1>6
  <2> QED BY <1>1, <1>2, <2>6, <2>7, <2>8, <2>9, PublicationsKeep
<1>7. CASE Corpus!Goes(s, [c EXCEPT !.at = "build"]) /\ UNCHANGED <<noted, corpusIndex, indexGen, overtaken>>
  <2> DEFINE turn == [c EXCEPT !.at = "build"]
  <2>1. /\ turn \in CorpusCalls /\ turn.at = "build" /\ turn.gen = c.gen /\ turn.items = c.items
        /\ turn.begun = c.begun /\ turn.told = c.told /\ turn.missed = c.missed
    BY <1>1 DEF CorpusCalls
  <2>2. Corpus!Goes(s, turn)
    BY <1>7
  <2> HIDE DEF turn
  <2>3. CallIsSound(turn)
    BY <1>1, <1>2, <2>1 DEF CallIsSound, HasScanned, HasResult
  <2> QED BY <1>2, <1>3, <1>7, <2>1, <2>2, <2>3, LookersKeep
<1> QED BY <1>5, <1>6, <1>7 DEF Corpus!Decide

LEMMA BuildKeeps == ASSUME CorpusInv, NEW s \in Seekers, Corpus!Build(s) PROVE CorpusInv'
<1> DEFINE c == seeker[s]
           body == [d \in Docs |-> Corpus!Reused(d, c.items, version)]
           i == Corpus!Index(c.items, body)
           turn == [c EXCEPT !.at = "publish", !.result = i]
<1>1. CorpusTyped /\ DocsAreTold /\ IndexesAreSound /\ IndexKeepsUp /\ CallIsSound(c) /\ c \in CorpusCalls
  BY DEF CorpusInv, CorpusTyped
<1>2. /\ c.at = "build" /\ HasScanned(c) /\ tokens' = i /\ Corpus!Goes(s, turn)
      /\ UNCHANGED <<generation, noted, corpusIndex, indexGen, overtaken>>
  BY DEF Corpus!Build, Corpus!process, HasScanned
<1>3. /\ c.items \in VersionMaps /\ version \in VersionMaps /\ deleted \in VersionMaps
      /\ \A d \in Docs : WasVersion(d, c.items[d])
  BY <1>1, <1>2 DEF CallIsSound, CorpusTyped
<1>4. \A d \in Docs : \/ ~Corpus!Present(c.items[d]) /\ body[d] = c.items[d]
                      \/ Corpus!Present(c.items[d]) /\ body[d] = version[d]
                      \/ SoundBody(d, body[d], c.items[d])
  <2>1. \A d \in Docs : body[d] = Corpus!Reused(d, c.items, version)
    OBVIOUS
  <2> HIDE DEF body
  <2>2. ASSUME NEW d \in Docs, Corpus!Present(c.items[d]), body[d] # version[d]
        PROVE  SoundBody(d, body[d], c.items[d])
    <3>1. PICK k : k = IF Corpus!HasTokens(corpusIndex, d) THEN corpusIndex ELSE tokens
      OBVIOUS
    <3>2. Corpus!HasTokens(k, d) /\ k.stat[d] = c.items[d] /\ body[d] = k.body[d]
      BY <2>1, <2>2, <3>1 DEF Corpus!Reused
    <3>3. k # NoIndex
      BY <3>2 DEF Corpus!HasTokens
    <3>4. k \in CorpusIndexes /\ IsSound(k)
      BY <1>1, <3>1, <3>3 DEF CorpusTyped, IndexesAreSound
    <3>5. k.stat[d] = Corpus!Stat(c.items[d])
      BY <2>2, <3>2 DEF Corpus!Stat
    <3> QED BY <3>2, <3>4, <3>5 DEF SoundBody
  <2>3. ASSUME NEW d \in Docs, ~Corpus!Present(c.items[d]) PROVE body[d] = c.items[d]
    BY <2>1, <2>3 DEF Corpus!Reused
  <2> QED BY <2>2, <2>3
<1>5. body \in [Docs -> Nat]
  <2>1. body = [d \in Docs |-> body[d]]
    OBVIOUS
  <2> HIDE DEF body
  <2>2. \A d \in Docs : SoundBody(d, body[d], c.items[d]) => body[d] \in Nat
    BY DEF SoundBody, CorpusIndexes, VersionMaps
  <2>3. \A d \in Docs : c.items[d] \in Nat /\ version[d] \in Nat
    BY <1>3 DEF VersionMaps
  <2>4. \A d \in Docs : body[d] \in Nat
    BY <1>4, <2>2, <2>3
  <2> QED BY <2>1, <2>4
<1> HIDE DEF body
<1>6. i \in CorpusIndexes /\ IsSound(i) /\ i.stat = Corpus!Stats(c.items)
  BY <1>1, <1>3, <1>4, <1>5, MadeIsSound
<1> HIDE DEF i
<1>7. /\ turn \in CorpusCalls /\ turn.at = "publish" /\ turn.gen = c.gen /\ turn.items = c.items
      /\ turn.begun = c.begun /\ turn.told = c.told /\ turn.missed = c.missed /\ turn.result = i
  BY <1>1, <1>6 DEF CorpusCalls
<1> HIDE DEF turn
<1>8. CallIsSound(turn)
  BY <1>1, <1>2, <1>6, <1>7 DEF CallIsSound, HasScanned, HasResult
<1>9. tokens' \in {NoIndex} \cup CorpusIndexes /\ IsSound(tokens')
  BY <1>2, <1>6
<1> QED BY <1>2, <1>7, <1>8, <1>9, LookersKeep

LEMMA PublishKeeps == ASSUME CorpusInv, NEW s \in Seekers, Corpus!PublishBuild(s) PROVE CorpusInv'
<1> DEFINE c == seeker[s]
<1>1. CorpusTyped /\ DocsAreTold /\ IndexesAreSound /\ IndexKeepsUp /\ CallIsSound(c) /\ c \in CorpusCalls
  BY DEF CorpusInv, CorpusTyped
<1>2. c.at = "publish" /\ HasScanned(c) /\ generation' = generation /\ tokens' = tokens
  BY DEF Corpus!PublishBuild, HasScanned
<1>3. tokens \in {NoIndex} \cup CorpusIndexes /\ (tokens # NoIndex => IsSound(tokens))
  BY <1>1 DEF CorpusTyped, IndexesAreSound
<1>4. CASE /\ Corpus!Matches(corpusIndex, c.items) /\ Corpus!Finish(s, corpusIndex)
           /\ UNCHANGED <<corpusIndex, indexGen, overtaken, noted>>
  <2>1. /\ corpusIndex \in CorpusIndexes /\ IsSound(corpusIndex) /\ corpusIndex.stat = Corpus!Stats(c.items)
    BY <1>1, <1>4 DEF Corpus!Matches, CorpusTyped, IndexesAreSound
  <2>2. PICK k \in CorpusCalls : Corpus!Goes(s, k) /\ CallIsSound(k)
    BY <1>1, <1>2, <1>4, <2>1, FinishedIsSound
  <2> QED BY <1>2, <1>3, <1>4, <2>2, LookersKeep
<1>5. CASE Corpus!Publish(c, c.result) /\ noted' = {} /\ Corpus!Finish(s, c.result)
  <2>1. c.result \in CorpusIndexes /\ IsSound(c.result) /\ c.result.stat = Corpus!Stats(c.items)
    BY <1>1, <1>2 DEF CallIsSound
  <2>2. noted' \subseteq Docs
    BY <1>5
  <2> QED BY <1>1, <1>2, <1>5, <2>1, <2>2, PublicationsKeep
<1> QED BY <1>4, <1>5 DEF Corpus!PublishBuild

LEMMA MarkKeeps == ASSUME CorpusInv, NEW s \in Seekers, Corpus!Mark(s) PROVE CorpusInv'
<1> DEFINE c == seeker[s]
           turn == [c EXCEPT !.at = "answered"]
<1>1. CorpusTyped /\ IndexesAreSound /\ CallIsSound(c) /\ c \in CorpusCalls
  BY DEF CorpusInv, CorpusTyped
<1>2. /\ c.at = "mark" /\ HasResult(c) /\ Corpus!Goes(s, turn)
      /\ UNCHANGED <<generation, noted, corpusIndex, indexGen, overtaken, tokens>>
  BY DEF Corpus!Mark, HasResult
<1>3. tokens \in {NoIndex} \cup CorpusIndexes /\ (tokens # NoIndex => IsSound(tokens))
  BY <1>1 DEF CorpusTyped, IndexesAreSound
<1>4. /\ turn \in CorpusCalls /\ turn.at = "answered" /\ turn.gen = c.gen /\ turn.result = c.result
      /\ turn.begun = c.begun /\ turn.told = c.told /\ turn.scanned = c.scanned /\ turn.excused = c.excused
  BY <1>1 DEF CorpusCalls
<1> HIDE DEF turn
<1>5. CallIsSound(turn)
  BY <1>1, <1>2, <1>4 DEF CallIsSound, HasScanned, HasResult
<1> QED BY <1>2, <1>3, <1>4, <1>5, LookersKeep

LEMMA CorpusInitial == ASSUME Corpus!CInit PROVE CorpusInv
<1>1. /\ version = [d \in Docs |-> 1] /\ toldOf = [d \in Docs |-> 0] /\ deleted = [d \in Docs |-> 0]
      /\ generation = 0 /\ noted = {} /\ corpusIndex = NoIndex /\ indexGen = 0 /\ overtaken = FALSE
      /\ tokens = NoIndex /\ owing = {} /\ seeker = [s \in Seekers |-> Corpus!Idle]
  BY DEF Corpus!CInit
<1>2. /\ Corpus!Idle \in CorpusCalls /\ Corpus!Idle.at = "idle" /\ Corpus!Idle.gen = 0
  BY DEF Corpus!Idle, CorpusCalls
<1>3. CorpusTyped
  BY <1>1, <1>2 DEF CorpusTyped, VersionMaps
<1>4. DocsAreTold
  BY <1>1 DEF DocsAreTold, WasVersion, Corpus!Present
<1>5. IndexesAreSound /\ IndexKeepsUp
  BY <1>1 DEF IndexesAreSound, IndexKeepsUp
<1>6. CallIsSound(Corpus!Idle)
  BY <1>1, <1>2 DEF CallIsSound, HasScanned, HasResult
<1> QED BY <1>1, <1>3, <1>4, <1>5, <1>6 DEF CorpusInv

(* While the documents change or a report is made, the index keeps what it shows. *)
LEMMA SurroundingsKeep ==
  ASSUME CorpusInv, CorpusTyped', DocsAreTold', UNCHANGED <<corpusIndex, indexGen, overtaken, tokens, seeker>>,
         \A d \in Docs : version[d] <= version'[d] /\ deleted[d] <= deleted'[d],
         generation <= generation', generation' = generation => toldOf' = toldOf
  PROVE  CorpusInv'
<1>1. CorpusTyped /\ DocsAreTold /\ IndexesAreSound /\ IndexKeepsUp
  BY DEF CorpusInv
<1>2. \A d \in Docs : /\ version[d] \in Nat /\ version'[d] \in Nat /\ deleted[d] \in Nat /\ deleted'[d] \in Nat
                      /\ toldOf[d] \in Nat
  BY <1>1 DEF CorpusTyped, VersionMaps
<1>3. \A i \in CorpusIndexes, d \in Docs : i.body[d] \in Nat
  BY DEF CorpusIndexes, VersionMaps
<1>4. \A i \in CorpusIndexes : IsSound(i) => IsSound(i)'
  <2>1. \A d \in Docs, v \in Nat : WasVersion(d, v) => WasVersion(d, v)'
    BY <1>2 DEF WasVersion
  <2> QED BY <1>3, <2>1 DEF IsSound
<1>5. IndexesAreSound'
  <2>1. corpusIndex' # NoIndex => corpusIndex \in CorpusIndexes /\ IsSound(corpusIndex)
    BY <1>1 DEF CorpusTyped, IndexesAreSound
  <2>2. tokens' # NoIndex => tokens \in CorpusIndexes /\ IsSound(tokens)
    BY <1>1 DEF CorpusTyped, IndexesAreSound
  <2> QED BY <1>4, <2>1, <2>2 DEF IndexesAreSound
<1>6. IndexKeepsUp'
  <2>1. (indexGen <= generation)'
    BY <1>1 DEF IndexKeepsUp, CorpusTyped
  <2>2. ASSUME corpusIndex # NoIndex, indexGen = generation', ~overtaken, NEW d \in Docs
        PROVE  Corpus!Shows(corpusIndex, d, toldOf[d])'
    <3>1. generation' = generation /\ toldOf' = toldOf
      BY <1>1, <2>2 DEF IndexKeepsUp, CorpusTyped
    <3>2. corpusIndex \in CorpusIndexes /\ Corpus!Shows(corpusIndex, d, toldOf[d])
      BY <1>1, <2>2, <3>1 DEF IndexKeepsUp, CorpusTyped
    <3> QED BY <1>2, <1>3, <3>1, <3>2 DEF Corpus!Shows
  <2> QED BY <2>1, <2>2 DEF IndexKeepsUp
<1>7. ASSUME NEW s \in Seekers PROVE CallIsSound(seeker[s])'
  <2>1. PICK k \in CorpusCalls : k = seeker[s]
    BY <1>1 DEF CorpusTyped
  <2>2. CallIsSound(k)'
    BY <1>1, <2>1, CallsStaySound DEF CorpusInv
  <2> QED BY <2>1, <2>2
<1> QED BY <1>5, <1>6, <1>7 DEF CorpusInv

LEMMA WriteKeeps ==
  ASSUME CorpusInv, NEW d \in Docs, Corpus!OwnWrite(d) \/ Corpus!ForeignWrite(d) PROVE CorpusInv'
<1>1. CorpusTyped /\ DocsAreTold
  BY DEF CorpusInv
<1>2. /\ Corpus!Write(d) /\ (owing' = {d} \/ owing' = owing)
      /\ UNCHANGED <<generation, noted, corpusIndex, indexGen, overtaken, tokens, seeker, toldOf>>
  BY DEF Corpus!OwnWrite, Corpus!ForeignWrite, Corpus!Write, Corpus!process
<1>3. PICK w \in Corpus!Next3(version[d]) :
        /\ version' = [version EXCEPT ![d] = w]
        /\ deleted' = IF Corpus!Present(w) THEN deleted ELSE [deleted EXCEPT ![d] = w]
  BY <1>2 DEF Corpus!Write
<1>4. \A e \in Docs : version[e] \in Nat /\ deleted[e] \in Nat /\ toldOf[e] \in Nat
                    /\ toldOf[e] <= version[e] /\ deleted[e] <= version[e] /\ WasVersion(e, version[e])
  BY <1>1 DEF CorpusTyped, VersionMaps, DocsAreTold
<1>5. w \in Nat /\ w > version[d]
  BY <1>4 DEF Corpus!Next3
<1>6. version' \in VersionMaps /\ deleted' \in VersionMaps
  BY <1>1, <1>3, <1>5 DEF CorpusTyped, VersionMaps
<1>7. /\ \A e \in Docs : version'[e] = IF e = d THEN w ELSE version[e]
      /\ \A e \in Docs : deleted'[e] = IF e = d /\ ~Corpus!Present(w) THEN w ELSE deleted[e]
  BY <1>1, <1>3 DEF CorpusTyped, VersionMaps
<1>8. CorpusTyped'
  BY <1>1, <1>2, <1>6 DEF CorpusTyped
<1>9. DocsAreTold'
  <2>1. ASSUME NEW e \in Docs
        PROVE  toldOf'[e] <= version'[e] /\ deleted'[e] <= version'[e] /\ WasVersion(e, version[e])'
    BY <1>2, <1>4, <1>5, <1>7 DEF WasVersion
  <2> QED BY <2>1 DEF DocsAreTold
<1>10. \A e \in Docs : version[e] <= version'[e] /\ deleted[e] <= deleted'[e]
  BY <1>4, <1>5, <1>7
<1>11. generation <= generation'
  BY <1>1, <1>2 DEF CorpusTyped
<1> QED BY <1>2, <1>8, <1>9, <1>10, <1>11, SurroundingsKeep

LEMMA InvalidateKeeps == ASSUME CorpusInv, Corpus!Invalidate PROVE CorpusInv'
<1>1. CorpusTyped /\ DocsAreTold
  BY DEF CorpusInv
<1>2. /\ generation' = generation + 1 /\ noted' = noted \union owing /\ owing' = {}
      /\ toldOf' = [d \in Docs |-> IF d \in owing THEN version[d] ELSE toldOf[d]]
      /\ UNCHANGED <<version, corpusIndex, indexGen, overtaken, tokens, seeker, deleted>>
  BY DEF Corpus!Invalidate
<1>3. CorpusTyped'
  BY <1>1, <1>2 DEF CorpusTyped, VersionMaps
<1>4. DocsAreTold'
  BY <1>1, <1>2 DEF DocsAreTold, CorpusTyped, VersionMaps, WasVersion
<1>5. generation' > generation /\ generation \in Nat
  BY <1>1, <1>2 DEF CorpusTyped
<1>6. \A d \in Docs : version[d] <= version'[d] /\ deleted[d] <= deleted'[d]
  BY <1>1, <1>2 DEF CorpusTyped, VersionMaps
<1> QED BY <1>2, <1>3, <1>4, <1>5, <1>6, SurroundingsKeep

LEMMA RestartKeeps == ASSUME CorpusInv, Corpus!Restart PROVE CorpusInv'
<1>1. CorpusTyped /\ DocsAreTold /\ IndexesAreSound
  BY DEF CorpusInv
<1>2. /\ generation' = 0 /\ noted' = {} /\ corpusIndex' = NoIndex /\ indexGen' = 0 /\ overtaken' = FALSE
      /\ owing' = {} /\ seeker' = [s \in Seekers |-> Corpus!Idle]
      /\ UNCHANGED <<version, tokens, toldOf, deleted>>
  BY DEF Corpus!Restart
<1>3. /\ Corpus!Idle \in CorpusCalls /\ Corpus!Idle.at = "idle" /\ Corpus!Idle.gen = 0
  BY DEF Corpus!Idle, CorpusCalls
<1>4. CorpusTyped'
  BY <1>1, <1>2, <1>3 DEF CorpusTyped
<1>5. DocsAreTold' /\ IndexesAreSound' /\ IndexKeepsUp'
  BY <1>1, <1>2 DEF DocsAreTold, IndexesAreSound, IndexKeepsUp, WasVersion, IsSound
<1>6. \A s \in Seekers : CallIsSound(seeker[s])'
  BY <1>2, <1>3 DEF CallIsSound, HasScanned, HasResult
<1> QED BY <1>4, <1>5, <1>6 DEF CorpusInv

LEMMA CorpusSteps == ASSUME CorpusInv, [Corpus!CNext]_(Corpus!cvars) PROVE CorpusInv'
<1>1. ASSUME UNCHANGED <<version, generation, noted, corpusIndex, indexGen, overtaken, tokens, seeker, toldOf, deleted,
                         owing>>
      PROVE  CorpusInv'
  <2>1. CorpusTyped /\ DocsAreTold
    BY DEF CorpusInv
  <2>2. CorpusTyped' /\ DocsAreTold'
    BY <1>1, <2>1 DEF CorpusTyped, DocsAreTold, WasVersion
  <2>3. /\ \A d \in Docs : version[d] <= version'[d] /\ deleted[d] <= deleted'[d]
        /\ generation <= generation'
    BY <1>1, <2>1 DEF CorpusTyped, VersionMaps
  <2> QED BY <1>1, <2>2, <2>3, SurroundingsKeep
<1>2. CASE UNCHANGED Corpus!cvars
  BY <1>1, <1>2 DEF Corpus!cvars, Corpus!process
<1>3. CASE Corpus!Expire
  BY <1>1, <1>3 DEF Corpus!Expire
<1>4. ASSUME NEW d \in Docs, Corpus!OwnWrite(d) \/ Corpus!ForeignWrite(d) PROVE CorpusInv'
  BY <1>4, WriteKeeps
<1>5. CASE Corpus!Invalidate
  BY <1>5, InvalidateKeeps
<1>6. CASE Corpus!Restart
  BY <1>6, RestartKeeps
<1>7. ASSUME NEW s \in Seekers,
             \/ Corpus!Begin(s) \/ Corpus!Observe(s) \/ Corpus!Scan(s) \/ Corpus!Check(s)
             \/ Corpus!Decide(s) \/ Corpus!Build(s) \/ Corpus!PublishBuild(s) \/ Corpus!Mark(s)
      PROVE  CorpusInv'
  BY <1>7, BeginKeeps, ScanKeeps, CheckKeeps, DecideKeeps, BuildKeeps, PublishKeeps, MarkKeeps
<1> QED BY <1>2, <1>3, <1>4, <1>5, <1>6, <1>7 DEF Corpus!CNext

(* A search that scanned the corpus sees every write that was done when it began, *)
(* whoever made it, and within the TTL a search sees every write of its own       *)
(* process reported when it began, whatever other searches built, published or    *)
(* marked as verified meanwhile (_corpus_index.py:154-158, 321-382, 575-700).     *)
THEOREM CorpusSearchesAreCurrent ==
  Corpus!CSpec => [](Corpus!ScansAreCurrent /\ Corpus!OwnWritesShowUnlessRaced)
<1>1. CorpusInv => Corpus!ScansAreCurrent /\ Corpus!OwnWritesShowUnlessRaced
  BY DEF CorpusInv, CallIsSound, HasResult, Corpus!Answers, Corpus!ScansAreCurrent, Corpus!OwnWritesShowUnlessRaced
<1> QED BY CorpusInitial, CorpusSteps, <1>1, PTL DEF Corpus!CSpec

-----------------------------------------------------------------------------
(* The embedding index. *)
CONSTANTS TextPaths, MaxTextVersion, MaxDeaths, NoOne, Watcher, Builder
VARIABLES content, newest, blanks, embeddings, indexLock, notices, syncing, building, lastLogged, lost, deaths,
          held, cameBack

Embedding == INSTANCE EmbeddingIndex WITH
  Paths <- TextPaths, MaxVersion <- MaxTextVersion, MaxKills <- MaxDeaths, Nobody <- NoOne,
  file <- content, blank <- blanks, version <- newest,
  index <- embeddings, lock <- indexLock, events <- notices, sync <- syncing, build <- building,
  log <- lastLogged, missed <- lost, kills <- deaths, been <- held, returned <- cameBack

(* The two holders of the lock, and nobody, are told apart. *)
HoldersAreApart == Watcher # Builder /\ NoOne # Watcher /\ NoOne # Builder

Embedded == [stat : Nat, text : Nat]
EmbeddedMaps == [TextPaths -> Embedded]
Notices ==
  {e \in [op : {"create", "modify", "delete", "move"}, path : TextPaths, old : TextPaths] : e.op # "move" => e.old = e.path}
Syncs ==
  {Embedding!Idle} \cup [pc : {"wait"}, event : Notices]
  \cup [pc : {"stat", "write"}, event : Notices, records : EmbeddedMaps, changed : BOOLEAN]
  \cup [pc : {"read", "write"}, event : Notices, records : EmbeddedMaps, changed : BOOLEAN, stat : Nat]
Rebuilds ==
  [pc : {"stat", "read"}, force : BOOLEAN, cache : EmbeddedMaps, seen : SUBSET TextPaths,
   path : TextPaths \cup {NoOne}, stat : Nat, changed : BOOLEAN, todo : SUBSET TextPaths]
HasRecords(s) == s.pc \in {"stat", "read", "write"}

EmbeddingTyped ==
  /\ content \in [TextPaths -> Nat] /\ held \in [TextPaths -> SUBSET Nat] /\ newest \in Nat /\ blanks \subseteq Nat
  /\ cameBack \subseteq TextPaths /\ lastLogged \in [TextPaths -> Nat] /\ notices \in Seq(Notices) /\ lost \in BOOLEAN
  /\ embeddings # Embedding!Absent => embeddings \in EmbeddedMaps
  /\ syncing \in Syncs
  /\ building # Embedding!Idle => building \in Rebuilds
  /\ building # Embedding!Idle /\ building.pc = "read" => building.path \in TextPaths
LockIsHeld ==
  /\ HasRecords(syncing) <=> indexLock = Watcher
  /\ building # Embedding!Idle <=> indexLock = Builder
(* A record is of a version its path has held, and of the text of that version as *)
(* long as the path holds it, unless the version came back to the path.          *)
IsTrue(r, p) ==
  r # Embedding!NoRecord => /\ r.stat \in held[p]
                            /\ (p \notin cameBack /\ r.stat # r.text) => content[p] # r.stat
VersionsAreHeld ==
  /\ \A p \in TextPaths : /\ content[p] # 0 => content[p] \in held[p]
                          /\ \A v \in held[p] : 0 < v /\ v <= newest
  /\ \A v \in blanks : v <= newest
RecordsAreTrue ==
  /\ embeddings # Embedding!Absent => \A p \in TextPaths : IsTrue(embeddings[p], p)
  /\ HasRecords(syncing) => \A p \in TextPaths : IsTrue(syncing.records[p], p)
  /\ syncing.pc = "read" => syncing.stat \in held[syncing.event.path]
  /\ building # Embedding!Idle => \A p \in TextPaths : IsTrue(building.cache[p], p)
  /\ (building # Embedding!Idle /\ building.pc = "read") => building.stat \in held[building.path]
EmbeddingInv == EmbeddingTyped /\ LockIsHeld /\ VersionsAreHeld /\ RecordsAreTrue

(* What a call of the watcher holds, by the place it is at. *)
LEMMA SyncFields ==
  ASSUME NEW s \in Syncs
  PROVE  /\ s.pc \in {"idle", "wait", "stat", "read", "write"}
         /\ s.pc # "idle" <=> s # Embedding!Idle
         /\ s.pc # "idle" => s.event \in Notices /\ s.event.path \in TextPaths /\ s.event.old \in TextPaths
         /\ HasRecords(s) => s.records \in EmbeddedMaps /\ s.changed \in BOOLEAN
         /\ s.pc = "read" => s.stat \in Nat
BY DEF Syncs, Notices, Embedding!Idle, HasRecords

LEMMA IdleBuild == Embedding!Idle.pc = "idle" /\ \A b \in Rebuilds : b # Embedding!Idle /\ b.pc \in {"stat", "read"}
BY DEF Rebuilds, Embedding!Idle

LEMMA NoRecordTyped == Embedding!NoRecord \in Embedded
BY DEF Embedding!NoRecord, Embedded

LEMMA StoredTrue ==
  ASSUME EmbeddingInv
  PROVE  /\ Embedding!Stored \in EmbeddedMaps
         /\ \A p \in TextPaths : IsTrue(Embedding!Stored[p], p)
BY NoRecordTyped DEF EmbeddingInv, EmbeddingTyped, RecordsAreTrue, Embedding!Stored, EmbeddedMaps, IsTrue

(* A change of the markdown makes no record untrue. *)
LEMMA EditsKeepTruth ==
  ASSUME EmbeddingInv, UNCHANGED <<embeddings, indexLock, syncing, building, lastLogged, lost>>,
         notices' \in Seq(Notices), content' \in [TextPaths -> Nat], held' \in [TextPaths -> SUBSET Nat],
         newest' \in Nat, newest <= newest', blanks' \subseteq Nat, cameBack' \subseteq TextPaths, VersionsAreHeld',
         cameBack \subseteq cameBack',
         \A p \in TextPaths : /\ held[p] \subseteq held'[p]
                              /\ content'[p] # content[p] => p \in cameBack' \/ content'[p] \notin held[p]
  PROVE  EmbeddingInv'
<1>1. EmbeddingTyped /\ LockIsHeld /\ RecordsAreTrue
  BY DEF EmbeddingInv
<1>2. EmbeddingTyped' /\ LockIsHeld'
  BY <1>1 DEF EmbeddingTyped, LockIsHeld, HasRecords
<1>3. ASSUME NEW p \in TextPaths, NEW r \in Embedded, IsTrue(r, p) PROVE IsTrue(r, p)'
  BY <1>3 DEF IsTrue
<1>4. embeddings' # Embedding!Absent => \A p \in TextPaths : IsTrue(embeddings[p], p)'
  BY <1>1, <1>3 DEF RecordsAreTrue, EmbeddingTyped, EmbeddedMaps
<1>5. HasRecords(syncing) => \A p \in TextPaths : IsTrue(syncing.records[p], p)'
  <2>1. HasRecords(syncing) => syncing.records \in EmbeddedMaps
    BY <1>1, SyncFields DEF EmbeddingTyped
  <2> QED BY <1>1, <1>3, <2>1 DEF RecordsAreTrue, EmbeddedMaps
<1>6. building # Embedding!Idle => \A p \in TextPaths : IsTrue(building.cache[p], p)'
  BY <1>1, <1>3 DEF RecordsAreTrue, EmbeddingTyped, EmbeddedMaps, Rebuilds
<1>7. syncing.pc = "read" => syncing.stat \in held'[syncing.event.path]
  <2>1. syncing.pc = "read" => syncing.event.path \in TextPaths
    BY <1>1, SyncFields DEF EmbeddingTyped
  <2> QED BY <1>1, <2>1 DEF RecordsAreTrue
<1>8. (building # Embedding!Idle /\ building.pc = "read") => building.stat \in held'[building.path]
  BY <1>1 DEF RecordsAreTrue, EmbeddingTyped
<1>9. RecordsAreTrue'
  BY <1>4, <1>5, <1>6, <1>7, <1>8 DEF RecordsAreTrue, HasRecords
<1> QED BY <1>2, <1>9 DEF EmbeddingInv

(* An edit of the markdown, by the event it tells and what it leaves alone. *)
AnEdit ==
  /\ UNCHANGED <<embeddings, indexLock, syncing, building, lastLogged, lost>>
  /\ newest' = newest + 1 /\ newest \in Nat /\ blanks \subseteq blanks' /\ blanks' \subseteq blanks \cup {newest + 1}
  /\ \E e \in Notices :
       /\ notices' = Append(notices, e)
       /\ content' \in [TextPaths -> Nat] /\ held' \in [TextPaths -> SUBSET Nat] /\ cameBack' \subseteq TextPaths
       /\ cameBack \subseteq cameBack' /\ VersionsAreHeld'
       /\ \A p \in TextPaths :
            /\ p \notin {e.path, e.old} => content'[p] = content[p]
            /\ p \in {e.path, e.old} => ((e.op # "delete" /\ e.path = p) <=> content'[p] # 0)
            /\ held[p] \subseteq held'[p]
            /\ content'[p] # content[p] => p \in cameBack' \/ content'[p] \notin held[p]

LEMMA EditIs ==
  ASSUME EmbeddingInv, Embedding!Edit
  PROVE  AnEdit
<1>1. /\ content \in [TextPaths -> Nat] /\ held \in [TextPaths -> SUBSET Nat] /\ newest \in Nat /\ blanks \subseteq Nat
      /\ cameBack \subseteq TextPaths
      /\ \A p \in TextPaths : /\ content[p] # 0 => content[p] \in held[p]
                              /\ \A v \in held[p] : 0 < v /\ v <= newest
      /\ \A v \in blanks : v <= newest
  BY DEF EmbeddingInv, EmbeddingTyped, VersionsAreHeld
<1>2. ASSUME NEW q \in TextPaths, NEW empty \in BOOLEAN, Embedding!Write(q, empty)
      PROVE  AnEdit
  <2> DEFINE e == [op |-> IF content[q] = 0 THEN "create" ELSE "modify", path |-> q, old |-> q]
  <2>1. /\ newest' = newest + 1 /\ content' = [content EXCEPT ![q] = newest + 1]
        /\ blanks' = IF empty THEN blanks \cup {newest + 1} ELSE blanks
        /\ held' = [held EXCEPT ![q] = @ \cup {newest + 1}] /\ cameBack' = cameBack
        /\ notices' = Append(notices, e)
        /\ UNCHANGED <<embeddings, indexLock, syncing, building, lastLogged, lost>>
    BY <1>2 DEF Embedding!Write, Embedding!Tell, Embedding!Calm
  <2>2. e \in Notices /\ e.path = q /\ e.old = q /\ e.op # "delete"
    BY DEF Notices
  <2> HIDE DEF e
  <2>3. VersionsAreHeld'
    BY <1>1, <2>1 DEF VersionsAreHeld
  <2>4. \A p \in TextPaths :
          /\ p \notin {e.path, e.old} => content'[p] = content[p]
          /\ p \in {e.path, e.old} => ((e.op # "delete" /\ e.path = p) <=> content'[p] # 0)
          /\ held[p] \subseteq held'[p]
          /\ content'[p] # content[p] => p \in cameBack' \/ content'[p] \notin held[p]
    BY <1>1, <2>1, <2>2
  <2>5. content' \in [TextPaths -> Nat] /\ held' \in [TextPaths -> SUBSET Nat] /\ cameBack' \subseteq TextPaths
    BY <1>1, <2>1
  <2> QED BY <1>1, <2>1, <2>2, <2>3, <2>4, <2>5 DEF AnEdit
<1>3. ASSUME NEW q \in TextPaths, Embedding!Delete(q)
      PROVE  AnEdit
  <2> DEFINE e == [op |-> "delete", path |-> q, old |-> q]
  <2>1. /\ newest' = newest + 1 /\ content' = [content EXCEPT ![q] = 0]
        /\ blanks' = blanks /\ held' = held /\ cameBack' = cameBack /\ notices' = Append(notices, e)
        /\ UNCHANGED <<embeddings, indexLock, syncing, building, lastLogged, lost>>
    BY <1>3 DEF Embedding!Delete, Embedding!Tell, Embedding!Calm
  <2>2. e \in Notices /\ e.path = q /\ e.old = q /\ e.op = "delete"
    BY DEF Notices
  <2> HIDE DEF e
  <2>3. VersionsAreHeld'
    BY <1>1, <2>1 DEF VersionsAreHeld
  <2>4. \A p \in TextPaths :
          /\ p \notin {e.path, e.old} => content'[p] = content[p]
          /\ p \in {e.path, e.old} => ((e.op # "delete" /\ e.path = p) <=> content'[p] # 0)
          /\ held[p] \subseteq held'[p]
          /\ content'[p] # content[p] => p \in cameBack' \/ content'[p] \notin held[p]
    BY <1>1, <2>1, <2>2
  <2>5. content' \in [TextPaths -> Nat] /\ held' \in [TextPaths -> SUBSET Nat] /\ cameBack' \subseteq TextPaths
    BY <1>1, <2>1
  <2> QED BY <1>1, <2>1, <2>2, <2>3, <2>4, <2>5 DEF AnEdit
<1>4. ASSUME NEW o \in TextPaths, NEW q \in TextPaths, Embedding!Move(o, q)
      PROVE  AnEdit
  <2> DEFINE e == [op |-> "move", path |-> q, old |-> o]
  <2>1. /\ newest' = newest + 1 /\ content' = [content EXCEPT ![o] = 0, ![q] = content[o]] /\ content[o] # 0 /\ o # q
        /\ blanks' = blanks /\ held' = [held EXCEPT ![q] = @ \cup {content[o]}]
        /\ cameBack' = IF content[o] \in held[q] THEN cameBack \cup {q} ELSE cameBack
        /\ notices' = Append(notices, e)
        /\ UNCHANGED <<embeddings, indexLock, syncing, building, lastLogged, lost>>
    BY <1>4 DEF Embedding!Move, Embedding!Tell, Embedding!Calm
  <2>2. e \in Notices /\ e.path = q /\ e.old = o /\ e.op = "move"
    BY DEF Notices
  <2> HIDE DEF e
  <2>3. \A p \in TextPaths : /\ content'[p] = IF p = o THEN 0 ELSE IF p = q THEN content[o] ELSE content[p]
                             /\ held'[p] = IF p = q THEN held[q] \cup {content[o]} ELSE held[p]
    BY <1>1, <2>1
  <2>4. content[o] \in Nat /\ 0 < content[o] /\ content[o] <= newest
    BY <1>1, <2>1
  <2>5. VersionsAreHeld'
    <3>1. ASSUME NEW p \in TextPaths PROVE content'[p] # 0 => content'[p] \in held'[p]
      BY <1>1, <2>3
    <3>2. ASSUME NEW p \in TextPaths, NEW v \in held'[p] PROVE 0 < v /\ v <= newest'
      BY <1>1, <2>1, <2>3, <2>4
    <3>3. \A v \in blanks' : v <= newest'
      BY <1>1, <2>1
    <3> QED BY <3>1, <3>2, <3>3 DEF VersionsAreHeld
  <2>6. \A p \in TextPaths :
          /\ p \notin {e.path, e.old} => content'[p] = content[p]
          /\ p \in {e.path, e.old} => ((e.op # "delete" /\ e.path = p) <=> content'[p] # 0)
          /\ held[p] \subseteq held'[p]
          /\ content'[p] # content[p] => p \in cameBack' \/ content'[p] \notin held[p]
    BY <1>1, <2>1, <2>2, <2>3, <2>4
  <2>7. content' \in [TextPaths -> Nat] /\ held' \in [TextPaths -> SUBSET Nat]
    BY <1>1, <2>1, <2>4
  <2>8. cameBack' \subseteq TextPaths /\ cameBack \subseteq cameBack'
    BY <1>1, <2>1
  <2> QED BY <1>1, <2>1, <2>2, <2>5, <2>6, <2>7, <2>8 DEF AnEdit
<1> QED BY <1>2, <1>3, <1>4 DEF Embedding!Edit

LEMMA EditsKeep == ASSUME EmbeddingInv, Embedding!Edit PROVE EmbeddingInv'
<1>1. AnEdit
  BY EditIs
<1>2. PICK e \in Notices :
        /\ notices' = Append(notices, e)
        /\ content' \in [TextPaths -> Nat] /\ held' \in [TextPaths -> SUBSET Nat] /\ cameBack' \subseteq TextPaths
        /\ cameBack \subseteq cameBack' /\ VersionsAreHeld'
        /\ \A p \in TextPaths : /\ held[p] \subseteq held'[p]
                                /\ content'[p] # content[p] => p \in cameBack' \/ content'[p] \notin held[p]
  BY <1>1 DEF AnEdit
<1>3. notices' \in Seq(Notices) /\ blanks' \subseteq Nat /\ newest <= newest' /\ newest' \in Nat
  BY <1>1, <1>2 DEF AnEdit, EmbeddingInv, EmbeddingTyped
<1> QED BY <1>1, <1>2, <1>3, EditsKeepTruth DEF AnEdit

MarkdownStays == UNCHANGED <<content, blanks, newest, held, cameBack>>

(* A step of the watcher, of the builder, or of a clear, by the records it leaves. *)
LEMMA RecordsKeep ==
  ASSUME EmbeddingInv, MarkdownStays, notices' \in Seq(Notices), lastLogged' \in [TextPaths -> Nat], lost' \in BOOLEAN,
         LockIsHeld',
         embeddings' # Embedding!Absent => embeddings' \in EmbeddedMaps /\ \A p \in TextPaths : IsTrue(embeddings'[p], p),
         \/ syncing' = syncing
         \/ /\ syncing' \in Syncs
            /\ HasRecords(syncing') => \A p \in TextPaths : IsTrue(syncing'.records[p], p)
            /\ syncing'.pc = "read" => syncing'.stat \in held[syncing'.event.path],
         \/ building' = building
         \/ building' = Embedding!Idle
         \/ /\ building' \in Rebuilds
            /\ \A p \in TextPaths : IsTrue(building'.cache[p], p)
            /\ building'.pc = "read" => building'.path \in TextPaths /\ building'.stat \in held[building'.path]
  PROVE  EmbeddingInv'
<1>1. EmbeddingTyped /\ VersionsAreHeld /\ RecordsAreTrue
  BY DEF EmbeddingInv
<1>2. /\ content' = content /\ blanks' = blanks /\ newest' = newest /\ held' = held /\ cameBack' = cameBack
  BY DEF MarkdownStays
<1>3. EmbeddingTyped'
  BY <1>1, <1>2 DEF EmbeddingTyped
<1>4. VersionsAreHeld'
  BY <1>1, <1>2 DEF VersionsAreHeld
<1>5. (embeddings # Embedding!Absent => \A p \in TextPaths : IsTrue(embeddings[p], p))'
  BY <1>2 DEF IsTrue
<1>6. (HasRecords(syncing) => \A p \in TextPaths : IsTrue(syncing.records[p], p))'
  <2>1. HasRecords(syncing') => \A p \in TextPaths : IsTrue(syncing'.records[p], p)
    BY <1>1 DEF RecordsAreTrue, HasRecords
  <2> QED BY <1>2, <2>1 DEF IsTrue, HasRecords
<1>7. (syncing.pc = "read" => syncing.stat \in held[syncing.event.path])'
  BY <1>1, <1>2 DEF RecordsAreTrue
<1>8. (building # Embedding!Idle => \A p \in TextPaths : IsTrue(building.cache[p], p))'
  <2>1. building' # Embedding!Idle => \A p \in TextPaths : IsTrue(building'.cache[p], p)
    BY <1>1 DEF RecordsAreTrue
  <2> QED BY <1>2, <2>1 DEF IsTrue
<1>9. ((building # Embedding!Idle /\ building.pc = "read") => building.stat \in held[building.path])'
  BY <1>1, <1>2 DEF RecordsAreTrue
<1>10. RecordsAreTrue'
  BY <1>5, <1>6, <1>7, <1>8, <1>9 DEF RecordsAreTrue
<1> QED BY <1>3, <1>4, <1>10 DEF EmbeddingInv

LEMMA IndexIs ==
  ASSUME EmbeddingInv, embeddings # Embedding!Absent
  PROVE  embeddings \in EmbeddedMaps /\ \A p \in TextPaths : IsTrue(embeddings[p], p)
BY DEF EmbeddingInv, EmbeddingTyped, RecordsAreTrue

(* The watcher's steps, by what they make of its call. *)
LEMMA ApplyKeeps == ASSUME EmbeddingInv, Embedding!Apply PROVE EmbeddingInv'
<1>1. EmbeddingTyped /\ LockIsHeld
  BY DEF EmbeddingInv
<1>2. /\ syncing = Embedding!Idle /\ notices # <<>> /\ MarkdownStays /\ notices' = Tail(notices)
      /\ lastLogged' = [lastLogged EXCEPT ![Head(notices).path] = content[Head(notices).path]]
      /\ UNCHANGED <<embeddings, indexLock, building>>
      /\ \/ syncing' = Embedding!Idle /\ lost' = (lost \/ building.pc # "idle")
         \/ syncing' = [pc |-> "wait", event |-> Head(notices)] /\ lost' = lost
  BY DEF Embedding!Apply, Embedding!Same, MarkdownStays
<1>3. Head(notices) \in Notices /\ Tail(notices) \in Seq(Notices)
  BY <1>1, <1>2 DEF EmbeddingTyped
<1>4. lastLogged' \in [TextPaths -> Nat] /\ lost' \in BOOLEAN
  BY <1>1, <1>2, <1>3 DEF EmbeddingTyped, Notices
<1>5. syncing' \in Syncs /\ ~HasRecords(syncing') /\ syncing'.pc # "read"
  <2>1. [pc |-> "wait", event |-> Head(notices)] \in Syncs
    BY <1>3 DEF Syncs
  <2>2. Embedding!Idle \in Syncs
    BY DEF Syncs
  <2> QED BY <1>2, <2>1, <2>2 DEF HasRecords, Embedding!Idle
<1>6. ~HasRecords(syncing)
  BY <1>2 DEF HasRecords, Embedding!Idle
<1>7. LockIsHeld'
  <2>1. (HasRecords(syncing) <=> indexLock = Watcher)'
    BY <1>1, <1>2, <1>5, <1>6 DEF LockIsHeld, HasRecords
  <2> QED BY <1>1, <1>2, <2>1 DEF LockIsHeld
<1> QED BY <1>2, <1>3, <1>4, <1>5, <1>7, IndexIs, RecordsKeep

(* A call of the watcher under the lock, as the step that begins it leaves it. *)
LEMMA SyncBeginIs ==
  ASSUME EmbeddingInv, Embedding!SyncBegin
  PROVE  LET e == syncing.event
             kept == [p \in TextPaths |-> IF p \in Embedding!Drops(e) THEN Embedding!NoRecord ELSE Embedding!Stored[p]]
         IN  /\ syncing.pc = "wait" /\ indexLock = NoOne /\ indexLock' = Watcher /\ e \in Notices /\ e.path \in TextPaths
             /\ e.old \in TextPaths /\ MarkdownStays
             /\ UNCHANGED <<embeddings, notices, building, lastLogged, lost>>
             /\ syncing' \in Syncs /\ syncing'.event = e /\ syncing'.records = kept /\ syncing'.records \in EmbeddedMaps
             /\ syncing'.changed = (\E p \in Embedding!Drops(e) : Embedding!Stored[p] # Embedding!NoRecord)
             /\ syncing'.pc = IF e.op # "delete" /\ content[e.path] # 0 THEN "stat" ELSE "write"
<1> DEFINE e == syncing.event
           kept == [p \in TextPaths |-> IF p \in Embedding!Drops(e) THEN Embedding!NoRecord ELSE Embedding!Stored[p]]
           pc == IF e.op # "delete" /\ content[e.path] # 0 THEN "stat" ELSE "write"
           changed == \E p \in Embedding!Drops(e) : Embedding!Stored[p] # Embedding!NoRecord
<1>1. /\ syncing.pc = "wait" /\ indexLock = NoOne /\ indexLock' = Watcher /\ MarkdownStays
      /\ UNCHANGED <<embeddings, notices, building, lastLogged, lost>>
      /\ syncing' = [pc |-> pc, event |-> e, records |-> kept, changed |-> changed]
  BY DEF Embedding!SyncBegin, Embedding!Same, MarkdownStays
<1>2. e \in Notices /\ e.path \in TextPaths /\ e.old \in TextPaths
  BY <1>1, SyncFields DEF EmbeddingInv, EmbeddingTyped
<1>3. kept \in EmbeddedMaps
  BY NoRecordTyped, StoredTrue DEF EmbeddedMaps
<1>4. pc \in {"stat", "write"} /\ changed \in BOOLEAN
  OBVIOUS
<1> HIDE DEF kept, pc, changed
<1>5. syncing' \in Syncs
  BY <1>1, <1>2, <1>3, <1>4 DEF Syncs
<1>6. syncing'.event = e /\ syncing'.records = kept /\ syncing'.changed = changed /\ syncing'.pc = pc
  BY <1>1
<1> QED BY <1>1, <1>2, <1>3, <1>5, <1>6 DEF kept, pc, changed

LEMMA SyncBeginKeeps == ASSUME EmbeddingInv, HoldersAreApart, Embedding!SyncBegin PROVE EmbeddingInv'
<1>1. EmbeddingTyped /\ LockIsHeld
  BY DEF EmbeddingInv
<1>2. /\ indexLock = NoOne /\ indexLock' = Watcher /\ MarkdownStays
      /\ UNCHANGED <<embeddings, notices, building, lastLogged, lost>>
      /\ syncing' \in Syncs /\ syncing'.pc \in {"stat", "write"}
      /\ \A p \in TextPaths : syncing'.records[p] \in {Embedding!NoRecord, Embedding!Stored[p]}
  BY SyncBeginIs
<1>3. \A p \in TextPaths : IsTrue(syncing'.records[p], p)
  BY <1>2, StoredTrue DEF IsTrue
<1>4. LockIsHeld'
  <2>1. (HasRecords(syncing) <=> indexLock = Watcher)'
    BY <1>2 DEF HasRecords
  <2>2. (building # Embedding!Idle <=> indexLock = Builder)'
    BY <1>1, <1>2 DEF LockIsHeld, HoldersAreApart
  <2> QED BY <2>1, <2>2 DEF LockIsHeld
<1>5. notices' \in Seq(Notices) /\ lastLogged' \in [TextPaths -> Nat] /\ lost' \in BOOLEAN
  BY <1>1, <1>2 DEF EmbeddingTyped
<1>6. syncing'.pc # "read"
  BY <1>2
<1> QED BY <1>2, <1>3, <1>4, <1>5, <1>6, IndexIs, RecordsKeep

LEMMA SyncStatIs ==
  ASSUME EmbeddingInv, Embedding!SyncStat
  PROVE  LET e == syncing.event
         IN  /\ syncing.pc = "stat" /\ e \in Notices /\ e.path \in TextPaths /\ e.old \in TextPaths /\ MarkdownStays
             /\ UNCHANGED <<embeddings, indexLock, notices, building, lastLogged, lost>>
             /\ syncing' \in Syncs /\ syncing'.event = e /\ syncing'.records = syncing.records
             /\ syncing'.changed = syncing.changed
             /\ IF content[e.path] = 0 THEN syncing'.pc = "write"
                ELSE syncing'.pc = "read" /\ syncing'.stat = content[e.path]
<1> DEFINE e == syncing.event
<1>1. /\ syncing.pc = "stat" /\ MarkdownStays
      /\ UNCHANGED <<embeddings, indexLock, notices, building, lastLogged, lost>>
      /\ syncing' = IF content[e.path] = 0 THEN [syncing EXCEPT !.pc = "write"]
                    ELSE [pc |-> "read", event |-> e, records |-> syncing.records, changed |-> syncing.changed,
                          stat |-> content[e.path]]
  BY DEF Embedding!SyncStat, Embedding!Same, MarkdownStays
<1>2. syncing \in [pc : {"stat", "write"}, event : Notices, records : EmbeddedMaps, changed : BOOLEAN]
  BY <1>1 DEF EmbeddingInv, EmbeddingTyped, Syncs, Embedding!Idle
<1>3. e \in Notices /\ e.path \in TextPaths /\ e.old \in TextPaths
  BY <1>2 DEF Notices
<1>4. content[e.path] \in Nat
  BY <1>3 DEF EmbeddingInv, EmbeddingTyped
<1>5. CASE content[e.path] = 0
  <2>1. syncing' = [syncing EXCEPT !.pc = "write"]
    BY <1>1, <1>5
  <2>2. /\ syncing' \in [pc : {"stat", "write"}, event : Notices, records : EmbeddedMaps, changed : BOOLEAN]
        /\ syncing'.event = e /\ syncing'.records = syncing.records /\ syncing'.changed = syncing.changed
        /\ syncing'.pc = "write"
    BY <1>2, <2>1
  <2>3. syncing' \in Syncs
    BY <2>2 DEF Syncs
  <2> QED BY <1>1, <1>3, <1>5, <2>2, <2>3
<1>6. CASE content[e.path] # 0
  <2>1. syncing' = [pc |-> "read", event |-> e, records |-> syncing.records, changed |-> syncing.changed,
                    stat |-> content[e.path]]
    BY <1>1, <1>6
  <2>2. /\ syncing' \in [pc : {"read", "write"}, event : Notices, records : EmbeddedMaps, changed : BOOLEAN, stat : Nat]
        /\ syncing'.event = e /\ syncing'.records = syncing.records /\ syncing'.changed = syncing.changed
        /\ syncing'.pc = "read" /\ syncing'.stat = content[e.path]
    BY <1>2, <1>4, <2>1
  <2>3. syncing' \in Syncs
    BY <2>2 DEF Syncs
  <2> QED BY <1>1, <1>3, <1>6, <2>2, <2>3
<1> QED BY <1>5, <1>6

LEMMA SyncReadIs ==
  ASSUME EmbeddingInv, Embedding!SyncRead
  PROVE  LET e == syncing.event
             p == e.path
             record == IF content[p] \in blanks THEN Embedding!NoRecord ELSE Embedding!Record(syncing.stat, content[p])
         IN  /\ syncing.pc = "read" /\ e \in Notices /\ p \in TextPaths /\ e.old \in TextPaths /\ MarkdownStays
             /\ UNCHANGED <<embeddings, indexLock, notices, building, lastLogged, lost>>
             /\ syncing' \in Syncs /\ syncing'.event = e /\ syncing'.pc = "write"
             /\ IF content[p] = 0 THEN syncing'.records = syncing.records /\ syncing'.changed = syncing.changed
                ELSE /\ syncing'.records = [syncing.records EXCEPT ![p] = record]
                     /\ syncing'.changed = (syncing.changed \/ record # Embedding!NoRecord
                                                            \/ syncing.records[p] # Embedding!NoRecord)
<1> DEFINE e == syncing.event
           p == e.path
           record == IF content[p] \in blanks THEN Embedding!NoRecord ELSE Embedding!Record(syncing.stat, content[p])
           changed == syncing.changed \/ record # Embedding!NoRecord \/ syncing.records[p] # Embedding!NoRecord
           records == [syncing.records EXCEPT ![p] = record]
           S == [pc : {"read", "write"}, event : Notices, records : EmbeddedMaps, changed : BOOLEAN, stat : Nat]
<1>1. /\ syncing.pc = "read" /\ MarkdownStays
      /\ UNCHANGED <<embeddings, indexLock, notices, building, lastLogged, lost>>
      /\ syncing' = IF content[p] = 0 THEN [syncing EXCEPT !.pc = "write"]
                    ELSE [syncing EXCEPT !.pc = "write", !.changed = changed, !.records = records]
  BY DEF Embedding!SyncRead, Embedding!Same, MarkdownStays
<1>2. syncing \in S
  BY <1>1 DEF EmbeddingInv, EmbeddingTyped, Syncs, Embedding!Idle
<1>3. e \in Notices /\ p \in TextPaths /\ e.old \in TextPaths
  BY <1>2 DEF Notices
<1>4. content[p] \in Nat /\ syncing.stat \in Nat
  BY <1>2, <1>3 DEF EmbeddingInv, EmbeddingTyped
<1>5. record \in Embedded
  BY <1>4, NoRecordTyped DEF Embedding!Record, Embedded
<1>6. records \in EmbeddedMaps /\ changed \in BOOLEAN
  <2>1. syncing.changed \in BOOLEAN /\ syncing.records \in EmbeddedMaps
    BY <1>2
  <2> HIDE DEF record
  <2> QED BY <1>3, <1>5, <2>1 DEF EmbeddedMaps
<1> HIDE DEF records, changed
<1>7. CASE content[p] = 0
  <2>1. syncing' = [syncing EXCEPT !.pc = "write"]
    BY <1>1, <1>7
  <2>2. syncing' \in S /\ syncing'.event = e /\ syncing'.records = syncing.records /\ syncing'.changed = syncing.changed
        /\ syncing'.pc = "write"
    BY <1>2, <2>1
  <2>3. syncing' \in Syncs
    BY <2>2 DEF Syncs
  <2> QED BY <1>1, <1>3, <1>7, <2>2, <2>3
<1>8. CASE content[p] # 0
  <2>1. syncing' = [syncing EXCEPT !.pc = "write", !.changed = changed, !.records = records]
    BY <1>1, <1>8
  <2>2. syncing' \in S /\ syncing'.event = e /\ syncing'.records = records /\ syncing'.changed = changed
        /\ syncing'.pc = "write"
    BY <1>2, <1>6, <2>1
  <2>3. syncing' \in Syncs
    BY <2>2 DEF Syncs
  <2> QED BY <1>1, <1>3, <1>8, <2>2, <2>3 DEF records, changed
<1> QED BY <1>7, <1>8

LEMMA SyncWriteIs ==
  ASSUME EmbeddingInv, Embedding!SyncWrite
  PROVE  /\ syncing.pc = "write" /\ syncing.event \in Notices /\ MarkdownStays /\ indexLock' = NoOne
         /\ UNCHANGED <<notices, building, lastLogged, lost>>
         /\ syncing' = Embedding!Idle /\ Embedding!Idle \in Syncs
         /\ syncing.records \in EmbeddedMaps /\ embeddings' = IF syncing.changed THEN syncing.records ELSE embeddings
<1>1. syncing.pc = "write"
  BY DEF Embedding!SyncWrite
<1>2. HasRecords(syncing) /\ syncing \in Syncs
  BY <1>1 DEF HasRecords, EmbeddingInv, EmbeddingTyped
<1>3. Embedding!Idle \in Syncs
  BY DEF Syncs
<1> QED BY <1>1, <1>2, <1>3, SyncFields DEF Embedding!SyncWrite, Embedding!Same, MarkdownStays

LEMMA SyncKeeps ==
  ASSUME EmbeddingInv, HoldersAreApart, Embedding!SyncStat \/ Embedding!SyncRead \/ Embedding!SyncWrite
  PROVE  EmbeddingInv'
<1>1. EmbeddingTyped /\ LockIsHeld /\ RecordsAreTrue /\ VersionsAreHeld
  BY DEF EmbeddingInv
<1>2. notices \in Seq(Notices) /\ lastLogged \in [TextPaths -> Nat] /\ lost \in BOOLEAN
  BY <1>1 DEF EmbeddingTyped
<1>3. CASE Embedding!SyncStat
  <2>1. /\ syncing.pc = "stat" /\ syncing.event.path \in TextPaths /\ MarkdownStays
        /\ UNCHANGED <<embeddings, indexLock, notices, building, lastLogged, lost>>
        /\ syncing' \in Syncs /\ syncing'.event = syncing.event /\ syncing'.records = syncing.records
        /\ syncing'.pc = "write" \/ (syncing'.pc = "read" /\ content[syncing.event.path] # 0
                                     /\ syncing'.stat = content[syncing.event.path])
    BY <1>3, SyncStatIs
  <2>2. \A p \in TextPaths : IsTrue(syncing'.records[p], p)
    BY <1>1, <2>1 DEF RecordsAreTrue, HasRecords
  <2>3. syncing'.pc = "read" => syncing'.stat \in held[syncing'.event.path]
    BY <1>1, <2>1 DEF VersionsAreHeld
  <2>4. LockIsHeld'
    BY <1>1, <2>1 DEF LockIsHeld, HasRecords
  <2> QED BY <1>2, <2>1, <2>2, <2>3, <2>4, IndexIs, RecordsKeep
<1>4. CASE Embedding!SyncRead
  <2> DEFINE q == syncing.event.path
             record == IF content[q] \in blanks THEN Embedding!NoRecord ELSE Embedding!Record(syncing.stat, content[q])
  <2>1. /\ syncing.pc = "read" /\ q \in TextPaths /\ MarkdownStays
        /\ UNCHANGED <<embeddings, indexLock, notices, building, lastLogged, lost>>
        /\ syncing' \in Syncs /\ syncing'.pc = "write"
        /\ syncing'.records \in {syncing.records, [syncing.records EXCEPT ![q] = record]}
    BY <1>4, SyncReadIs
  <2>2. syncing.records \in EmbeddedMaps /\ \A p \in TextPaths : IsTrue(syncing.records[p], p)
    BY <1>1, <2>1, SyncFields DEF RecordsAreTrue, HasRecords, EmbeddingTyped
  <2>3. IsTrue(record, q)
    <3>1. syncing.stat \in held[q]
      BY <1>1, <2>1 DEF RecordsAreTrue
    <3>2. Embedding!Record(syncing.stat, content[q]).stat = syncing.stat
          /\ Embedding!Record(syncing.stat, content[q]).text = content[q]
      BY DEF Embedding!Record
    <3> QED BY <3>1, <3>2 DEF IsTrue
  <2> HIDE DEF record
  <2>4. \A p \in TextPaths : IsTrue(syncing'.records[p], p)
    BY <2>1, <2>2, <2>3 DEF EmbeddedMaps
  <2>5. LockIsHeld'
    BY <1>1, <2>1 DEF LockIsHeld, HasRecords
  <2>6. syncing'.pc # "read"
    BY <2>1
  <2> QED BY <1>2, <2>1, <2>4, <2>5, <2>6, IndexIs, RecordsKeep
<1>5. CASE Embedding!SyncWrite
  <2>1. /\ syncing.pc = "write" /\ MarkdownStays /\ indexLock' = NoOne
        /\ UNCHANGED <<notices, building, lastLogged, lost>>
        /\ syncing' = Embedding!Idle /\ Embedding!Idle \in Syncs
        /\ syncing.records \in EmbeddedMaps /\ embeddings' = IF syncing.changed THEN syncing.records ELSE embeddings
    BY <1>5, SyncWriteIs
  <2>2. \A p \in TextPaths : IsTrue(syncing.records[p], p)
    BY <1>1, <2>1 DEF RecordsAreTrue, HasRecords
  <2>3. syncing'.pc # "read" /\ ~HasRecords(syncing')
    BY <2>1 DEF HasRecords, Embedding!Idle
  <2>4. LockIsHeld'
    <3>1. (HasRecords(syncing) <=> indexLock = Watcher)'
      BY <2>1, <2>3 DEF HasRecords, HoldersAreApart
    <3>2. indexLock = Watcher
      BY <1>1, <2>1 DEF LockIsHeld, HasRecords
    <3>3. (building # Embedding!Idle <=> indexLock = Builder)'
      BY <1>1, <2>1, <3>2 DEF LockIsHeld, HoldersAreApart
    <3> QED BY <3>1, <3>3 DEF LockIsHeld
  <2>5. embeddings' # Embedding!Absent => embeddings' \in EmbeddedMaps /\ \A p \in TextPaths : IsTrue(embeddings'[p], p)
    BY <2>1, <2>2, IndexIs
  <2> QED BY <1>2, <2>1, <2>3, <2>4, <2>5, RecordsKeep
<1> QED BY <1>3, <1>4, <1>5

(* The builder's steps, by what they make of the build. *)
LEMMA BuildBeginIs ==
  ASSUME EmbeddingInv, NEW force \in BOOLEAN, Embedding!BuildBegin(force)
  PROVE  /\ building = Embedding!Idle /\ indexLock = NoOne /\ indexLock' = Builder /\ MarkdownStays
         /\ UNCHANGED <<embeddings, notices, syncing, lastLogged, lost>>
         /\ building' \in Rebuilds /\ building'.pc = "stat" /\ building'.cache = Embedding!Stored /\ building'.seen = {}
         /\ building'.changed = FALSE /\ building'.todo = {p \in TextPaths : content[p] # 0}
<1>1. /\ building = Embedding!Idle /\ indexLock = NoOne /\ indexLock' = Builder /\ MarkdownStays
      /\ UNCHANGED <<embeddings, notices, syncing, lastLogged, lost>>
      /\ building' = [pc |-> "stat", force |-> force, cache |-> Embedding!Stored, seen |-> {}, path |-> NoOne, stat |-> 0,
                      changed |-> FALSE, todo |-> {p \in TextPaths : content[p] # 0}]
  BY DEF Embedding!BuildBegin, Embedding!Same, MarkdownStays
<1>2. Embedding!Stored \in EmbeddedMaps
  BY StoredTrue
<1>3. building' \in Rebuilds
  BY <1>1, <1>2 DEF Rebuilds
<1> QED BY <1>1, <1>3

LEMMA BuildStatIs ==
  ASSUME EmbeddingInv, building # Embedding!Idle, Embedding!BuildStat
  PROVE  /\ building.pc = "stat" /\ MarkdownStays
         /\ UNCHANGED <<embeddings, indexLock, notices, syncing, lastLogged, lost>>
         /\ building \in Rebuilds /\ building' \in Rebuilds /\ building'.cache = building.cache
         /\ building'.seen = building.seen /\ building'.changed = building.changed
         /\ \E p \in building.todo :
              /\ building'.todo = building.todo \ {p}
              /\ IF content[p] = 0 THEN building'.pc = "stat"
                 ELSE building'.pc = "read" /\ building'.path = p /\ building'.stat = content[p]
<1>1. /\ building.pc = "stat" /\ MarkdownStays
      /\ UNCHANGED <<embeddings, indexLock, notices, syncing, lastLogged, lost>>
  BY DEF Embedding!BuildStat, Embedding!Same, MarkdownStays
<1>2. PICK p \in building.todo :
        building' = IF content[p] = 0 THEN [building EXCEPT !.todo = @ \ {p}]
                    ELSE [building EXCEPT !.pc = "read", !.path = p, !.stat = content[p], !.todo = @ \ {p}]
  BY DEF Embedding!BuildStat
<1>3. building \in Rebuilds
  BY DEF EmbeddingInv, EmbeddingTyped
<1>4. p \in TextPaths /\ content[p] \in Nat
  BY <1>3 DEF EmbeddingInv, EmbeddingTyped, Rebuilds
<1>5. CASE content[p] = 0
  <2>1. /\ building' \in Rebuilds /\ building'.cache = building.cache /\ building'.seen = building.seen
        /\ building'.changed = building.changed /\ building'.todo = building.todo \ {p} /\ building'.pc = "stat"
    BY <1>1, <1>2, <1>3, <1>5 DEF Rebuilds
  <2> QED BY <1>1, <1>3, <1>5, <2>1
<1>6. CASE content[p] # 0
  <2>1. building' = [building EXCEPT !.pc = "read", !.path = p, !.stat = content[p], !.todo = @ \ {p}]
    BY <1>2, <1>6
  <2>2. /\ building' \in Rebuilds /\ building'.cache = building.cache /\ building'.seen = building.seen
        /\ building'.changed = building.changed /\ building'.todo = building.todo \ {p} /\ building'.pc = "read"
        /\ building'.path = p /\ building'.stat = content[p]
    BY <1>3, <1>4, <2>1 DEF Rebuilds
  <2> QED BY <1>1, <1>3, <1>6, <2>2
<1> QED BY <1>5, <1>6

LEMMA BuildReadIs ==
  ASSUME EmbeddingInv, building # Embedding!Idle, Embedding!BuildRead
  PROVE  LET q == building.path
             text == content[q]
         IN  /\ building.pc = "read" /\ q \in TextPaths /\ MarkdownStays
             /\ UNCHANGED <<embeddings, indexLock, notices, syncing, lastLogged, lost>>
             /\ building \in Rebuilds /\ building' \in Rebuilds /\ building'.pc = "stat" /\ building'.todo = building.todo
             /\ \/ /\ text # 0 /\ text \in blanks
                   /\ UNCHANGED <<building.seen, building.cache, building.changed>>
                \/ /\ text = 0 \/ (text \notin blanks /\ building.cache[q].stat = building.stat)
                   /\ building'.seen = building.seen \cup {q} /\ UNCHANGED <<building.cache, building.changed>>
                \/ /\ text # 0 /\ text \notin blanks
                   /\ building'.seen = building.seen \cup {q} /\ building'.changed = TRUE
                   /\ building'.cache = [building.cache EXCEPT ![q] = Embedding!Record(building.stat, text)]
<1> DEFINE q == building.path
           text == content[q]
           rest == [building EXCEPT !.pc = "stat"]
           record == Embedding!Record(building.stat, text)
           taken == [building.cache EXCEPT ![q] = record]
<1>1. /\ building.pc = "read" /\ MarkdownStays
      /\ UNCHANGED <<embeddings, indexLock, notices, syncing, lastLogged, lost>>
      /\ building' = IF text = 0 THEN [rest EXCEPT !.seen = @ \cup {q}]
                     ELSE IF text \in blanks THEN rest
                     ELSE IF ~building.force /\ building.cache[q].stat = building.stat THEN [rest EXCEPT !.seen = @ \cup {q}]
                     ELSE [rest EXCEPT !.seen = @ \cup {q}, !.changed = TRUE, !.cache = [@ EXCEPT ![q] = record]]
  BY DEF Embedding!BuildRead, Embedding!Same, MarkdownStays
<1>2. building \in Rebuilds /\ q \in TextPaths
  BY <1>1 DEF EmbeddingInv, EmbeddingTyped
<1>3. text \in Nat /\ building.stat \in Nat
  BY <1>2 DEF EmbeddingInv, EmbeddingTyped, Rebuilds
<1>4. record \in Embedded
  BY <1>3 DEF Embedding!Record, Embedded
<1>5. taken \in EmbeddedMaps
  <2>1. building.cache \in EmbeddedMaps
    BY <1>2 DEF Rebuilds
  <2> HIDE DEF record
  <2> QED BY <1>2, <1>4, <2>1 DEF EmbeddedMaps
<1>6. /\ rest \in Rebuilds /\ rest.pc = "stat" /\ rest.todo = building.todo /\ rest.seen = building.seen
      /\ rest.cache = building.cache /\ rest.changed = building.changed
  BY <1>2 DEF Rebuilds
<1> HIDE DEF rest, record
<1>7. LET more == [rest EXCEPT !.seen = @ \cup {q}]
      IN  /\ more \in Rebuilds /\ more.pc = "stat" /\ more.todo = building.todo /\ more.seen = building.seen \cup {q}
          /\ more.cache = building.cache /\ more.changed = building.changed
  BY <1>2, <1>6 DEF Rebuilds
<1>8. LET more == [rest EXCEPT !.seen = @ \cup {q}, !.changed = TRUE, !.cache = [@ EXCEPT ![q] = record]]
      IN  /\ more \in Rebuilds /\ more.pc = "stat" /\ more.todo = building.todo /\ more.seen = building.seen \cup {q}
          /\ more.cache = taken /\ more.changed = TRUE
  BY <1>2, <1>5, <1>6 DEF Rebuilds
<1>9. CASE text = 0
  BY <1>1, <1>2, <1>7, <1>9
<1>10. CASE text # 0 /\ text \in blanks
  BY <1>1, <1>2, <1>6, <1>10
<1>11. CASE text # 0 /\ text \notin blanks
  <2>1. CASE ~building.force /\ building.cache[q].stat = building.stat
    BY <1>1, <1>2, <1>7, <1>11, <2>1
  <2>2. CASE ~(~building.force /\ building.cache[q].stat = building.stat)
    <3>1. building' = [rest EXCEPT !.seen = @ \cup {q}, !.changed = TRUE, !.cache = [@ EXCEPT ![q] = record]]
      BY <1>1, <1>11, <2>2
    <3>2. /\ building' \in Rebuilds /\ building'.pc = "stat" /\ building'.todo = building.todo
          /\ building'.seen = building.seen \cup {q} /\ building'.cache = taken /\ building'.changed = TRUE
      BY <1>8, <3>1
    <3> QED BY <1>1, <1>2, <1>11, <3>2 DEF record
  <2> QED BY <2>1, <2>2
<1> QED BY <1>9, <1>10, <1>11

LEMMA BuildWriteIs ==
  ASSUME EmbeddingInv, building # Embedding!Idle, Embedding!BuildWrite
  PROVE  LET kept == Embedding!Kept(building.cache, building.seen)
         IN  /\ building.pc = "stat" /\ building.todo = {} /\ MarkdownStays /\ indexLock' = NoOne
             /\ building \in Rebuilds /\ building' = Embedding!Idle /\ UNCHANGED <<notices, syncing, lastLogged, lost>>
             /\ kept \in EmbeddedMaps /\ embeddings' = IF building.changed \/ kept # building.cache THEN kept ELSE embeddings
<1>1. building \in Rebuilds /\ building.cache \in EmbeddedMaps
  BY DEF EmbeddingInv, EmbeddingTyped, Rebuilds
<1>2. Embedding!Kept(building.cache, building.seen) \in EmbeddedMaps
  BY <1>1, NoRecordTyped DEF Embedding!Kept, EmbeddedMaps
<1> QED BY <1>1, <1>2 DEF Embedding!BuildWrite, Embedding!Same, MarkdownStays

LEMMA BuildKeepsIndex ==
  ASSUME EmbeddingInv, HoldersAreApart, Embedding!Build PROVE EmbeddingInv'
<1>1. EmbeddingTyped /\ LockIsHeld /\ RecordsAreTrue /\ VersionsAreHeld
  BY DEF EmbeddingInv
<1>2. /\ notices \in Seq(Notices) /\ lastLogged \in [TextPaths -> Nat] /\ lost \in BOOLEAN
  BY <1>1 DEF EmbeddingTyped
<1>3. ASSUME NEW force \in BOOLEAN, Embedding!BuildBegin(force) PROVE EmbeddingInv'
  <2>1. /\ building = Embedding!Idle /\ indexLock = NoOne /\ indexLock' = Builder /\ MarkdownStays
        /\ UNCHANGED <<embeddings, notices, syncing, lastLogged, lost>>
        /\ building' \in Rebuilds /\ building'.pc = "stat" /\ building'.cache = Embedding!Stored
    BY <1>3, BuildBeginIs
  <2>2. LockIsHeld'
    BY <1>1, <2>1, IdleBuild DEF LockIsHeld, HasRecords, HoldersAreApart
  <2>3. \A p \in TextPaths : IsTrue(building'.cache[p], p)
    BY <2>1, StoredTrue
  <2>4. building'.pc # "read"
    BY <2>1
  <2> QED BY <1>2, <2>1, <2>2, <2>3, <2>4, IndexIs, RecordsKeep
<1>4. building.pc # "idle" => building # Embedding!Idle
  BY IdleBuild
<1>5. CASE Embedding!BuildStat
  <2>1. building # Embedding!Idle
    BY <1>4, <1>5 DEF Embedding!BuildStat
  <2>2. /\ MarkdownStays /\ UNCHANGED <<embeddings, indexLock, notices, syncing, lastLogged, lost>>
        /\ building \in Rebuilds /\ building' \in Rebuilds /\ building'.cache = building.cache
        /\ \E p \in building.todo :
             building'.pc = "read" => content[p] # 0 /\ building'.path = p /\ building'.stat = content[p]
    BY <1>5, <2>1, BuildStatIs
  <2>3. building.todo \subseteq TextPaths
    BY <2>2 DEF Rebuilds
  <2>4. building'.pc = "read" => building'.path \in TextPaths /\ building'.stat \in held[building'.path]
    BY <1>1, <2>2, <2>3 DEF VersionsAreHeld
  <2>5. \A p \in TextPaths : IsTrue(building'.cache[p], p)
    BY <1>1, <2>1, <2>2 DEF RecordsAreTrue
  <2>6. LockIsHeld'
    BY <1>1, <2>1, <2>2, IdleBuild DEF LockIsHeld, HasRecords
  <2> QED BY <1>2, <2>2, <2>4, <2>5, <2>6, IndexIs, RecordsKeep
<1>6. CASE Embedding!BuildRead
  <2> DEFINE q == building.path
             record == Embedding!Record(building.stat, content[q])
  <2>1. building # Embedding!Idle
    BY <1>4, <1>6 DEF Embedding!BuildRead
  <2>2. /\ MarkdownStays /\ UNCHANGED <<embeddings, indexLock, notices, syncing, lastLogged, lost>>
        /\ building \in Rebuilds /\ building' \in Rebuilds /\ building'.pc = "stat" /\ q \in TextPaths
        /\ building.pc = "read"
        /\ building'.cache \in {building.cache, [building.cache EXCEPT ![q] = record]}
    BY <1>6, <2>1, BuildReadIs
  <2>3. IsTrue(record, q)
    <3>1. building.stat \in held[q]
      BY <1>1, <2>1, <2>2 DEF RecordsAreTrue
    <3>2. record.stat = building.stat /\ record.text = content[q]
      BY DEF Embedding!Record
    <3> QED BY <3>1, <3>2 DEF IsTrue
  <2> HIDE DEF record
  <2>4. \A p \in TextPaths : IsTrue(building'.cache[p], p)
    <3>1. building.cache \in EmbeddedMaps /\ \A p \in TextPaths : IsTrue(building.cache[p], p)
      BY <1>1, <2>1, <2>2 DEF RecordsAreTrue, Rebuilds
    <3> QED BY <2>2, <2>3, <3>1 DEF EmbeddedMaps
  <2>5. LockIsHeld'
    BY <1>1, <2>1, <2>2, IdleBuild DEF LockIsHeld, HasRecords
  <2>6. building'.pc # "read"
    BY <2>2
  <2> QED BY <1>2, <2>2, <2>4, <2>5, <2>6, IndexIs, RecordsKeep
<1>7. CASE Embedding!BuildWrite
  <2> DEFINE kept == Embedding!Kept(building.cache, building.seen)
  <2>1. building # Embedding!Idle
    BY <1>4, <1>7 DEF Embedding!BuildWrite
  <2>2. /\ MarkdownStays /\ indexLock' = NoOne /\ building' = Embedding!Idle
        /\ UNCHANGED <<notices, syncing, lastLogged, lost>>
        /\ kept \in EmbeddedMaps /\ embeddings' \in {kept, embeddings}
    BY <1>7, <2>1, BuildWriteIs
  <2>3. \A p \in TextPaths : IsTrue(kept[p], p)
    BY <1>1, <2>1 DEF RecordsAreTrue, Embedding!Kept, IsTrue
  <2>4. embeddings' # Embedding!Absent => embeddings' \in EmbeddedMaps /\ \A p \in TextPaths : IsTrue(embeddings'[p], p)
    BY <2>2, <2>3, IndexIs
  <2>5. LockIsHeld'
    <3>1. indexLock = Builder /\ ~HasRecords(syncing)
      BY <1>1, <2>1 DEF LockIsHeld, HoldersAreApart
    <3> QED BY <2>2, <3>1 DEF LockIsHeld, HasRecords, HoldersAreApart
  <2> QED BY <1>2, <2>2, <2>4, <2>5, RecordsKeep
<1> QED BY <1>3, <1>5, <1>6, <1>7 DEF Embedding!Build

LEMMA ClearAndKillKeep ==
  ASSUME EmbeddingInv, HoldersAreApart, Embedding!Clear \/ \E who \in {Watcher, Builder} : Embedding!Kill(who)
  PROVE  EmbeddingInv'
<1>1. EmbeddingTyped /\ LockIsHeld
  BY DEF EmbeddingInv
<1>2. /\ notices \in Seq(Notices) /\ lastLogged \in [TextPaths -> Nat] /\ lost \in BOOLEAN
      /\ <<>> \in Seq(Notices) /\ Embedding!Idle \in Syncs
  BY <1>1 DEF EmbeddingTyped, Syncs
<1>3. CASE Embedding!Clear
  <2>1. /\ embeddings' = Embedding!Absent /\ MarkdownStays /\ lost' \in BOOLEAN
        /\ UNCHANGED <<indexLock, notices, syncing, building, lastLogged>>
    BY <1>3 DEF Embedding!Clear, Embedding!Same, MarkdownStays
  <2>2. LockIsHeld'
    BY <1>1, <2>1 DEF LockIsHeld, HasRecords
  <2> QED BY <1>2, <2>1, <2>2, RecordsKeep
<1>4. CASE Embedding!Kill(Watcher)
  <2>1. /\ indexLock' = (IF indexLock = Watcher THEN NoOne ELSE indexLock) /\ syncing' = Embedding!Idle
        /\ notices' = <<>> /\ lost' = TRUE /\ UNCHANGED <<building, embeddings, lastLogged>> /\ MarkdownStays
    BY <1>4 DEF Embedding!Kill, Embedding!Same, MarkdownStays
  <2>2. ~HasRecords(syncing') /\ syncing'.pc # "read"
    BY <2>1 DEF HasRecords, Embedding!Idle
  <2>3. LockIsHeld'
    BY <1>1, <2>1, <2>2 DEF LockIsHeld, HasRecords, HoldersAreApart
  <2> QED BY <1>2, <2>1, <2>2, <2>3, IndexIs, RecordsKeep
<1>5. CASE Embedding!Kill(Builder)
  <2>1. /\ indexLock' = (IF indexLock = Builder THEN NoOne ELSE indexLock) /\ building' = Embedding!Idle
        /\ UNCHANGED <<syncing, notices, lost, embeddings, lastLogged>> /\ MarkdownStays
    BY <1>5 DEF Embedding!Kill, Embedding!Same, MarkdownStays, HoldersAreApart
  <2>2. LockIsHeld'
    BY <1>1, <2>1 DEF LockIsHeld, HasRecords, HoldersAreApart
  <2> QED BY <1>2, <2>1, <2>2, IndexIs, RecordsKeep
<1> QED BY <1>3, <1>4, <1>5

-----------------------------------------------------------------------------
(* What the watcher has still to hear of. *)
Concerns(e, p) == p \in {e.path, e.old}
Makes(e, p) == e.op # "delete" /\ e.path = p
PendingIn(s, p) == \E k \in 1 .. Len(s) : Concerns(s[k], p)
(* The last event about a path says whether it is there. *)
LastSays(s, p, there) ==
  \A k \in 1 .. Len(s) :
    (Concerns(s[k], p) /\ \A j \in 1 .. Len(s) : j > k => ~Concerns(s[j], p)) => (Makes(s[k], p) <=> there)

LEMMA AppendSays ==
  ASSUME NEW s \in Seq(Notices), NEW e \in Notices, NEW p, NEW there \in BOOLEAN
  PROVE  /\ PendingIn(Append(s, e), p) <=> PendingIn(s, p) \/ Concerns(e, p)
         /\ (IF Concerns(e, p) THEN Makes(e, p) <=> there ELSE LastSays(s, p, there)) => LastSays(Append(s, e), p, there)
<1> DEFINE t == Append(s, e)
<1>1. /\ Len(t) = Len(s) + 1 /\ t[Len(s) + 1] = e /\ Len(s) \in Nat
      /\ \A k \in 1 .. Len(s) : t[k] = s[k]
  OBVIOUS
<1> HIDE DEF t
<1>2. PendingIn(t, p) <=> PendingIn(s, p) \/ Concerns(e, p)
  BY <1>1 DEF PendingIn
<1>3. ASSUME IF Concerns(e, p) THEN Makes(e, p) <=> there ELSE LastSays(s, p, there),
             NEW k \in 1 .. Len(t), Concerns(t[k], p), \A j \in 1 .. Len(t) : j > k => ~Concerns(t[j], p)
      PROVE  Makes(t[k], p) <=> there
  <2>1. CASE k = Len(s) + 1
    BY <1>1, <1>3, <2>1
  <2>2. CASE k # Len(s) + 1
    <3>1. k \in 1 .. Len(s) /\ t[k] = s[k] /\ ~Concerns(e, p)
      BY <1>1, <1>3, <2>2
    <3>2. \A j \in 1 .. Len(s) : j > k => ~Concerns(s[j], p)
      BY <1>1, <1>3
    <3> QED BY <1>3, <3>1, <3>2 DEF LastSays
  <2> QED BY <2>1, <2>2
<1>4. (IF Concerns(e, p) THEN Makes(e, p) <=> there ELSE LastSays(s, p, there)) => LastSays(t, p, there)
  BY <1>3 DEF LastSays
<1> QED BY <1>2, <1>4 DEF t

LEMMA TailSays ==
  ASSUME NEW s \in Seq(Notices), s # <<>>, NEW p, NEW there \in BOOLEAN
  PROVE  /\ PendingIn(s, p) <=> PendingIn(Tail(s), p) \/ Concerns(Head(s), p)
         /\ LastSays(s, p, there) => /\ LastSays(Tail(s), p, there)
                                     /\ (Concerns(Head(s), p) /\ ~PendingIn(Tail(s), p)) => (Makes(Head(s), p) <=> there)
<1> DEFINE t == Tail(s)
           e == Head(s)
<1>1. /\ Len(s) = Len(t) + 1 /\ s[1] = e /\ Len(t) \in Nat
      /\ \A k \in 1 .. Len(t) : t[k] = s[k + 1]
  OBVIOUS
<1> HIDE DEF t, e
<1>2. \A k \in 1 .. Len(s) : k = 1 \/ (k - 1 \in 1 .. Len(t) /\ s[k] = t[k - 1])
  <2>1. ASSUME NEW k \in 1 .. Len(s), k # 1 PROVE k - 1 \in 1 .. Len(t) /\ s[(k - 1) + 1] = t[k - 1] /\ (k - 1) + 1 = k
    BY <1>1, <2>1
  <2> QED BY <2>1
<1>3. PendingIn(s, p) <=> PendingIn(t, p) \/ Concerns(e, p)
  <2>1. PendingIn(s, p) => PendingIn(t, p) \/ Concerns(e, p)
    BY <1>1, <1>2 DEF PendingIn
  <2>2. PendingIn(t, p) => PendingIn(s, p)
    <3>1. ASSUME NEW k \in 1 .. Len(t), Concerns(t[k], p) PROVE k + 1 \in 1 .. Len(s) /\ Concerns(s[k + 1], p)
      BY <1>1, <3>1
    <3> QED BY <3>1 DEF PendingIn
  <2>3. Concerns(e, p) => PendingIn(s, p)
    BY <1>1 DEF PendingIn
  <2> QED BY <2>1, <2>2, <2>3
<1>4. ASSUME LastSays(s, p, there), NEW k \in 1 .. Len(t), Concerns(t[k], p),
             \A j \in 1 .. Len(t) : j > k => ~Concerns(t[j], p)
      PROVE  Makes(t[k], p) <=> there
  <2>1. k + 1 \in 1 .. Len(s) /\ s[k + 1] = t[k]
    BY <1>1
  <2>2. ASSUME NEW j \in 1 .. Len(s), j > k + 1 PROVE ~Concerns(s[j], p)
    <3>1. j - 1 \in 1 .. Len(t) /\ s[j] = t[j - 1] /\ j - 1 > k
      BY <1>2, <2>2
    <3> QED BY <1>4, <3>1
  <2> QED BY <1>4, <2>1, <2>2 DEF LastSays
<1>5. ASSUME LastSays(s, p, there), Concerns(e, p), ~PendingIn(t, p) PROVE Makes(e, p) <=> there
  <2>1. ASSUME NEW j \in 1 .. Len(s), j > 1 PROVE ~Concerns(s[j], p)
    <3>1. j - 1 \in 1 .. Len(t) /\ s[j] = t[j - 1]
      BY <1>2, <2>1
    <3> QED BY <1>5, <3>1 DEF PendingIn
  <2>2. 1 \in 1 .. Len(s) /\ Concerns(s[1], p)
    BY <1>1, <1>5
  <2> QED BY <1>1, <1>5, <2>1, <2>2 DEF LastSays
<1>6. LastSays(s, p, there) => LastSays(t, p, there)
  BY <1>4 DEF LastSays
<1> QED BY <1>3, <1>5, <1>6 DEF t, e

(* The record a path should have. *)
IsRight(p, r) ==
  r = IF p \in Embedding!Texts THEN [stat |-> content[p], text |-> content[p]] ELSE Embedding!NoRecord
IsPending(p) == PendingIn(notices, p)
IsHeard(p) == IsPending(p) \/ (syncing.pc # "idle" /\ Concerns(syncing.event, p))
NoticesAgree ==
  \A p \in TextPaths :
    /\ LastSays(notices, p, content[p] # 0)
    /\ (syncing.pc # "idle" /\ Concerns(syncing.event, p) /\ ~IsPending(p)) => (Makes(syncing.event, p) <=> content[p] # 0)
LogFollows == \A p \in TextPaths : content[p] = 0 \/ lastLogged[p] = content[p] \/ IsPending(p)
IndexFollows == embeddings # Embedding!Absent => \A p \in TextPaths : IsRight(p, embeddings[p]) \/ IsHeard(p)
IsOpen(p) == syncing.pc \in {"stat", "read"} /\ p = syncing.event.path
SyncFollows ==
  /\ syncing.pc = "wait" => embeddings # Embedding!Absent
  /\ HasRecords(syncing) =>
       /\ \A p \in TextPaths : IsOpen(p) \/ IsRight(p, syncing.records[p]) \/ IsPending(p)
       /\ ~syncing.changed => embeddings \in {Embedding!Absent, syncing.records}
  /\ syncing.pc \in {"stat", "read"} => syncing.event.op # "delete"
  /\ syncing.pc = "read" => syncing.stat = content[syncing.event.path] \/ IsPending(syncing.event.path)
IsReading(p) == building.pc = "read" /\ building.path = p
(* What the build will store of a path it is done with. *)
WillKeep(p) == IF p \in building.seen THEN building.cache[p] ELSE Embedding!NoRecord
BuildFollows ==
  building # Embedding!Idle =>
    /\ \A p \in TextPaths :
         /\ building.cache[p] = Embedding!NoRecord \/ IsRight(p, building.cache[p]) \/ IsHeard(p)
         /\ \/ p \in building.todo \/ IsReading(p) \/ IsHeard(p)
            \/ IsRight(p, WillKeep(p))
         /\ p \in building.todo => p \notin building.seen
         /\ IsReading(p) => p \notin building.seen \cup building.todo
    /\ ~building.changed => embeddings \in {Embedding!Absent, building.cache}
    /\ building.pc = "read" => building.stat = content[building.path] \/ IsHeard(building.path)
IndexKeepsStep == NoticesAgree /\ LogFollows /\ IndexFollows /\ SyncFollows /\ BuildFollows

LEMMA EditsKeepStep == ASSUME EmbeddingInv, Embedding!Edit, IndexKeepsStep PROVE IndexKeepsStep'
<1>1. AnEdit /\ EmbeddingTyped /\ VersionsAreHeld
  BY EditIs DEF EmbeddingInv
<1>2. /\ UNCHANGED <<embeddings, indexLock, syncing, building, lastLogged, lost>>
      /\ newest' = newest + 1 /\ newest \in Nat /\ blanks \subseteq blanks' /\ blanks' \subseteq blanks \cup {newest + 1}
  BY <1>1 DEF AnEdit
<1>3. PICK e \in Notices :
        /\ notices' = Append(notices, e)
        /\ \A p \in TextPaths : /\ p \notin {e.path, e.old} => content'[p] = content[p]
                                /\ p \in {e.path, e.old} => ((e.op # "delete" /\ e.path = p) <=> content'[p] # 0)
  BY <1>1 DEF AnEdit
<1>4. notices \in Seq(Notices)
  BY <1>1 DEF EmbeddingTyped
<1>5. \A p \in TextPaths : IsPending(p)' <=> IsPending(p) \/ Concerns(e, p)
  <2>1. ASSUME NEW p \in TextPaths PROVE PendingIn(notices', p) <=> PendingIn(notices, p) \/ Concerns(e, p)
    BY <1>3, <1>4, AppendSays
  <2> QED BY <2>1 DEF IsPending
<1>6. \A p \in TextPaths : IsHeard(p)' <=> IsHeard(p) \/ Concerns(e, p)
  BY <1>2, <1>5 DEF IsHeard
<1>7. \A p \in TextPaths : ~Concerns(e, p) => content'[p] = content[p]
  BY <1>3 DEF Concerns
<1>8. ASSUME NEW p \in TextPaths, NEW r, IsRight(p, r), ~Concerns(e, p) PROVE IsRight(p, r)'
  <2>1. content[p] \in Nat /\ (content[p] # 0 => content[p] <= newest) /\ content'[p] = content[p]
    BY <1>1, <1>7, <1>8 DEF EmbeddingTyped, VersionsAreHeld
  <2>2. content[p] \in blanks' <=> content[p] \in blanks
    BY <1>2, <2>1, <1>1 DEF EmbeddingTyped, VersionsAreHeld
  <2>3. p \in Embedding!Texts' <=> p \in Embedding!Texts
    BY <2>1, <2>2 DEF Embedding!Texts
  <2>4. (IF p \in Embedding!Texts THEN [stat |-> content[p], text |-> content[p]] ELSE Embedding!NoRecord)'
          = IF p \in Embedding!Texts THEN [stat |-> content[p], text |-> content[p]] ELSE Embedding!NoRecord
    BY <2>1, <2>3 DEF Embedding!NoRecord
  <2> QED BY <1>8, <2>4 DEF IsRight
<1>9. NoticesAgree'
  <2>1. ASSUME NEW p \in TextPaths PROVE LastSays(notices', p, content'[p] # 0)
    <3>1. LastSays(notices, p, content[p] # 0)
      BY DEF IndexKeepsStep, NoticesAgree
    <3>2. IF Concerns(e, p) THEN Makes(e, p) <=> content'[p] # 0 ELSE LastSays(notices, p, content'[p] # 0)
      BY <1>3, <1>7, <3>1 DEF Concerns, Makes
    <3>3. (content'[p] # 0) \in BOOLEAN
      OBVIOUS
    <3> QED BY <1>3, <1>4, <3>2, <3>3, AppendSays
  <2>2. ASSUME NEW p \in TextPaths, syncing.pc # "idle", Concerns(syncing.event, p), ~IsPending(p)'
        PROVE  Makes(syncing.event, p) <=> content'[p] # 0
    BY <1>5, <1>7, <2>2 DEF IndexKeepsStep, NoticesAgree
  <2> QED BY <1>2, <2>1, <2>2 DEF NoticesAgree
<1>10. LogFollows'
  BY <1>2, <1>5, <1>7 DEF IndexKeepsStep, LogFollows
<1>11. IndexFollows'
  BY <1>2, <1>6, <1>8 DEF IndexKeepsStep, IndexFollows
<1>12. SyncFollows'
  <2>1. syncing.pc = "read" => syncing.event.path \in TextPaths
    BY <1>1, SyncFields DEF EmbeddingTyped
  <2>2. \A p : IsOpen(p)' <=> IsOpen(p)
    BY <1>2 DEF IsOpen
  <2>3. HasRecords(syncing) =>
          /\ \A p \in TextPaths : IsOpen(p)' \/ IsRight(p, syncing.records[p])' \/ IsPending(p)'
          /\ ~syncing.changed => embeddings' \in {Embedding!Absent, syncing.records}
    BY <1>2, <1>5, <1>8, <2>2 DEF IndexKeepsStep, SyncFollows
  <2>4. syncing.pc = "read" => syncing.stat = content'[syncing.event.path] \/ IsPending(syncing.event.path)'
    BY <1>2, <1>5, <1>7, <2>1 DEF IndexKeepsStep, SyncFollows
  <2>5. (syncing.pc = "wait" => embeddings # Embedding!Absent) /\ (syncing.pc \in {"stat", "read"} => syncing.event.op # "delete")
    BY DEF IndexKeepsStep, SyncFollows
  <2> QED BY <1>2, <2>3, <2>4, <2>5 DEF SyncFollows, HasRecords
<1>13. BuildFollows'
  <2> SUFFICES ASSUME building # Embedding!Idle
               PROVE  (/\ \A p \in TextPaths :
                            /\ building.cache[p] = Embedding!NoRecord \/ IsRight(p, building.cache[p]) \/ IsHeard(p)
                            /\ \/ p \in building.todo \/ IsReading(p) \/ IsHeard(p)
                               \/ IsRight(p, WillKeep(p))
                            /\ p \in building.todo => p \notin building.seen
                            /\ IsReading(p) => p \notin building.seen \cup building.todo
                       /\ ~building.changed => embeddings \in {Embedding!Absent, building.cache}
                       /\ building.pc = "read" => building.stat = content[building.path] \/ IsHeard(building.path))'
    BY <1>2 DEF BuildFollows
  <2>1. BuildFollows
    BY DEF IndexKeepsStep
  <2>2. building.pc = "read" => building.path \in TextPaths
    BY <1>1 DEF EmbeddingTyped
  <2>3. \A p : IsReading(p)' <=> IsReading(p)
    BY <1>2 DEF IsReading
  <2>4. ASSUME NEW p \in TextPaths
        PROVE  /\ building.cache[p] = Embedding!NoRecord \/ IsRight(p, building.cache[p])' \/ IsHeard(p)'
               /\ \/ p \in building.todo \/ IsReading(p)' \/ IsHeard(p)'
                  \/ IsRight(p, WillKeep(p))'
               /\ p \in building.todo => p \notin building.seen
               /\ IsReading(p)' => p \notin building.seen \cup building.todo
    <3>1. building.cache[p] = Embedding!NoRecord \/ IsRight(p, building.cache[p]) \/ IsHeard(p)
      BY <2>1 DEF BuildFollows
    <3>2. \/ p \in building.todo \/ IsReading(p) \/ IsHeard(p)
          \/ IsRight(p, WillKeep(p))
      BY <2>1 DEF BuildFollows
    <3>3. (p \in building.todo => p \notin building.seen) /\ (IsReading(p) => p \notin building.seen \cup building.todo)
      BY <2>1 DEF BuildFollows
    <3>4. ~Concerns(e, p) /\ IsRight(p, building.cache[p]) => IsRight(p, building.cache[p])'
      BY <1>2, <1>8
    <3>5. ~Concerns(e, p) /\ IsRight(p, WillKeep(p)) => IsRight(p, WillKeep(p))'
      <4>1. WillKeep(p)' = WillKeep(p)
        BY <1>2 DEF WillKeep, Embedding!NoRecord
      <4> QED BY <1>8, <4>1
    <3>6. building.cache[p] = Embedding!NoRecord \/ IsRight(p, building.cache[p])' \/ IsHeard(p)'
      BY <1>6, <3>1, <3>4
    <3>7. \/ p \in building.todo \/ IsReading(p)' \/ IsHeard(p)'
          \/ IsRight(p, WillKeep(p))'
      BY <1>6, <2>3, <3>2, <3>5
    <3>8. IsReading(p)' => p \notin building.seen \cup building.todo
      BY <2>3, <3>3
    <3> QED BY <3>3, <3>6, <3>7, <3>8
  <2>5. ASSUME building.pc = "read" PROVE building.stat = content'[building.path] \/ IsHeard(building.path)'
    <3>1. building.stat = content[building.path] \/ IsHeard(building.path)
      BY <2>1, <2>5 DEF BuildFollows
    <3>2. PICK q \in TextPaths : q = building.path
      BY <2>2, <2>5
    <3>3. IsHeard(q)' => IsHeard(building.path)'
      BY <1>2, <3>2
    <3>4. IsHeard(q) \/ Concerns(e, q) => IsHeard(q)'
      BY <1>6
    <3>5. ~Concerns(e, q) => content'[q] = content[q]
      BY <1>7
    <3> QED BY <3>1, <3>2, <3>3, <3>4, <3>5
  <2>6. ~building.changed => embeddings \in {Embedding!Absent, building.cache}
    BY <2>1 DEF BuildFollows
  <2> QED BY <1>2, <2>4, <2>5, <2>6
<1> QED BY <1>9, <1>10, <1>11, <1>12, <1>13 DEF IndexKeepsStep

LEMMA RightStays == ASSUME MarkdownStays, NEW p, NEW r PROVE IsRight(p, r)' <=> IsRight(p, r)
BY DEF MarkdownStays, IsRight, Embedding!Texts, Embedding!NoRecord

(* A step that leaves a part of the state alone leaves what is said of it. *)
LEMMA PartsStay ==
  ASSUME MarkdownStays, notices' = notices
  PROVE  /\ \A p : IsPending(p)' <=> IsPending(p)
         /\ LogFollows /\ lastLogged' = lastLogged => LogFollows'
         /\ syncing' = syncing => \A p : IsHeard(p)' <=> IsHeard(p)
         /\ NoticesAgree /\ syncing' = syncing => NoticesAgree'
         /\ IndexFollows /\ syncing' = syncing /\ embeddings' = embeddings => IndexFollows'
<1>1. \A p : IsPending(p)' <=> IsPending(p)
  BY DEF IsPending
<1>2. content' = content
  BY DEF MarkdownStays
<1>3. LogFollows /\ lastLogged' = lastLogged => LogFollows'
  BY <1>1, <1>2 DEF LogFollows
<1>4. syncing' = syncing => \A p : IsHeard(p)' <=> IsHeard(p)
  BY <1>1 DEF IsHeard
<1>5. NoticesAgree /\ syncing' = syncing => NoticesAgree'
  BY <1>1, <1>2 DEF NoticesAgree
<1>6. IndexFollows /\ syncing' = syncing /\ embeddings' = embeddings => IndexFollows'
  BY <1>4, RightStays DEF IndexFollows
<1> QED BY <1>1, <1>3, <1>4, <1>5, <1>6

(* What is said of a build stays while no path is forgotten about. *)
LEMMA BuildStays ==
  ASSUME MarkdownStays, BuildFollows, building' = building, embeddings' \in {embeddings, Embedding!Absent},
         EmbeddingTyped, \A p \in TextPaths : IsHeard(p) => IsHeard(p)'
  PROVE  BuildFollows'
<1>1. content' = content
  BY DEF MarkdownStays
<1>2. CASE building = Embedding!Idle
  BY <1>2 DEF BuildFollows, Embedding!Idle
<1>3. CASE building # Embedding!Idle
  <2>1. ASSUME NEW p \in TextPaths
        PROVE  /\ building.cache[p] = Embedding!NoRecord \/ IsRight(p, building.cache[p])' \/ IsHeard(p)'
               /\ p \in building.todo \/ IsReading(p)' \/ IsHeard(p)' \/ IsRight(p, WillKeep(p))'
               /\ p \in building.todo => p \notin building.seen
               /\ IsReading(p)' => p \notin building.seen \cup building.todo
    <3>1. /\ building.cache[p] = Embedding!NoRecord \/ IsRight(p, building.cache[p]) \/ IsHeard(p)
          /\ p \in building.todo \/ IsReading(p) \/ IsHeard(p) \/ IsRight(p, WillKeep(p))
          /\ p \in building.todo => p \notin building.seen
          /\ IsReading(p) => p \notin building.seen \cup building.todo
      BY <1>3 DEF BuildFollows
    <3>2. WillKeep(p)' = WillKeep(p) /\ (IsReading(p)' <=> IsReading(p))
      BY DEF WillKeep, IsReading, Embedding!NoRecord
    <3>3. IsRight(p, WillKeep(p)) => IsRight(p, WillKeep(p))'
      BY <3>2, RightStays
    <3>4. IsRight(p, building.cache[p]) => IsRight(p, building.cache[p])'
      BY RightStays
    <3> QED BY <3>1, <3>2, <3>3, <3>4
  <2>2. ASSUME building.pc = "read" PROVE building.stat = content'[building.path] \/ IsHeard(building.path)'
    <3>1. building.stat = content[building.path] \/ IsHeard(building.path)
      BY <1>3, <2>2 DEF BuildFollows
    <3>2. PICK q \in TextPaths : q = building.path
      BY <1>3, <2>2 DEF EmbeddingTyped
    <3>3. IsHeard(q)' => IsHeard(building.path)'
      BY <3>2
    <3>4. IsHeard(q) => IsHeard(q)'
      OBVIOUS
    <3> QED BY <1>1, <3>1, <3>2, <3>3, <3>4
  <2>3. ~building.changed => embeddings' \in {Embedding!Absent, building.cache}
    BY <1>3 DEF BuildFollows
  <2> QED BY <2>1, <2>2, <2>3 DEF BuildFollows, Embedding!NoRecord, Embedding!Absent
<1> QED BY <1>2, <1>3

LEMMA ApplyKeepsStep == ASSUME EmbeddingInv, Embedding!Apply, IndexKeepsStep, ~lost' PROVE IndexKeepsStep'
<1> DEFINE e == Head(notices)
<1>1. EmbeddingTyped /\ NoticesAgree /\ LogFollows /\ IndexFollows /\ SyncFollows /\ BuildFollows
  BY DEF EmbeddingInv, IndexKeepsStep
<1>2. /\ syncing = Embedding!Idle /\ notices # <<>> /\ MarkdownStays /\ notices' = Tail(notices)
      /\ lastLogged' = [lastLogged EXCEPT ![e.path] = content[e.path]]
      /\ UNCHANGED <<embeddings, indexLock, building>>
      /\ IF embeddings = Embedding!Absent THEN syncing' = Embedding!Idle /\ building.pc = "idle"
         ELSE syncing' = [pc |-> "wait", event |-> e]
  BY DEF Embedding!Apply, Embedding!Same, MarkdownStays
<1>3. notices \in Seq(Notices) /\ e \in Notices /\ content' = content
  BY <1>1, <1>2 DEF EmbeddingTyped, MarkdownStays
<1> HIDE DEF e
<1>4. Embedding!Idle.pc = "idle"
  BY DEF Embedding!Idle
<1>5. ASSUME NEW p \in TextPaths
      PROVE  /\ IsPending(p) <=> IsPending(p)' \/ Concerns(e, p)
             /\ LastSays(notices', p, content'[p] # 0)
             /\ (Concerns(e, p) /\ ~IsPending(p)') => (Makes(e, p) <=> content'[p] # 0)
  <2>1. LastSays(notices, p, content[p] # 0)
    BY <1>1 DEF NoticesAgree
  <2>2. (content[p] # 0) \in BOOLEAN
    OBVIOUS
  <2>3. /\ PendingIn(notices, p) <=> PendingIn(notices', p) \/ Concerns(e, p)
        /\ LastSays(notices', p, content[p] # 0)
        /\ (Concerns(e, p) /\ ~PendingIn(notices', p)) => (Makes(e, p) <=> content[p] # 0)
    BY <1>2, <1>3, <2>1, <2>2, TailSays DEF e
  <2> QED BY <1>3, <2>3 DEF IsPending
<1>6. LogFollows'
  <2> SUFFICES ASSUME NEW p \in TextPaths PROVE (content[p] = 0 \/ lastLogged[p] = content[p] \/ IsPending(p))'
    BY DEF LogFollows
  <2>1. content[p] = 0 \/ lastLogged[p] = content[p] \/ IsPending(p)
    BY <1>1 DEF LogFollows
  <2>2. e.path = p => lastLogged'[p] = content[p]
    BY <1>1, <1>2 DEF EmbeddingTyped
  <2>3. e.path # p => lastLogged'[p] = lastLogged[p] /\ ~Makes(e, p)
    BY <1>1, <1>2 DEF EmbeddingTyped, Makes
  <2> QED BY <1>3, <1>5, <2>1, <2>2, <2>3
<1>7. CASE embeddings = Embedding!Absent
  <2>1. syncing' = Embedding!Idle /\ building = Embedding!Idle
    BY <1>1, <1>2, <1>7, IdleBuild DEF EmbeddingTyped
  <2>2. NoticesAgree'
    BY <1>4, <1>5, <2>1 DEF NoticesAgree
  <2>3. IndexFollows' /\ BuildFollows'
    BY <1>2, <1>7, <2>1 DEF IndexFollows, BuildFollows, Embedding!Absent, Embedding!Idle
  <2>4. SyncFollows'
    BY <1>4, <2>1 DEF SyncFollows, HasRecords
  <2> QED BY <1>6, <2>2, <2>3, <2>4 DEF IndexKeepsStep
<1>8. CASE embeddings # Embedding!Absent
  <2>1. syncing' = [pc |-> "wait", event |-> e]
    BY <1>2, <1>8
  <2>2. syncing'.pc = "wait" /\ syncing'.event = e
    BY <2>1
  <2>3. NoticesAgree'
    BY <1>5, <2>2 DEF NoticesAgree
  <2>4. \A p \in TextPaths : IsHeard(p) => IsHeard(p)'
    BY <1>2, <1>4, <1>5, <2>2 DEF IsHeard
  <2>5. IndexFollows'
    BY <1>1, <1>2, <2>4, RightStays DEF IndexFollows, Embedding!Absent
  <2>6. BuildFollows'
    BY <1>1, <1>2, <2>4, BuildStays
  <2>7. SyncFollows'
    BY <1>2, <1>8, <2>2 DEF SyncFollows, HasRecords, Embedding!Absent
  <2> QED BY <1>6, <2>3, <2>5, <2>6, <2>7 DEF IndexKeepsStep
<1> QED BY <1>7, <1>8

LEMMA SyncBeginKeepsStep == ASSUME EmbeddingInv, Embedding!SyncBegin, IndexKeepsStep PROVE IndexKeepsStep'
<1> DEFINE e == syncing.event
           kept == [p \in TextPaths |-> IF p \in Embedding!Drops(e) THEN Embedding!NoRecord ELSE Embedding!Stored[p]]
<1>1. EmbeddingTyped /\ NoticesAgree /\ LogFollows /\ IndexFollows /\ SyncFollows /\ BuildFollows
  BY DEF EmbeddingInv, IndexKeepsStep
<1>2. /\ syncing.pc = "wait" /\ e \in Notices /\ e.path \in TextPaths /\ MarkdownStays
      /\ UNCHANGED <<embeddings, notices, building, lastLogged, lost>>
      /\ syncing'.event = e /\ syncing'.records = kept
      /\ syncing'.changed = (\E p \in Embedding!Drops(e) : Embedding!Stored[p] # Embedding!NoRecord)
      /\ syncing'.pc = IF e.op # "delete" /\ content[e.path] # 0 THEN "stat" ELSE "write"
  BY SyncBeginIs
<1> HIDE DEF kept
<1>3. embeddings # Embedding!Absent /\ embeddings \in EmbeddedMaps /\ content' = content
  BY <1>1, <1>2, IndexIs DEF SyncFollows, MarkdownStays
<1>4. \A p : (IsPending(p)' <=> IsPending(p)) /\ (IsHeard(p)' <=> IsHeard(p))
  BY <1>2 DEF IsPending, IsHeard
<1>5. NoticesAgree' /\ LogFollows' /\ IndexFollows'
  <2>1. LogFollows'
    BY <1>1, <1>2, PartsStay
  <2>2. NoticesAgree'
    BY <1>1, <1>2, <1>3, <1>4 DEF NoticesAgree
  <2>3. IndexFollows'
    BY <1>1, <1>2, <1>4, RightStays DEF IndexFollows, Embedding!Absent
  <2> QED BY <2>1, <2>2, <2>3
<1>6. BuildFollows'
  BY <1>1, <1>2, <1>4, BuildStays
<1>7. \A p \in TextPaths : kept[p] = IF p \in Embedding!Drops(e) THEN Embedding!NoRecord ELSE embeddings[p]
  BY <1>3 DEF kept, Embedding!Stored
<1>8. ASSUME NEW p \in TextPaths, ~IsPending(p), ~(syncing'.pc = "stat" /\ p = e.path) PROVE IsRight(p, kept[p])
  <2>1. Concerns(e, p) => (Makes(e, p) <=> content[p] # 0)
    BY <1>1, <1>2, <1>8 DEF NoticesAgree
  <2>2. (e.op # "delete" /\ p = e.path) => content[p] = 0
    BY <1>2, <1>8
  <2>3. e.op # "move" => e.old = e.path
    BY <1>2 DEF Notices
  <2>4. e.op \in {"create", "modify", "delete", "move"}
    BY <1>2 DEF Notices
  <2>5. CASE p \in Embedding!Drops(e)
    <3>1. Concerns(e, p) /\ content[p] = 0
      BY <2>1, <2>2, <2>3, <2>5 DEF Embedding!Drops, Concerns, Makes
    <3> QED BY <1>7, <2>5, <3>1 DEF IsRight, Embedding!Texts
  <2>6. CASE p \notin Embedding!Drops(e)
    <3>1. ~Concerns(e, p)
      BY <2>1, <2>2, <2>3, <2>4, <2>6 DEF Embedding!Drops, Concerns, Makes
    <3>2. IsRight(p, embeddings[p])
      BY <1>1, <1>2, <1>3, <1>8, <3>1 DEF IndexFollows, IsHeard
    <3> QED BY <1>7, <2>6, <3>2
  <2> QED BY <2>5, <2>6
<1>9. ~syncing'.changed => embeddings = kept
  <2>1. ASSUME ~syncing'.changed, NEW p \in TextPaths PROVE kept[p] = embeddings[p]
    <3>1. p \in Embedding!Drops(e) => embeddings[p] = Embedding!NoRecord
      BY <1>2, <1>3, <2>1 DEF Embedding!Stored
    <3> QED BY <1>7, <3>1
  <2>2. kept = [p \in TextPaths |-> kept[p]] /\ embeddings = [p \in TextPaths |-> embeddings[p]]
    BY <1>3 DEF kept, EmbeddedMaps
  <2> QED BY <2>1, <2>2
<1>10. SyncFollows'
  <2>1. ASSUME NEW p \in TextPaths PROVE IsOpen(p)' \/ IsRight(p, syncing.records[p])' \/ IsPending(p)'
    <3>1. PICK r : r = kept[p]
      OBVIOUS
    <3>2. IsRight(p, r)' => IsRight(p, syncing.records[p])'
      BY <1>2, <3>1
    <3>3. IsRight(p, r) => IsRight(p, r)'
      BY <1>2, RightStays
    <3>4. IsOpen(p)' \/ IsPending(p)' \/ IsRight(p, r)
      BY <1>2, <1>4, <1>8, <3>1 DEF IsOpen
    <3> QED BY <3>2, <3>3, <3>4
  <2>2. syncing'.pc \in {"stat", "write"} /\ (syncing'.pc = "stat" => e.op # "delete")
    BY <1>2
  <2>3. ~syncing'.changed => embeddings' = syncing'.records
    BY <1>2, <1>9
  <2> QED BY <1>2, <2>1, <2>2, <2>3 DEF SyncFollows, HasRecords
<1> QED BY <1>5, <1>6, <1>10 DEF IndexKeepsStep

LEMMA SyncStatKeepsStep == ASSUME EmbeddingInv, Embedding!SyncStat, IndexKeepsStep PROVE IndexKeepsStep'
<1> DEFINE e == syncing.event
<1>1. EmbeddingTyped /\ NoticesAgree /\ LogFollows /\ IndexFollows /\ SyncFollows /\ BuildFollows
  BY DEF EmbeddingInv, IndexKeepsStep
<1>2. /\ syncing.pc = "stat" /\ e.path \in TextPaths /\ MarkdownStays
      /\ UNCHANGED <<embeddings, notices, building, lastLogged, lost>>
      /\ syncing'.event = e /\ syncing'.records = syncing.records /\ syncing'.changed = syncing.changed
      /\ IF content[e.path] = 0 THEN syncing'.pc = "write" ELSE syncing'.pc = "read" /\ syncing'.stat = content[e.path]
  BY SyncStatIs
<1>3. content' = content
  BY <1>2 DEF MarkdownStays
<1>4. \A p : (IsPending(p)' <=> IsPending(p)) /\ (IsHeard(p)' <=> IsHeard(p))
  BY <1>2 DEF IsPending, IsHeard
<1>5. NoticesAgree' /\ LogFollows' /\ IndexFollows'
  <2>1. LogFollows'
    BY <1>1, <1>2, PartsStay
  <2>2. NoticesAgree'
    BY <1>1, <1>2, <1>3, <1>4 DEF NoticesAgree
  <2>3. IndexFollows'
    BY <1>1, <1>2, <1>4, RightStays DEF IndexFollows, Embedding!Absent
  <2> QED BY <2>1, <2>2, <2>3
<1>6. BuildFollows'
  BY <1>1, <1>2, <1>4, BuildStays
<1>7. e.op # "delete"
  BY <1>1, <1>2 DEF SyncFollows
<1>8. content[e.path] = 0 => IsPending(e.path)
  <2>1. Concerns(e, e.path) /\ Makes(e, e.path)
    BY <1>7 DEF Concerns, Makes
  <2> QED BY <1>1, <1>2, <2>1 DEF NoticesAgree
<1>9. ASSUME NEW p \in TextPaths PROVE IsOpen(p)' \/ IsRight(p, syncing.records[p])' \/ IsPending(p)'
  <2>1. IsOpen(p) \/ IsRight(p, syncing.records[p]) \/ IsPending(p)
    BY <1>1, <1>2 DEF SyncFollows, HasRecords
  <2>2. PICK r : r = syncing.records[p]
    OBVIOUS
  <2>3. IsRight(p, r)' => IsRight(p, syncing.records[p])'
    BY <1>2, <2>2
  <2>4. IsRight(p, r) => IsRight(p, r)'
    BY <1>2, RightStays
  <2>5. IsOpen(p) => IsOpen(p)' \/ IsPending(p)
    BY <1>2, <1>8 DEF IsOpen
  <2> QED BY <1>4, <2>1, <2>2, <2>3, <2>4, <2>5
<1>10. SyncFollows'
  <2>1. syncing'.pc \in {"write", "read"}
    BY <1>2
  <2>2. ~syncing'.changed => embeddings' \in {Embedding!Absent, syncing'.records}
    BY <1>1, <1>2 DEF SyncFollows, HasRecords
  <2>3. syncing'.pc = "read" => syncing'.stat = content'[syncing'.event.path]
    BY <1>2, <1>3
  <2> QED BY <1>2, <1>7, <1>9, <2>1, <2>2, <2>3 DEF SyncFollows, HasRecords, Embedding!Absent
<1> QED BY <1>5, <1>6, <1>10 DEF IndexKeepsStep

LEMMA SyncReadKeepsStep == ASSUME EmbeddingInv, Embedding!SyncRead, IndexKeepsStep PROVE IndexKeepsStep'
<1> DEFINE e == syncing.event
           q == e.path
           record == IF content[q] \in blanks THEN Embedding!NoRecord ELSE Embedding!Record(syncing.stat, content[q])
<1>1. EmbeddingTyped /\ NoticesAgree /\ LogFollows /\ IndexFollows /\ SyncFollows /\ BuildFollows
  BY DEF EmbeddingInv, IndexKeepsStep
<1>2. /\ syncing.pc = "read" /\ q \in TextPaths /\ MarkdownStays
      /\ UNCHANGED <<embeddings, notices, building, lastLogged, lost>>
      /\ syncing'.event = e /\ syncing'.pc = "write"
      /\ IF content[q] = 0 THEN syncing'.records = syncing.records /\ syncing'.changed = syncing.changed
         ELSE /\ syncing'.records = [syncing.records EXCEPT ![q] = record]
              /\ syncing'.changed = (syncing.changed \/ record # Embedding!NoRecord
                                                     \/ syncing.records[q] # Embedding!NoRecord)
  BY SyncReadIs
<1>3. content' = content /\ syncing.records \in EmbeddedMaps
  BY <1>1, <1>2, SyncFields DEF MarkdownStays, EmbeddingTyped, HasRecords
<1>4. \A p : (IsPending(p)' <=> IsPending(p)) /\ (IsHeard(p)' <=> IsHeard(p))
  BY <1>2 DEF IsPending, IsHeard
<1>5. NoticesAgree' /\ LogFollows' /\ IndexFollows'
  <2>1. LogFollows'
    BY <1>1, <1>2, PartsStay
  <2>2. NoticesAgree'
    BY <1>1, <1>2, <1>3, <1>4 DEF NoticesAgree
  <2>3. IndexFollows'
    BY <1>1, <1>2, <1>4, RightStays DEF IndexFollows, Embedding!Absent
  <2> QED BY <2>1, <2>2, <2>3
<1>6. BuildFollows'
  BY <1>1, <1>2, <1>4, BuildStays
<1>7. content[q] = 0 => IsPending(q)
  <2>1. Concerns(e, q) /\ Makes(e, q)
    BY <1>1, <1>2 DEF Concerns, Makes, SyncFollows
  <2> QED BY <1>1, <1>2, <2>1 DEF NoticesAgree
<1>8. content[q] # 0 => IsRight(q, record) \/ IsPending(q)
  <2>1. syncing.stat = content[q] \/ IsPending(q)
    BY <1>1, <1>2 DEF SyncFollows
  <2> QED BY <1>2, <2>1 DEF IsRight, Embedding!Texts, Embedding!Record
<1> HIDE DEF record
<1>9. ASSUME NEW p \in TextPaths PROVE IsRight(p, syncing.records[p])' \/ IsPending(p)'
  <2>1. PICK r : r = syncing'.records[p]
    OBVIOUS
  <2>2. IsRight(p, r)' => IsRight(p, syncing.records[p])'
    BY <2>1
  <2>3. IsRight(p, r) => IsRight(p, r)'
    BY <1>2, RightStays
  <2>4. CASE p # q
    <3>1. IsRight(p, syncing.records[p]) \/ IsPending(p)
      BY <1>1, <1>2, <2>4 DEF SyncFollows, HasRecords, IsOpen
    <3>2. r = syncing.records[p]
      BY <1>2, <1>3, <2>1, <2>4 DEF EmbeddedMaps
    <3> QED BY <1>4, <2>2, <2>3, <3>1, <3>2
  <2>5. CASE p = q /\ content[q] # 0
    <3>1. r = record
      BY <1>2, <1>3, <2>1, <2>5 DEF EmbeddedMaps
    <3> QED BY <1>4, <1>8, <2>2, <2>3, <2>5, <3>1
  <2>6. CASE p = q /\ content[q] = 0
    BY <1>4, <1>7, <2>6
  <2> QED BY <2>4, <2>5, <2>6
<1>10. ~syncing'.changed => embeddings' \in {Embedding!Absent, syncing'.records}
  <2> SUFFICES ASSUME ~syncing'.changed PROVE embeddings \in {Embedding!Absent, syncing'.records}
    BY <1>2
  <2>1. syncing'.records = syncing.records /\ ~syncing.changed
    <3>1. CASE content[q] = 0
      BY <1>2, <3>1
    <3>2. CASE content[q] # 0
      <4>1. record = syncing.records[q] /\ ~syncing.changed /\ syncing'.records = [syncing.records EXCEPT ![q] = record]
        BY <1>2, <3>2
      <4> QED BY <1>2, <1>3, <4>1 DEF EmbeddedMaps
    <3> QED BY <3>1, <3>2
  <2> QED BY <1>1, <1>2, <2>1 DEF SyncFollows, HasRecords
<1>11. SyncFollows'
  BY <1>2, <1>9, <1>10 DEF SyncFollows, HasRecords, Embedding!Absent
<1> QED BY <1>5, <1>6, <1>11 DEF IndexKeepsStep

LEMMA SyncWriteKeepsStep ==
  ASSUME EmbeddingInv, HoldersAreApart, Embedding!SyncWrite, IndexKeepsStep PROVE IndexKeepsStep'
<1>1. EmbeddingTyped /\ LockIsHeld /\ NoticesAgree /\ LogFollows /\ IndexFollows /\ SyncFollows /\ BuildFollows
  BY DEF EmbeddingInv, IndexKeepsStep
<1>2. /\ syncing.pc = "write" /\ MarkdownStays /\ UNCHANGED <<notices, building, lastLogged, lost>>
      /\ syncing' = Embedding!Idle
      /\ embeddings' = IF syncing.changed THEN syncing.records ELSE embeddings
  BY SyncWriteIs
<1>3. syncing'.pc = "idle" /\ content' = content
  BY <1>2 DEF Embedding!Idle, MarkdownStays
<1>4. \A p : IsPending(p)' <=> IsPending(p)
  BY <1>2 DEF IsPending
<1>5. building' = Embedding!Idle
  BY <1>1, <1>2 DEF LockIsHeld, HasRecords, HoldersAreApart
<1>6. NoticesAgree' /\ LogFollows'
  <2>1. LogFollows'
    BY <1>1, <1>2, PartsStay
  <2>2. NoticesAgree'
    BY <1>1, <1>2, <1>3 DEF NoticesAgree
  <2> QED BY <2>1, <2>2
<1>7. SyncFollows' /\ BuildFollows'
  BY <1>3, <1>5 DEF SyncFollows, BuildFollows, HasRecords, Embedding!Idle
<1>8. embeddings' \in {Embedding!Absent, syncing.records}
  BY <1>1, <1>2 DEF SyncFollows, HasRecords
<1>9. ASSUME NEW p \in TextPaths, embeddings' # Embedding!Absent PROVE IsRight(p, embeddings[p])' \/ IsPending(p)'
  <2>1. embeddings' = syncing.records
    BY <1>8, <1>9
  <2>2. IsRight(p, syncing.records[p]) \/ IsPending(p)
    BY <1>1, <1>2 DEF SyncFollows, HasRecords, IsOpen
  <2>3. PICK r : r = syncing.records[p]
    OBVIOUS
  <2>4. IsRight(p, r)' => IsRight(p, embeddings[p])'
    BY <2>1, <2>3
  <2>5. IsRight(p, r) => IsRight(p, r)'
    BY <1>2, RightStays
  <2> QED BY <1>4, <2>2, <2>3, <2>4, <2>5
<1>10. IndexFollows'
  BY <1>9 DEF IndexFollows, IsHeard, Embedding!Absent
<1> QED BY <1>6, <1>7, <1>10 DEF IndexKeepsStep

LEMMA ClearAndKillKeepStep ==
  ASSUME EmbeddingInv, HoldersAreApart, IndexKeepsStep, ~lost',
         Embedding!Clear \/ \E who \in {Watcher, Builder} : Embedding!Kill(who)
  PROVE  IndexKeepsStep'
<1>1. EmbeddingTyped /\ NoticesAgree /\ LogFollows /\ IndexFollows /\ SyncFollows /\ BuildFollows
  BY DEF EmbeddingInv, IndexKeepsStep
<1>2. CASE Embedding!Clear
  <2>1. /\ embeddings' = Embedding!Absent /\ syncing.pc # "wait" /\ MarkdownStays
        /\ UNCHANGED <<notices, syncing, building, lastLogged>>
    BY <1>2 DEF Embedding!Clear, Embedding!Same, MarkdownStays
  <2>2. /\ \A p : IsPending(p)' <=> IsPending(p)
        /\ \A p : IsHeard(p)' <=> IsHeard(p)
        /\ NoticesAgree' /\ LogFollows'
    BY <1>1, <2>1, PartsStay
  <2>3. BuildFollows'
    BY <1>1, <2>1, <2>2, BuildStays
  <2>4. IndexFollows'
    BY <2>1 DEF IndexFollows, Embedding!Absent
  <2>5. SyncFollows'
    <3>1. content' = content
      BY <2>1 DEF MarkdownStays
    <3>2. \A p : IsOpen(p)' <=> IsOpen(p)
      BY <2>1 DEF IsOpen
    <3>3. HasRecords(syncing) => \A p \in TextPaths : IsOpen(p)' \/ IsRight(p, syncing.records[p])' \/ IsPending(p)'
      BY <1>1, <2>1, <2>2, <3>2, RightStays DEF SyncFollows
    <3>4. /\ syncing.pc \in {"stat", "read"} => syncing.event.op # "delete"
          /\ syncing.pc = "read" => syncing.stat = content'[syncing.event.path] \/ IsPending(syncing.event.path)'
      BY <1>1, <2>2, <3>1, <2>1 DEF SyncFollows, IsPending
    <3> QED BY <2>1, <3>3, <3>4 DEF SyncFollows, HasRecords, Embedding!Absent
  <2> QED BY <2>2, <2>3, <2>4, <2>5 DEF IndexKeepsStep
<1>3. CASE Embedding!Kill(Watcher)
  BY <1>3 DEF Embedding!Kill
<1>4. CASE Embedding!Kill(Builder)
  <2>1. building' = Embedding!Idle /\ UNCHANGED <<syncing, notices, lost, embeddings, lastLogged>> /\ MarkdownStays
    BY <1>4 DEF Embedding!Kill, Embedding!Same, MarkdownStays, HoldersAreApart
  <2>2. NoticesAgree' /\ LogFollows' /\ IndexFollows' /\ \A p : IsPending(p)' <=> IsPending(p)
    BY <1>1, <2>1, PartsStay
  <2>3. BuildFollows'
    BY <2>1 DEF BuildFollows, Embedding!Idle
  <2>4. SyncFollows'
    <3>1. content' = content
      BY <2>1 DEF MarkdownStays
    <3>2. \A p : IsOpen(p)' <=> IsOpen(p)
      BY <2>1 DEF IsOpen
    <3>3. HasRecords(syncing) => \A p \in TextPaths : IsOpen(p)' \/ IsRight(p, syncing.records[p])' \/ IsPending(p)'
      BY <1>1, <2>1, <2>2, <3>2, RightStays DEF SyncFollows
    <3>4. /\ syncing.pc \in {"stat", "read"} => syncing.event.op # "delete"
          /\ syncing.pc = "read" => syncing.stat = content'[syncing.event.path] \/ IsPending(syncing.event.path)'
      BY <1>1, <2>2, <3>1, <2>1 DEF SyncFollows, IsPending
    <3>5. /\ syncing.pc = "wait" => embeddings # Embedding!Absent
          /\ HasRecords(syncing) /\ ~syncing.changed => embeddings \in {Embedding!Absent, syncing.records}
      BY <1>1 DEF SyncFollows
    <3> QED BY <2>1, <3>3, <3>4, <3>5 DEF SyncFollows, HasRecords, Embedding!Absent
  <2> QED BY <2>2, <2>3, <2>4 DEF IndexKeepsStep
<1> QED BY <1>2, <1>3, <1>4

(* The builder's steps leave the watcher's call and what is still to be heard alone. *)
LEMMA SyncStays ==
  ASSUME MarkdownStays, notices' = notices, syncing' = syncing, SyncFollows,
         embeddings' = embeddings \/ (~HasRecords(syncing) /\ (syncing.pc = "wait" => embeddings' # Embedding!Absent))
  PROVE  SyncFollows'
<1>1. content' = content
  BY DEF MarkdownStays
<1>2. \A p : (IsOpen(p)' <=> IsOpen(p)) /\ (IsPending(p)' <=> IsPending(p))
  BY DEF IsOpen, IsPending
<1>3. HasRecords(syncing) => \A p \in TextPaths : IsOpen(p)' \/ IsRight(p, syncing.records[p])' \/ IsPending(p)'
  BY <1>2, RightStays DEF SyncFollows
<1>4. /\ syncing.pc \in {"stat", "read"} => syncing.event.op # "delete"
      /\ syncing.pc = "read" => syncing.stat = content'[syncing.event.path] \/ IsPending(syncing.event.path)'
  BY <1>1, <1>2 DEF SyncFollows, IsPending
<1>5. /\ syncing.pc = "wait" => embeddings' # Embedding!Absent
      /\ HasRecords(syncing) /\ ~syncing.changed => embeddings' \in {Embedding!Absent, syncing.records}
  BY DEF SyncFollows
<1> QED BY <1>3, <1>4, <1>5 DEF SyncFollows, HasRecords, Embedding!Absent

WillReadNext(p) == building'.pc = "read" /\ building'.path = p
WillKeepNext(p) == IF p \in building'.seen THEN building'.cache[p] ELSE Embedding!NoRecord

LEMMA BuildFrom ==
  ASSUME MarkdownStays, notices' = notices, syncing' = syncing,
         \A p \in TextPaths :
           /\ building'.cache[p] = Embedding!NoRecord \/ IsRight(p, building'.cache[p]) \/ IsHeard(p)
           /\ p \in building'.todo \/ WillReadNext(p) \/ IsHeard(p) \/ IsRight(p, WillKeepNext(p))
           /\ p \in building'.todo => p \notin building'.seen
           /\ WillReadNext(p) => p \notin building'.seen \cup building'.todo,
         ~building'.changed => embeddings' \in {Embedding!Absent, building'.cache},
         building'.pc = "read" => building'.stat = content[building'.path] \/ IsHeard(building'.path)
  PROVE  BuildFollows'
<1>1. content' = content /\ \A p : IsHeard(p)' <=> IsHeard(p)
  BY PartsStay DEF MarkdownStays
<1>2. ASSUME NEW p \in TextPaths
      PROVE  (/\ building.cache[p] = Embedding!NoRecord \/ IsRight(p, building.cache[p]) \/ IsHeard(p)
              /\ p \in building.todo \/ IsReading(p) \/ IsHeard(p) \/ IsRight(p, WillKeep(p))
              /\ p \in building.todo => p \notin building.seen
              /\ IsReading(p) => p \notin building.seen \cup building.todo)'
  <2>1. PICK r : r = building'.cache[p]
    OBVIOUS
  <2>2. PICK k : k = WillKeepNext(p)
    OBVIOUS
  <2>3. IsReading(p)' <=> WillReadNext(p)
    BY DEF IsReading, WillReadNext
  <2>4. WillKeep(p)' = WillKeepNext(p)
    BY DEF WillKeep, WillKeepNext, Embedding!NoRecord
  <2>5. IsRight(p, building'.cache[p]) => IsRight(p, building.cache[p])'
    <3>1. IsRight(p, building'.cache[p]) => IsRight(p, r)
      BY <2>1
    <3>2. IsRight(p, r)' => IsRight(p, building.cache[p])'
      BY <2>1
    <3> QED BY <3>1, <3>2, RightStays
  <2>6. IsRight(p, WillKeepNext(p)) => IsRight(p, WillKeep(p))'
    <3>1. IsRight(p, WillKeepNext(p)) => IsRight(p, k)
      BY <2>2
    <3>2. IsRight(p, k)' => IsRight(p, WillKeep(p))'
      BY <2>2, <2>4
    <3> QED BY <3>1, <3>2, RightStays
  <2>7. building'.cache[p] = Embedding!NoRecord => (building.cache[p] = Embedding!NoRecord)'
    BY DEF Embedding!NoRecord
  <2> QED BY <1>1, <2>3, <2>5, <2>6, <2>7
<1>3. (building.pc = "read" => building.stat = content[building.path] \/ IsHeard(building.path))'
  <2> SUFFICES ASSUME building'.pc = "read" PROVE building'.stat = content'[building'.path] \/ IsHeard(building.path)'
    OBVIOUS
  <2>1. PICK q : q = building'.path
    OBVIOUS
  <2>2. IsHeard(q)' => IsHeard(building.path)'
    BY <2>1
  <2>3. IsHeard(building'.path) => IsHeard(q)
    BY <2>1
  <2> QED BY <1>1, <2>1, <2>2, <2>3
<1>4. (~building.changed => embeddings \in {Embedding!Absent, building.cache})'
  BY DEF Embedding!Absent
<1> QED BY <1>2, <1>3, <1>4 DEF BuildFollows

LEMMA EmptyIsAbsent == ASSUME NEW f \in EmbeddedMaps, NEW p \in TextPaths PROVE f # Embedding!Absent
<1>1. DOMAIN f = TextPaths
  BY DEF EmbeddedMaps
<1>2. DOMAIN Embedding!Absent = {}
  BY DEF Embedding!Absent
<1> QED BY <1>1, <1>2

LEMMA NotThere == ASSUME NEW p, content[p] = 0 \/ content[p] \in blanks PROVE IsRight(p, Embedding!NoRecord)
BY DEF IsRight, Embedding!Texts

(* The builder's steps, by what will be stored of each path. *)
LEMMA BuildStepsKeep ==
  ASSUME EmbeddingInv, IndexKeepsStep,
         (\E force \in BOOLEAN : Embedding!BuildBegin(force)) \/ Embedding!BuildStat \/ Embedding!BuildRead
  PROVE  BuildFollows' /\ MarkdownStays /\ UNCHANGED <<embeddings, notices, syncing, lastLogged>>
<1>1. EmbeddingTyped /\ VersionsAreHeld /\ RecordsAreTrue /\ IndexFollows /\ BuildFollows
  BY DEF EmbeddingInv, IndexKeepsStep
<1>2. ASSUME NEW force \in BOOLEAN, Embedding!BuildBegin(force)
      PROVE  BuildFollows' /\ MarkdownStays /\ UNCHANGED <<embeddings, notices, syncing, lastLogged>>
  <2>1. /\ MarkdownStays /\ UNCHANGED <<embeddings, notices, syncing, lastLogged>>
        /\ building'.pc = "stat" /\ building'.cache = Embedding!Stored /\ building'.seen = {}
        /\ building'.todo = {p \in TextPaths : content[p] # 0}
    BY <1>2, BuildBeginIs
  <2>2. ASSUME NEW p \in TextPaths
        PROVE  /\ building'.cache[p] = Embedding!NoRecord \/ IsRight(p, building'.cache[p]) \/ IsHeard(p)
               /\ p \in building'.todo \/ IsRight(p, WillKeepNext(p))
    <3>1. CASE embeddings = Embedding!Absent
      <4>1. building'.cache[p] = Embedding!NoRecord
        BY <2>1, <3>1 DEF Embedding!Stored
      <4>2. WillKeepNext(p) = Embedding!NoRecord
        BY <2>1 DEF WillKeepNext
      <4> QED BY <2>1, <4>1, <4>2, NotThere
    <3>2. CASE embeddings # Embedding!Absent
      <4>1. building'.cache = embeddings
        BY <2>1, <3>2 DEF Embedding!Stored
      <4>2. WillKeepNext(p) = Embedding!NoRecord
        BY <2>1 DEF WillKeepNext
      <4>3. IsRight(p, embeddings[p]) \/ IsHeard(p)
        BY <1>1, <3>2 DEF IndexFollows
      <4> QED BY <2>1, <4>1, <4>2, <4>3, NotThere
    <3> QED BY <3>1, <3>2
  <2>3. embeddings' \in {Embedding!Absent, building'.cache}
    BY <2>1 DEF Embedding!Stored
  <2>4. \A p : ~WillReadNext(p)
    BY <2>1 DEF WillReadNext
  <2> QED BY <2>1, <2>2, <2>3, <2>4, BuildFrom
<1>3. building.pc # "idle" => building # Embedding!Idle
  BY IdleBuild
<1>4. CASE Embedding!BuildStat
  <2>1. building # Embedding!Idle
    BY <1>3, <1>4 DEF Embedding!BuildStat
  <2>2. PICK q \in building.todo :
          /\ building'.todo = building.todo \ {q}
          /\ IF content[q] = 0 THEN building'.pc = "stat"
             ELSE building'.pc = "read" /\ building'.path = q /\ building'.stat = content[q]
    BY <1>4, <2>1, BuildStatIs
  <2>3. /\ building.pc = "stat" /\ MarkdownStays /\ UNCHANGED <<embeddings, notices, syncing, lastLogged>>
        /\ building'.cache = building.cache /\ building'.seen = building.seen /\ building'.changed = building.changed
    BY <1>4, <2>1, BuildStatIs
  <2>4. ASSUME NEW p \in TextPaths
        PROVE  /\ building'.cache[p] = Embedding!NoRecord \/ IsRight(p, building'.cache[p]) \/ IsHeard(p)
               /\ p \in building'.todo \/ WillReadNext(p) \/ IsHeard(p) \/ IsRight(p, WillKeepNext(p))
               /\ p \in building'.todo => p \notin building'.seen
               /\ WillReadNext(p) => p \notin building'.seen \cup building'.todo
    <3>1. /\ building.cache[p] = Embedding!NoRecord \/ IsRight(p, building.cache[p]) \/ IsHeard(p)
          /\ p \in building.todo \/ IsHeard(p) \/ IsRight(p, WillKeep(p))
          /\ p \in building.todo => p \notin building.seen
      BY <1>1, <2>1, <2>3 DEF BuildFollows, IsReading
    <3>2. WillKeepNext(p) = WillKeep(p)
      BY <2>3 DEF WillKeepNext, WillKeep
    <3>3. p = q => p \notin building.seen /\ WillKeepNext(p) = Embedding!NoRecord
      BY <2>3, <3>1 DEF WillKeepNext
    <3>4. p = q /\ content[q] = 0 => IsRight(p, WillKeepNext(p))
      BY <3>3, NotThere
    <3>5. content[q] # 0 => (WillReadNext(p) <=> p = q)
      BY <2>2 DEF WillReadNext
    <3>6. content[q] = 0 => ~WillReadNext(p)
      BY <2>2 DEF WillReadNext
    <3>7. building'.cache[p] = Embedding!NoRecord \/ IsRight(p, building'.cache[p]) \/ IsHeard(p)
      BY <2>3, <3>1
    <3>8. IsRight(p, WillKeep(p)) => IsRight(p, WillKeepNext(p))
      BY <3>2
    <3>9. p \in building'.todo \/ WillReadNext(p) \/ IsHeard(p) \/ IsRight(p, WillKeepNext(p))
      BY <2>2, <3>1, <3>4, <3>5, <3>8
    <3>10. p \in building'.todo => p \notin building'.seen
      BY <2>2, <2>3, <3>1
    <3>11. WillReadNext(p) => p \notin building'.seen \cup building'.todo
      BY <2>2, <2>3, <3>3, <3>5, <3>6
    <3> QED BY <3>7, <3>9, <3>10, <3>11
  <2>5. ~building'.changed => embeddings' \in {Embedding!Absent, building'.cache}
    BY <1>1, <2>1, <2>3 DEF BuildFollows
  <2>6. building'.pc = "read" => building'.stat = content[building'.path]
    BY <2>2
  <2> QED BY <2>3, <2>4, <2>5, <2>6, BuildFrom
<1>5. CASE Embedding!BuildRead
  <2> DEFINE q == building.path
             text == content[q]
  <2>1. building # Embedding!Idle
    BY <1>3, <1>5 DEF Embedding!BuildRead
  <2>2. /\ building.pc = "read" /\ q \in TextPaths /\ MarkdownStays
        /\ UNCHANGED <<embeddings, notices, syncing, lastLogged>>
        /\ building \in Rebuilds /\ building'.pc = "stat" /\ building'.todo = building.todo
        /\ \/ /\ text # 0 /\ text \in blanks
              /\ UNCHANGED <<building.seen, building.cache, building.changed>>
           \/ /\ text = 0 \/ (text \notin blanks /\ building.cache[q].stat = building.stat)
              /\ building'.seen = building.seen \cup {q} /\ UNCHANGED <<building.cache, building.changed>>
           \/ /\ text # 0 /\ text \notin blanks
              /\ building'.seen = building.seen \cup {q} /\ building'.changed = TRUE
              /\ building'.cache = [building.cache EXCEPT ![q] = Embedding!Record(building.stat, text)]
    BY <1>5, <2>1, BuildReadIs
  <2>3. building.cache \in EmbeddedMaps
    BY <2>2 DEF Rebuilds
  <2>4. /\ building.stat # 0 /\ (building.stat = text \/ IsHeard(q))
        /\ building.cache[q] = Embedding!NoRecord \/ IsRight(q, building.cache[q]) \/ IsHeard(q)
        /\ q \notin building.seen \cup building.todo
    <3>1. building.stat \in held[q]
      BY <1>1, <2>1, <2>2 DEF RecordsAreTrue
    <3> QED BY <1>1, <2>1, <2>2, <3>1 DEF BuildFollows, VersionsAreHeld, IsReading
  <2>5. \A p : ~WillReadNext(p)
    BY <2>2 DEF WillReadNext
  <2>6. \/ UNCHANGED <<building.seen, building.cache>> \/ (building'.seen = building.seen \cup {q} /\ UNCHANGED building.cache)
        \/ (building'.seen = building.seen \cup {q}
            /\ building'.cache = [building.cache EXCEPT ![q] = Embedding!Record(building.stat, text)])
    BY <2>2
  <2>7. /\ building'.cache[q] = Embedding!NoRecord \/ IsRight(q, building'.cache[q]) \/ IsHeard(q)
        /\ IsHeard(q) \/ IsRight(q, WillKeepNext(q))
    <3>1. CASE text # 0 /\ text \in blanks /\ UNCHANGED <<building.seen, building.cache>>
      <4>1. WillKeepNext(q) = Embedding!NoRecord
        BY <2>4, <3>1 DEF WillKeepNext
      <4> QED BY <2>2, <2>4, <3>1, <4>1, NotThere
    <3>2. CASE /\ text = 0 \/ (text \notin blanks /\ building.cache[q].stat = building.stat)
               /\ building'.seen = building.seen \cup {q} /\ UNCHANGED building.cache
      <4>1. WillKeepNext(q) = building.cache[q]
        BY <3>2 DEF WillKeepNext
      <4>2. building.cache[q].stat = building.stat => building.cache[q] # Embedding!NoRecord
        BY <2>4 DEF Embedding!NoRecord
      <4>3. IsHeard(q) \/ IsRight(q, building.cache[q])
        BY <2>4, <3>2, <4>2
      <4>4. IsHeard(q) \/ IsRight(q, WillKeepNext(q))
        BY <4>1, <4>3
      <4>5. building'.cache[q] = building.cache[q]
        BY <3>2
      <4>6. IsHeard(q) \/ IsRight(q, building'.cache[q])
        BY <4>3, <4>5
      <4> QED BY <4>4, <4>6
    <3>3. CASE /\ text # 0 /\ text \notin blanks /\ building'.seen = building.seen \cup {q}
               /\ building'.cache = [building.cache EXCEPT ![q] = Embedding!Record(building.stat, text)]
      <4>1. building'.cache[q] = Embedding!Record(building.stat, text)
        BY <2>2, <2>3, <3>3 DEF EmbeddedMaps
      <4>2. WillKeepNext(q) = building'.cache[q]
        BY <3>3 DEF WillKeepNext
      <4>3. building.stat = text => IsRight(q, Embedding!Record(building.stat, text))
        BY <2>2, <3>3 DEF IsRight, Embedding!Texts, Embedding!Record
      <4>4. IsHeard(q) \/ IsRight(q, building'.cache[q])
        BY <2>4, <4>1, <4>3
      <4>5. IsHeard(q) \/ IsRight(q, WillKeepNext(q))
        BY <4>2, <4>4
      <4> QED BY <4>4, <4>5
    <3> QED BY <2>2, <3>1, <3>2, <3>3
  <2>8. ASSUME NEW p \in TextPaths, p # q
        PROVE  /\ building'.cache[p] = Embedding!NoRecord \/ IsRight(p, building'.cache[p]) \/ IsHeard(p)
               /\ p \in building'.todo \/ IsHeard(p) \/ IsRight(p, WillKeepNext(p))
    <3>1. /\ building.cache[p] = Embedding!NoRecord \/ IsRight(p, building.cache[p]) \/ IsHeard(p)
          /\ p \in building.todo \/ IsHeard(p) \/ IsRight(p, WillKeep(p))
      BY <1>1, <2>1, <2>8 DEF BuildFollows, IsReading
    <3>2. building'.cache[p] = building.cache[p]
      BY <2>3, <2>6, <2>8 DEF EmbeddedMaps
    <3>3. WillKeepNext(p) = WillKeep(p)
      BY <2>6, <2>8, <3>2 DEF WillKeepNext, WillKeep
    <3>4. IsRight(p, WillKeep(p)) => IsRight(p, WillKeepNext(p))
      BY <3>3
    <3>5. IsRight(p, building.cache[p]) => IsRight(p, building'.cache[p])
      BY <3>2
    <3> QED BY <2>2, <3>1, <3>2, <3>4, <3>5
  <2>9. ASSUME NEW p \in TextPaths, p \in building'.todo PROVE p \notin building'.seen
    <3>1. p \in building.todo /\ p \notin building.seen
      BY <1>1, <2>1, <2>2, <2>9 DEF BuildFollows
    <3> QED BY <2>4, <2>6, <3>1
  <2>10. ~building'.changed => embeddings' \in {Embedding!Absent, building'.cache}
    <3>1. ~building.changed => embeddings \in {Embedding!Absent, building.cache}
      BY <1>1, <2>1 DEF BuildFollows
    <3> QED BY <2>2, <3>1
  <2>11. ASSUME NEW p \in TextPaths
         PROVE  /\ building'.cache[p] = Embedding!NoRecord \/ IsRight(p, building'.cache[p]) \/ IsHeard(p)
                /\ p \in building'.todo \/ WillReadNext(p) \/ IsHeard(p) \/ IsRight(p, WillKeepNext(p))
                /\ p \in building'.todo => p \notin building'.seen
                /\ WillReadNext(p) => p \notin building'.seen \cup building'.todo
    <3>1. CASE p = q
      BY <2>5, <2>7, <2>9, <3>1
    <3>2. CASE p # q
      BY <2>5, <2>8, <2>9, <3>2
    <3> QED BY <3>1, <3>2
  <2>12. building'.pc # "read"
    BY <2>2
  <2> QED BY <2>2, <2>10, <2>11, <2>12, BuildFrom
<1> QED BY <1>2, <1>4, <1>5

LEMMA BuildKeepsStep ==
  ASSUME EmbeddingInv, HoldersAreApart, Embedding!Build, IndexKeepsStep PROVE IndexKeepsStep'
<1>1. EmbeddingTyped /\ LockIsHeld /\ NoticesAgree /\ LogFollows /\ IndexFollows /\ SyncFollows /\ BuildFollows
  BY DEF EmbeddingInv, IndexKeepsStep
<1>2. CASE (\E force \in BOOLEAN : Embedding!BuildBegin(force)) \/ Embedding!BuildStat \/ Embedding!BuildRead
  <2>1. BuildFollows' /\ MarkdownStays /\ UNCHANGED <<embeddings, notices, syncing, lastLogged>>
    BY <1>2, BuildStepsKeep
  <2>2. NoticesAgree' /\ LogFollows' /\ IndexFollows'
    BY <1>1, <2>1, PartsStay
  <2>3. SyncFollows'
    BY <1>1, <2>1, SyncStays
  <2> QED BY <2>1, <2>2, <2>3 DEF IndexKeepsStep
<1>3. CASE Embedding!BuildWrite
  <2> DEFINE kept == Embedding!Kept(building.cache, building.seen)
  <2>1. building # Embedding!Idle
    BY <1>3, IdleBuild DEF Embedding!BuildWrite
  <2>2. /\ building.pc = "stat" /\ building.todo = {} /\ MarkdownStays /\ building' = Embedding!Idle
        /\ UNCHANGED <<notices, syncing, lastLogged>>
        /\ kept \in EmbeddedMaps /\ embeddings' = IF building.changed \/ kept # building.cache THEN kept ELSE embeddings
    BY <1>3, <2>1, BuildWriteIs
  <2>3. NoticesAgree' /\ LogFollows' /\ \A p : IsHeard(p)' <=> IsHeard(p)
    BY <1>1, <2>2, PartsStay
  <2>4. BuildFollows'
    BY <2>2 DEF BuildFollows, Embedding!Idle
  <2>5. ~HasRecords(syncing)
    BY <1>1, <2>1 DEF LockIsHeld, HoldersAreApart
  <2>6. syncing.pc = "wait" => embeddings' # Embedding!Absent
    <3> SUFFICES ASSUME syncing.pc = "wait" PROVE embeddings' # Embedding!Absent
      OBVIOUS
    <3>1. syncing.event.path \in TextPaths
      BY <1>1, SyncFields DEF EmbeddingTyped
    <3>2. embeddings # Embedding!Absent
      BY <1>1 DEF SyncFollows
    <3>3. kept # Embedding!Absent
      BY <2>2, <3>1, EmptyIsAbsent
    <3> QED BY <2>2, <3>2, <3>3
  <2>7. SyncFollows'
    BY <1>1, <2>2, <2>5, <2>6, SyncStays
  <2>8. embeddings' \in {kept, Embedding!Absent}
    BY <1>1, <2>1, <2>2 DEF BuildFollows
  <2>9. ASSUME NEW p \in TextPaths PROVE IsRight(p, kept[p]) \/ IsHeard(p)
    <3>1. kept[p] = WillKeep(p)
      BY DEF Embedding!Kept, WillKeep
    <3>2. IsRight(p, WillKeep(p)) \/ IsHeard(p)
      BY <1>1, <2>1, <2>2 DEF BuildFollows, IsReading
    <3> QED BY <3>1, <3>2
  <2> HIDE DEF kept
  <2>10. ASSUME NEW p \in TextPaths, embeddings' # Embedding!Absent PROVE IsRight(p, embeddings[p])' \/ IsHeard(p)'
    <3>1. PICK r : r = kept[p]
      OBVIOUS
    <3>2. IsRight(p, r)' => IsRight(p, embeddings[p])'
      BY <2>8, <2>10, <3>1
    <3>3. IsRight(p, r) => IsRight(p, r)'
      BY <2>2, RightStays
    <3>4. IsRight(p, r) \/ IsHeard(p)
      BY <2>9, <3>1
    <3> QED BY <2>3, <3>2, <3>3, <3>4
  <2>11. IndexFollows'
    BY <2>10 DEF IndexFollows, Embedding!Absent
  <2> QED BY <2>3, <2>4, <2>7, <2>11 DEF IndexKeepsStep
<1> QED BY <1>2, <1>3 DEF Embedding!Build

(* What holds until an event is lost, and the event being lost for good. *)
EmbeddingIndexInv == EmbeddingInv /\ (~lost => IndexKeepsStep)

LEMMA EmbeddingStarts == ASSUME HoldersAreApart, Embedding!MInit PROVE EmbeddingIndexInv
<1>1. /\ content = [p \in TextPaths |-> 0] /\ blanks = {} /\ newest = 0 /\ embeddings = Embedding!Absent
      /\ indexLock = NoOne /\ notices = <<>> /\ syncing = Embedding!Idle /\ building = Embedding!Idle
      /\ lastLogged = [p \in TextPaths |-> 0] /\ lost = FALSE
      /\ held = [p \in TextPaths |-> {}] /\ cameBack = {}
  BY DEF Embedding!MInit
<1>2. Embedding!Idle \in Syncs /\ Embedding!Idle.pc = "idle"
  BY DEF Syncs, Embedding!Idle
<1>3. <<>> \in Seq(Notices) /\ Len(<<>>) = 0
  OBVIOUS
<1>4. EmbeddingTyped
  <2>1. held \in [TextPaths -> SUBSET Nat]
    BY <1>1
  <2> QED BY <1>1, <1>2, <1>3, <2>1 DEF EmbeddingTyped
<1>5. LockIsHeld
  BY <1>1, <1>2 DEF LockIsHeld, HasRecords, HoldersAreApart
<1>6. VersionsAreHeld
  BY <1>1 DEF VersionsAreHeld
<1>7. RecordsAreTrue
  BY <1>1, <1>2 DEF RecordsAreTrue, HasRecords
<1>8. \A p : ~IsPending(p) /\ LastSays(notices, p, FALSE)
  BY <1>1, <1>3 DEF IsPending, PendingIn, LastSays
<1>9. NoticesAgree /\ LogFollows
  <2>1. \A p \in TextPaths : (content[p] # 0) = FALSE
    BY <1>1
  <2> QED BY <1>1, <1>2, <1>8, <2>1 DEF NoticesAgree, LogFollows
<1>10. IndexFollows /\ SyncFollows /\ BuildFollows
  BY <1>1, <1>2 DEF IndexFollows, SyncFollows, BuildFollows, HasRecords
<1> QED BY <1>4, <1>5, <1>6, <1>7, <1>9, <1>10 DEF EmbeddingIndexInv, EmbeddingInv, IndexKeepsStep

LEMMA EmbeddingStutters == ASSUME EmbeddingIndexInv, UNCHANGED Embedding!mvars PROVE EmbeddingIndexInv'
<1>1. /\ MarkdownStays
      /\ UNCHANGED <<embeddings, indexLock, notices, syncing, building, lastLogged, lost>>
  BY DEF Embedding!mvars, MarkdownStays
<1>2. EmbeddingInv
  BY DEF EmbeddingIndexInv
<1>3. EmbeddingTyped /\ LockIsHeld
  BY <1>2 DEF EmbeddingInv
<1>4. LockIsHeld'
  BY <1>1, <1>3 DEF LockIsHeld, HasRecords
<1>5. EmbeddingInv'
  BY <1>1, <1>2, <1>3, <1>4, IndexIs, RecordsKeep DEF EmbeddingTyped
<1>6. ASSUME ~lost' PROVE IndexKeepsStep'
  <2>1. NoticesAgree /\ LogFollows /\ IndexFollows /\ SyncFollows /\ BuildFollows
    BY <1>1, <1>6 DEF EmbeddingIndexInv, IndexKeepsStep
  <2>2. NoticesAgree' /\ LogFollows' /\ IndexFollows' /\ \A p : IsHeard(p)' <=> IsHeard(p)
    BY <1>1, <2>1, PartsStay
  <2>3. SyncFollows'
    BY <1>1, <2>1, SyncStays
  <2>4. BuildFollows'
    BY <1>1, <1>3, <2>1, <2>2, BuildStays
  <2> QED BY <2>2, <2>3, <2>4 DEF IndexKeepsStep
<1> QED BY <1>5, <1>6 DEF EmbeddingIndexInv

LEMMA EmbeddingSteps == ASSUME EmbeddingIndexInv, HoldersAreApart, Embedding!MNext PROVE EmbeddingIndexInv'
<1>1. EmbeddingInv /\ (~lost => IndexKeepsStep)
  BY DEF EmbeddingIndexInv
<1>2. lost \in BOOLEAN
  BY <1>1 DEF EmbeddingInv, EmbeddingTyped
<1>3. CASE Embedding!Edit
  <2>1. lost' = lost
    BY <1>1, <1>3, EditIs DEF AnEdit
  <2> QED BY <1>1, <1>3, <2>1, EditsKeep, EditsKeepStep DEF EmbeddingIndexInv
<1>4. CASE Embedding!Apply
  <2>1. ~lost' => ~lost
    BY <1>4 DEF Embedding!Apply
  <2> QED BY <1>1, <1>4, <2>1, ApplyKeeps, ApplyKeepsStep DEF EmbeddingIndexInv
<1>5. CASE Embedding!SyncBegin
  <2>1. lost' = lost
    BY <1>5 DEF Embedding!SyncBegin
  <2> QED BY <1>1, <1>5, <2>1, SyncBeginKeeps, SyncBeginKeepsStep DEF EmbeddingIndexInv
<1>6. CASE Embedding!SyncStat
  <2>1. lost' = lost
    BY <1>6 DEF Embedding!SyncStat
  <2> QED BY <1>1, <1>6, <2>1, SyncKeeps, SyncStatKeepsStep DEF EmbeddingIndexInv
<1>7. CASE Embedding!SyncRead
  <2>1. lost' = lost
    BY <1>7 DEF Embedding!SyncRead
  <2> QED BY <1>1, <1>7, <2>1, SyncKeeps, SyncReadKeepsStep DEF EmbeddingIndexInv
<1>8. CASE Embedding!SyncWrite
  <2>1. lost' = lost
    BY <1>8 DEF Embedding!SyncWrite
  <2> QED BY <1>1, <1>8, <2>1, SyncKeeps, SyncWriteKeepsStep DEF EmbeddingIndexInv
<1>9. CASE Embedding!Build
  <2>1. lost' = lost
    BY <1>9 DEF Embedding!Build, Embedding!BuildBegin, Embedding!BuildStat, Embedding!BuildRead, Embedding!BuildWrite
  <2> QED BY <1>1, <1>9, <2>1, BuildKeepsIndex, BuildKeepsStep DEF EmbeddingIndexInv
<1>10. CASE Embedding!Clear \/ \E who \in {Watcher, Builder} : Embedding!Kill(who)
  <2>1. ~lost' => ~lost
    BY <1>10 DEF Embedding!Clear, Embedding!Kill
  <2> QED BY <1>1, <1>10, <2>1, ClearAndKillKeep, ClearAndKillKeepStep DEF EmbeddingIndexInv
<1> QED BY <1>3, <1>4, <1>5, <1>6, <1>7, <1>8, <1>9, <1>10 DEF Embedding!MNext, Embedding!Watch

(* Whatever the edits, the kills and the order in which the watcher and a build run,  *)
(* a record under the stamp of its file is of the file's text unless the file was     *)
(* moved away and back between the stat and the read (_embedding_sync_path_locked,    *)
(* _build_embeddings_locked), and once the watcher (watch.py, live_sync_apply) has    *)
(* drained its events, with no build under way and no event lost, there is no index   *)
(* or embedding_index_state says fresh of one that has every file's present text.     *)
THEOREM EmbeddingIndexTellsTheFiles ==
  ASSUME HoldersAreApart PROVE Embedding!MSpec => []Embedding!IndexTellsTheFiles
<1>1. Embedding!MInit => EmbeddingIndexInv
  BY EmbeddingStarts
<1>2. EmbeddingIndexInv /\ [Embedding!MNext]_(Embedding!mvars) => EmbeddingIndexInv'
  BY EmbeddingStutters, EmbeddingSteps
<1>3. EmbeddingIndexInv => Embedding!IndexTellsTheFiles
  <2> SUFFICES ASSUME EmbeddingIndexInv PROVE Embedding!LooksAreTrue /\ Embedding!DrainedMeansFresh
    BY DEF Embedding!IndexTellsTheFiles
  <2>1. EmbeddingInv /\ (~lost => IndexKeepsStep)
    BY DEF EmbeddingIndexInv
  <2>2. Embedding!LooksAreTrue
    BY <2>1, StoredTrue DEF Embedding!LooksAreTrue, IsTrue
  <2>3. ASSUME notices = <<>>, syncing = Embedding!Idle, ~lost
        PROVE  /\ Embedding!State \in {"fresh", "absent"}
               /\ Embedding!State = "fresh" => \A p \in Embedding!Texts : Embedding!Stored[p].text = content[p]
               /\ \A p \in Embedding!Texts : lastLogged[p] = content[p]
    <3>1. \A p : ~IsPending(p) /\ ~IsHeard(p)
      <4>1. Len(<<>>) = 0
        OBVIOUS
      <4> QED BY <2>3, <4>1 DEF IsPending, IsHeard, PendingIn, Embedding!Idle
    <3>2. \A p \in Embedding!Texts : lastLogged[p] = content[p]
      BY <2>1, <2>3, <3>1 DEF IndexKeepsStep, LogFollows, Embedding!Texts
    <3>3. CASE embeddings = Embedding!Absent
      BY <3>2, <3>3 DEF Embedding!State
    <3>4. CASE embeddings # Embedding!Absent
      <4>1. \A p \in TextPaths : IsRight(p, Embedding!Stored[p])
        BY <2>1, <2>3, <3>1, <3>4 DEF IndexKeepsStep, IndexFollows, Embedding!Stored
      <4>2. ASSUME NEW p \in TextPaths
            PROVE  IF p \in Embedding!Texts
                   THEN /\ Embedding!Stored[p].stat = content[p] /\ Embedding!Stored[p].text = content[p]
                        /\ Embedding!Stored[p] # Embedding!NoRecord
                   ELSE Embedding!Stored[p] = Embedding!NoRecord
        <5>1. CASE p \in Embedding!Texts
          <6>1. Embedding!Stored[p] = [stat |-> content[p], text |-> content[p]]
            BY <4>1, <5>1 DEF IsRight
          <6>2. content[p] # 0
            BY <5>1 DEF Embedding!Texts
          <6> QED BY <5>1, <6>1, <6>2 DEF Embedding!NoRecord
        <5>2. CASE p \notin Embedding!Texts
          BY <4>1, <5>2 DEF IsRight
        <5> QED BY <5>1, <5>2
      <4>3. Embedding!Texts \subseteq TextPaths
        BY DEF Embedding!Texts
      <4>4. Embedding!Missing = {} /\ Embedding!Orphaned = {} /\ Embedding!Stale = {}
        BY <4>2, <4>3 DEF Embedding!Missing, Embedding!Orphaned, Embedding!Stale
      <4>5. Embedding!State = "fresh"
        BY <3>4, <4>4 DEF Embedding!State
      <4> QED BY <3>2, <4>2, <4>3, <4>5
    <3> QED BY <3>3, <3>4
  <2> QED BY <2>2, <2>3 DEF Embedding!DrainedMeansFresh
<1> QED BY <1>1, <1>2, <1>3, PTL DEF Embedding!MSpec

-----------------------------------------------------------------------------
(* The cache of file contents. *)
CONSTANTS Openers, TextFiles, Room, MaxStats, MaxReads, AtRest, NotRead
VARIABLES eviction, texts, recent, frequent, ghosts, frequentGhosts, target, keyOf, opener, reads, unreported,
          overwritten, crowded, outdated

Cached == INSTANCE ReadCache WITH
  Readers <- Openers, Paths <- TextFiles, Capacity <- Room, MaxStat <- MaxStats, Idle <- AtRest, Unread <- NotRead,
  policy <- eviction, file <- texts, t1 <- recent, t2 <- frequent, b1 <- ghosts, b2 <- frequentGhosts,
  pathKeys <- keyOf, reader <- opener, raced <- overwritten, stale <- outdated

CacheKeys == [path : TextFiles, stat : Nat]
CacheEntries == [key : CacheKeys, text : Nat]
OpenCalls == [key : CacheKeys, text : Nat \cup {NotRead}, rescued : BOOLEAN]
(* A cache of no room is never asked, and what stands for no key is none. *)
CacheHasRoom == Room \in Nat \ {0} /\ NotRead \notin CacheKeys

CacheTyped ==
  /\ eviction \in {"lru", "arc"} /\ texts \in [TextFiles -> [stat : Nat, text : Nat]]
  /\ recent \in Seq(CacheEntries) /\ frequent \in Seq(CacheEntries)
  /\ keyOf \in [TextFiles -> CacheKeys \cup {NotRead}] /\ opener \in [Openers -> {AtRest} \cup OpenCalls]
(* A text kept under the present stat of its file is the file's, unless a write *)
(* that stat() does not show has not been told of or met a reader at work.      *)
TextIsTrue(key, text) ==
  /\ key.stat <= texts[key.path].stat
  /\ (key.stat = texts[key.path].stat /\ key.path \notin unreported \cup overwritten) => text = texts[key.path].text
EntriesAreTrue(list) == \A i \in 1 .. Len(list) : TextIsTrue(list[i].key, list[i].text)
OpenersReadTruly ==
  \A r \in Openers :
    opener[r] # AtRest => /\ opener[r].key.stat <= texts[opener[r].key.path].stat
                          /\ opener[r].text # NotRead => TextIsTrue(opener[r].key, opener[r].text)
OneAPath(list) == \A i, j \in 1 .. Len(list) : i < j => list[i].key.path # list[j].key.path
(* LRU keeps the key its index names of each path, and no other. *)
IndexNames(list, index) ==
  /\ OneAPath(list)
  /\ \A i \in 1 .. Len(list) : index[list[i].key.path] = list[i].key
  /\ \A p \in TextFiles : index[p] # NotRead => \E i \in 1 .. Len(list) : list[i].key = index[p] /\ list[i].key.path = p
ReadInv ==
  /\ CacheTyped /\ outdated = {} /\ EntriesAreTrue(recent) /\ EntriesAreTrue(frequent) /\ OpenersReadTruly
  /\ eviction = "lru" => Len(recent) <= Room /\ IndexNames(recent, keyOf)

LEMMA CachedPicks == ASSUME NEW s, NEW places PROVE Cached!Picked(s, places) = Picked(s, places)
BY DEF Cached!Picked, Cached!Picks, Picked, Picks

LEMMA EntriesPicked ==
  ASSUME NEW s \in Seq(CacheEntries), NEW places, NEW d, d = Cached!Picked(s, places)
  PROVE  /\ d \in Seq(CacheEntries) /\ Len(d) <= Len(s)
         /\ (\E i \in 1 .. Len(s) : i \notin places) => Len(d) < Len(s)
         /\ \A k \in 1 .. Len(d) : \E i \in 1 .. Len(s) : i \in places /\ d[k] = s[i]
         /\ \A i \in 1 .. Len(s) : i \in places => \E k \in 1 .. Len(d) : d[k] = s[i]
         /\ OneAPath(s) => OneAPath(d)
<1>1. d = Picked(s, places)
  BY CachedPicks
<1>2. ASSUME NEW t, t = Picked(s, places)
      PROVE  /\ t \in Seq(CacheEntries)
             /\ \A k \in 1 .. Len(t) : \E i \in 1 .. Len(s) : i \in places /\ t[k] = s[i]
             /\ \A i \in 1 .. Len(s) : i \in places => \E k \in 1 .. Len(t) : t[k] = s[i]
  <2>1. /\ Picked(s, places) \in Seq(CacheEntries)
        /\ \A k \in 1 .. Len(Picked(s, places)) : \E i \in 1 .. Len(s) : i \in places /\ Picked(s, places)[k] = s[i]
        /\ \A i \in 1 .. Len(s) : i \in places =>
             \E k \in 1 .. Len(Picked(s, places)) : Picked(s, places)[k] = s[i]
    BY PickedElements
  <2> QED BY <1>2, <2>1
<1>3. /\ Len(d) <= Len(s)
      /\ (\E i \in 1 .. Len(s) : i \notin places) => Len(d) < Len(s)
      /\ \A k, l \in 1 .. Len(d) : k < l => \E i, j \in 1 .. Len(s) : i < j /\ d[k] = s[i] /\ d[l] = s[j]
  BY <1>1, PickedApart
<1>4. ASSUME OneAPath(s), NEW k \in 1 .. Len(d), NEW l \in 1 .. Len(d), k < l PROVE d[k].key.path # d[l].key.path
  <2>1. PICK i \in 1 .. Len(s), j \in 1 .. Len(s) : i < j /\ d[k] = s[i] /\ d[l] = s[j]
    BY <1>3, <1>4
  <2> QED BY <1>4, <2>1 DEF OneAPath
<1>5. OneAPath(s) => OneAPath(d)
  BY <1>4 DEF OneAPath
<1> QED BY <1>1, <1>2, <1>3, <1>5

LEMMA EntryIs ==
  ASSUME NEW key \in CacheKeys, NEW text
  PROVE  /\ Cached!Entry(key, text).key = key /\ Cached!Entry(key, text).text = text
         /\ text \in Nat => Cached!Entry(key, text) \in CacheEntries
BY DEF Cached!Entry, CacheEntries

(* What a list is after a key is taken out, and after it is put at its end. *)
LEMMA DropIs ==
  ASSUME NEW s \in Seq(CacheEntries), NEW key, NEW d, d = Cached!Drop(s, key)
  PROVE  /\ d \in Seq(CacheEntries) /\ Len(d) <= Len(s)
         /\ (\E i \in 1 .. Len(s) : s[i].key = key) => Len(d) < Len(s)
         /\ \A k \in 1 .. Len(d) : d[k].key # key /\ \E i \in 1 .. Len(s) : d[k] = s[i]
         /\ \A i \in 1 .. Len(s) : s[i].key # key => \E k \in 1 .. Len(d) : d[k] = s[i]
         /\ OneAPath(s) => OneAPath(d)
<1> DEFINE places == {i \in DOMAIN s : s[i].key # key}
<1>1. d = Cached!Picked(s, places)
  BY DEF Cached!Drop
<1>2. \A i \in 1 .. Len(s) : i \in places <=> s[i].key # key
  OBVIOUS
<1> HIDE DEF places
<1>3. /\ d \in Seq(CacheEntries) /\ Len(d) <= Len(s)
      /\ (\E i \in 1 .. Len(s) : i \notin places) => Len(d) < Len(s)
      /\ \A k \in 1 .. Len(d) : \E i \in 1 .. Len(s) : i \in places /\ d[k] = s[i]
      /\ \A i \in 1 .. Len(s) : i \in places => \E k \in 1 .. Len(d) : d[k] = s[i]
      /\ OneAPath(s) => OneAPath(d)
  BY <1>1, EntriesPicked
<1>4. (\E i \in 1 .. Len(s) : s[i].key = key) => Len(d) < Len(s)
  BY <1>2, <1>3
<1>5. \A k \in 1 .. Len(d) : d[k].key # key /\ \E i \in 1 .. Len(s) : d[k] = s[i]
  BY <1>2, <1>3
<1>6. \A i \in 1 .. Len(s) : s[i].key # key => \E k \in 1 .. Len(d) : d[k] = s[i]
  BY <1>2, <1>3
<1> QED BY <1>3, <1>4, <1>5, <1>6

LEMMA PutIs ==
  ASSUME NEW s \in Seq(CacheEntries), NEW key \in CacheKeys, NEW text \in Nat, NEW q, q = Cached!Put(s, key, text)
  PROVE  /\ q \in Seq(CacheEntries) /\ Len(q) \in 1 .. Len(s) + 1 /\ q[Len(q)] = Cached!Entry(key, text)
         /\ (\E i \in 1 .. Len(s) : s[i].key = key) => Len(q) <= Len(s)
         /\ \A k \in 1 .. Len(q) : q[k] # q[Len(q)] => q[k].key # key /\ \E i \in 1 .. Len(s) : q[k] = s[i]
         /\ \A i \in 1 .. Len(s) : s[i].key # key => \E k \in 1 .. Len(q) : q[k] = s[i]
         /\ (OneAPath(s) /\ \A i \in 1 .. Len(s) : s[i].key.path = key.path => s[i].key = key) => OneAPath(q)
<1> DEFINE d == Cached!Drop(s, key)
           e == Cached!Entry(key, text)
<1>1. q = Append(d, e)
  BY DEF Cached!Put
<1>2. /\ d \in Seq(CacheEntries) /\ Len(d) <= Len(s)
      /\ (\E i \in 1 .. Len(s) : s[i].key = key) => Len(d) < Len(s)
      /\ \A k \in 1 .. Len(d) : d[k].key # key /\ \E i \in 1 .. Len(s) : d[k] = s[i]
      /\ \A i \in 1 .. Len(s) : s[i].key # key => \E k \in 1 .. Len(d) : d[k] = s[i]
      /\ OneAPath(s) => OneAPath(d)
  BY DropIs
<1>3. e \in CacheEntries /\ e.key = key
  BY EntryIs
<1> HIDE DEF d, e
<1>4. /\ q \in Seq(CacheEntries) /\ Len(q) = Len(d) + 1 /\ q[Len(d) + 1] = e /\ Len(d) \in Nat /\ Len(s) \in Nat
      /\ \A k \in 1 .. Len(d) : q[k] = d[k] /\ k \in 1 .. Len(q)
  BY <1>1, <1>2, <1>3
<1>5. ASSUME NEW k \in 1 .. Len(q), q[k] # q[Len(q)] PROVE q[k].key # key /\ \E i \in 1 .. Len(s) : q[k] = s[i]
  <2>1. k \in 1 .. Len(d) /\ q[k] = d[k]
    BY <1>4, <1>5
  <2>2. d[k].key # key /\ \E i \in 1 .. Len(s) : d[k] = s[i]
    BY <1>2, <2>1
  <2> QED BY <2>1, <2>2
<1>6. ASSUME NEW i \in 1 .. Len(s), s[i].key # key PROVE \E k \in 1 .. Len(q) : q[k] = s[i]
  <2>1. PICK k \in 1 .. Len(d) : d[k] = s[i]
    BY <1>2, <1>6
  <2> QED BY <1>4, <2>1
<1>7. ASSUME OneAPath(s), \A i \in 1 .. Len(s) : s[i].key.path = key.path => s[i].key = key PROVE OneAPath(q)
  <2>1. OneAPath(d) /\ \A k \in 1 .. Len(d) : d[k].key.path # key.path
    <3>1. ASSUME NEW k \in 1 .. Len(d) PROVE d[k].key.path # key.path
      <4>1. PICK i \in 1 .. Len(s) : d[k] = s[i]
        BY <1>2
      <4>2. d[k].key # key
        BY <1>2
      <4> QED BY <1>7, <4>1, <4>2
    <3> QED BY <1>2, <1>7, <3>1
  <2>2. ASSUME NEW k \in 1 .. Len(q), NEW l \in 1 .. Len(q), k < l PROVE q[k].key.path # q[l].key.path
    <3>1. k \in 1 .. Len(d)
      BY <1>4, <2>2
    <3>2. CASE l \in 1 .. Len(d)
      BY <1>4, <2>1, <2>2, <3>1, <3>2 DEF OneAPath
    <3>3. CASE l = Len(d) + 1
      BY <1>3, <1>4, <2>1, <3>1, <3>3
    <3> QED BY <1>4, <3>2, <3>3
  <2> QED BY <2>2 DEF OneAPath
<1>8. Len(q) \in 1 .. Len(s) + 1 /\ q[Len(q)] = e
  BY <1>2, <1>4
<1>9. ((\E i \in 1 .. Len(s) : s[i].key = key) => Len(q) <= Len(s))
  <2> SUFFICES ASSUME \E i \in 1 .. Len(s) : s[i].key = key PROVE Len(q) <= Len(s)
    OBVIOUS
  <2>1. Len(d) < Len(s)
    BY <1>2
  <2> QED BY <1>4, <2>1
<1> QED BY <1>4, <1>5, <1>6, <1>7, <1>8, <1>9 DEF e

(* What an entry found under a key tells. *)
LEMMA TextOfIs ==
  ASSUME NEW s \in Seq(CacheEntries), NEW key, Cached!In(s, key)
  PROVE  \E i \in 1 .. Len(s) : s[i].key = key /\ s[i].text = Cached!TextOf(s, key) /\ Cached!TextOf(s, key) \in Nat
<1> DEFINE i == CHOOSE i \in DOMAIN s : s[i].key = key
<1>1. i \in 1 .. Len(s) /\ s[i].key = key
  BY DEF Cached!In
<1>2. Cached!TextOf(s, key) = s[i].text
  BY DEF Cached!TextOf
<1>3. s[i] \in CacheEntries
  BY <1>1
<1> HIDE DEF i
<1> QED BY <1>1, <1>2, <1>3 DEF CacheEntries

LEMMA AssignIs ==
  ASSUME NEW s \in Seq(CacheEntries), NEW key \in CacheKeys, NEW text \in Nat, NEW q, q = Cached!Assign(s, key, text)
  PROVE  /\ q \in Seq(CacheEntries)
         /\ \A k \in 1 .. Len(q) : q[k] = Cached!Entry(key, text) \/ \E i \in 1 .. Len(s) : q[k] = s[i]
<1> DEFINE e == Cached!Entry(key, text)
<1>1. e \in CacheEntries
  BY EntryIs
<1>2. q = IF Cached!In(s, key) THEN [i \in DOMAIN s |-> IF s[i].key = key THEN e ELSE s[i]] ELSE Append(s, e)
  BY DEF Cached!Assign
<1> HIDE DEF e
<1>3. CASE Cached!In(s, key)
  <2>1. DOMAIN s = 1 .. Len(s) /\ Len(s) \in Nat /\ \A i \in 1 .. Len(s) : s[i] \in CacheEntries
    OBVIOUS
  <2>2. q = [i \in 1 .. Len(s) |-> IF s[i].key = key THEN e ELSE s[i]]
    BY <1>2, <1>3, <2>1
  <2>3. q \in [1 .. Len(s) -> CacheEntries]
    BY <1>1, <2>1, <2>2
  <2>4. q \in Seq(CacheEntries) /\ Len(q) = Len(s)
    BY <2>1, <2>3
  <2> QED BY <2>2, <2>4 DEF e
<1>4. CASE ~Cached!In(s, key)
  <2>1. q = Append(s, e)
    BY <1>2, <1>4
  <2>2. q \in Seq(CacheEntries) /\ \A k \in 1 .. Len(q) : q[k] = e \/ (k \in 1 .. Len(s) /\ q[k] = s[k])
    BY <1>1, <2>1
  <2> QED BY <2>2 DEF e
<1> QED BY <1>3, <1>4

LEMMA NewestIs ==
  ASSUME NEW s \in Seq(CacheEntries), s # <<>>, NEW n \in Nat \ {0}, NEW q, q = Cached!Newest(s, n)
  PROVE  /\ q \in Seq(CacheEntries) /\ Len(q) \in 1 .. n /\ q[Len(q)] = s[Len(s)]
         /\ \A k \in 1 .. Len(q) : \E i \in 1 .. Len(s) : q[k] = s[i]
         /\ OneAPath(s) => OneAPath(q)
<1> DEFINE m == IF Len(s) > n THEN Len(s) - n ELSE 0
<1>1. m \in Nat /\ Len(s) \in Nat /\ Len(s) > 0 /\ m < Len(s) /\ Len(s) - m <= n
  OBVIOUS
<1>2. q = SubSeq(s, m + 1, Len(s))
  BY DEF Cached!Newest
<1> HIDE DEF m
<1>3. q \in Seq(CacheEntries) /\ Len(q) = Len(s) - m /\ \A k \in 1 .. Len(q) : q[k] = s[m + k]
  BY <1>1, <1>2
<1>4. \A k \in 1 .. Len(q) : m + k \in 1 .. Len(s)
  BY <1>1, <1>3
<1>5. OneAPath(s) => OneAPath(q)
  BY <1>1, <1>3, <1>4 DEF OneAPath
<1>6. Len(q) \in 1 .. n /\ m + Len(q) = Len(s) /\ Len(q) \in 1 .. Len(q)
  BY <1>1, <1>3
<1>7. q[Len(q)] = s[Len(s)]
  BY <1>3, <1>6
<1> QED BY <1>3, <1>4, <1>5, <1>6, <1>7

(* A step that leaves the files and what was told of them alone, by what it leaves of the rest. *)
FilesStay == UNCHANGED <<eviction, texts, unreported, overwritten>>

LEMMA TruthStays == ASSUME FilesStay, NEW key, NEW text PROVE TextIsTrue(key, text)' <=> TextIsTrue(key, text)
BY DEF FilesStay, TextIsTrue

LEMMA ReadKeeps ==
  ASSUME ReadInv, FilesStay, outdated' = outdated, recent' \in Seq(CacheEntries), frequent' \in Seq(CacheEntries),
         keyOf' \in [TextFiles -> CacheKeys \cup {NotRead}],
         \A i \in 1 .. Len(recent') : TextIsTrue(recent'[i].key, recent'[i].text),
         \A i \in 1 .. Len(frequent') : TextIsTrue(frequent'[i].key, frequent'[i].text),
         \/ opener' = opener
         \/ \E r \in Openers : \E c \in {AtRest} \cup OpenCalls :
              /\ opener' = [opener EXCEPT ![r] = c]
              /\ c # AtRest => /\ c.key.stat <= texts[c.key.path].stat
                               /\ c.text # NotRead => TextIsTrue(c.key, c.text),
         eviction = "lru" => Len(recent') <= Room /\ IndexNames(recent', keyOf')
  PROVE  ReadInv'
<1>1. CacheTyped /\ outdated = {} /\ OpenersReadTruly
  BY DEF ReadInv
<1>2. eviction' = eviction /\ texts' = texts
  BY DEF FilesStay
<1>3. CacheTyped' /\ outdated' = {}
  BY <1>1, <1>2 DEF CacheTyped
<1>4. EntriesAreTrue(recent)' /\ EntriesAreTrue(frequent)'
  <2>1. ASSUME NEW list, \A i \in 1 .. Len(list) : TextIsTrue(list[i].key, list[i].text)
        PROVE  \A i \in 1 .. Len(list) : TextIsTrue(list[i].key, list[i].text)'
    BY <2>1, TruthStays
  <2>2. PICK s, t : s = recent' /\ t = frequent'
    OBVIOUS
  <2>3. /\ \A i \in 1 .. Len(s) : TextIsTrue(s[i].key, s[i].text)'
        /\ \A i \in 1 .. Len(t) : TextIsTrue(t[i].key, t[i].text)'
    BY <2>1, <2>2
  <2> QED BY <2>2, <2>3 DEF EntriesAreTrue, TextIsTrue
<1>5. OpenersReadTruly'
  <2> SUFFICES ASSUME NEW r \in Openers, NEW c, c = opener'[r], c # AtRest
               PROVE  c.key.stat <= texts[c.key.path].stat /\ (c.text # NotRead => TextIsTrue(c.key, c.text))
    <3>1. ASSUME NEW r \in Openers, NEW c, c = opener'[r], c # AtRest
          PROVE  c.key.stat <= texts'[c.key.path].stat /\ (c.text # NotRead => TextIsTrue(c.key, c.text)')
      BY <1>2, <3>1, TruthStays
    <3> QED BY <3>1 DEF OpenersReadTruly, TextIsTrue
  <2>1. opener[r] # AtRest => /\ opener[r].key.stat <= texts[opener[r].key.path].stat
                              /\ opener[r].text # NotRead => TextIsTrue(opener[r].key, opener[r].text)
    BY <1>1 DEF OpenersReadTruly
  <2>2. CASE opener' = opener
    BY <2>1, <2>2
  <2>3. ASSUME NEW q \in Openers, NEW d \in {AtRest} \cup OpenCalls, opener' = [opener EXCEPT ![q] = d],
               d # AtRest => /\ d.key.stat <= texts[d.key.path].stat
                             /\ d.text # NotRead => TextIsTrue(d.key, d.text)
        PROVE  c.key.stat <= texts[c.key.path].stat /\ (c.text # NotRead => TextIsTrue(c.key, c.text))
    <3>1. c = IF r = q THEN d ELSE opener[r]
      BY <1>1, <2>3 DEF CacheTyped
    <3> QED BY <2>1, <2>3, <3>1
  <2> QED BY <2>2, <2>3
<1>6. (eviction = "lru" => Len(recent) <= Room /\ IndexNames(recent, keyOf))'
  BY <1>2 DEF IndexNames, OneAPath
<1> QED BY <1>3, <1>4, <1>5, <1>6 DEF ReadInv

LEMMA KeyIs ==
  ASSUME CacheTyped, NEW p \in TextFiles
  PROVE  Cached!Key(p) \in CacheKeys /\ Cached!Key(p).path = p /\ Cached!Key(p).stat = texts[p].stat /\ texts[p].text \in Nat
BY DEF CacheTyped, Cached!Key, CacheKeys

(* What a hit finds is no older than it may be. *)
LEMMA FoundIsTrue ==
  ASSUME CacheTyped, NEW s \in Seq(CacheEntries), EntriesAreTrue(s), NEW p \in TextFiles, Cached!In(s, Cached!Key(p))
  PROVE  LET text == Cached!TextOf(s, Cached!Key(p))
         IN  /\ text \in Nat /\ TextIsTrue(Cached!Key(p), text)
             /\ Cached!Current(p, text) => outdated' = outdated
<1> DEFINE key == Cached!Key(p)
           text == Cached!TextOf(s, key)
<1>1. key \in CacheKeys /\ key.path = p /\ key.stat = texts[p].stat
  BY KeyIs
<1>2. PICK i \in 1 .. Len(s) : s[i].key = key /\ s[i].text = text /\ text \in Nat
  BY TextOfIs
<1>3. TextIsTrue(key, text)
  BY <1>2 DEF EntriesAreTrue
<1>4. text = texts[p].text \/ p \in unreported \cup overwritten
  BY <1>1, <1>3 DEF TextIsTrue
<1>5. Cached!Current(p, text) => outdated' = outdated
  BY <1>4 DEF Cached!Current
<1> QED BY <1>2, <1>3, <1>5

LEMMA PutTrue ==
  ASSUME NEW s \in Seq(CacheEntries), EntriesAreTrue(s), NEW key \in CacheKeys, NEW text \in Nat, TextIsTrue(key, text),
         NEW q, q \in {Cached!Put(s, key, text), Cached!Assign(s, key, text)}
  PROVE  q \in Seq(CacheEntries) /\ \A i \in 1 .. Len(q) : TextIsTrue(q[i].key, q[i].text)
<1>1. /\ q \in Seq(CacheEntries)
      /\ \A k \in 1 .. Len(q) : q[k] = Cached!Entry(key, text) \/ \E i \in 1 .. Len(s) : q[k] = s[i]
  <2>1. CASE q = Cached!Put(s, key, text)
    <3>1. /\ q \in Seq(CacheEntries) /\ q[Len(q)] = Cached!Entry(key, text)
          /\ \A k \in 1 .. Len(q) : q[k] # q[Len(q)] => q[k].key # key /\ \E i \in 1 .. Len(s) : q[k] = s[i]
      BY <2>1, PutIs
    <3> QED BY <3>1
  <2>2. CASE q = Cached!Assign(s, key, text)
    BY <2>2, AssignIs
  <2> QED BY <2>1, <2>2
<1>2. Cached!Entry(key, text).key = key /\ Cached!Entry(key, text).text = text
  BY EntryIs
<1>3. ASSUME NEW k \in 1 .. Len(q) PROVE TextIsTrue(q[k].key, q[k].text)
  <2>1. CASE q[k] = Cached!Entry(key, text)
    BY <1>2, <2>1
  <2>2. CASE \E i \in 1 .. Len(s) : q[k] = s[i]
    BY <2>2 DEF EntriesAreTrue
  <2> QED BY <1>1, <2>1, <2>2
<1> QED BY <1>1, <1>3

(* Moving a key that is there to the end keeps the index in step. *)
LEMMA PutNamed ==
  ASSUME NEW s \in Seq(CacheEntries), NEW index, IndexNames(s, index), NEW key \in CacheKeys, Cached!In(s, key),
         NEW text \in Nat, NEW q, q = Cached!Put(s, key, text)
  PROVE  IndexNames(q, index) /\ Len(q) <= Len(s)
<1>1. PICK j \in 1 .. Len(s) : s[j].key = key
  BY DEF Cached!In
<1>2. \A i \in 1 .. Len(s) : s[i].key.path = key.path => s[i].key = key
  BY <1>1 DEF IndexNames
<1>3. /\ q \in Seq(CacheEntries) /\ Len(q) \in 1 .. Len(s) + 1 /\ q[Len(q)] = Cached!Entry(key, text) /\ Len(q) <= Len(s)
      /\ \A k \in 1 .. Len(q) : q[k] # q[Len(q)] => \E i \in 1 .. Len(s) : q[k] = s[i]
      /\ \A i \in 1 .. Len(s) : s[i].key # key => \E k \in 1 .. Len(q) : q[k] = s[i]
      /\ OneAPath(q)
  <2>1. OneAPath(s)
    BY DEF IndexNames
  <2>2. q \in Seq(CacheEntries) /\ Len(q) \in 1 .. Len(s) + 1 /\ q[Len(q)] = Cached!Entry(key, text)
    BY PutIs
  <2>3. Len(q) <= Len(s)
    BY <1>1, PutIs
  <2>4. \A k \in 1 .. Len(q) : q[k] # q[Len(q)] => q[k].key # key /\ \E i \in 1 .. Len(s) : q[k] = s[i]
    BY PutIs
  <2>5. \A i \in 1 .. Len(s) : s[i].key # key => \E k \in 1 .. Len(q) : q[k] = s[i]
    BY PutIs
  <2>6. OneAPath(q)
    BY <1>2, <2>1, PutIs
  <2> QED BY <2>2, <2>3, <2>4, <2>5, <2>6
<1>4. Cached!Entry(key, text).key = key
  BY EntryIs
<1>5. ASSUME NEW k \in 1 .. Len(q) PROVE index[q[k].key.path] = q[k].key
  <2>1. CASE q[k] = q[Len(q)]
    BY <1>1, <1>3, <1>4, <2>1 DEF IndexNames
  <2>2. CASE q[k] # q[Len(q)]
    BY <1>3, <2>2 DEF IndexNames
  <2> QED BY <2>1, <2>2
<1>6. ASSUME NEW p \in TextFiles, index[p] # NotRead PROVE \E k \in 1 .. Len(q) : q[k].key = index[p] /\ q[k].key.path = p
  <2>1. PICK i \in 1 .. Len(s) : s[i].key = index[p] /\ s[i].key.path = p
    BY <1>6 DEF IndexNames
  <2>2. CASE s[i].key = key
    <3>1. Len(q) \in 1 .. Len(q)
      BY <1>3
    <3> QED BY <1>3, <1>4, <2>1, <2>2, <3>1
  <2>3. CASE s[i].key # key
    BY <1>3, <2>1, <2>3
  <2> QED BY <2>2, <2>3
<1> QED BY <1>3, <1>5, <1>6 DEF IndexNames

LEMMA HitKeeps == ASSUME CacheHasRoom, ReadInv, NEW r \in Openers, NEW p \in TextFiles, Cached!Hit(r, p) PROVE ReadInv'
<1> DEFINE key == Cached!Key(p)
<1>1. CacheTyped /\ EntriesAreTrue(recent) /\ EntriesAreTrue(frequent)
      /\ (eviction = "lru" => Len(recent) <= Room /\ IndexNames(recent, keyOf))
      /\ recent \in Seq(CacheEntries) /\ frequent \in Seq(CacheEntries) /\ keyOf \in [TextFiles -> CacheKeys \cup {NotRead}]
  BY DEF ReadInv, CacheTyped
<1>2. FilesStay /\ keyOf' = keyOf /\ opener' = opener
  BY DEF Cached!Hit, FilesStay
<1>3. key \in CacheKeys
  BY <1>1, KeyIs
<1>4. CASE Cached!In(recent, key)
  <2> DEFINE text == Cached!TextOf(recent, key)
  <2>1. text \in Nat /\ TextIsTrue(key, text) /\ (Cached!Current(p, text) => outdated' = outdated)
    BY <1>1, <1>4, FoundIsTrue
  <2>2. CASE eviction = "lru" /\ recent' = Cached!Put(recent, key, text) /\ frequent' = frequent /\ Cached!Current(p, text)
    <3>1. recent' \in Seq(CacheEntries) /\ \A i \in 1 .. Len(recent') : TextIsTrue(recent'[i].key, recent'[i].text)
      BY <1>1, <1>3, <2>1, <2>2, PutTrue
    <3>2. IndexNames(recent', keyOf) /\ Len(recent') <= Len(recent)
      BY <1>1, <1>3, <1>4, <2>1, <2>2, PutNamed
    <3>3. eviction = "lru" => Len(recent') <= Room /\ IndexNames(recent', keyOf')
      <4>1. Len(recent') \in Nat /\ Len(recent) \in Nat /\ Len(recent) <= Room
        BY <1>1, <2>2, <3>1
      <4> QED BY <1>2, <3>2, <4>1 DEF CacheHasRoom
    <3>4. \A i \in 1 .. Len(frequent') : TextIsTrue(frequent'[i].key, frequent'[i].text)
      BY <1>1, <2>2 DEF EntriesAreTrue
    <3> QED BY <1>1, <1>2, <2>1, <2>2, <3>1, <3>3, <3>4, ReadKeeps
  <2>3. CASE /\ eviction = "arc" /\ recent' = Cached!Drop(recent, key)
             /\ frequent' = Cached!Assign(frequent, key, text) /\ Cached!Current(p, text)
    <3>1. frequent' \in Seq(CacheEntries) /\ \A i \in 1 .. Len(frequent') : TextIsTrue(frequent'[i].key, frequent'[i].text)
      BY <1>1, <1>3, <2>1, <2>3, PutTrue
    <3>2. recent' \in Seq(CacheEntries) /\ \A k \in 1 .. Len(recent') : \E i \in 1 .. Len(recent) : recent'[k] = recent[i]
      BY <1>1, <2>3, DropIs
    <3>3. \A i \in 1 .. Len(recent') : TextIsTrue(recent'[i].key, recent'[i].text)
      BY <1>1, <3>2 DEF EntriesAreTrue
    <3> QED BY <1>1, <1>2, <2>1, <2>3, <3>1, <3>2, <3>3, ReadKeeps
  <2> QED BY <1>4, <2>2, <2>3 DEF Cached!Hit
<1>5. CASE ~Cached!In(recent, key)
  <2> DEFINE text == Cached!TextOf(frequent, key)
  <2>1. /\ Cached!In(frequent, key) /\ frequent' = Cached!Put(frequent, key, text) /\ recent' = recent
        /\ Cached!Current(p, text)
    BY <1>5 DEF Cached!Hit
  <2>2. text \in Nat /\ TextIsTrue(key, text) /\ outdated' = outdated
    BY <1>1, <2>1, FoundIsTrue
  <2>3. frequent' \in Seq(CacheEntries) /\ \A i \in 1 .. Len(frequent') : TextIsTrue(frequent'[i].key, frequent'[i].text)
    BY <1>1, <1>3, <2>1, <2>2, PutTrue
  <2>4. \A i \in 1 .. Len(recent') : TextIsTrue(recent'[i].key, recent'[i].text)
    BY <1>1, <2>1 DEF EntriesAreTrue
  <2> QED BY <1>1, <1>2, <2>1, <2>2, <2>3, <2>4, ReadKeeps
<1> QED BY <1>4, <1>5

LEMMA ReadParts ==
  ASSUME ReadInv
  PROVE  /\ CacheTyped /\ EntriesAreTrue(recent) /\ EntriesAreTrue(frequent) /\ OpenersReadTruly
         /\ eviction = "lru" => Len(recent) <= Room /\ IndexNames(recent, keyOf)
         /\ recent \in Seq(CacheEntries) /\ frequent \in Seq(CacheEntries)
         /\ keyOf \in [TextFiles -> CacheKeys \cup {NotRead}] /\ opener \in [Openers -> {AtRest} \cup OpenCalls]
         /\ \A i \in 1 .. Len(recent) : TextIsTrue(recent[i].key, recent[i].text)
         /\ \A i \in 1 .. Len(frequent) : TextIsTrue(frequent[i].key, frequent[i].text)
BY DEF ReadInv, CacheTyped, EntriesAreTrue

(* The call a miss begins. *)
LEMMA ReadingIs ==
  ASSUME ReadInv, NEW r \in Openers, NEW p \in TextFiles, NEW rescued \in BOOLEAN, Cached!Reading(r, p, rescued)
  PROVE  \E c \in {AtRest} \cup OpenCalls :
           /\ opener' = [opener EXCEPT ![r] = c]
           /\ c # AtRest => /\ c.key.stat <= texts[c.key.path].stat
                            /\ c.text # NotRead => TextIsTrue(c.key, c.text)
<1> DEFINE c == [key |-> Cached!Key(p), text |-> NotRead, rescued |-> rescued]
<1>1. Cached!Key(p) \in CacheKeys /\ Cached!Key(p).path = p /\ Cached!Key(p).stat = texts[p].stat
  BY KeyIs, ReadParts
<1>2. c \in OpenCalls /\ c.key = Cached!Key(p) /\ c.text = NotRead
  BY <1>1 DEF OpenCalls
<1>3. texts[p].stat \in Nat
  BY ReadParts DEF CacheTyped
<1>4. opener' = [opener EXCEPT ![r] = c]
  BY DEF Cached!Reading
<1> HIDE DEF c
<1>5. c.key.stat <= texts[c.key.path].stat /\ c.text = NotRead
  BY <1>1, <1>2, <1>3
<1> QED BY <1>2, <1>4, <1>5

(* Room is made from the oldest entries of one list. *)
LEMMA ReplacedIs ==
  ASSUME NEW key, NEW n
  PROVE  /\ Cached!Replaced(key, n).t1 = recent \/ (recent # <<>> /\ Cached!Replaced(key, n).t1 = Tail(recent))
         /\ Cached!Replaced(key, n).t2 = frequent \/ (frequent # <<>> /\ Cached!Replaced(key, n).t2 = Tail(frequent))
<1>1. CASE Cached!FromT1(key, n)
  BY <1>1 DEF Cached!Replaced, Cached!FromT1
<1>2. CASE ~Cached!FromT1(key, n) /\ frequent # <<>>
  BY <1>2 DEF Cached!Replaced
<1>3. CASE ~Cached!FromT1(key, n) /\ frequent = <<>>
  BY <1>3 DEF Cached!Replaced
<1> QED BY <1>1, <1>2, <1>3

LEMMA TailTrue ==
  ASSUME NEW s \in Seq(CacheEntries), \A i \in 1 .. Len(s) : TextIsTrue(s[i].key, s[i].text),
         NEW q, q = s \/ (s # <<>> /\ q = Tail(s))
  PROVE  q \in Seq(CacheEntries) /\ \A i \in 1 .. Len(q) : TextIsTrue(q[i].key, q[i].text)
<1>1. CASE q = s
  BY <1>1
<1>2. CASE s # <<>> /\ q = Tail(s)
  <2>1. /\ q \in Seq(CacheEntries) /\ Len(q) = Len(s) - 1 /\ Len(s) \in Nat
        /\ \A i \in 1 .. Len(q) : q[i] = s[i + 1]
    BY <1>2
  <2>2. ASSUME NEW i \in 1 .. Len(q) PROVE TextIsTrue(q[i].key, q[i].text)
    <3>1. i + 1 \in 1 .. Len(s) /\ q[i] = s[i + 1]
      BY <2>1
    <3> QED BY <3>1
  <2> QED BY <2>1, <2>2
<1> QED BY <1>1, <1>2

LEMMA MissKeeps ==
  ASSUME ReadInv, NEW r \in Openers, NEW p \in TextFiles, Cached!MissLru(r, p) \/ Cached!MissArc(r, p)
  PROVE  ReadInv'
<1>1. CASE Cached!MissLru(r, p)
  <2>1. /\ FilesStay /\ outdated' = outdated /\ UNCHANGED <<recent, frequent, keyOf>> /\ Cached!Reading(r, p, FALSE)
    BY <1>1 DEF Cached!MissLru, Cached!cacheVars, FilesStay
  <2> QED BY <2>1, ReadParts, ReadingIs, ReadKeeps
<1>2. CASE Cached!MissArc(r, p)
  <2> DEFINE key == Cached!Key(p)
             rescued == Cached!In(ghosts, key) \/ Cached!In(frequentGhosts, key)
  <2>1. /\ FilesStay /\ outdated' = outdated /\ keyOf' = keyOf /\ Cached!Reading(r, p, rescued) /\ eviction = "arc"
    BY <1>2 DEF Cached!MissArc, FilesStay
  <2>2. \/ UNCHANGED <<recent, frequent>>
        \/ \E n : recent' = Cached!Replaced(key, n).t1 /\ frequent' = Cached!Replaced(key, n).t2
    BY <1>2 DEF Cached!MissArc, Cached!Become
  <2>3. /\ recent' = recent \/ (recent # <<>> /\ recent' = Tail(recent))
        /\ frequent' = frequent \/ (frequent # <<>> /\ frequent' = Tail(frequent))
    BY <2>2, ReplacedIs
  <2>4. /\ recent' \in Seq(CacheEntries) /\ \A i \in 1 .. Len(recent') : TextIsTrue(recent'[i].key, recent'[i].text)
        /\ frequent' \in Seq(CacheEntries) /\ \A i \in 1 .. Len(frequent') : TextIsTrue(frequent'[i].key, frequent'[i].text)
    <3>1. recent' \in Seq(CacheEntries) /\ \A i \in 1 .. Len(recent') : TextIsTrue(recent'[i].key, recent'[i].text)
      BY <2>3, ReadParts, TailTrue
    <3>2. frequent' \in Seq(CacheEntries) /\ \A i \in 1 .. Len(frequent') : TextIsTrue(frequent'[i].key, frequent'[i].text)
      BY <2>3, ReadParts, TailTrue
    <3> QED BY <3>1, <3>2
  <2>5. rescued \in BOOLEAN
    BY DEF Cached!In
  <2> HIDE DEF rescued
  <2>6. \E c \in {AtRest} \cup OpenCalls :
          /\ opener' = [opener EXCEPT ![r] = c]
          /\ c # AtRest => /\ c.key.stat <= texts[c.key.path].stat
                           /\ c.text # NotRead => TextIsTrue(c.key, c.text)
    BY <2>1, <2>5, ReadingIs
  <2> QED BY <2>1, <2>4, <2>6, ReadParts, ReadKeeps
<1> QED BY <1>1, <1>2

LEMMA ReadTextKeeps == ASSUME ReadInv, NEW r \in Openers, Cached!ReadText(r) PROVE ReadInv'
<1> DEFINE o == opener[r]
           text == texts[o.key.path].text
           c == [o EXCEPT !.text = text]
<1>1. /\ o # AtRest /\ opener' = [opener EXCEPT ![r].text = text] /\ FilesStay /\ outdated' = outdated
      /\ UNCHANGED <<recent, frequent, keyOf>>
  BY DEF Cached!ReadText, Cached!cacheVars, FilesStay
<1>2. o \in OpenCalls /\ o.key.stat <= texts[o.key.path].stat
  BY <1>1, ReadParts DEF OpenersReadTruly
<1>3. o.key.path \in TextFiles /\ o.key \in CacheKeys
  BY <1>2 DEF OpenCalls, CacheKeys
<1>4. text \in Nat
  BY <1>3, ReadParts DEF CacheTyped
<1>5. c \in OpenCalls /\ c.key = o.key /\ c.text = text
  BY <1>2, <1>4 DEF OpenCalls
<1>6. opener' = [opener EXCEPT ![r] = c]
  BY <1>1
<1>7. TextIsTrue(c.key, c.text)
  BY <1>2, <1>5 DEF TextIsTrue
<1> HIDE DEF c
<1>8. c.key.stat <= texts[c.key.path].stat
  BY <1>2, <1>5
<1> QED BY <1>1, <1>5, <1>6, <1>7, <1>8, ReadParts, ReadKeeps

(* A caller about to store has a text that is true of its key. *)
LEMMA StorerIs ==
  ASSUME ReadInv, NEW r \in Openers, opener[r] # AtRest, opener[r].text # NotRead
  PROVE  /\ opener[r].key \in CacheKeys /\ opener[r].text \in Nat /\ TextIsTrue(opener[r].key, opener[r].text)
         /\ opener[r].key.path \in TextFiles
<1>1. opener[r] \in OpenCalls /\ TextIsTrue(opener[r].key, opener[r].text)
  BY ReadParts DEF OpenersReadTruly
<1> QED BY <1>1 DEF OpenCalls, CacheKeys

LEMMA StoreArcKeeps == ASSUME ReadInv, NEW r \in Openers, Cached!StoreArc(r) PROVE ReadInv'
<1> DEFINE key == opener[r].key
           text == opener[r].text
           own(s) == Cached!DropOthers(s, key)
<1>1. /\ eviction = "arc" /\ opener[r] # AtRest /\ text # NotRead /\ opener' = [opener EXCEPT ![r] = AtRest]
      /\ FilesStay /\ outdated' = outdated /\ keyOf' = keyOf
      /\ \/ recent' = own(recent) /\ frequent' = Cached!Assign(own(frequent), key, text)
         \/ recent' = Cached!Assign(own(recent), key, text) /\ frequent' = own(frequent)
  BY DEF Cached!StoreArc, FilesStay
<1>2. key \in CacheKeys /\ text \in Nat /\ TextIsTrue(key, text)
  BY <1>1, StorerIs
<1>3. ASSUME NEW s \in Seq(CacheEntries), \A i \in 1 .. Len(s) : TextIsTrue(s[i].key, s[i].text)
      PROVE  own(s) \in Seq(CacheEntries) /\ \A i \in 1 .. Len(own(s)) : TextIsTrue(own(s)[i].key, own(s)[i].text)
  <2>1. PICK places : own(s) = Cached!Picked(s, places)
    BY DEF Cached!DropOthers
  <2>2. PICK d : d = own(s)
    OBVIOUS
  <2>3. d \in Seq(CacheEntries) /\ \A k \in 1 .. Len(d) : \E i \in 1 .. Len(s) : i \in places /\ d[k] = s[i]
    BY <2>1, <2>2, EntriesPicked
  <2> HIDE DEF own
  <2>4. d \in Seq(CacheEntries) /\ \A i \in 1 .. Len(d) : TextIsTrue(d[i].key, d[i].text)
    BY <1>3, <2>3
  <2> QED BY <2>2, <2>4
<1> HIDE DEF own
<1>4. /\ own(recent) \in Seq(CacheEntries) /\ EntriesAreTrue(own(recent))
      /\ own(frequent) \in Seq(CacheEntries) /\ EntriesAreTrue(own(frequent))
  BY <1>3, ReadParts DEF EntriesAreTrue
<1>5. ASSUME NEW s \in Seq(CacheEntries), EntriesAreTrue(s), NEW q, q \in {s, Cached!Assign(s, key, text)}
      PROVE  q \in Seq(CacheEntries) /\ \A i \in 1 .. Len(q) : TextIsTrue(q[i].key, q[i].text)
  <2>1. CASE q = s
    BY <1>5, <2>1 DEF EntriesAreTrue
  <2>2. CASE q = Cached!Assign(s, key, text)
    BY <1>2, <1>5, <2>2, PutTrue
  <2> QED BY <1>5, <2>1, <2>2
<1>6. /\ recent' \in Seq(CacheEntries) /\ \A i \in 1 .. Len(recent') : TextIsTrue(recent'[i].key, recent'[i].text)
      /\ frequent' \in Seq(CacheEntries) /\ \A i \in 1 .. Len(frequent') : TextIsTrue(frequent'[i].key, frequent'[i].text)
  <2>1. recent' \in {own(recent), Cached!Assign(own(recent), key, text)}
        /\ frequent' \in {own(frequent), Cached!Assign(own(frequent), key, text)}
    BY <1>1
  <2>2. recent' \in Seq(CacheEntries) /\ \A i \in 1 .. Len(recent') : TextIsTrue(recent'[i].key, recent'[i].text)
    BY <1>4, <1>5, <2>1
  <2>3. frequent' \in Seq(CacheEntries) /\ \A i \in 1 .. Len(frequent') : TextIsTrue(frequent'[i].key, frequent'[i].text)
    BY <1>4, <1>5, <2>1
  <2> QED BY <2>2, <2>3
<1> QED BY <1>1, <1>6, ReadParts, ReadKeeps
(* What is left when the key of the caller's path makes room for its new one. *)
LEMMA BaseIs ==
  ASSUME CacheHasRoom, NEW s \in Seq(CacheEntries), NEW index \in [TextFiles -> CacheKeys \cup {NotRead}],
         IndexNames(s, index), NEW p \in TextFiles,
         NEW base, base = IF index[p] # NotRead THEN Cached!Drop(s, index[p]) ELSE s
  PROVE  /\ base \in Seq(CacheEntries) /\ OneAPath(base)
         /\ \A k \in 1 .. Len(base) : base[k].key.path # p /\ \E i \in 1 .. Len(s) : base[k] = s[i]
<1>1. OneAPath(s) /\ \A i \in 1 .. Len(s) : index[s[i].key.path] = s[i].key
  BY DEF IndexNames
<1>2. CASE index[p] # NotRead
  <2> DEFINE old == index[p]
  <2>1. base = Cached!Drop(s, old)
    BY <1>2
  <2>2. base \in Seq(CacheEntries) /\ \A k \in 1 .. Len(base) : base[k].key # old /\ \E i \in 1 .. Len(s) : base[k] = s[i]
    BY <2>1, DropIs
  <2>3. OneAPath(base)
    BY <1>1, <2>1, DropIs
  <2>4. ASSUME NEW k \in 1 .. Len(base) PROVE base[k].key.path # p
    BY <1>1, <2>2
  <2> QED BY <2>2, <2>3, <2>4
<1>3. CASE index[p] = NotRead
  <2>1. ASSUME NEW i \in 1 .. Len(s), s[i].key.path = p PROVE FALSE
    <3>1. s[i].key = NotRead
      BY <1>1, <1>3, <2>1
    <3>2. s[i] \in CacheEntries
      OBVIOUS
    <3>3. s[i].key \in CacheKeys
      BY <3>2 DEF CacheEntries
    <3> QED BY <3>1, <3>3 DEF CacheHasRoom
  <2> QED BY <1>1, <1>3, <2>1
<1> QED BY <1>2, <1>3

LEMMA StoreLruKeeps == ASSUME CacheHasRoom, ReadInv, NEW r \in Openers, Cached!StoreLru(r) PROVE ReadInv'
<1> DEFINE key == opener[r].key
           text == opener[r].text
           p == key.path
           base == IF keyOf[p] # NotRead THEN Cached!Drop(recent, keyOf[p]) ELSE recent
           put == Cached!Put(base, key, text)
           kept == Cached!Newest(put, Room)
           e == Cached!Entry(key, text)
<1>1. /\ eviction = "lru" /\ opener[r] # AtRest /\ text # NotRead /\ opener' = [opener EXCEPT ![r] = AtRest]
      /\ FilesStay /\ outdated' = outdated /\ frequent' = frequent
      /\ recent' = kept /\ keyOf' = [Cached!Evicted(kept) EXCEPT ![p] = key]
  BY DEF Cached!StoreLru, FilesStay
<1>2. key \in CacheKeys /\ text \in Nat /\ TextIsTrue(key, text) /\ p \in TextFiles
  BY <1>1, StorerIs
<1>3. recent \in Seq(CacheEntries) /\ IndexNames(recent, keyOf) /\ keyOf \in [TextFiles -> CacheKeys \cup {NotRead}]
      /\ \A i \in 1 .. Len(recent) : TextIsTrue(recent[i].key, recent[i].text)
  BY <1>1, ReadParts
<1>4. /\ base \in Seq(CacheEntries) /\ OneAPath(base)
      /\ \A k \in 1 .. Len(base) : base[k].key.path # p /\ \E i \in 1 .. Len(recent) : base[k] = recent[i]
  <2>1. PICK index : index = keyOf
    OBVIOUS
  <2>2. PICK b : b = IF index[p] # NotRead THEN Cached!Drop(recent, index[p]) ELSE recent
    OBVIOUS
  <2>3. /\ b \in Seq(CacheEntries) /\ OneAPath(b)
        /\ \A k \in 1 .. Len(b) : b[k].key.path # p /\ \E i \in 1 .. Len(recent) : b[k] = recent[i]
    <3> HIDE DEF p
    <3>1. p \in TextFiles /\ IndexNames(recent, index) /\ index \in [TextFiles -> CacheKeys \cup {NotRead}]
          /\ recent \in Seq(CacheEntries)
      BY <1>2, <1>3, <2>1
    <3> QED BY <2>2, <3>1, BaseIs
  <2> QED BY <2>1, <2>2, <2>3
<1>5. e.key = key /\ e.text = text
  BY <1>2, EntryIs
<1> HIDE DEF base, e
<1>6. /\ put \in Seq(CacheEntries) /\ Len(put) \in 1 .. Len(base) + 1 /\ put[Len(put)] = e
      /\ \A k \in 1 .. Len(put) : put[k] # put[Len(put)] => put[k].key # key /\ \E i \in 1 .. Len(base) : put[k] = base[i]
      /\ (OneAPath(base) /\ \A i \in 1 .. Len(base) : base[i].key.path = key.path => base[i].key = key) => OneAPath(put)
  <2>1. PICK b : b = base
    OBVIOUS
  <2>2. PICK q : q = put
    OBVIOUS
  <2>3. q = Cached!Put(b, key, text) /\ b \in Seq(CacheEntries)
    BY <1>4, <2>1, <2>2
  <2> HIDE DEF put, key, text
  <2>4. /\ q \in Seq(CacheEntries) /\ Len(q) \in 1 .. Len(b) + 1 /\ q[Len(q)] = Cached!Entry(key, text)
        /\ \A k \in 1 .. Len(q) : q[k] # q[Len(q)] => q[k].key # key /\ \E i \in 1 .. Len(b) : q[k] = b[i]
        /\ (OneAPath(b) /\ \A i \in 1 .. Len(b) : b[i].key.path = key.path => b[i].key = key) => OneAPath(q)
    BY <1>2, <2>3, PutIs
  <2> QED BY <2>1, <2>2, <2>4 DEF e
<1>7. OneAPath(put) /\ put # <<>>
  BY <1>4, <1>6
<1> HIDE DEF put
<1>8. Room \in Nat \ {0}
  BY DEF CacheHasRoom
<1>9. /\ kept \in Seq(CacheEntries) /\ Len(kept) \in 1 .. Room /\ kept[Len(kept)] = put[Len(put)]
      /\ \A k \in 1 .. Len(kept) : \E i \in 1 .. Len(put) : kept[k] = put[i]
      /\ OneAPath(put) => OneAPath(kept)
  BY <1>6, <1>7, <1>8, NewestIs
<1> HIDE DEF kept
<1>10. ASSUME NEW k \in 1 .. Len(kept)
       PROVE  kept[k] = e \/ (kept[k].key.path # p /\ \E i \in 1 .. Len(recent) : kept[k] = recent[i])
  <2>1. PICK j \in 1 .. Len(put) : kept[k] = put[j]
    BY <1>9
  <2>2. put[j] = e \/ \E i \in 1 .. Len(base) : put[j] = base[i]
    BY <1>6
  <2> QED BY <1>4, <2>1, <2>2
<1>11. ASSUME NEW k \in 1 .. Len(kept) PROVE TextIsTrue(kept[k].key, kept[k].text)
  BY <1>2, <1>3, <1>5, <1>10
<1>12. \A q \in TextFiles :
         keyOf'[q] = IF q = p THEN key
                     ELSE IF \E i \in 1 .. Len(kept) : kept[i].key.path = q THEN keyOf[q] ELSE NotRead
  <2>1. DOMAIN kept = 1 .. Len(kept)
    BY <1>9
  <2> QED BY <1>1, <2>1 DEF Cached!Evicted
<1>13. keyOf' \in [TextFiles -> CacheKeys \cup {NotRead}]
  <2>1. keyOf' = [q \in TextFiles |-> keyOf'[q]]
    BY <1>1 DEF Cached!Evicted
  <2>2. \A q \in TextFiles : keyOf'[q] \in CacheKeys \cup {NotRead}
    BY <1>2, <1>3, <1>12
  <2> QED BY <2>1, <2>2
<1>14. ASSUME NEW k \in 1 .. Len(kept) PROVE keyOf'[kept[k].key.path] = kept[k].key /\ kept[k].key.path \in TextFiles
  <2>0. kept[k] \in CacheEntries
    BY <1>9
  <2>1. kept[k].key.path \in TextFiles
    BY <2>0 DEF CacheEntries, CacheKeys
  <2>2. CASE kept[k] = e
    BY <1>2, <1>5, <1>12, <2>2
  <2>3. CASE kept[k].key.path # p /\ \E i \in 1 .. Len(recent) : kept[k] = recent[i]
    <3>1. keyOf[kept[k].key.path] = kept[k].key
      BY <1>3, <2>3 DEF IndexNames
    <3>2. keyOf'[kept[k].key.path] = keyOf[kept[k].key.path]
      BY <1>12, <2>1, <2>3
    <3> QED BY <2>1, <3>1, <3>2
  <2> QED BY <1>10, <2>2, <2>3
<1>15. ASSUME NEW q \in TextFiles, keyOf'[q] # NotRead PROVE \E i \in 1 .. Len(kept) : kept[i].key = keyOf'[q] /\ kept[i].key.path = q
  <2>1. CASE q = p
    <3>1. Len(kept) \in 1 .. Len(kept)
      BY <1>9
    <3> QED BY <1>2, <1>5, <1>6, <1>9, <1>12, <2>1, <3>1
  <2>2. CASE q # p
    <3>1. PICK i \in 1 .. Len(kept) : kept[i].key.path = q
      BY <1>12, <1>15, <2>2
    <3> QED BY <1>14, <3>1
  <2> QED BY <2>1, <2>2
<1>16. IndexNames(kept, keyOf') /\ Len(kept) <= Room
  BY <1>7, <1>9, <1>14, <1>15 DEF IndexNames
<1>17. recent' \in Seq(CacheEntries) /\ \A i \in 1 .. Len(recent') : TextIsTrue(recent'[i].key, recent'[i].text)
  BY <1>1, <1>9, <1>11
<1>18. frequent' \in Seq(CacheEntries) /\ \A i \in 1 .. Len(frequent') : TextIsTrue(frequent'[i].key, frequent'[i].text)
  BY <1>1, ReadParts
<1>19. Len(recent') <= Room /\ IndexNames(recent', keyOf')
  BY <1>1, <1>16
<1> QED BY <1>1, <1>13, <1>17, <1>18, <1>19, ReadKeeps
(* What was true of a file stays so when one is written or a write is told of, *)
(* for the keys that are kept.                                                 *)
Written(p) == Cached!WriteSeen(p) \/ Cached!WriteUnseen(p) \/ Cached!Invalidate(p)

LEMMA TruthLasts ==
  ASSUME CacheTyped, NEW p \in TextFiles, Written(p), NEW key \in CacheKeys, key.stat <= texts[key.path].stat
  PROVE  /\ key.stat <= texts'[key.path].stat
         /\ (Cached!Invalidate(p) => key.path # p \/ Cached!Busy(p)) =>
              \A text : TextIsTrue(key, text) => TextIsTrue(key, text)'
<1> DEFINE q == key.path
<1>1. q \in TextFiles /\ key.stat \in Nat /\ texts \in [TextFiles -> [stat : Nat, text : Nat]]
      /\ texts[q].stat \in Nat
  BY DEF CacheTyped, CacheKeys
<1> HIDE DEF q
<1>2. CASE Cached!WriteSeen(p)
  <2>1. /\ texts' = [texts EXCEPT ![p] = [stat |-> @.stat + 1, text |-> @.text + 1]]
        /\ unreported' = unreported \ {p} /\ overwritten' = overwritten \ {p}
    BY <1>2 DEF Cached!WriteSeen
  <2>2. CASE q = p
    <3>1. texts'[q].stat = texts[q].stat + 1
      BY <1>1, <2>1, <2>2
    <3>2. key.stat < texts'[q].stat
      BY <1>1, <3>1 DEF q
    <3>3. key.stat <= texts'[q].stat /\ key.stat # texts'[q].stat
      BY <1>1, <3>1, <3>2
    <3> QED BY <3>3 DEF q, TextIsTrue
  <2>3. CASE q # p
    <3>1. texts'[q] = texts[q] /\ (q \notin unreported' \cup overwritten' => q \notin unreported \cup overwritten)
      BY <1>1, <2>1, <2>3
    <3> QED BY <3>1 DEF q, TextIsTrue
  <2> QED BY <2>2, <2>3
<1>3. CASE Cached!WriteUnseen(p)
  <2>1. /\ texts' = [texts EXCEPT ![p].text = @ + 1]
        /\ unreported' = unreported \cup {p} /\ overwritten' = overwritten
    BY <1>3 DEF Cached!WriteUnseen
  <2>2. texts'[q].stat = texts[q].stat
    BY <1>1, <2>1
  <2>3. CASE q = p
    <3>1. q \in unreported' \cup overwritten'
      BY <2>1, <2>3
    <3> QED BY <2>2, <3>1 DEF q, TextIsTrue
  <2>4. CASE q # p
    <3>1. texts'[q] = texts[q] /\ (q \notin unreported' \cup overwritten' => q \notin unreported \cup overwritten)
      BY <1>1, <2>1, <2>4
    <3> QED BY <3>1 DEF q, TextIsTrue
  <2> QED BY <2>3, <2>4
<1>4. CASE Cached!Invalidate(p)
  <2>1. /\ texts' = texts /\ unreported' = unreported \ {p}
        /\ overwritten' = IF Cached!Busy(p) THEN overwritten \cup {p} ELSE overwritten
    BY <1>4 DEF Cached!Invalidate
  <2>2. ASSUME q # p \/ Cached!Busy(p), NEW text, TextIsTrue(key, text) PROVE TextIsTrue(key, text)'
    <3>1. q \notin unreported' \cup overwritten' => q \notin unreported \cup overwritten
      BY <2>1, <2>2
    <3> QED BY <2>1, <2>2, <3>1 DEF q, TextIsTrue
  <2> QED BY <1>4, <2>1, <2>2 DEF q
<1> QED BY <1>2, <1>3, <1>4 DEF Written

LEMMA TextsTyped ==
  ASSUME CacheTyped, NEW p \in TextFiles, Written(p)
  PROVE  texts' \in [TextFiles -> [stat : Nat, text : Nat]] /\ eviction' = eviction /\ opener' = opener /\ outdated' = outdated
<1>1. texts \in [TextFiles -> [stat : Nat, text : Nat]]
  BY DEF CacheTyped
<1>2. CASE Cached!WriteSeen(p)
  <2>1. texts' = [texts EXCEPT ![p] = [stat |-> texts[p].stat + 1, text |-> texts[p].text + 1]]
        /\ eviction' = eviction /\ opener' = opener /\ outdated' = outdated
    BY <1>2 DEF Cached!WriteSeen
  <2> QED BY <1>1, <2>1
<1>3. CASE Cached!WriteUnseen(p)
  <2>1. texts' = [texts EXCEPT ![p] = [texts[p] EXCEPT !.text = texts[p].text + 1]]
        /\ eviction' = eviction /\ opener' = opener /\ outdated' = outdated
    BY <1>3 DEF Cached!WriteUnseen
  <2> QED BY <1>1, <2>1
<1>4. CASE Cached!Invalidate(p)
  BY <1>1, <1>4 DEF Cached!Invalidate
<1> QED BY <1>2, <1>3, <1>4 DEF Written

(* Telling of a write takes the entries of its file out. *)
LEMMA DropPathIs ==
  ASSUME NEW s \in Seq(CacheEntries), NEW p, NEW d, d = Cached!DropPath(s, p)
  PROVE  /\ d \in Seq(CacheEntries) /\ Len(d) <= Len(s)
         /\ \A k \in 1 .. Len(d) : d[k].key.path # p /\ \E i \in 1 .. Len(s) : d[k] = s[i]
         /\ \A i \in 1 .. Len(s) : s[i].key.path # p => \E k \in 1 .. Len(d) : d[k] = s[i]
         /\ OneAPath(s) => OneAPath(d)
<1> DEFINE places == {i \in DOMAIN s : s[i].key.path # p}
<1>1. d = Cached!Picked(s, places)
  BY DEF Cached!DropPath
<1>2. \A i \in 1 .. Len(s) : i \in places <=> s[i].key.path # p
  OBVIOUS
<1> HIDE DEF places
<1>3. /\ d \in Seq(CacheEntries) /\ Len(d) <= Len(s)
      /\ (\E i \in 1 .. Len(s) : i \notin places) => Len(d) < Len(s)
      /\ \A k \in 1 .. Len(d) : \E i \in 1 .. Len(s) : i \in places /\ d[k] = s[i]
      /\ \A i \in 1 .. Len(s) : i \in places => \E k \in 1 .. Len(d) : d[k] = s[i]
      /\ OneAPath(s) => OneAPath(d)
  BY <1>1, EntriesPicked
<1>4. \A k \in 1 .. Len(d) : d[k].key.path # p /\ \E i \in 1 .. Len(s) : d[k] = s[i]
  BY <1>2, <1>3
<1>5. \A i \in 1 .. Len(s) : s[i].key.path # p => \E k \in 1 .. Len(d) : d[k] = s[i]
  BY <1>2, <1>3
<1> QED BY <1>3, <1>4, <1>5

(* The lists of a cache of which a write, or the news of one, leaves these entries. *)
LEMMA ListStaysTrue ==
  ASSUME CacheTyped, NEW p \in TextFiles, Written(p), NEW s \in Seq(CacheEntries), EntriesAreTrue(s),
         NEW d \in Seq(CacheEntries), \A k \in 1 .. Len(d) : \E i \in 1 .. Len(s) : d[k] = s[i],
         Cached!Invalidate(p) => \A k \in 1 .. Len(d) : d[k].key.path # p
  PROVE  \A k \in 1 .. Len(d) : TextIsTrue(d[k].key, d[k].text)'
<1> SUFFICES ASSUME NEW k \in 1 .. Len(d), NEW key, key = d[k].key, NEW text, text = d[k].text
             PROVE  TextIsTrue(key, text)'
  OBVIOUS
<1>1. d[k] \in CacheEntries
  OBVIOUS
<1>2. key \in CacheKeys
  BY <1>1 DEF CacheEntries
<1>3. TextIsTrue(key, text)
  BY DEF EntriesAreTrue
<1>4. key.stat <= texts[key.path].stat
  BY <1>3 DEF TextIsTrue
<1>5. Cached!Invalidate(p) => key.path # p
  OBVIOUS
<1> QED BY <1>2, <1>3, <1>4, <1>5, TruthLasts

LEMMA OpenersStayTrue ==
  ASSUME ReadInv, NEW p \in TextFiles, Written(p)
  PROVE  \A r \in Openers :
           opener[r] # AtRest => /\ opener[r].key.stat <= texts'[opener[r].key.path].stat
                                 /\ opener[r].text # NotRead => TextIsTrue(opener[r].key, opener[r].text)'
<1> SUFFICES ASSUME NEW r \in Openers, NEW o, o = opener[r], o # AtRest
             PROVE  /\ o.key.stat <= texts'[o.key.path].stat
                    /\ o.text # NotRead => TextIsTrue(o.key, o.text)'
  <2>1. ASSUME NEW r \in Openers, NEW o, o = opener[r], o # AtRest
        PROVE  /\ o.key.stat <= texts'[o.key.path].stat
               /\ o.text # NotRead => TextIsTrue(o.key, o.text)'
    BY <2>1
  <2>2. opener' = opener
    BY ReadParts, TextsTyped
  <2> QED BY <2>1, <2>2 DEF TextIsTrue
<1>1. o \in OpenCalls /\ CacheTyped
  BY ReadParts
<1>2. PICK key, text : key = o.key /\ text = o.text
  OBVIOUS
<1>3. key \in CacheKeys /\ key.stat <= texts[key.path].stat
  BY <1>1, <1>2, ReadParts DEF OpenCalls, OpenersReadTruly
<1>4. Cached!Invalidate(p) => key.path # p \/ Cached!Busy(p)
  BY <1>2 DEF Cached!Busy
<1>5. /\ key.stat <= texts'[key.path].stat
      /\ TextIsTrue(key, text) => TextIsTrue(key, text)'
  BY <1>1, <1>3, <1>4, TruthLasts
<1>6. text # NotRead => TextIsTrue(key, text)
  BY <1>2, ReadParts DEF OpenersReadTruly
<1>7. text # NotRead => TextIsTrue(key, text)'
  BY <1>5, <1>6
<1> QED BY <1>2, <1>5, <1>7 DEF TextIsTrue

LEMMA WritesKeep ==
  ASSUME ReadInv, NEW p \in TextFiles, Written(p),
         recent' \in Seq(CacheEntries), frequent' \in Seq(CacheEntries),
         keyOf' \in [TextFiles -> CacheKeys \cup {NotRead}],
         \A k \in 1 .. Len(recent') : \E i \in 1 .. Len(recent) : recent'[k] = recent[i],
         \A k \in 1 .. Len(frequent') : \E i \in 1 .. Len(frequent) : frequent'[k] = frequent[i],
         Cached!Invalidate(p) => \A k \in 1 .. Len(recent') : recent'[k].key.path # p,
         Cached!Invalidate(p) => \A k \in 1 .. Len(frequent') : frequent'[k].key.path # p,
         eviction = "lru" => Len(recent') <= Room /\ IndexNames(recent', keyOf')
  PROVE  ReadInv'
<1>1. CacheTyped /\ outdated = {}
  BY DEF ReadInv
<1>2. texts' \in [TextFiles -> [stat : Nat, text : Nat]] /\ eviction' = eviction /\ opener' = opener /\ outdated' = outdated
  BY <1>1, TextsTyped
<1>3. CacheTyped' /\ outdated' = {}
  BY <1>1, <1>2 DEF CacheTyped
<1>4. EntriesAreTrue(recent)'
  <2>1. PICK d : d = recent'
    OBVIOUS
  <2>2. d \in Seq(CacheEntries) /\ (\A k \in 1 .. Len(d) : \E i \in 1 .. Len(recent) : d[k] = recent[i])
        /\ (Cached!Invalidate(p) => \A k \in 1 .. Len(d) : d[k].key.path # p)
    BY <2>1
  <2>3. \A k \in 1 .. Len(d) : TextIsTrue(d[k].key, d[k].text)'
    BY <1>1, <2>2, ReadParts, ListStaysTrue
  <2> QED BY <2>1, <2>3 DEF EntriesAreTrue, TextIsTrue
<1>5. EntriesAreTrue(frequent)'
  <2>1. PICK d : d = frequent'
    OBVIOUS
  <2>2. d \in Seq(CacheEntries) /\ (\A k \in 1 .. Len(d) : \E i \in 1 .. Len(frequent) : d[k] = frequent[i])
        /\ (Cached!Invalidate(p) => \A k \in 1 .. Len(d) : d[k].key.path # p)
    BY <2>1
  <2>3. \A k \in 1 .. Len(d) : TextIsTrue(d[k].key, d[k].text)'
    BY <1>1, <2>2, ReadParts, ListStaysTrue
  <2> QED BY <2>1, <2>3 DEF EntriesAreTrue, TextIsTrue
<1>6. OpenersReadTruly'
  BY <1>2, OpenersStayTrue DEF OpenersReadTruly, TextIsTrue
<1>7. (eviction = "lru" => Len(recent) <= Room /\ IndexNames(recent, keyOf))'
  BY <1>2 DEF IndexNames, OneAPath
<1> QED BY <1>3, <1>4, <1>5, <1>6, <1>7 DEF ReadInv

LEMMA TextWriteKeeps ==
  ASSUME ReadInv, NEW p \in TextFiles, Cached!WriteSeen(p) \/ Cached!WriteUnseen(p)
  PROVE  ReadInv'
<1>1. UNCHANGED <<recent, frequent, keyOf>>
  BY DEF Cached!WriteSeen, Cached!WriteUnseen, Cached!cacheVars
<1>2. ~Cached!Invalidate(p)
  <2>1. CASE Cached!WriteSeen(p)
    <3>1. texts[p].stat \in Nat /\ texts'[p].stat = texts[p].stat + 1
      BY <2>1, ReadParts DEF CacheTyped, Cached!WriteSeen
    <3>2. texts' # texts
      BY <3>1
    <3> QED BY <3>2 DEF Cached!Invalidate
  <2>2. CASE Cached!WriteUnseen(p)
    BY <2>2 DEF Cached!WriteUnseen, Cached!Invalidate
  <2> QED BY <2>1, <2>2
<1>3. Written(p)
  BY DEF Written
<1>4. eviction = "lru" => Len(recent') <= Room /\ IndexNames(recent', keyOf')
  BY <1>1, ReadParts
<1>5. recent' \in Seq(CacheEntries) /\ frequent' \in Seq(CacheEntries) /\ keyOf' \in [TextFiles -> CacheKeys \cup {NotRead}]
  BY <1>1, ReadParts
<1>6. /\ \A k \in 1 .. Len(recent') : \E i \in 1 .. Len(recent) : recent'[k] = recent[i]
      /\ \A k \in 1 .. Len(frequent') : \E i \in 1 .. Len(frequent) : frequent'[k] = frequent[i]
  BY <1>1
<1>7. /\ Cached!Invalidate(p) => \A k \in 1 .. Len(recent') : recent'[k].key.path # p
      /\ Cached!Invalidate(p) => \A k \in 1 .. Len(frequent') : frequent'[k].key.path # p
  BY <1>2
<1> QED BY <1>3, <1>4, <1>5, <1>6, <1>7, WritesKeep

LEMMA TextToldKeeps == ASSUME CacheHasRoom, ReadInv, NEW p \in TextFiles, Cached!Invalidate(p) PROVE ReadInv'
<1>1. /\ recent' = Cached!DropPath(recent, p) /\ frequent' = Cached!DropPath(frequent, p)
      /\ keyOf' = [keyOf EXCEPT ![p] = NotRead]
  BY DEF Cached!Invalidate
<1>2. recent \in Seq(CacheEntries) /\ frequent \in Seq(CacheEntries) /\ keyOf \in [TextFiles -> CacheKeys \cup {NotRead}]
      /\ (eviction = "lru" => Len(recent) <= Room /\ IndexNames(recent, keyOf))
  BY ReadParts
<1>3. /\ recent' \in Seq(CacheEntries) /\ Len(recent') <= Len(recent)
      /\ \A k \in 1 .. Len(recent') : recent'[k].key.path # p /\ \E i \in 1 .. Len(recent) : recent'[k] = recent[i]
      /\ \A i \in 1 .. Len(recent) : recent[i].key.path # p => \E k \in 1 .. Len(recent') : recent'[k] = recent[i]
      /\ OneAPath(recent) => OneAPath(recent')
  <2>1. ASSUME NEW d, d = Cached!DropPath(recent, p)
        PROVE  /\ d \in Seq(CacheEntries) /\ Len(d) <= Len(recent)
               /\ \A k \in 1 .. Len(d) : d[k].key.path # p /\ \E i \in 1 .. Len(recent) : d[k] = recent[i]
               /\ \A i \in 1 .. Len(recent) : recent[i].key.path # p => \E k \in 1 .. Len(d) : d[k] = recent[i]
               /\ OneAPath(recent) => OneAPath(d)
    <3>1. PICK s : s = recent
      OBVIOUS
    <3>2. s \in Seq(CacheEntries) /\ d = Cached!DropPath(s, p)
      BY <1>2, <2>1, <3>1
    <3>3. /\ d \in Seq(CacheEntries) /\ Len(d) <= Len(s)
          /\ \A k \in 1 .. Len(d) : d[k].key.path # p /\ \E i \in 1 .. Len(s) : d[k] = s[i]
          /\ \A i \in 1 .. Len(s) : s[i].key.path # p => \E k \in 1 .. Len(d) : d[k] = s[i]
          /\ OneAPath(s) => OneAPath(d)
      BY <3>2, DropPathIs
    <3> QED BY <3>1, <3>3
  <2>2. PICK d : d = recent'
    OBVIOUS
  <2>3. /\ d \in Seq(CacheEntries) /\ Len(d) <= Len(recent)
        /\ \A k \in 1 .. Len(d) : d[k].key.path # p /\ \E i \in 1 .. Len(recent) : d[k] = recent[i]
        /\ \A i \in 1 .. Len(recent) : recent[i].key.path # p => \E k \in 1 .. Len(d) : d[k] = recent[i]
        /\ OneAPath(recent) => OneAPath(d)
    BY <1>1, <2>1, <2>2
  <2> QED BY <2>2, <2>3 DEF OneAPath
<1>4. /\ frequent' \in Seq(CacheEntries) /\ Len(frequent') <= Len(frequent)
      /\ \A k \in 1 .. Len(frequent') : frequent'[k].key.path # p /\ \E i \in 1 .. Len(frequent) : frequent'[k] = frequent[i]
      /\ \A i \in 1 .. Len(frequent) : frequent[i].key.path # p => \E k \in 1 .. Len(frequent') : frequent'[k] = frequent[i]
      /\ OneAPath(frequent) => OneAPath(frequent')
  <2>1. ASSUME NEW d, d = Cached!DropPath(frequent, p)
        PROVE  /\ d \in Seq(CacheEntries) /\ Len(d) <= Len(frequent)
               /\ \A k \in 1 .. Len(d) : d[k].key.path # p /\ \E i \in 1 .. Len(frequent) : d[k] = frequent[i]
               /\ \A i \in 1 .. Len(frequent) : frequent[i].key.path # p => \E k \in 1 .. Len(d) : d[k] = frequent[i]
               /\ OneAPath(frequent) => OneAPath(d)
    <3>1. PICK s : s = frequent
      OBVIOUS
    <3>2. s \in Seq(CacheEntries) /\ d = Cached!DropPath(s, p)
      BY <1>2, <2>1, <3>1
    <3>3. /\ d \in Seq(CacheEntries) /\ Len(d) <= Len(s)
          /\ \A k \in 1 .. Len(d) : d[k].key.path # p /\ \E i \in 1 .. Len(s) : d[k] = s[i]
          /\ \A i \in 1 .. Len(s) : s[i].key.path # p => \E k \in 1 .. Len(d) : d[k] = s[i]
          /\ OneAPath(s) => OneAPath(d)
      BY <3>2, DropPathIs
    <3> QED BY <3>1, <3>3
  <2>2. PICK d : d = frequent'
    OBVIOUS
  <2>3. /\ d \in Seq(CacheEntries) /\ Len(d) <= Len(frequent)
        /\ \A k \in 1 .. Len(d) : d[k].key.path # p /\ \E i \in 1 .. Len(frequent) : d[k] = frequent[i]
        /\ \A i \in 1 .. Len(frequent) : frequent[i].key.path # p => \E k \in 1 .. Len(d) : d[k] = frequent[i]
        /\ OneAPath(frequent) => OneAPath(d)
    BY <1>1, <2>1, <2>2
  <2> QED BY <2>2, <2>3 DEF OneAPath
<1>5. keyOf' \in [TextFiles -> CacheKeys \cup {NotRead}] /\ \A q \in TextFiles : keyOf'[q] = IF q = p THEN NotRead ELSE keyOf[q]
  BY <1>1, <1>2
<1>6. ASSUME eviction = "lru" PROVE Len(recent') <= Room /\ IndexNames(recent', keyOf')
  <2>1. Len(recent') \in Nat /\ Len(recent) \in Nat /\ Len(recent) <= Room
    BY <1>2, <1>3, <1>6
  <2>2. Len(recent') <= Room
    BY <1>3, <2>1 DEF CacheHasRoom
  <2>3. IndexNames(recent, keyOf)
    BY <1>2, <1>6
  <2>4. ASSUME NEW k \in 1 .. Len(recent') PROVE keyOf'[recent'[k].key.path] = recent'[k].key
    <3>1. recent'[k] \in CacheEntries
      BY <1>3
    <3>2. recent'[k].key.path \in TextFiles
      BY <3>1 DEF CacheEntries, CacheKeys
    <3>3. PICK i \in 1 .. Len(recent) : recent'[k] = recent[i]
      BY <1>3
    <3>4. keyOf[recent[i].key.path] = recent[i].key
      BY <2>3 DEF IndexNames
    <3>5. recent'[k].key.path # p
      BY <1>3
    <3> QED BY <1>5, <3>2, <3>3, <3>4, <3>5
  <2>5. ASSUME NEW q \in TextFiles, keyOf'[q] # NotRead
        PROVE  \E k \in 1 .. Len(recent') : recent'[k].key = keyOf'[q] /\ recent'[k].key.path = q
    <3>1. q # p /\ keyOf'[q] = keyOf[q]
      BY <1>5, <2>5
    <3>2. PICK i \in 1 .. Len(recent) : recent[i].key = keyOf[q] /\ recent[i].key.path = q
      BY <2>3, <2>5, <3>1 DEF IndexNames
    <3> QED BY <1>3, <3>1, <3>2
  <2>6. OneAPath(recent')
    BY <1>3, <2>3 DEF IndexNames
  <2> QED BY <2>2, <2>4, <2>5, <2>6 DEF IndexNames
<1>7. Written(p)
  BY DEF Written
<1>8. /\ \A k \in 1 .. Len(recent') : recent'[k].key.path # p
      /\ \A k \in 1 .. Len(recent') : \E i \in 1 .. Len(recent) : recent'[k] = recent[i]
      /\ \A k \in 1 .. Len(frequent') : frequent'[k].key.path # p
      /\ \A k \in 1 .. Len(frequent') : \E i \in 1 .. Len(frequent) : frequent'[k] = frequent[i]
  BY <1>3, <1>4
<1>9. /\ recent' \in Seq(CacheEntries) /\ frequent' \in Seq(CacheEntries)
      /\ Cached!Invalidate(p) => \A k \in 1 .. Len(recent') : recent'[k].key.path # p
      /\ Cached!Invalidate(p) => \A k \in 1 .. Len(frequent') : frequent'[k].key.path # p
      /\ eviction = "lru" => Len(recent') <= Room /\ IndexNames(recent', keyOf')
  BY <1>3, <1>4, <1>6, <1>8
<1> QED BY <1>5, <1>7, <1>8, <1>9, WritesKeep

LEMMA ReadStarts == ASSUME CacheHasRoom, Cached!EInit PROVE ReadInv
<1>1. /\ eviction \in {"lru", "arc"} /\ texts = [p \in TextFiles |-> [stat |-> 0, text |-> 0]]
      /\ recent = <<>> /\ frequent = <<>> /\ keyOf = [p \in TextFiles |-> NotRead]
      /\ opener = [r \in Openers |-> AtRest] /\ outdated = {}
  BY DEF Cached!EInit
<1>2. recent \in Seq(CacheEntries) /\ frequent \in Seq(CacheEntries) /\ Len(recent) = 0 /\ Len(frequent) = 0
  BY <1>1
<1>3. CacheTyped
  BY <1>1, <1>2 DEF CacheTyped
<1>4. EntriesAreTrue(recent) /\ EntriesAreTrue(frequent) /\ OpenersReadTruly
  BY <1>1, <1>2 DEF EntriesAreTrue, OpenersReadTruly
<1>5. Len(recent) <= Room /\ IndexNames(recent, keyOf)
  BY <1>1, <1>2 DEF CacheHasRoom, IndexNames, OneAPath
<1> QED BY <1>1, <1>3, <1>4, <1>5 DEF ReadInv

LEMMA ReadSteps == ASSUME CacheHasRoom, ReadInv, [Cached!ENext]_(Cached!evars) PROVE ReadInv'
<1>1. CASE UNCHANGED Cached!evars
  <2>1. /\ FilesStay /\ outdated' = outdated /\ UNCHANGED <<recent, frequent, keyOf, opener>>
    BY <1>1 DEF Cached!evars, Cached!cacheVars, FilesStay
  <2> QED BY <2>1, ReadParts, ReadKeeps
<1>2. ASSUME NEW r \in Openers,
             \/ \E p \in TextFiles : Cached!Hit(r, p) \/ Cached!MissLru(r, p) \/ Cached!MissArc(r, p)
             \/ Cached!ReadText(r) \/ Cached!StoreLru(r) \/ Cached!StoreArc(r)
      PROVE  ReadInv'
  <2>1. ASSUME NEW p \in TextFiles, Cached!Hit(r, p) PROVE ReadInv'
    BY <2>1, HitKeeps
  <2>2. ASSUME NEW p \in TextFiles, Cached!MissLru(r, p) \/ Cached!MissArc(r, p) PROVE ReadInv'
    BY <2>2, MissKeeps
  <2>3. ASSUME Cached!ReadText(r) PROVE ReadInv'
    BY <2>3, ReadTextKeeps
  <2>4. ASSUME Cached!StoreLru(r) PROVE ReadInv'
    BY <2>4, StoreLruKeeps
  <2>5. ASSUME Cached!StoreArc(r) PROVE ReadInv'
    BY <2>5, StoreArcKeeps
  <2> QED BY <1>2, <2>1, <2>2, <2>3, <2>4, <2>5
<1>3. ASSUME NEW p \in TextFiles, Cached!WriteSeen(p) \/ Cached!WriteUnseen(p) PROVE ReadInv'
  BY <1>3, TextWriteKeeps
<1>4. ASSUME NEW p \in TextFiles, Cached!Invalidate(p) PROVE ReadInv'
  BY <1>4, TextToldKeeps
<1> QED BY <1>1, <1>2, <1>3, <1>4 DEF Cached!ENext

LEMMA ReadInvTells == ASSUME CacheHasRoom, ReadInv PROVE Cached!HitsAreCurrent
<1>1. outdated = {}
  BY DEF ReadInv
<1>2. ASSUME eviction = "lru"
      PROVE  /\ Len(recent) <= Room
             /\ Cached!Keys(recent) = {keyOf[p] : p \in {p \in TextFiles : keyOf[p] # NotRead}}
  <2>1. Len(recent) <= Room /\ IndexNames(recent, keyOf) /\ recent \in Seq(CacheEntries)
    BY <1>2, ReadParts
  <2>2. Cached!Keys(recent) = {recent[i].key : i \in 1 .. Len(recent)}
    BY <2>1 DEF Cached!Keys
  <2>3. ASSUME NEW i \in 1 .. Len(recent) PROVE recent[i].key \in {keyOf[p] : p \in {p \in TextFiles : keyOf[p] # NotRead}}
    <3>1. recent[i] \in CacheEntries
      BY <2>1
    <3>2. recent[i].key \in CacheKeys /\ recent[i].key.path \in TextFiles
      BY <3>1 DEF CacheEntries, CacheKeys
    <3>3. keyOf[recent[i].key.path] = recent[i].key
      BY <2>1 DEF IndexNames
    <3>4. keyOf[recent[i].key.path] # NotRead
      BY <3>2, <3>3 DEF CacheHasRoom
    <3> QED BY <3>2, <3>3, <3>4
  <2>4. ASSUME NEW p \in TextFiles, keyOf[p] # NotRead PROVE \E i \in 1 .. Len(recent) : keyOf[p] = recent[i].key
    BY <2>1, <2>4 DEF IndexNames
  <2>5. {recent[i].key : i \in 1 .. Len(recent)} = {keyOf[p] : p \in {p \in TextFiles : keyOf[p] # NotRead}}
    BY <2>3, <2>4
  <2> QED BY <2>1, <2>2, <2>5
<1> QED BY <1>1, <1>2 DEF Cached!HitsAreCurrent

(* A search that finds a file in the cache of contents gets the text the file    *)
(* has, whatever readers, writers and evictions come between a stat, a read and  *)
(* a store (_read_cache.py, get_or_read): except while a write that stat() does  *)
(* not show waits for its invalidate(), or after that met a reader at work.  LRU *)
(* keeps within its capacity, one key a path, and its index names each of them   *)
(* and no other (_data and _path_keys agree, so no old key is leaked).           *)
THEOREM ReadHitsAreCurrent == ASSUME CacheHasRoom PROVE Cached!ESpec => []Cached!HitsAreCurrent
<1>1. Cached!EInit => ReadInv
  BY ReadStarts
<1>2. ReadInv /\ [Cached!ENext]_(Cached!evars) => ReadInv'
  BY ReadSteps
<1>3. ReadInv => Cached!HitsAreCurrent
  BY ReadInvTells
<1> QED BY <1>1, <1>2, <1>3, PTL DEF Cached!ESpec
=============================================================================
