------------------------------ MODULE Standing ------------------------------
(***************************************************************************)
(* What stands at an instant, read from append-only logs: the operator's   *)
(* focus (focus.py), the claimed authority behind a decision (authority.py)*)
(* and the reports of the state contract (state_contract.py).  Each caller *)
(* states its own instant, so a log need not be in the order of its times. *)
(* Appends are whole or torn, by the store core; a torn line closes a log. *)
(***************************************************************************)
EXTENDS Integers, Sequences, FiniteSets, SequencesExt, FiniteSetsExt, TLC

CONSTANTS
  Subjects,       \* topics, or authority ids: 1..n, in their sorting order
  Instants, Ttls, \* 0 in Ttls: no expiry (authority only)
  MaxActive,      \* MAX_ACTIVE_FOCUS, MAX_ACTIVE_AUTHORITY
  MaxRecords,     \* bound on the lines of a log
  Operations, Observations

VARIABLES
  focus, authority,   \* the logs, oldest first
  reports,            \* the state contract's log
  torn,               \* logs with a line that does not parse
  reading,            \* <<log, instant, what stood, lines then>>: an earlier answer
  filed               \* operation id -> the report its callers were answered

gvars == <<focus, authority, reports, torn, reading, filed>>

(* ---- the last word on a subject ---- *)
\* active_focus: a later line replaces an earlier one unless its time is earlier.
Replaces_ByArrival(record, current) == TRUE
Replaces(record, current) == record.at >= current.at
Latest(records, now) ==
  FoldLeft(LAMBDA m, r : IF r.at > now THEN m
                         ELSE IF r.subject \in DOMAIN m /\ ~Replaces(r, m[r.subject]) THEN m
                         ELSE r.subject :> r @@ m,
           <<>>, records)
Newest(S) == SetToSortSeq(S, LAMBDA x, y : x.at > y.at \/ (x.at = y.at /\ x.subject < y.subject))
Cut(s, limit) == SubSeq(s, 1, IF Len(s) < limit THEN Len(s) ELSE limit)
ActiveFocus(records, now, limit) ==
  LET latest == Latest(records, now)
      live == {latest[t] : t \in {u \in DOMAIN latest : latest[u].kind = "says" /\ now < latest[u].until}}
  IN Cut(Newest(live), limit)

\* authority_states: the newest assertion and the newest revocation of each id, by time and place.
Key(r, i) == <<r.at, i>>
Before(k, l) == k[1] < l[1] \/ (k[1] = l[1] /\ k[2] < l[2])
StatusOf(usable, i, now) ==
  LET r == usable[i]
      later(kind) == \E j \in DOMAIN usable : usable[j].subject = r.subject /\ usable[j].kind = kind
                                              /\ Before(Key(r, i), Key(usable[j], j))
  IN IF later("says") THEN "superseded"
     ELSE IF later("withdraws") THEN "revoked"
     ELSE IF r.until # 0 /\ r.until <= now THEN "expired"
     ELSE "asserted"
AuthorityStates(records, now) ==
  LET usable == SelectSeq(records, LAMBDA r : r.at <= now)
  IN {[subject |-> usable[i].subject, at |-> usable[i].at, until |-> usable[i].until, line |-> i,
       status |-> StatusOf(usable, i, now)] : i \in {j \in DOMAIN usable : usable[j].kind = "says"}}
ActiveAuthority(records, now, limit) ==
  Cut(Newest({e \in AuthorityStates(records, now) : e.status = "asserted"}), limit)
Active(log, records, now, limit) ==
  IF log = "focus" THEN ActiveFocus(records, now, limit) ELSE ActiveAuthority(records, now, limit)
Log(log) == IF log = "focus" THEN focus ELSE authority

(* ---- the state contract ---- *)
Missing == "missing"
DefaultConstraints ==
  {[id |-> "version_alignment", kind |-> "equals", severity |-> "critical",
    pairs |-> {<<"source.version", "runtime.version">>, <<"runtime.version", "distribution.version">>}],
   [id |-> "durable_source_path", kind |-> "forbidden", severity |-> "critical",
    pairs |-> {<<"runtime.source_path", "runtime.source_path">>}],
   [id |-> "working_tree_clean", kind |-> "truthy", severity |-> "error",
    pairs |-> {<<"git.tree_clean", "git.tree_clean">>, <<"git.branch_remote_backed", "git.branch_remote_backed">>}],
   [id |-> "project_snapshot_current", kind |-> "equals", severity |-> "error",
    pairs |-> {<<"public.version", "snapshot.public_version">>, <<"source.version", "snapshot.development_version">>}]}
CandidateConstraints ==
  {[id |-> "candidate_version_alignment", kind |-> "equals", severity |-> "critical",
    pairs |-> {<<"candidate.package_version", "expected.version">>, <<"candidate.project_version", "expected.version">>}],
   [id |-> "candidate_not_already_public", kind |-> "greater", severity |-> "critical",
    pairs |-> {<<"expected.version", "public.version">>}],
   [id |-> "fresh_wheel_not_source_tree", kind |-> "within", severity |-> "critical",
    pairs |-> {<<"artifact.source_path", "artifact.install_prefix">>}]}
PathsOf(c) == UNION {{p[1], p[2]} : p \in c.pairs}
\* A path is a sequence of its parts; a version is a number, and 0 is none.
IsWithin(path, root) == root # <<>> /\ IsPrefix(root, path)
Drifts(c, seen) ==
  \/ \E p \in PathsOf(c) : p \notin DOMAIN seen
  \/ c.kind = "equals" /\ \E p \in c.pairs : seen[p[1]] # seen[p[2]]
  \/ c.kind = "truthy" /\ \E p \in PathsOf(c) : ~seen[p]
  \/ c.kind = "greater" /\ \E p \in c.pairs : 0 \in {seen[p[1]], seen[p[2]]} \/ seen[p[1]] <= seen[p[2]]
  \/ c.kind = "within" /\ \E p \in c.pairs : ~IsWithin(seen[p[1]], seen[p[2]])
  \/ c.kind = "forbidden" /\ \E p \in PathsOf(c) : IsWithin(seen[p], <<"tmp">>)
Evaluate(seen, constraints) ==
  LET found == {c \in constraints : Drifts(c, seen)}
  IN [findings |-> {c.id : c \in found}, observed |-> seen,
      ready |-> \A c \in found : c.severity \notin {"critical", "error"}]

(* ---- the operations ---- *)
MayAppend(log) == log \notin torn /\ Len(Log(log)) < MaxRecords
Say(log, subject, at, ttl) ==
  /\ MayAppend(log)
  /\ LET r == [kind |-> "says", subject |-> subject, at |-> at, until |-> IF ttl = 0 THEN 0 ELSE at + ttl] IN
     \/ log = "focus" /\ ttl # 0 /\ focus' = Append(focus, r) /\ UNCHANGED authority
     \/ log = "authority" /\ authority' = Append(authority, r) /\ UNCHANGED focus
  /\ UNCHANGED <<reports, torn, reading, filed>>
Withdraw(log, subject, at) ==
  /\ MayAppend(log)
  /\ LET r == [kind |-> "withdraws", subject |-> subject, at |-> at, until |-> 0] IN
     \/ log = "focus" /\ focus' = Append(focus, r) /\ UNCHANGED authority
     \/ log = "authority" /\ authority' = Append(authority, r) /\ UNCHANGED focus
  /\ UNCHANGED <<reports, torn, reading, filed>>
\* A log with a torn line is refused; the others answer at the caller's instant.
Ask(log, now, limit) ==
  /\ log \notin torn
  /\ reading' = <<log, now, limit, Active(log, Log(log), now, limit), Len(Log(log))>>
  /\ UNCHANGED <<focus, authority, reports, torn, filed>>
\* state_contract_record, all of it under the governance lock.
Known(op) == \E i \in DOMAIN reports : reports[i].op = op
Record_EveryTime(op, report) ==
  /\ filed' = [filed EXCEPT ![op] = IF @ = <<>> THEN <<report>> ELSE @]
  /\ reports' = Append(reports, [op |-> op, report |-> report])
Record(op, report) ==
  IF Known(op)
  THEN /\ \E i \in DOMAIN reports : reports[i].op = op /\ reports[i].report = report
       /\ UNCHANGED <<reports, filed>>
  ELSE /\ reports' = Append(reports, [op |-> op, report |-> report])
       /\ filed' = [filed EXCEPT ![op] = <<report>>]
File(op, seen, constraints) ==
  /\ "reports" \notin torn /\ Len(reports) < MaxRecords
  /\ Record(op, Evaluate(seen, constraints))
  /\ UNCHANGED <<focus, authority, torn, reading>>
\* A writer is killed inside a line.
Tear(log) == log \notin torn /\ torn' = torn \cup {log} /\ UNCHANGED <<focus, authority, reports, reading, filed>>

GInit ==
  /\ focus = <<>> /\ authority = <<>> /\ reports = <<>> /\ torn = {}
  /\ reading = <<>> /\ filed = [op \in Operations |-> <<>>]
GNext ==
  \/ \E log \in {"focus", "authority"}, s \in Subjects, at \in Instants :
       Withdraw(log, s, at) \/ \E ttl \in Ttls : Say(log, s, at, ttl)
  \/ \E log \in {"focus", "authority"}, now \in Instants, limit \in 1..MaxActive : Ask(log, now, limit)
  \/ \E op \in Operations, seen \in Observations, cs \in {DefaultConstraints, CandidateConstraints} : File(op, seen, cs)
  \/ \E log \in {"focus", "authority", "reports"} : Tear(log)
GSpec == GInit /\ [][GNext]_gvars

---------------------------------------------------------------------------
\* The last word on a subject, by its time and then its place in the log, said from outside.
LastWord(records, i, now) ==
  /\ records[i].at <= now
  /\ \A j \in DOMAIN records :
       (records[j].subject = records[i].subject /\ records[j].at <= now) => ~Before(Key(records[i], i), Key(records[j], j))
Stands(records, i, now) ==
  /\ LastWord(records, i, now) /\ records[i].kind = "says"
  /\ records[i].until = 0 \/ now < records[i].until
\* What is active at an instant is what the last words up to it say, whatever order they arrived
\* in: nothing withdrawn or expired, nothing hidden by a word of a later time, the newest when
\* there are too many; and an answer stays true of its instant when only later words follow.
LastWordsStand ==
  /\ \A log \in {"focus", "authority"}, now \in Instants, limit \in 1..MaxActive :
       LET records == Log(log)
           shown == Active(log, records, now, limit)
           standing == {i \in DOMAIN records : Stands(records, i, now)}
       IN /\ \A k \in DOMAIN shown : \E i \in standing : records[i].subject = shown[k].subject /\ records[i].at = shown[k].at
          /\ Len(shown) = IF Cardinality(standing) < limit THEN Cardinality(standing) ELSE limit
          /\ \A i \in standing :
               (\A k \in DOMAIN shown : shown[k].subject # records[i].subject) =>
                 \A k \in DOMAIN shown : shown[k].at >= records[i].at
  /\ reading # <<>> =>
       LET records == Log(reading[1]) IN
       (\A i \in reading[5] + 1..Len(records) : records[i].at > reading[2])
         => Active(reading[1], records, reading[2], reading[3]) = reading[4]

\* An operation has one report, the one its caller was answered; nothing that was not seen is ready.
ReportsAreFiledOnce ==
  /\ \A i, j \in DOMAIN reports : reports[i].op = reports[j].op => i = j
  /\ \A i \in DOMAIN reports : filed[reports[i].op] = <<reports[i].report>>
=============================================================================
