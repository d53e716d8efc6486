---------------------------- MODULE DebugSessions ----------------------------
(***************************************************************************)
(* Debug sessions (core.py, "debugging is memory"): one Markdown file per  *)
(* session that every call reads whole, changes by text substitution and   *)
(* writes back in place, without a lock.  A hypothesis has an id; the call *)
(* that judges one looks for the text of a status line that says TESTING.  *)
(***************************************************************************)
EXTENDS Naturals, Sequences, FiniteSets, SequencesExt

CONSTANTS
  Callers,
  Ids,           \* the ids sessions started in one second get, in order
  MaxCalls,      \* bound on calls
  Absent, Torn,  \* no file; a file truncated and not yet written
  NoCall

VARIABLES
  file,          \* the session files, by id
  call,          \* per caller: the file it read and what it will write
  calls,         \* calls begun
  disturbed,     \* history: sessions with two calls at once or a killed one
  told           \* history: what returned calls told their callers

dvars == <<file, call, calls, disturbed, told>>

SessionIds == ToSet(Ids)
Statuses == {"testing", "rejected", "confirmed"}

\* A hypothesis logged with another status keeps the flask: "🧪 REJECTED" is
\* read back as rejected but was not rejected by a verdict.
Blank == [status |-> "OBSERVE", resolution |-> "pending", hyps |-> <<>>, evidence |-> <<>>]

\* log_hypothesis numbers by the headings it counts.
NextNumber_OfTesting(doc) ==
  Cardinality({i \in DOMAIN doc.hyps : doc.hyps[i].status = "testing"}) + 1
NextNumber(doc) == Len(doc.hyps) + 1
LogHypothesis(doc, status) ==
  [doc EXCEPT !.status = "HYPOTHESIZE",
              !.hyps = Append(@, [number |-> NextNumber(doc), status |-> status, judged |-> FALSE])]

\* reject_hypothesis and confirm_hypothesis: the pattern names no id.
Testing(doc) == {i \in DOMAIN doc.hyps : doc.hyps[i].status = "testing"}
FirstTesting(doc) == CHOOSE i \in Testing(doc) : \A j \in Testing(doc) : i <= j
Verdict(doc, verdict) ==
  [doc EXCEPT !.hyps[FirstTesting(doc)] = [@ EXCEPT !.status = verdict, !.judged = TRUE]]
Reject(doc) == Verdict(doc, "rejected")
Confirm(doc) == [Verdict(doc, "confirmed") EXCEPT !.status = "EXPERIMENT"]

\* Evidence may name any hypothesis; it reopens a concluded session.
LogEvidence(doc, n) == [doc EXCEPT !.status = "EXPERIMENT", !.evidence = Append(@, n)]
\* Only the first end finds "(pending)" and "(Pending)" to replace.
EndDebug(doc, resolution) ==
  [doc EXCEPT !.status = "CONCLUDE",
              !.resolution = IF @ = "pending" THEN resolution ELSE @]

-----------------------------------------------------------------------------

DInit ==
  /\ file = [s \in SessionIds |-> Absent] /\ call = [c \in Callers |-> NoCall] /\ calls = 0
  /\ disturbed = {} /\ told = [s \in SessionIds |-> <<>>]

Busy(s) == \E c \in Callers : call[c] # NoCall /\ call[c].session = s

\* A call reads the session and computes what it will write; a read of a
\* truncated file finds none of the headings the substitutions look for.
Begin(c, s, doc, answer) ==
  /\ call[c] = NoCall /\ calls < MaxCalls
  /\ call' = [call EXCEPT ![c] = [session |-> s, doc |-> IF file[s] = Torn THEN Torn ELSE doc,
                                  answer |-> answer, at |-> "open"]]
  /\ calls' = calls + 1
  /\ disturbed' = IF Busy(s) \/ file[s] = Torn THEN disturbed \union {s} ELSE disturbed
  /\ UNCHANGED <<file, told>>

\* start_debug takes the first id whose file does not exist.
StartDebug(c) ==
  \E k \in DOMAIN Ids :
    /\ file[Ids[k]] = Absent /\ \A j \in 1..(k - 1) : file[Ids[j]] # Absent
    /\ Begin(c, Ids[k], Blank, [do |-> "start", number |-> 0])

Exists(s) == file[s] # Absent
Doc(s) == IF file[s] = Torn THEN Blank ELSE file[s]

DebugHypothesis(c, s, status) ==
  Exists(s) /\ Begin(c, s, LogHypothesis(Doc(s), status),
                     [do |-> "log", number |-> NextNumber(Doc(s))])
\* Nothing in TESTING: "not found or not in TESTING state", nothing is written.
DebugVerdict(c, s, n, verdict) ==
  /\ Exists(s) /\ file[s] # Torn /\ Testing(Doc(s)) # {}
  /\ Begin(c, s, IF verdict = "rejected" THEN Reject(Doc(s)) ELSE Confirm(Doc(s)),
           [do |-> verdict, number |-> n])
DebugEvidence(c, s, n) ==
  Exists(s) /\ Begin(c, s, LogEvidence(Doc(s), n), [do |-> "evidence", number |-> n])
DebugEnd(c, s, resolution) ==
  Exists(s) /\ Begin(c, s, EndDebug(Doc(s), resolution), [do |-> resolution, number |-> 0])

Truncate(c) ==
  /\ call[c] # NoCall /\ call[c].at = "open"
  /\ file' = [file EXCEPT ![call[c].session] = Torn]
  /\ call' = [call EXCEPT ![c].at = "write"]
  /\ UNCHANGED <<calls, disturbed, told>>
Write(c) ==
  /\ call[c] # NoCall /\ call[c].at = "write"
  /\ file' = [file EXCEPT ![call[c].session] = call[c].doc]
  /\ told' = [told EXCEPT ![call[c].session] = Append(@, call[c].answer)]
  /\ call' = [call EXCEPT ![c] = NoCall]
  /\ UNCHANGED <<calls, disturbed>>
KillCall(c) ==
  /\ call[c] # NoCall
  /\ call' = [call EXCEPT ![c] = NoCall]
  /\ disturbed' = disturbed \union {call[c].session}
  /\ UNCHANGED <<file, calls, told>>

DNext ==
  \E c \in Callers :
    \/ StartDebug(c)
    \/ \E s \in SessionIds :
         \/ \E status \in Statuses : DebugHypothesis(c, s, status)
         \/ \E n \in 1..2 :
              \/ \E verdict \in {"rejected", "confirmed"} : DebugVerdict(c, s, n, verdict)
              \/ DebugEvidence(c, s, n)
         \/ \E r \in {"fixed", "dropped"} : DebugEnd(c, s, r)
    \/ Truncate(c) \/ Write(c) \/ KillCall(c)

DSpec == DInit /\ [][DNext]_dvars

-----------------------------------------------------------------------------
(* Properties. *)

Quiet(s) == s \notin disturbed /\ ~Busy(s) /\ file[s] # Absent
Told(s, do) == SelectSeq(told[s], LAMBDA a : a.do = do)
Judged(s, verdict) ==
  {i \in DOMAIN file[s].hyps : file[s].hyps[i].judged /\ file[s].hyps[i].status = verdict}

\* get_hypotheses, search_rejected_hypotheses, get_evidence and debug_history of
\* a session nobody disturbed: its ids are the ones log_hypothesis answered, no
\* verdict was given twice or undone, the first resolution stands, and it is
\* concluded until something is logged again.
SessionsTellTheirStory ==
  \A s \in SessionIds : Quiet(s) =>
    /\ \A i \in DOMAIN file[s].hyps : file[s].hyps[i].number = i
    /\ [i \in DOMAIN Told(s, "log") |-> Told(s, "log")[i].number]
         = [i \in DOMAIN file[s].hyps |-> file[s].hyps[i].number]
    /\ \A v \in {"rejected", "confirmed"} : Cardinality(Judged(s, v)) = Len(Told(s, v))
    /\ Len(Told(s, "evidence")) = Len(file[s].evidence)
    /\ LET ends == SelectSeq(told[s], LAMBDA a : a.do \in {"fixed", "dropped"})
       IN  file[s].resolution = IF ends = <<>> THEN "pending" ELSE ends[1].do
    /\ Last(told[s]).do \in {"fixed", "dropped"} => file[s].status = "CONCLUDE"

\* reject_hypothesis and confirm_hypothesis judge the hypothesis they are given
\* ("Hypothesis {hypothesis_id} not found or not in TESTING state"): in a session
\* nobody disturbed, what they answered is what the file says of that id.
VerdictsLandOnTheirHypothesis ==
  \A s \in SessionIds : Quiet(s) =>
    \A i \in DOMAIN told[s] : told[s][i].do \in {"rejected", "confirmed"} =>
      \E k \in DOMAIN file[s].hyps :
        file[s].hyps[k].number = told[s][i].number /\ file[s].hyps[k].status = told[s][i].do
=============================================================================
