----------------------------- MODULE OwnerLedger -----------------------------
(***************************************************************************)
(* The owner ledger (owner_ledger.py): sayings, their enforcement and the  *)
(* queue of decisions, three logs that every agent of one owner appends to *)
(* with no lock between the read a call decides on and its append.         *)
(***************************************************************************)
EXTENDS Naturals, Sequences, SequencesExt, TLC

CONSTANTS
  Agents,      \* processes that share the owner's directory
  Sayings,     \* identities of a saying: the digest of its text and scope
  ScopeOf,     \* [Sayings -> scope], "all" reaches every scope
  Decisions,   \* identities of a question: the digest of its text and requester
  Answers,     \* what the owner answers
  Levels,      \* enforcement levels: "code" needs a path, "prose" does not
  Paths,       \* files that enforce a saying
  MaxRows,     \* bound on the rows of each log
  NoRow        \* no call, no answer, no classification

VARIABLES
  sayings, decisions, enforcement,  \* the three logs
  pending,   \* per agent, the row its call is about to append
  settled,   \* history: per decision, the first answer a resolve reported
  raced,     \* history: decisions with two resolves in flight at once
  withdrawn  \* history: sayings whose retirement was reported

logs == <<sayings, decisions, enforcement>>
past == <<settled, raced, withdrawn>>
ovars == <<logs, pending, past>>

OInit ==
  /\ sayings = <<>> /\ decisions = <<>> /\ enforcement = <<>>
  /\ pending = [a \in Agents |-> NoRow]
  /\ settled = [d \in Decisions |-> NoRow] /\ raced = {} /\ withdrawn = {}

-----------------------------------------------------------------------------
(* The folds *)

Kind(rows, kind, id) == {i \in DOMAIN rows : rows[i].kind = kind /\ rows[i].id = id}
First(S) == CHOOSE i \in S : \A j \in S : i <= j
Last_(S) == CHOOSE i \in S : \A j \in S : j <= i

\* _sayings: the first row of an identity stays; a retirement after it holds
\* whatever is recorded later.
Recorded(s) == Kind(sayings, "saying", s) # {}
Retired_UntilRecorded(s) ==
  \E i \in Kind(sayings, "retired", s) :
    i > Last_(Kind(sayings, "saying", s))
Retired(s) ==
  \E i \in Kind(sayings, "retired", s) :
    i > First(Kind(sayings, "saying", s))
LiveSayings == {s \in Sayings : Recorded(s) /\ ~Retired(s)}
\* saying_search shows live sayings of the wanted scope or of "all".
Found(want) == {s \in LiveSayings : ScopeOf[s] \in {want, "all"}}

\* _decisions: opened once, answered by the last resolution after that.
Opened(d) == Kind(decisions, "open", d) # {}
Resolutions(d) == {i \in Kind(decisions, "resolved", d) :
                     i > First(Kind(decisions, "open", d))}
Status(d) == IF Resolutions(d) = {} THEN "open" ELSE "resolved"
AnswerTo(d) == decisions[Last_(Resolutions(d))].answer
\* decision_list("open"), what decision_digest shows the owner.
OpenDecisions == {d \in Decisions : Opened(d) /\ Status(d) = "open"}

\* _enforcement: the last classification of a saying.
Classified(s) == Kind(enforcement, "enforcement", s)
Enforcement(s) == IF Classified(s) = {} THEN NoRow ELSE enforcement[Last_(Classified(s))]
\* saying_enforcement_report over the live sayings.
Unclassified == {s \in LiveSayings : Enforcement(s) = NoRow}

-----------------------------------------------------------------------------
(* The calls: what the fold says now decides which row is appended later. *)

Idle(a) == pending[a] = NoRow
Plan(a, row) == /\ pending' = [pending EXCEPT ![a] = row]
                /\ UNCHANGED <<logs, past>>

SayingRecord(a, s) ==
  /\ Idle(a)
  /\ s \notin LiveSayings
  /\ Plan(a, [log |-> "sayings", kind |-> "saying", id |-> s])
SayingRetire(a, s) ==
  /\ Idle(a)
  /\ Recorded(s)
  /\ Plan(a, [log |-> "sayings", kind |-> "retired", id |-> s])
SayingClassify(a, s, level, by) ==
  /\ Idle(a)
  /\ Recorded(s)
  /\ level = "code" => by # {}
  /\ LET row == [log |-> "enforcement", kind |-> "enforcement", id |-> s,
                 level |-> level, by |-> by]
     IN  Enforcement(s) # row /\ Plan(a, row)
\* Reversible work outside the irreversible categories is told to proceed.
DecisionEnqueue(a, d, mayProceed) ==
  /\ Idle(a)
  /\ ~mayProceed
  /\ d \notin OpenDecisions
  /\ Plan(a, [log |-> "decisions", kind |-> "open", id |-> d])
MayResolve_Again(d) == Opened(d)
MayResolve(d) == Opened(d) /\ Status(d) = "open"
DecisionResolve(a, d, answer) ==
  /\ Idle(a)
  /\ MayResolve(d)
  /\ Plan(a, [log |-> "decisions", kind |-> "resolved", id |-> d, answer |-> answer])

Resolving(a, d) == /\ ~Idle(a) /\ pending[a].kind = "resolved" /\ pending[a].id = d
\* The append of store_core, atomic, and the answer of the call.
AppendRow(a) ==
  /\ ~Idle(a)
  /\ LET row == pending[a] IN
     /\ sayings' = IF row.log = "sayings" THEN Append(sayings, row) ELSE sayings
     /\ decisions' = IF row.log = "decisions" THEN Append(decisions, row) ELSE decisions
     /\ enforcement' = IF row.log = "enforcement" THEN Append(enforcement, row)
                       ELSE enforcement
     /\ settled' = IF row.kind = "resolved" /\ settled[row.id] = NoRow
                   THEN [settled EXCEPT ![row.id] = row.answer] ELSE settled
     /\ raced' = IF row.kind = "resolved" /\ \E b \in Agents \ {a} : Resolving(b, row.id)
                 THEN raced \union {row.id} ELSE raced
     /\ withdrawn' = IF row.kind = "retired" THEN withdrawn \union {row.id} ELSE withdrawn
  /\ pending' = [pending EXCEPT ![a] = NoRow]
\* An agent is killed before its append.
KillAgent(a) ==
  /\ ~Idle(a)
  /\ pending' = [pending EXCEPT ![a] = NoRow]
  /\ UNCHANGED <<logs, past>>

Short == /\ Len(sayings) < MaxRows /\ Len(decisions) < MaxRows
         /\ Len(enforcement) < MaxRows
ONext ==
  \E a \in Agents :
    \/ /\ Short
       /\ \/ \E s \in Sayings :
              \/ SayingRecord(a, s) \/ SayingRetire(a, s)
              \/ \E l \in Levels, by \in SUBSET Paths : SayingClassify(a, s, l, by)
          \/ \E d \in Decisions :
              \/ \E p \in BOOLEAN : DecisionEnqueue(a, d, p)
              \/ \E x \in Answers : DecisionResolve(a, d, x)
    \/ AppendRow(a) \/ KillAgent(a)

OSpec == OInit /\ [][ONext]_ovars

-----------------------------------------------------------------------------
(* Properties. *)

\* A saying whose retirement was reported never reaches a search again, also
\* when another agent records the same words once more.
RetiredStaysRetired == \A s \in withdrawn : s \notin Found(ScopeOf[s])

\* The answer a resolve reported is the decision's answer from then on; only
\* two resolves that overlapped may replace it.
AnswersStand ==
  \A d \in Decisions \ raced :
    settled[d] # NoRow => d \notin OpenDecisions /\ AnswerTo(d) = settled[d]
=============================================================================
