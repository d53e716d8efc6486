------------------------------ MODULE Outcomes ------------------------------
(***************************************************************************)
(* Outcome feedback (outcomes.py): usages of compiled contexts, outcomes   *)
(* reported for them under an idempotency key, and the utility of context  *)
(* items that is replayed from the outcomes.                               *)
(***************************************************************************)
EXTENDS Integers, Sequences, SequencesExt, TLC

CONSTANTS
  Clients,       \* threads and processes that report
  Usages,        \* usage ids of compiled contexts
  Rewards,       \* clamped rewards in units of 1/Unit: success, failure
  Keys,          \* idempotency keys callers choose
  MaxReports,    \* bound on reports
  NoKey          \* no key, no call, no lock holder

VARIABLES
  usages,        \* the usage log
  outcomes,      \* the outcome log
  lockedBy,      \* holder of outcomes.lock
  report,        \* per client, its call
  reports,       \* reports begun
  answered       \* history: fingerprints whose report was acknowledged

uvars == <<usages, outcomes, lockedBy, report, reports, answered>>

\* Rewards are counted in twentieths: MAX_UPDATE is 4, a full score 20.
Unit == 20
MaxUpdate == 4

\* An explicit key, or the digest of the fingerprint.
KeyOf(f) == IF f.key # NoKey THEN [key |-> f.key] ELSE [digest |-> f]

UInit ==
  /\ usages = <<>> /\ outcomes = <<>> /\ lockedBy = NoKey
  /\ report = [c \in Clients |-> NoKey] /\ reports = 0 /\ answered = {}

\* _record_context_usage: one row per usage id, checked under the lock.
RecordUsage(u) ==
  /\ lockedBy = NoKey
  /\ u \notin ToSet(usages)
  /\ usages' = Append(usages, u)
  /\ UNCHANGED <<outcomes, lockedBy, report, reports, answered>>

AtStep(c, step) == report[c] # NoKey /\ report[c].step = step
\* report_outcome: the usage is looked up before the transaction begins.
ReportOutcome(c, u, reward, key) ==
  /\ report[c] = NoKey /\ reports < MaxReports
  /\ u \in ToSet(usages)
  /\ report' = [report EXCEPT ![c] =
       [step |-> "lock", fp |-> [usage |-> u, reward |-> reward, key |-> key]]]
  /\ reports' = reports + 1
  /\ UNCHANGED <<usages, outcomes, lockedBy, answered>>
Free_Always == TRUE
Free == lockedBy = NoKey
BeginTransaction(c) ==
  /\ AtStep(c, "lock") /\ Free
  /\ lockedBy' = c
  /\ report' = [report EXCEPT ![c].step = "check"]
  /\ UNCHANGED <<usages, outcomes, reports, answered>>
Prior(f) == {i \in DOMAIN outcomes : KeyOf(outcomes[i]) = KeyOf(f)}
SameOutcome(c) == \E i \in Prior(report[c].fp) : outcomes[i] = report[c].fp
\* Already reported, a key that names another outcome, or a row to append.
CheckKey(c) ==
  /\ AtStep(c, "check")
  /\ IF Prior(report[c].fp) = {}
     THEN /\ report' = [report EXCEPT ![c].step = "append"]
          /\ UNCHANGED <<lockedBy, answered>>
     ELSE /\ report' = [report EXCEPT ![c] = NoKey]
          /\ lockedBy' = NoKey
          /\ answered' = IF SameOutcome(c) THEN answered \union {report[c].fp}
                         ELSE answered
  /\ UNCHANGED <<usages, outcomes, reports>>
AppendOutcome(c) ==
  /\ AtStep(c, "append")
  /\ outcomes' = Append(outcomes, report[c].fp)
  /\ report' = [report EXCEPT ![c].step = "answer"]
  /\ UNCHANGED <<usages, lockedBy, reports, answered>>
AnswerReport(c) ==
  /\ AtStep(c, "answer")
  /\ answered' = answered \union {report[c].fp}
  /\ report' = [report EXCEPT ![c] = NoKey]
  /\ lockedBy' = NoKey
  /\ UNCHANGED <<usages, outcomes, reports>>
\* A kill drops the lock; the caller does not know whether it was recorded.
KillReport(c) ==
  /\ report[c] # NoKey
  /\ report' = [report EXCEPT ![c] = NoKey]
  /\ lockedBy' = IF lockedBy = c THEN NoKey ELSE lockedBy
  /\ UNCHANGED <<usages, outcomes, reports, answered>>

UNext ==
  \/ \E u \in Usages : RecordUsage(u)
  \/ \E c \in Clients :
       \/ \E u \in Usages, w \in Rewards, k \in Keys \union {NoKey} :
            ReportOutcome(c, u, w, k)
       \/ BeginTransaction(c) \/ CheckKey(c) \/ AppendOutcome(c) \/ AnswerReport(c)
       \/ KillReport(c)

USpec == UInit /\ [][UNext]_uvars

-----------------------------------------------------------------------------
\* context_utility: credit by rank, each update and the score clamped.
Clamp(x, bound) == IF x > bound THEN bound ELSE IF x < -bound THEN -bound ELSE x
Credit(reward, position) == Clamp((reward * MaxUpdate) \div (Unit * (position + 1)), MaxUpdate)
Utility(rows, u, position) ==
  FoldLeft(LAMBDA score, f : IF f.usage = u
                             THEN Clamp(score + Credit(f.reward, position), Unit)
                             ELSE score, 0, rows)

\* A report that was repeated because its answer was lost, or by two threads
\* at once, is one row: keys name one outcome, and an acknowledged outcome is
\* in the log.
KeysNameOneOutcome ==
  /\ \A i, j \in DOMAIN outcomes : KeyOf(outcomes[i]) = KeyOf(outcomes[j]) => i = j
  /\ answered \subseteq ToSet(outcomes)
\* It counts once: the utility is what the acknowledged and unacknowledged
\* outcomes amount to when each is counted once.
ReportsCountOnce ==
  /\ KeysNameOneOutcome
  /\ \A u \in Usages :
       Utility(outcomes, u, 0) = Utility(SetToSeq(ToSet(outcomes)), u, 0)
=============================================================================
