----------------------------- MODULE Corrections -----------------------------
(***************************************************************************)
(* The correction policy log (correction_policy.py): every write holds the *)
(* governance lock, reads and folds the whole log, checks and appends, so  *)
(* a call is one step; a reader keeps only the lines it can account for.   *)
(* A host promotes revisions in the improvement ledger by digest, and      *)
(* compile_corrections injects what is promoted; it reads the corrections  *)
(* first and the improvements later.  One correction is modelled.          *)
(***************************************************************************)
EXTENDS Naturals, Sequences, SequencesExt, FiniteSets

CONSTANTS
  Scopes,      \* ranks in _SCOPE_RANK that callers use
  Revisions,   \* revision ids after the captured one
  Evaluated, Observed,   \* the revisions hosts evaluate, and report outcomes of
  Promoted,    \* the revisions hosts promote
  Kinds,       \* required_evaluations of the correction
  Instants,    \* the caller's clock: now, which may go back
  RefLists,    \* evidence_refs: "none", "one", or "twice" the same
  MaxLines,    \* bound on the log
  Nothing

VARIABLES
  log,        \* corrections.jsonl
  active,     \* improvement ledger: the promoted revision and its digest
  compiling,  \* a compile_corrections between its two reads
  injected    \* what compilations injected, with the digest promoted

rvars == <<log, active, compiling, injected>>

First == "r1"
Capture(s, t, refs) == [kind |-> "capture", rev |-> First, scope |-> s, at |-> t, refs |-> refs]
Revise(rev, base, s, t) ==
  [kind |-> "revision", rev |-> rev, base |-> base, scope |-> s, at |-> t, refs |-> "none"]
Evaluation(rev, kind, verdict, s, t) ==
  [kind |-> "evaluation", rev |-> rev, of |-> kind, verdict |-> verdict, scope |-> s,
   at |-> t, refs |-> "none"]
Outcome(rev, t) == [kind |-> "outcome", rev |-> rev, at |-> t, refs |-> "none"]
Rescope(rev, from, to, t, refs) ==
  [kind |-> "scope", rev |-> rev, from |-> from, scope |-> to, at |-> t, refs |-> refs]

-----------------------------------------------------------------------------
(* The projection: what the first n lines of a log say. *)
Positions(l, kind) == {i \in DOMAIN l : l[i].kind = kind}
Latest(S) == CHOOSE i \in S : \A j \in S : j <= i
Captured(l) == Positions(l, "capture") # {}
Recorded(l) == {l[i].rev : i \in Positions(l, "capture") \union Positions(l, "revision")}
RevisedAt(l, rev) == CHOOSE i \in Positions(l, "capture") \union Positions(l, "revision") :
                        l[i].rev = rev
Current(l) == l[Latest(Positions(l, "capture") \union Positions(l, "revision"))].rev
Scope(l) == l[Latest(Positions(l, "capture") \union Positions(l, "scope"))].scope
Receipts(l, rev, kind) ==
  {i \in Positions(l, "evaluation") : l[i].rev = rev /\ l[i].of = kind}

\* Where the evidence for a widening has to start.
Boundary_RevisionOnly(l, rev) == RevisedAt(l, rev)
Boundary(l, rev) == Latest({RevisedAt(l, rev)} \union Positions(l, "scope"))

\* Widening needs a revision made after the capture, current, and the latest
\* evaluation of every required kind a pass for the target scope after that.
Widens(l, r) ==
  /\ r.rev = Current(l) /\ r.rev # First
  /\ \A k \in Kinds :
       LET found == Receipts(l, r.rev, k) IN
       /\ found # {}
       /\ LET e == l[Latest(found)] IN e.verdict = "pass" /\ e.scope = r.scope
       /\ Latest(found) > Boundary(l, r.rev)
\* The writer also compares the callers' clocks.
ClocksAgree(l, r) ==
  \A k \in Kinds : LET e == l[Latest(Receipts(l, r.rev, k))] IN
    /\ e.at > l[RevisedAt(l, r.rev)].at
    /\ Positions(l, "scope") # {} => e.at > l[Latest(Positions(l, "scope"))].at

\* _structural: a list of references without repetitions, and one for a new scope.
Structural(r) == /\ r.refs # "twice"
                 /\ r.kind = "scope" => r.refs # "none"
\* _read counts evaluations and outcomes of the current revision only.
Accounted_CurrentOnly(l, r) ==
  CASE r.kind = "capture" -> ~Captured(l)
    [] r.kind = "revision" -> Captured(l) /\ r.rev \notin Recorded(l) /\ r.base \in Recorded(l)
    [] r.kind \in {"evaluation", "outcome"} -> Captured(l) /\ r.rev = Current(l)
    [] r.kind = "scope" -> /\ Captured(l) /\ r.rev \in Recorded(l)
                           /\ r.from = Scope(l) /\ r.from # r.scope
                           /\ r.scope > r.from => Widens(l, r)
\* _read: what the lines before a line have to say for it to count.
Accounted(l, r) ==
  CASE r.kind = "capture" -> ~Captured(l)
    [] r.kind = "revision" -> Captured(l) /\ r.rev \notin Recorded(l) /\ r.base \in Recorded(l)
    [] r.kind \in {"evaluation", "outcome"} -> Captured(l) /\ r.rev \in Recorded(l)
    [] r.kind = "scope" -> /\ Captured(l) /\ r.rev \in Recorded(l)
                           /\ r.from = Scope(l) /\ r.from # r.scope
                           /\ r.scope > r.from => Widens(l, r)
Read(l) == FoldLeft(LAMBDA kept, r : IF Structural(r) /\ Accounted(kept, r)
                                    THEN Append(kept, r) ELSE kept, <<>>, l)

\* The guards of the five writers.
MayAppend(l, r) ==
  CASE r.kind = "capture" -> ~Captured(l)
    [] r.kind = "revision" -> Captured(l) /\ r.rev \notin Recorded(l) /\ r.base = Current(l)
    [] r.kind \in {"evaluation", "outcome"} -> Captured(l) /\ r.rev \in Recorded(l)
    [] r.kind = "scope" -> /\ Captured(l) /\ r.rev \in Recorded(l)
                           /\ Scope(l) = r.from /\ r.from # r.scope /\ r.refs # "none"
                           /\ r.scope > r.from => Widens(l, r) /\ ClocksAgree(l, r)

-----------------------------------------------------------------------------
RInit ==
  /\ log = <<>> /\ active = Nothing /\ compiling = Nothing /\ injected = {}

\* _correction_append: a damaged log refuses every write, an identical request
\* is acknowledged, and only then does the guard decide.
Intact == Read(log) = log
Write(r) ==
  /\ Len(log) < MaxLines
  /\ Intact /\ r \notin ToSet(log) /\ MayAppend(log, r)
  /\ log' = Append(log, r)
  /\ UNCHANGED <<active, compiling, injected>>

\* correction_revise takes its scope from the policy under the lock.
ReviseCall(rev, base, t) == Captured(log) /\ Write(Revise(rev, base, Scope(log), t))
WriteCall ==
  \E t \in Instants :
    \/ \E s \in Scopes, refs \in RefLists : Write(Capture(s, t, refs))
    \/ \E rev \in Revisions, base \in Revisions \union {First} : ReviseCall(rev, base, t)
    \/ \E rev \in Evaluated, k \in Kinds, v \in {"pass", "fail"}, s \in Scopes :
         Write(Evaluation(rev, k, v, s, t))
    \/ \E rev \in Observed : Write(Outcome(rev, t))
    \/ \E rev \in Revisions \union {First}, from, to \in Scopes, refs \in RefLists :
         Write(Rescope(rev, from, to, t, refs))

-----------------------------------------------------------------------------
\* correction_revision_digest covers the scope, so an adjusted correction has
\* to be promoted again.
Digest_ContentOnly(rev, s) == [rev |-> rev]
Digest(rev, s) == [rev |-> rev, scope |-> s]

\* The host promotes a revision with the digest it had when it was proposed.
Promote(rev, s) ==
  /\ rev \in Recorded(log)
  /\ \E i \in Positions(log, "capture") \union Positions(log, "scope") : log[i].scope = s
  /\ active' = [rev |-> rev, digest |-> Digest(rev, s), at |-> s]
  /\ UNCHANGED <<log, compiling, injected>>

\* compile_corrections refuses a damaged log, then reads the improvements.
CompileRead ==
  /\ compiling = Nothing /\ Intact /\ Captured(log)
  /\ compiling' = log
  /\ UNCHANGED <<log, active, injected>>
CompileInject ==
  /\ compiling # Nothing
  /\ compiling' = Nothing
  /\ injected' = IF /\ active # Nothing
                    /\ active.rev \in Recorded(compiling)
                    /\ active.digest = Digest(active.rev, Scope(compiling))
                 THEN injected \union {[rev |-> active.rev, scope |-> Scope(compiling),
                                        promotedAt |-> active.at]}
                 ELSE injected
  /\ UNCHANGED <<log, active>>

HostCall ==
  \/ \E rev \in Promoted, s \in Scopes : Promote(rev, s)
  \/ CompileRead
  \/ CompileInject
RNext == WriteCall \/ HostCall

RSpec == RInit /\ [][RNext]_rvars

-----------------------------------------------------------------------------
\* Whenever the scope of a correction was widened, a revision newer than the
\* capture had passed every required evaluation for the wider scope since the
\* scope last changed, and had not failed one again.
WideningsWereEarned ==
  \A i \in Positions(log, "scope") : log[i].scope > log[i].from =>
    /\ log[i].rev # First
    /\ \A k \in Kinds : \E j \in Receipts(log, log[i].rev, k) :
         /\ j < i /\ log[j].verdict = "pass" /\ log[j].scope = log[i].scope
         /\ \A n \in j + 1..i - 1 : /\ log[n].kind # "scope"
                                    /\ n \notin Receipts(log, log[i].rev, k)

\* What a write was accepted for, every later reader counts: an accepted line
\* never makes the log damaged, which would refuse every later write.
WritersReadCleanly == Intact

\* What is injected was promoted for the scope it is injected at, although the
\* promotion is read after the corrections and both change meanwhile.
InjectedAsPromoted == \A l \in injected : l.scope = l.promotedAt
=============================================================================
