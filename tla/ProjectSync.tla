----------------------------- MODULE ProjectSync -----------------------------
(***************************************************************************)
(* The guard that brings a checkout up to its upstream (project_sync.py):  *)
(* one git command after another, while the operator works in the checkout *)
(* and others push.  The upstream branch is a line of commits; a checkout  *)
(* stands on one of them with commits of its own.  What git does is        *)
(* external: a fast-forward never loses work, and a command may time out.  *)
(***************************************************************************)
EXTENDS Naturals, Sequences, FiniteSets

CONSTANTS MaxCommits, MaxEdits, MaxSyncs

VARIABLES
  remote,         \* commits on the upstream branch
  tracking,       \* those the checkout has heard of
  head,           \* [base |-> upstream commits below HEAD, own |-> commits on top]
  work,           \* "clean", "dirty", or "clash": dirty in files upstream changed too
  upstream,       \* whether the branch tracks one
  call,           \* the sync under way
  events,         \* the project-sync log
  edits, syncs
yvars == <<remote, tracking, head, work, upstream, call, events, edits, syncs>>

Idle == [pc |-> "idle"]
None == [state |-> "none", ok |-> FALSE]

(* ---- the operator and the others ---- *)
Edit == work = "clean" /\ work' \in {"dirty", "clash"} /\ UNCHANGED <<remote, tracking, head, upstream>>
Commit == /\ work # "clean" /\ work' = "clean" /\ head.own < MaxCommits /\ head' = [head EXCEPT !.own = @ + 1]
          /\ UNCHANGED <<remote, tracking, upstream>>
Push == /\ head.own > 0 /\ head.base = remote /\ remote + head.own <= MaxCommits
        /\ remote' = remote + head.own /\ tracking' = remote' /\ head' = [base |-> remote', own |-> 0]
        /\ UNCHANGED <<work, upstream>>
Others == remote < MaxCommits /\ remote' = remote + 1 /\ UNCHANGED <<tracking, head, work, upstream>>
Retrack == upstream' = ~upstream /\ UNCHANGED <<remote, tracking, head, work>>
Elsewhere == /\ edits < MaxEdits /\ edits' = edits + 1
             /\ Edit \/ Commit \/ Push \/ Others \/ Retrack
             /\ UNCHANGED <<call, events, syncs>>

(* ---- git, as the guard runs it ---- *)
Forward_Merges(h, t, w) == IF w = "clash" \/ h.base >= t THEN h ELSE [base |-> t, own |-> IF h.own = 0 THEN 0 ELSE h.own + 1]
Forward(h, t, w) == IF h.own = 0 /\ h.base < t /\ w # "clash" THEN [base |-> t, own |-> 0] ELSE h
Behind(h, t) == IF t > h.base THEN t - h.base ELSE 0
Answers == {"ok", "failed", "timed out"}

(* ---- inspect_project ---- *)
Begin(apply, fetch) ==
  /\ call = Idle /\ syncs < MaxSyncs /\ syncs' = syncs + 1
  /\ call' = [pc |-> IF fetch THEN "fetch" ELSE "status", apply |-> apply, before |-> None, reasons |-> {}, pulled |-> "not"]
  /\ UNCHANGED <<remote, tracking, head, work, upstream, events, edits>>
\* A fetch may have brought its commits in although it failed.
Fetch ==
  /\ call.pc = "fetch"
  /\ \E answer \in Answers :
       /\ tracking' \in (IF answer = "ok" THEN {remote} ELSE {tracking, remote})
       /\ call' = [call EXCEPT !.pc = "status", !.reasons = IF answer = "ok" THEN @ ELSE {"fetch_failed"}]
  /\ UNCHANGED <<remote, head, work, upstream, events, edits, syncs>>
Status ==
  /\ call.pc = "status"
  /\ LET reasons == call.reasons \cup (IF work = "clean" THEN {} ELSE {"dirty_worktree"})
     IN call' = [call EXCEPT !.pc = IF upstream THEN "counts" ELSE "report",
                             !.reasons = IF upstream THEN reasons ELSE reasons \cup {"missing_upstream"}]
  /\ UNCHANGED <<remote, tracking, head, work, upstream, events, edits, syncs>>
Drift(ahead, behind) ==
  IF ahead > 0 /\ behind > 0 THEN {"diverged_from_upstream"} ELSE IF ahead > 0 THEN {"local_ahead_of_upstream"}
  ELSE IF behind > 0 THEN {"local_behind_upstream"} ELSE {}
Counts ==
  /\ call.pc = "counts"
  /\ call' = [call EXCEPT !.pc = "report", !.reasons = @ \cup
               IF upstream THEN Drift(head.own, Behind(head, tracking)) ELSE {"ahead_behind_unavailable"}]
  /\ UNCHANGED <<remote, tracking, head, work, upstream, events, edits, syncs>>
StateOf(reasons) == IF reasons = {} THEN "synced" ELSE IF reasons = {"local_behind_upstream"} THEN "behind_clean" ELSE "blocked"

(* ---- sync_project ---- *)
Log(event, state) == events' = Append(events, [event |-> event, state |-> state, pulled |-> call.pulled])
Report ==
  /\ call.pc = "report"
  /\ LET state == StateOf(call.reasons) IN
     IF call.pulled # "not"
     THEN Log(IF call.pulled = "ok" /\ state = "synced" THEN "sync_applied" ELSE "sync_failed", state) /\ call' = Idle
     ELSE IF state # "behind_clean" THEN Log("sync_blocked", state) /\ call' = Idle
     ELSE IF ~call.apply THEN Log("sync_dry_run", state) /\ call' = Idle
     ELSE call' = [call EXCEPT !.pc = "pull", !.before = [state |-> state, ok |-> TRUE]] /\ UNCHANGED events
  /\ UNCHANGED <<remote, tracking, head, work, upstream, edits, syncs>>
\* git pull --ff-only fetches again; killed at its timeout it may or may not have moved HEAD.
Pull ==
  /\ call.pc = "pull"
  /\ LET moved == Forward(head, remote, work) IN
     \E answer \in Answers :
       /\ answer = "ok" => upstream /\ Behind(moved, remote) = 0
       /\ answer = "ok" => tracking' = remote /\ head' = moved
       /\ answer = "failed" => tracking' \in {tracking, remote} /\ head' = head
       /\ answer = "timed out" => tracking' \in {tracking, remote} /\ head' \in (IF tracking' = remote /\ upstream THEN {head, moved} ELSE {head})
       /\ call' = [call EXCEPT !.pc = "status", !.pulled = answer, !.reasons = {}]
  /\ UNCHANGED <<remote, work, upstream, events, edits, syncs>>
Kill == call # Idle /\ call' = Idle /\ UNCHANGED <<remote, tracking, head, work, upstream, events, edits, syncs>>

YInit == /\ remote = 1 /\ tracking = 1 /\ head = [base |-> 1, own |-> 0] /\ work = "clean" /\ upstream = TRUE
         /\ call = Idle /\ events = <<>> /\ edits = 0 /\ syncs = 0
Guard == (\E a, f \in BOOLEAN : Begin(a, f)) \/ Fetch \/ Status \/ Counts \/ Report \/ Pull \/ Kill
YNext == Elsewhere \/ Guard
YSpec == YInit /\ [][YNext]_yvars

---------------------------------------------------------------------------
\* Whatever happens between the inspection and the pull, the guard moves HEAD along the upstream line
\* and nothing else: no commit or change of the operator's is merged or lost, and only after a report
\* that was behind and clean.
FastForwards ==
  Guard => /\ work' = work /\ remote' = remote
           /\ head' # head => /\ head.own = 0 /\ head'.own = 0 /\ head'.base > head.base
                              /\ call.apply /\ call.before.state = "behind_clean"
OnlyFastForwards == [][FastForwards]_yvars
=============================================================================
