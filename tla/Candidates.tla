------------------------------ MODULE Candidates ------------------------------
(***************************************************************************)
(* Short-lived candidate memories (candidates.py) and how they are         *)
(* forgotten (derived_views.forget_candidates): a forget holds the         *)
(* governance lock, tombstones the candidates of its selector one line     *)
(* after the other, then appends to the audit; remember_candidate does not *)
(* take that lock.  A kill drops the lock and leaves what was written.     *)
(* Completed content kept as artifacts (artifacts.py): persist_artifact    *)
(* writes the content, then a temporary metadata file that it renames; an  *)
(* error removes what was written, file by file; a kill leaves it.  The    *)
(* two share no file: each has its own initial states and steps.           *)
(***************************************************************************)
EXTENDS Naturals, FiniteSets, Sequences, SequencesExt, Subsequences

CONSTANTS
  Sessions, MaxCandidates, NoForget,
  Writers   \* the calls of persist_artifact, each with a fresh id

VARIABLES
  lines,     \* candidates.jsonl: the candidates in order
  hidden,    \* ids with a tombstone line
  expired,   \* ids past their expires_at
  forget,    \* the forget that holds the governance lock
  audited,   \* ids the audit names
  answered,  \* history: ids a returned forget said it forgot
  minted,    \* history: candidates remembered so far
  files,     \* per call of persist_artifact, which of its files exist
  writer     \* per call of persist_artifact, what it does next, and what it answered

-----------------------------------------------------------------------------
(* Candidates. *)
kvars == <<lines, hidden, expired, forget, audited, answered, minted>>

KInit ==
  /\ lines = <<>> /\ hidden = {} /\ expired = {} /\ forget = NoForget
  /\ audited = {} /\ answered = {} /\ minted = 0

RememberCandidate(s) ==
  /\ minted < MaxCandidates
  /\ minted' = minted + 1
  /\ lines' = Append(lines, [id |-> minted + 1, session |-> s])
  /\ UNCHANGED <<hidden, expired, forget, audited, answered>>

Expire(id) ==
  /\ id \in 1..minted /\ expired' = expired \union {id}
  /\ UNCHANGED <<lines, hidden, forget, audited, answered, minted>>

\* list_candidates; the overlay of a session searches only these.
Listed == {c \in ToSet(lines) : c.id \notin hidden \union expired}

\* The rows of the selector, tombstoned ones included.
Selected(match) == {c.id : c \in {c \in ToSet(lines) : c.session \in match \/ c.id \in match}}

\* One tombstone is enough to take the selector for forgotten.
Owed_NoneIfAny(ids) == IF ids \intersect hidden = {} THEN ids ELSE {}
\* live_ids: what an interrupted attempt left alone is still owed.
Owed(ids) == ids \ hidden

ForgetCandidates(match) ==
  /\ forget = NoForget
  /\ Selected(match) # {}
  /\ forget' = [ids |-> Selected(match), owed |-> Owed(Selected(match))]
  /\ UNCHANGED <<lines, hidden, expired, audited, answered, minted>>
MarkTombstone ==
  /\ forget # NoForget /\ forget.owed # {}
  /\ LET id == CHOOSE i \in forget.owed : \A j \in forget.owed : i <= j
     IN  /\ hidden' = hidden \union {id}
         /\ forget' = [forget EXCEPT !.owed = @ \ {id}]
  /\ UNCHANGED <<lines, expired, audited, answered, minted>>
AuditForget ==
  /\ forget # NoForget /\ forget.owed = {}
  /\ audited' = audited \union forget.ids
  /\ answered' = answered \union forget.ids
  /\ forget' = NoForget
  /\ UNCHANGED <<lines, hidden, expired, minted>>

\* compact_memory drops the tombstoned candidates and their tombstones.
CompactCandidates ==
  /\ forget = NoForget
  /\ lines' = Picked(lines, {i \in DOMAIN lines : lines[i].id \notin hidden})
  /\ hidden' = {}
  /\ UNCHANGED <<expired, forget, audited, answered, minted>>

KillForget ==
  /\ forget # NoForget /\ forget' = NoForget
  /\ UNCHANGED <<lines, hidden, expired, audited, answered, minted>>

KNext ==
  \/ \E s \in Sessions : RememberCandidate(s)
  \/ \E id \in 1..MaxCandidates : Expire(id)
  \/ \E s \in Sessions : ForgetCandidates({s})
  \/ \E id \in 1..MaxCandidates : ForgetCandidates({id})
  \/ MarkTombstone \/ AuditForget \/ CompactCandidates \/ KillForget

KSpec == KInit /\ [][KNext]_kvars

\* What a returned forget_candidates named is in the audit and is never listed
\* again, also when earlier attempts at it were killed half way and the store
\* was compacted in between.
ForgetsAreWhole ==
  /\ answered \subseteq audited
  /\ \A c \in Listed : c.id \notin answered

-----------------------------------------------------------------------------
(* Artifacts. *)
avars == <<files, writer>>

AInit ==
  /\ files = [w \in Writers |-> {}]
  /\ writer = [w \in Writers |-> "content"]

Writing == {"content", "tmp", "rename", "sync"}
After(at) ==
  CASE at = "content" -> "tmp" [] at = "tmp" -> "rename"
    [] at = "rename" -> "sync" [] at = "sync" -> "answered"
Wrote(fs, at) ==
  CASE at = "content" -> fs \union {"content"}
    [] at = "tmp" -> fs \union {"tmp"}
    [] at = "rename" -> (fs \ {"tmp"}) \union {"metadata"}
    [] at = "sync" -> fs

Persist(w) ==
  /\ writer[w] \in Writing
  /\ files' = [files EXCEPT ![w] = Wrote(@, writer[w])]
  /\ writer' = [writer EXCEPT ![w] = After(@)]

\* A step fails, before or after it left a file behind.
Fail(w) ==
  /\ writer[w] \in Writing
  /\ \/ UNCHANGED files
     \/ files' = [files EXCEPT ![w] = Wrote(@, writer[w])]
  /\ writer' = [writer EXCEPT ![w] = "unlink tmp"]

\* The content goes before the metadata that names it.
Unlinks_ContentFirst(at) ==
  CASE at = "unlink tmp" -> [gone |-> "tmp", next |-> "unlink content"]
    [] at = "unlink content" -> [gone |-> "content", next |-> "unlink metadata"]
    [] at = "unlink metadata" -> [gone |-> "metadata", next |-> "raised"]
Unlinks(at) ==
  CASE at = "unlink tmp" -> [gone |-> "tmp", next |-> "unlink metadata"]
    [] at = "unlink metadata" -> [gone |-> "metadata", next |-> "unlink content"]
    [] at = "unlink content" -> [gone |-> "content", next |-> "raised"]
CleanUp(w) ==
  /\ writer[w] \in {"unlink tmp", "unlink metadata", "unlink content"}
  /\ files' = [files EXCEPT ![w] = @ \ {Unlinks(writer[w]).gone}]
  /\ writer' = [writer EXCEPT ![w] = Unlinks(@).next]

Die(w) ==
  /\ writer[w] \notin {"answered", "raised", "killed"}
  /\ writer' = [writer EXCEPT ![w] = "killed"]
  /\ UNCHANGED files

ANext == \E w \in Writers : Persist(w) \/ Fail(w) \/ CleanUp(w) \/ Die(w)

ASpec == AInit /\ [][ANext]_avars

\* search_artifacts and artifact_lookup find an artifact by its metadata; the
\* search of the corpus by its content.
Found(w) == "metadata" \in files[w]
InCorpus(w) == "content" \in files[w]

\* What a search of artifacts finds is backed by the content file it names,
\* at every moment of a write, a failed write or a killed one; a call that
\* answered stays findable, and one that raised left nothing in the corpus.
FoundArtifactsAreWhole ==
  \A w \in Writers : /\ Found(w) => InCorpus(w)
                     /\ writer[w] = "answered" => Found(w)
                     /\ writer[w] = "raised" => files[w] = {}
=============================================================================
