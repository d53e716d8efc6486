--------------------------- MODULE ProjectionCache ---------------------------
(***************************************************************************)
(* The sidecar of an execution projection (execution_projection_cache.py): *)
(* readers fold the log without a lock while writers append to it or       *)
(* replace its inode, and share one file that holds the last fold.         *)
(***************************************************************************)
EXTENDS Naturals, Sequences

CONSTANTS
  CacheReaders,  \* processes that read the projection of one goal
  Expiries,      \* when a granted lease expires
  Instants,      \* the moments callers inject as now
  MaxVersions,   \* bound on the writes to the log
  NoFile         \* absence of a sidecar, of a lease view, of a call

VARIABLES
  grants,        \* the log: the expiry of each grant, a later one supersedes
  inode,         \* which file the log's path names
  sidecar,       \* the goal's cache file, for every instant: fingerprint and fold
  reader         \* per reader, how far read_projection got

pvars == <<grants, inode, sidecar, reader>>

\* st_dev, st_ino, st_size, st_mtime_ns: an append changes the size, a
\* replacement the inode.
Fingerprint == <<inode, Len(grants)>>

\* project over the lines of one read, with project_leases when the caller
\* asked for leases; what is active depends on the instant.
Folded(lines, leases) ==
  [seq |-> Len(lines),
   last |-> IF leases /\ lines # <<>> THEN lines[Len(lines)] ELSE NoFile]
ActiveAt(last, now) == last # NoFile /\ last > now
Answer(fold, now) == [seq |-> fold.seq, active |-> ActiveAt(fold.last, now)]

-----------------------------------------------------------------------------
PInit ==
  /\ grants = <<>> /\ inode = 0 /\ sidecar = NoFile
  /\ reader = [r \in CacheReaders |-> NoFile]

\* A writer appends a grant, or a compaction replaces the file by its copy.
Write(expiry) ==
  /\ Len(grants) + inode < MaxVersions
  /\ grants' = Append(grants, expiry)
  /\ UNCHANGED <<inode, sidecar, reader>>
ReplaceLog ==
  /\ Len(grants) + inode < MaxVersions
  /\ inode' = inode + 1
  /\ UNCHANGED <<grants, sidecar, reader>>

In(r, step) == reader[r] # NoFile /\ reader[r].step = step
Go(r, rec) == reader' = [reader EXCEPT ![r] = rec]
\* The call of r at its next step, without a fold and with one.
Seeking(r, step, before) ==
  [step |-> step, now |-> reader[r].now, leases |-> reader[r].leases, start |-> reader[r].start,
   before |-> before, tries |-> reader[r].tries]
Holding(r, step, before, fold) ==
  [step |-> step, now |-> reader[r].now, leases |-> reader[r].leases, start |-> reader[r].start,
   before |-> before, tries |-> reader[r].tries, fold |-> fold]

\* read_projection begins: fingerprint, then the sidecar.
ReadProjection(r, now, leases) ==
  /\ reader[r] = NoFile
  /\ Go(r, [step |-> "load", now |-> now, leases |-> leases,
            before |-> Fingerprint, start |-> Len(grants), tries |-> 0])
  /\ UNCHANGED <<grants, inode, sidecar>>

Usable_AnyShape(r) == sidecar # NoFile /\ sidecar.fp = reader[r].before
\* _load: only an entry for this fingerprint, with leases when they are asked
\* for, is a hit; everything else is read from the log.
Usable(r) == /\ sidecar # NoFile
             /\ sidecar.fp = reader[r].before
             /\ reader[r].leases => sidecar.leases
Load(r) ==
  /\ In(r, "load")
  /\ Go(r, IF Usable(r)
           THEN Holding(r, "confirm", reader[r].before,
                        IF reader[r].leases THEN sidecar.fold
                        ELSE [sidecar.fold EXCEPT !.last = NoFile])
           ELSE Seeking(r, "stamp", reader[r].before))
  /\ UNCHANGED <<grants, inode, sidecar>>
Returned(r, fold) ==
  [step |-> "returned", start |-> reader[r].start, now |-> reader[r].now,
   leases |-> reader[r].leases, answer |-> Answer(fold, reader[r].now)]
Confirm(r) ==
  /\ In(r, "confirm")
  /\ Go(r, IF Fingerprint = reader[r].before
           THEN Returned(r, reader[r].fold)
           ELSE Seeking(r, "stamp", reader[r].before))
  /\ UNCHANGED <<grants, inode, sidecar>>

\* At most two attempts: fingerprint, fold, fingerprint again.
StampLog(r) ==
  /\ In(r, "stamp")
  /\ Go(r, Seeking(r, "fold", Fingerprint))
  /\ UNCHANGED <<grants, inode, sidecar>>
FoldLog(r) ==
  /\ In(r, "fold")
  /\ Go(r, [Holding(r, "publish", reader[r].before, Folded(grants, reader[r].leases))
             EXCEPT !.tries = @ + 1])
  /\ UNCHANGED <<grants, inode, sidecar>>
Unchanged_Assumed(r) == TRUE
Unchanged(r) == Fingerprint = reader[r].before
PublishFold(r) ==
  /\ In(r, "publish")
  /\ \/ /\ Unchanged(r)
        /\ Go(r, Holding(r, "write", Fingerprint, reader[r].fold))
     \/ /\ ~Unchanged(r) /\ reader[r].tries < 2
        /\ Go(r, Seeking(r, "stamp", reader[r].before))
     \/ /\ ~Unchanged(r) /\ reader[r].tries = 2
        /\ Go(r, Returned(r, reader[r].fold))
  /\ UNCHANGED <<grants, inode, sidecar>>
\* _write_atomic replaces the sidecar, or fails and is ignored.
WriteSidecar(r) ==
  /\ In(r, "write")
  /\ \/ sidecar' = [fp |-> reader[r].before, fold |-> reader[r].fold,
                    leases |-> reader[r].leases]
     \/ UNCHANGED sidecar
  /\ Go(r, Returned(r, reader[r].fold))
  /\ UNCHANGED <<grants, inode>>
Forget(r) ==
  /\ In(r, "returned")
  /\ Go(r, NoFile)
  /\ UNCHANGED <<grants, inode, sidecar>>

PNext ==
  \/ \E e \in Expiries : Write(e)
  \/ ReplaceLog
  \/ \E r \in CacheReaders :
       \/ \E now \in Instants, leases \in BOOLEAN : ReadProjection(r, now, leases)
       \/ Load(r) \/ Confirm(r) \/ StampLog(r) \/ FoldLog(r) \/ PublishFold(r)
       \/ WriteSidecar(r) \/ Forget(r)

PSpec == PInit /\ [][PNext]_pvars

-----------------------------------------------------------------------------
(* Properties. *)

\* An answer, cached or not, is the projection of the log as it was at some
\* moment of the call: no older than its beginning, with the leases judged at
\* the caller's own now.
AnswersAreOfThisCall ==
  \A r \in CacheReaders : In(r, "returned") =>
    \E n \in reader[r].start..Len(grants) :
      reader[r].answer =
        Answer(Folded(SubSeq(grants, 1, n), reader[r].leases), reader[r].now)

=============================================================================
