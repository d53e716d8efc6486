----------------------------- MODULE CorpusIndex -----------------------------
(***************************************************************************)
(* The shared search index of a process (_corpus_index.py): threads call   *)
(* get_corpus_index while this process writes documents and tells the      *)
(* index (invalidate), others write them without a word, and the process   *)
(* restarts over the token cache it left on disk.  A document is its       *)
(* version, odd while the file exists; a stat shows the version, so every  *)
(* write is taken to change mtime or size.  Documents are judged one by    *)
(* one, so a scan and a read of all of them are one step each.             *)
(***************************************************************************)
EXTENDS Naturals

CONSTANTS
  Docs, Searchers,
  Trusted,      \* the searchers that pass trust_write_hooks and a corpus_key
  Ttl,          \* whether set_stat_ttl was given a positive number
  MaxVersion,   \* bound on a document's version
  MaxRestarts,  \* bound on restarts
  NoIndex       \* no index, no file

VARIABLES
  version,   \* the documents
  gen,       \* _WRITE_GENERATION
  pending,   \* _PENDING_INVALIDATIONS
  index,     \* _INDEX_CACHE
  indexGen,  \* _INDEX_GENERATION
  verified,  \* _VERIFIED_KEY is the corpus and the TTL has not run out
  disk,      \* the persistent token cache
  searcher,  \* the calls of get_corpus_index, per thread
  owed,      \* the document written by this process and not yet reported
  told,      \* history: per document, the version last reported
  raced,     \* history: indexGen was read after a scan that missed a report
  restarts,
  gone       \* history: per document, the version its last deletion made

process == <<gen, pending, index, indexGen, verified, raced>>
cvars == <<version, process, disk, searcher, owed, told, restarts, gone>>

Present(v) == v % 2 = 1
Stat(v) == IF Present(v) THEN v ELSE 0
Stats(vs) == [d \in Docs |-> Stat(vs[d])]

Idle == [at |-> "idle", begun |-> 0, told |-> 0, items |-> 0, gen |-> 0, pending |-> {},
         missed |-> FALSE, result |-> NoIndex, scanned |-> FALSE, excused |-> FALSE]

CInit ==
  /\ version = [d \in Docs |-> 1] /\ gen = 0 /\ pending = {}
  /\ index = NoIndex /\ indexGen = 0 /\ verified = FALSE /\ raced = FALSE
  /\ disk = NoIndex /\ searcher = [s \in Searchers |-> Idle]
  /\ owed = {} /\ told = [d \in Docs |-> 0] /\ restarts = 0 /\ gone = [d \in Docs |-> 0]

-----------------------------------------------------------------------------
\* A file is created or changed, or deleted.
Next3(v) == {w \in {v + 1, v + 2} : w <= MaxVersion /\ (Present(v) \/ Present(w))}
Write(d) ==
  /\ \E w \in Next3(version[d]) :
       /\ version' = [version EXCEPT ![d] = w]
       /\ gone' = IF Present(w) THEN gone ELSE [gone EXCEPT ![d] = w]
  /\ UNCHANGED <<process, disk, searcher, told, restarts>>
OwnWrite(d) == owed = {} /\ owed' = {d} /\ Write(d)
ForeignWrite(d) == UNCHANGED owed /\ Write(d)

\* The path is noted, the generation stays.
Invalidate_PathOnly ==
  /\ owed # {}
  /\ pending' = pending \union owed
  /\ owed' = {}
  /\ told' = [d \in Docs |-> IF d \in owed THEN version[d] ELSE told[d]]
  /\ UNCHANGED <<version, gen, index, indexGen, verified, raced, disk, searcher, restarts, gone>>
\* invalidate: one writer at a time owes the report of its document.
Invalidate ==
  /\ owed # {}
  /\ gen' = gen + 1
  /\ pending' = pending \union owed
  /\ owed' = {}
  /\ told' = [d \in Docs |-> IF d \in owed THEN version[d] ELSE told[d]]
  /\ UNCHANGED <<version, index, indexGen, verified, raced, disk, searcher, restarts, gone>>

Expire == Ttl /\ verified /\ verified' = FALSE
          /\ UNCHANGED <<version, gen, pending, index, indexGen, raced, disk,
                         searcher, owed, told, restarts, gone>>

Restart ==
  /\ restarts < MaxRestarts
  /\ restarts' = restarts + 1
  /\ gen' = 0 /\ pending' = {} /\ index' = NoIndex /\ indexGen' = 0
  /\ verified' = FALSE /\ raced' = FALSE /\ owed' = {}
  /\ searcher' = [s \in Searchers |-> Idle]
  /\ UNCHANGED <<version, disk, told, gone>>

-----------------------------------------------------------------------------
Goes(s, call) == /\ searcher' = [searcher EXCEPT ![s] = call]
                 /\ UNCHANGED <<version, owed, told, restarts, gone>>
Answer(c, i, scanned) == [Idle EXCEPT !.at = "answered", !.begun = c.begun,
                                      !.told = c.told, !.result = i,
                                      !.scanned = scanned, !.excused = raced]
\* A trusted call goes on to mark the scan as verified.
Finish(s, i) ==
  LET c == searcher[s]
  IN  Goes(s, IF s \in Trusted THEN [Answer(c, i, TRUE) EXCEPT !.at = "mark"]
              ELSE Answer(c, i, TRUE))
Matches(i, items) == i # NoIndex /\ i.stat = Stats(items)

\* get_corpus_index: within the TTL of a verified scan, the index itself.
Begin(s) ==
  /\ searcher[s].at \in {"idle", "answered"}
  /\ LET c == [Idle EXCEPT !.begun = version, !.told = told]
     IN  IF s \in Trusted /\ verified /\ index # NoIndex /\ indexGen = gen
         THEN Goes(s, Answer(c, index, FALSE))
         ELSE Goes(s, [c EXCEPT !.at = IF s \in Trusted THEN "scan" ELSE "observe"])
  /\ UNCHANGED <<process, disk>>

\* An untrusted call reads the generation and the pending paths, then scans; a
\* trusted one scans first, and reads them only when the fast path fails.
Observe(s) ==
  /\ searcher[s].at = "observe"
  /\ Goes(s, [searcher[s] EXCEPT !.at = "scan", !.gen = gen, !.pending = pending])
  /\ UNCHANGED <<process, disk>>
Scan(s) ==
  /\ searcher[s].at = "scan"
  /\ Goes(s, IF s \in Trusted
             THEN [searcher[s] EXCEPT !.at = "check", !.items = version, !.gen = gen]
             ELSE [searcher[s] EXCEPT !.at = "decide", !.items = version])
  /\ UNCHANGED <<process, disk>>
Check(s) ==
  /\ searcher[s].at = "check"
  /\ LET c == searcher[s] IN
     IF indexGen = gen /\ Matches(index, c.items) THEN Finish(s, index)
     ELSE Goes(s, [c EXCEPT !.at = "decide", !.gen = gen, !.pending = pending,
                            !.missed = (c.gen # gen)])
  /\ UNCHANGED <<process, disk>>

\* What a document contributes to an update: its text as read now, or as it was
\* for the same stat.
Body(i, items, now) ==
  [d \in Docs |-> IF i.stat[d] = Stat(items[d]) THEN i.body[d]
                  ELSE IF Present(items[d]) THEN now[d] ELSE items[d]]
Index(items, body) == [stat |-> Stats(items), body |-> body]
\* _try_incremental_update: every changed document must be a pending one.
Changed(items) == {d \in Docs : index.stat[d] # Stat(items[d])}
Incremental(c) == /\ index # NoIndex /\ c.pending # {}
                  /\ Changed(c.items) # {} /\ Changed(c.items) \subseteq c.pending

Publish(c, i) == index' = i /\ indexGen' = c.gen /\ raced' = c.missed

\* Under the lock: the cached index if it is of this scan, or its incremental
\* update; otherwise the build goes on without the lock.
Decide(s) ==
  /\ searcher[s].at = "decide"
  /\ LET c == searcher[s] IN
     \/ /\ Matches(index, c.items)
        /\ Publish(c, index) /\ pending' = {}
        /\ Finish(s, index)
     \/ /\ ~Matches(index, c.items) /\ s \in Trusted /\ Incremental(c)
        /\ Publish(c, Index(c.items, Body(index, c.items, version)))
        /\ pending' = pending \ c.pending
        /\ Finish(s, index')
     \/ /\ ~Matches(index, c.items) /\ ~(s \in Trusted /\ Incremental(c))
        /\ Goes(s, [c EXCEPT !.at = "build"])
        /\ UNCHANGED <<pending, index, indexGen, raced>>
  /\ UNCHANGED <<gen, verified, disk>>

\* _build_index_reusing_tokens: the tokens of a document, from memory or else from
\* disk, are used if they are of its stat; the other documents are read.
HasTokens(i, d) == i # NoIndex /\ Present(i.stat[d]) /\ Present(i.body[d])
Reused(d, items, now) ==
  LET known == IF HasTokens(index, d) THEN index ELSE disk
  IN  IF ~Present(items[d]) THEN items[d]
      ELSE IF HasTokens(known, d) /\ known.stat[d] = items[d] THEN known.body[d]
      ELSE now[d]
Build(s) ==
  /\ searcher[s].at = "build"
  /\ LET c == searcher[s]
         i == Index(c.items, [d \in Docs |-> Reused(d, c.items, version)])
     IN  /\ disk' = i
         /\ Goes(s, [c EXCEPT !.at = "publish", !.result = i])
  /\ UNCHANGED process

\* Another thread may have built the same corpus in the meantime.
PublishBuild(s) ==
  /\ searcher[s].at = "publish"
  /\ LET c == searcher[s] IN
     IF Matches(index, c.items)
     THEN Finish(s, index) /\ UNCHANGED <<index, indexGen, raced, pending>>
     ELSE Publish(c, c.result) /\ pending' = {} /\ Finish(s, c.result)
  /\ UNCHANGED <<gen, verified, disk>>

Mark(s) ==
  /\ searcher[s].at = "mark"
  /\ verified' = (Ttl /\ index = searcher[s].result /\ indexGen = gen)
  /\ Goes(s, [searcher[s] EXCEPT !.at = "answered"])
  /\ UNCHANGED <<gen, pending, index, indexGen, raced, disk>>

CNext ==
  \/ \E d \in Docs : OwnWrite(d) \/ ForeignWrite(d)
  \/ Invalidate \/ Expire \/ Restart
  \/ \E s \in Searchers : \/ Begin(s) \/ Observe(s) \/ Scan(s) \/ Check(s)
                          \/ Decide(s) \/ Build(s) \/ PublishBuild(s) \/ Mark(s)

CSpec == CInit /\ [][CNext]_cvars

-----------------------------------------------------------------------------
Answers == {searcher[s] : s \in {s \in Searchers : searcher[s].at = "answered"}}

\* An index shows a document as it was at a moment since a version: a text of that
\* version or a later one, or nothing when the document was deleted since.
Shows(i, d, since) ==
  i.body[d] >= since \/ (~Present(i.body[d]) /\ gone[d] >= since)

\* A search that scanned sees every write, whoever made it, that was done when
\* it began, whatever other threads published meanwhile, whatever was pending
\* and whatever the token cache on disk held.
ScansAreCurrent ==
  \A c \in Answers : c.scanned => \A d \in Docs : Shows(c.result, d, c.begun[d])

\* Within the TTL a search sees every write of its own process that had been
\* reported when it began, and only other processes' writes wait for the TTL
\* (_corpus_index.py:154-158); the exception is a generation read after a scan
\* that missed the report.
OwnWritesShowUnlessRaced ==
  \A c \in Answers : c.excused \/ \A d \in Docs : Shows(c.result, d, c.told[d])
=============================================================================
