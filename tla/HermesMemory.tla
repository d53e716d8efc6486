----------------------------- MODULE HermesMemory -----------------------------
(***************************************************************************)
(* How the Hermes provider keeps completed turns (_persist_completed_turn  *)
(* and _utf8_prefix of hermes_provider.py).  A turn is appended to the     *)
(* last chunk file of its session and runs over into new ones, cut between *)
(* words where it can be and between code points always, under a lock of   *)
(* the process and one of the host.  A kill leaves what was written.       *)
(*                                                                         *)
(* A text is a sequence of code points, each of one or two bytes.          *)
(***************************************************************************)
EXTENDS Naturals, Sequences, SequencesExt, FiniteSetsExt

CONSTANTS Writers, Processes, Texts, Limit, Header, MaxTurns, MaxKills

VARIABLES
  chunks,   \* the files of the session: the code points after each header
  locks,    \* who holds each process's lock, and the host's
  writer,   \* per thread: [pc, rest, index, turn]
  turns,    \* the turns whose text has begun to be written, in order
  cuts,     \* where a chunk was left in the middle of a text: [chunk, at]
  kills
tvars == <<chunks, locks, writer, turns, cuts, kills>>

ProcessOf(w) == w[1]
Nobody == <<>>
Waiting == [pc |-> "idle", rest |-> <<>>, index |-> 0, turn |-> 0]
Bytes(text) == FoldLeft(LAMBDA n, c : n + c.bytes, 0, text)
SizeOf(i) == IF i <= Len(chunks) THEN Header + Bytes(chunks[i]) ELSE Header

(* ---- _utf8_prefix ---- *)
Fitting(text, room) == Max({n \in 0..Len(text) : Bytes(SubSeq(text, 1, n)) <= room})
Spaces(text, n) == {k \in 1..n : k < Len(text) /\ text[k + 1].space}
PrefixLength(text, room) ==
  LET n == Fitting(text, room)
  IN IF n = Len(text) \/ Spaces(text, n) = {} THEN n ELSE Max(Spaces(text, n))

(* ---- _persist_completed_turn ---- *)
Begin(w, text) ==
  /\ writer[w].pc = "idle" /\ Cardinality({v \in Writers : writer[v].pc # "idle"}) + Len(turns) < MaxTurns
  /\ writer' = [writer EXCEPT ![w] = [Waiting EXCEPT !.pc = "thread", !.rest = text]]
  /\ UNCHANGED <<chunks, locks, turns, cuts, kills>>
LockThread(w) ==
  /\ writer[w].pc = "thread" /\ locks.of[ProcessOf(w)] = Nobody
  /\ locks' = [locks EXCEPT !.of[ProcessOf(w)] = w]
  /\ writer' = [writer EXCEPT ![w].pc = "host"]
  /\ UNCHANGED <<chunks, turns, cuts, kills>>
HostFree_Always == TRUE
HostFree == locks.host = Nobody
LockHost(w) ==
  /\ writer[w].pc = "host" /\ HostFree
  /\ locks' = [locks EXCEPT !.host = w]
  /\ turns' = Append(turns, [text |-> writer[w].rest, done |-> FALSE])
  /\ writer' = [writer EXCEPT ![w].pc = "chunk", ![w].index = IF chunks = <<>> THEN 1 ELSE Len(chunks), ![w].turn = Len(turns')]
  /\ UNCHANGED <<chunks, cuts, kills>>
\* A full file is passed over; a new one gets its header first.
Chunk(w) ==
  /\ writer[w].pc = "chunk"
  /\ IF SizeOf(writer[w].index) >= Limit
     THEN writer' = [writer EXCEPT ![w].index = @ + 1] /\ UNCHANGED chunks
     ELSE /\ chunks' = IF writer[w].index > Len(chunks) THEN Append(chunks, <<>>) ELSE chunks
          /\ writer' = [writer EXCEPT ![w].pc = "append"]
  /\ UNCHANGED <<locks, turns, cuts, kills>>
Write(w) ==
  /\ writer[w].pc = "append"
  /\ LET i == writer[w].index
         n == PrefixLength(writer[w].rest, Limit - SizeOf(i))
         rest == SubSeq(writer[w].rest, n + 1, Len(writer[w].rest))
     IN /\ chunks' = [chunks EXCEPT ![i] = @ \o SubSeq(writer[w].rest, 1, n)]
        /\ cuts' = IF rest = <<>> THEN cuts ELSE Append(cuts, [chunk |-> i, from |-> Len(chunks[i]), to |-> Len(chunks'[i])])
        /\ writer' = [writer EXCEPT ![w].rest = rest, ![w].index = IF rest = <<>> THEN @ ELSE @ + 1,
                                    ![w].pc = IF rest = <<>> THEN "written" ELSE "chunk"]
  /\ UNCHANGED <<locks, turns, kills>>
Release(w) == locks' = [of |-> [p \in Processes |-> IF locks.of[p] = w THEN Nobody ELSE locks.of[p]],
                        host |-> IF locks.host = w THEN Nobody ELSE locks.host]
Finish(w) ==
  /\ writer[w].pc = "written" /\ Release(w)
  /\ turns' = [turns EXCEPT ![writer[w].turn].done = TRUE]
  /\ writer' = [writer EXCEPT ![w] = Waiting]
  /\ UNCHANGED <<chunks, cuts, kills>>
\* The process goes, in an append even, with all its threads and locks.
Kill(p) ==
  /\ kills < MaxKills /\ kills' = kills + 1
  /\ \E w \in Writers : ProcessOf(w) = p /\ writer[w].pc # "idle"
  /\ writer' = [w \in Writers |-> IF ProcessOf(w) = p THEN Waiting ELSE writer[w]]
  /\ locks' = [of |-> [locks.of EXCEPT ![p] = Nobody],
               host |-> IF locks.host # Nobody /\ ProcessOf(locks.host) = p THEN Nobody ELSE locks.host]
  /\ \/ UNCHANGED chunks
     \/ \E w \in Writers :
          /\ ProcessOf(w) = p /\ writer[w].pc = "append"
          /\ \E n \in 1..(PrefixLength(writer[w].rest, Limit - SizeOf(writer[w].index))) :
               chunks' = [chunks EXCEPT ![writer[w].index] = @ \o SubSeq(writer[w].rest, 1, n)]
  /\ UNCHANGED <<turns, cuts>>

TInit == /\ chunks = <<>> /\ locks = [of |-> [p \in Processes |-> Nobody], host |-> Nobody]
         /\ writer = [w \in Writers |-> Waiting] /\ turns = <<>> /\ cuts = <<>> /\ kills = 0
TNext == (\E p \in Processes : Kill(p)) \/ (\E w \in Writers : \E x \in Texts : Begin(w, x))
         \/ (\E w \in Writers : LockThread(w) \/ LockHost(w) \/ Chunk(w) \/ Write(w) \/ Finish(w))
TSpec == TInit /\ [][TNext]_tvars

---------------------------------------------------------------------------
Whole == FoldLeft(LAMBDA a, b : a \o b, <<>>, chunks)
\* The text is these turns one after the other, each whole unless its writer has not finished it.
Spells(text, given) ==
  LET Told(t) == IF t.done THEN {Len(t.text)} ELSE 0..Len(t.text)
      Fits(t, from, n) == from + n <= Len(text) /\ SubSeq(text, from + 1, from + n) = SubSeq(t.text, 1, n)
      \* where the first k turns may end
      EndsOf[k \in 0..Len(given)] ==
        IF k = 0 THEN {0}
        ELSE UNION {{from + n : n \in {n \in Told(given[k]) : Fits(given[k], from, n)}} : from \in EndsOf[k - 1]}
  IN Len(text) \in EndsOf[Len(given)]
\* No file outgrows its limit, and a word is cut in two only where nothing but it was left to write there.
ChunksAreWithinBounds ==
  /\ \A i \in DOMAIN chunks : SizeOf(i) <= Limit
  /\ \A c \in Range(cuts) :
       LET left == SubSeq(chunks[c.chunk], c.from + 1, c.to)
           next == IF c.chunk < Len(chunks) /\ chunks[c.chunk + 1] # <<>> THEN chunks[c.chunk + 1][1] ELSE [space |-> TRUE]
       IN left # <<>> /\ ~next.space => \A k \in 2..Len(left) : ~left[k].space
\* The chunks one after the other are the turns in the order they were begun: none is torn apart by
\* another, none repeated, and only the last of a process that was killed is short.
\* No chunk outgrows its bound.
TurnsAreKeptInOrder == Spells(Whole, turns) /\ ChunksAreWithinBounds
-------------------------------------------------------------------------------
(***************************************************************************)
(* What the Hermes provider puts before a turn (prefetch and _recall_hits  *)
(* of hermes_provider.py): ever wider windows of a ranked search, from     *)
(* which stubs, repeated copies, quoted job prompts and whatever quotes a  *)
(* forgotten value are taken; only when nothing is left the poorer hits.   *)
(***************************************************************************)
CONSTANTS Windows, Want

VARIABLES ranked, asked, told
pvars == <<ranked, asked, told>>

\* A hit: [kind, copy, prompt, forgotten].  kind "stub" or "template" is an entity page without facts;
\* copy is the key that collapses copies; prompt is "no", "reply" (the snippet runs on into the
\* run's reply) or "all".
First(hits, n) == SubSeq(hits, 1, IF n < Len(hits) THEN n ELSE Len(hits))

(* ---- _demote_cron_prompt_hits: prompts behind the rest, replies kept ---- *)
Demote(hits) == SelectSeq(hits, LAMBDA h : h.prompt # "all") \o SelectSeq(hits, LAMBDA h : h.prompt = "all")
(* ---- _filter_stub_hits ---- *)
Facts(hits, keepTemplates) ==
  LET kept == SelectSeq(hits, LAMBDA h : h.kind \notin {"stub", "template"})
  IN IF kept # <<>> \/ ~keepTemplates THEN kept ELSE SelectSeq(hits, LAMBDA h : h.kind = "template")
(* ---- _diversify_hits: the first copy of each, prompts left out or last ---- *)
Boilerplate(h) == h.prompt = "all" \/ h.kind = "preamble"
Copies(hits) == LET firsts == {i \in DOMAIN hits : \A j \in 1..(i - 1) : hits[j].copy # hits[i].copy}
                IN [k \in 1..Cardinality(firsts) |-> hits[SetToSortSeq(firsts, <)[k]]]
Diverse(hits, keepBoilerplate) ==
  SelectSeq(Copies(hits), LAMBDA h : ~Boilerplate(h))
  \o (IF keepBoilerplate THEN SelectSeq(Copies(hits), Boilerplate) ELSE <<>>)
(* ---- _drop_forgotten ---- *)
Remembered_BeforeTheCut(hits) == SelectSeq(First(hits, Want), LAMBDA h : ~h.forgotten)
Remembered(hits) == First(SelectSeq(hits, LAMBDA h : ~h.forgotten), Want)

(* ---- _recall_hits ---- *)
Raw(w) == Demote(First(ranked, w))
Good(w) == Remembered(Diverse(Facts(Raw(w), FALSE), FALSE))
Settles(k) == \/ Len(Good(Windows[k])) >= Want \/ Len(Raw(Windows[k])) < Windows[k]
              \/ k > 1 /\ Len(Raw(Windows[k])) = Len(Raw(Windows[k - 1]))
LastWindow_First == 1
LastWindow == Min({k \in DOMAIN Windows : Settles(k) \/ k = Len(Windows)})
Recalled ==
  LET w == Windows[LastWindow]
  IN IF Good(w) # <<>> THEN First(Good(w), Want) ELSE Remembered(Diverse(Facts(Raw(w), TRUE), TRUE))

Prefetch == ~asked /\ asked' = TRUE /\ told' = Recalled /\ UNCHANGED ranked
Again == asked /\ asked' = FALSE /\ told' = <<>> /\ UNCHANGED ranked
PInit(rankings) == ranked \in rankings /\ asked = FALSE /\ told = <<>>
PNext == Prefetch \/ Again

---------------------------------------------------------------------------
Plain(h) == h.kind = "plain" /\ h.prompt # "all" /\ ~h.forgotten
Widest == Range(First(ranked, Windows[Len(Windows)]))
\* The good copies in the widest window; copies are one hit, so one of them forgotten or quoting a
\* preamble may stand for the others.
GoodCopies == {h.copy : h \in {x \in Widest : Plain(x)}} \ {h.copy : h \in {x \in Widest : x.kind = "preamble" \/ x.forgotten}}
\* Before a turn nothing forgotten is recalled and nothing twice; a quoted prompt or a page without
\* facts only when the widest window holds no other hit; and of good hits as many as it wants, if the
\* widest window holds that many, best first.
RecallPrefersFacts ==
  asked =>
    /\ Len(told) <= Want
    /\ \A i, j \in DOMAIN told : i # j => told[i].copy # told[j].copy
    /\ \A h \in Range(told) : ~h.forgotten /\ h.kind # "stub"
    /\ (\E h \in Range(told) : ~Plain(h)) => GoodCopies = {}
    /\ Cardinality({h \in Range(told) : Plain(h)}) >= Min({Want, Cardinality(GoodCopies)})
    /\ \A i \in DOMAIN told : \A h \in {x \in Widest : Plain(x) /\ x.copy \in GoodCopies} :
         (Plain(told[i]) /\ h.rank < told[i].rank) => \E j \in 1..(i - 1) : told[j].copy = h.copy
===============================================================================
