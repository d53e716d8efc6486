---------------------------- MODULE SearchPipeline ----------------------------
(***************************************************************************)
(* What a search returns (core.search, search.py, rrf.py).  Text is a      *)
(* sequence of words; a query may end, or be, the beginning of a longer    *)
(* word of the text, which str.find sees and the tokenizer does not.  The  *)
(* fast paths (the bloom filter's early exit, the inverted index, the heap *)
(* of the best k) are set against a scan of every document.  Scores are    *)
(* per cent, and rounded: BM25, phrase, heading and recency move a matching*)
(* document's score but never make one match, and are left out.            *)
(***************************************************************************)
EXTENDS Integers, Sequences, FiniteSets, SequencesExt, FiniteSetsExt

CONSTANTS
  Docs,          \* documents [file, name, words, alike]; name is the stem in words
  Queries,       \* sequences of words
  Begins,        \* pairs of words: the first is a proper beginning of the second
  Stopwords,
  AliasOf,       \* canonical word of each word that has one
  Limits,        \* values of top_k
  Smoothing,     \* RRF_K
  MaxDocs        \* bound on the corpus

VARIABLES
  corpus,        \* the files in the index's order
  asked,         \* [api, query, fuzzy, limit]
  answer, done

qvars == <<corpus, asked, answer, done>>

\* substring: all words equal but the last, which the query may cut short.
Within(query, text) ==
  \E at \in 0..(Len(text) - Len(query)) : \A k \in DOMAIN query :
    \/ query[k] = text[at + k]
    \/ k = Len(query) /\ <<query[k], text[at + k]>> \in Begins
\* The query's tokens, each followed by what its alias stands for.
Expanded(query) ==
  LET canon == {AliasOf[w] : w \in ToSet(query) \cap DOMAIN AliasOf} IN
  ToSet(query) \union canon \union {w \in DOMAIN AliasOf : AliasOf[w] \in canon}

\* The signals of one document.
Exact(d, query) ==
  Max({IF Within(query, d.words) THEN 100 ELSE 0, IF Within(query, d.name) THEN 80 ELSE 0})
Tokens(d, query) ==
  (100 * Cardinality(Expanded(query) \cap (ToSet(d.words) \union ToSet(d.name))))
    \div Cardinality(Expanded(query))
Matches(d, query, fuzzy) == Exact(d, query) > 0 \/ Tokens(d, query) > 0 \/ (fuzzy /\ d.alike)
Score(d, query, fuzzy) ==
  LET exact == Exact(d, query)
      token == Tokens(d, query)
  IN IF exact > 0 THEN Max({exact, (55 * exact + 45 * token) \div 100})
     ELSE (75 * token + (IF fuzzy /\ d.alike THEN 25 * 40 ELSE 0)) \div 100

\* The early exit: no token in the bloom set, the query in no file name.
Indexed(docs) == UNION {ToSet(d.words) \union ToSet(d.name) : d \in ToSet(docs)}
Barren(docs, query, fuzzy) ==
  /\ ~fuzzy /\ Expanded(query) \cap Indexed(docs) = {}
  /\ ~\E d \in ToSet(docs) : Within(query, d.name)
\* The inverted index: documents with a token, or the query in their name.
Candidate_ByContent(d, query) == Expanded(query) \cap ToSet(d.words) # {}
Candidate(d, query) ==
  \/ Expanded(query) \cap (ToSet(d.words) \union ToSet(d.name)) # {}
  \/ Within(query, d.name)
Selected(docs, query, fuzzy) ==
  IF fuzzy THEN docs
  ELSE IF Barren(docs, query, fuzzy) THEN <<>>
  ELSE SelectSeq(docs, LAMBDA d : Candidate(d, query))

Scored(docs, query, fuzzy) ==
  LET hits == SelectSeq(docs, LAMBDA d : Matches(d, query, fuzzy)) IN
  [i \in DOMAIN hits |-> [file |-> hits[i].file, key |-> hits[i].name, score |-> Score(hits[i], query, fuzzy)]]

\* One result for each key: a later one takes the place of a lower score.
Merged(key, results) ==
  LET place(acc, r) ==
        LET same == {i \in DOMAIN acc : acc[i][key] = r[key]} IN
        IF same = {} THEN Append(acc, r)
        ELSE LET i == CHOOSE j \in same : TRUE IN
             IF r.score > acc[i].score THEN [acc EXCEPT ![i] = r] ELSE acc
  IN FoldLeft(place, <<>>, results)
\* sorted(reverse=True) and heapq.nlargest with the index as tie-breaker.
Sorted(results) ==
  LET before(i, j) == \/ results[i].score > results[j].score
                      \/ results[i].score = results[j].score /\ i < j
      order == SetToSortSeq(DOMAIN results, before)
  IN [k \in DOMAIN order |-> results[order[k]]]
Top(results, limit) == SubSeq(results, 1, Min({limit, Len(results)}))

Search(docs, query, fuzzy) ==
  Sorted(Merged("key", Scored(Selected(docs, query, fuzzy), query, fuzzy)))

\* search_v2: keyword variants, then the best score of each file.
Variants(query) ==
  LET words == SelectSeq(query, LAMBDA w : w \notin Stopwords) IN
  IF words = <<>> \/ words = query THEN <<>> ELSE <<words>>
Batches(docs, query, fuzzy, limit) ==
  LET all == <<query>> \o Variants(query) IN [i \in DOMAIN all |-> Top(Search(docs, all[i], fuzzy), limit)]
SearchV2(docs, query, fuzzy, limit) ==
  Top(Sorted(Merged("file", FlattenSeq(Batches(docs, query, fuzzy, limit)))), limit)

\* rrf_fuse: one over (k + rank), the best rank of each list, over a common
\* denominator; first seen first among equals.
Ranks(list, file) == {i \in DOMAIN list : list[i].file = file}
Share_Growing(rank) == Smoothing + rank
Share(rank) == LET others == (1..(2 * MaxDocs)) \ {rank} IN FoldSet(LAMBDA r, acc : acc * (Smoothing + r), 1, others)
Contribution(list, file) == IF Ranks(list, file) = {} THEN 0 ELSE Share(Min(Ranks(list, file)))
Fused(lists) ==
  LET total(file) == FoldLeft(LAMBDA acc, l : acc + Contribution(l, file), 0, lists)
      first(acc, r) == IF r.file \in {acc[i].file : i \in DOMAIN acc} THEN acc ELSE Append(acc, r)
      seen == FoldLeft(first, <<>>, FlattenSeq(lists))
  IN Sorted([i \in DOMAIN seen |-> [seen[i] EXCEPT !.score = total(seen[i].file)]])
SearchRRF(docs, query, fuzzy, limit) ==
  LET all == <<query>> \o Variants(query)
      runs == [i \in DOMAIN all |-> Search(docs, all[i], fuzzy)]
  IN Top(Fused(SelectSeq(runs, LAMBDA l : l # <<>>)), limit)

\* search_ranked with a floor that never leaves the caller empty-handed.
SearchRanked(docs, query, fuzzy, limit, floor) ==
  LET base == Search(docs, query, fuzzy)
      above == SelectSeq(base, LAMBDA r : r.score >= floor)
  IN Top(IF above # <<>> THEN above ELSE base, limit)

-----------------------------------------------------------------------------

Corpora == {c \in UNION {[1..n -> Docs] : n \in 1..MaxDocs} : IsInjective(c)}
Apis == {"search", "search_v2", "search_ranked", "search_rrf"}

QInit ==
  /\ corpus \in Corpora
  /\ asked \in [api : Apis, query : Queries, fuzzy : BOOLEAN, limit : Limits]
  /\ answer = <<>> /\ done = FALSE

Answer(api, result) ==
  /\ ~done /\ asked.api = api /\ done' = TRUE /\ answer' = result /\ UNCHANGED <<corpus, asked>>

QNext ==
  \/ Answer("search", Top(Search(corpus, asked.query, asked.fuzzy), asked.limit))
  \/ Answer("search_v2", SearchV2(corpus, asked.query, asked.fuzzy, asked.limit))
  \/ Answer("search_ranked", SearchRanked(corpus, asked.query, asked.fuzzy, asked.limit, 50))
  \/ Answer("search_rrf", SearchRRF(corpus, asked.query, asked.fuzzy, asked.limit))

QSpec == QInit /\ [][QNext]_qvars

-----------------------------------------------------------------------------

\* The reference: every document scored, and the answer judged, not computed.
Scan == {d \in ToSet(corpus) : Matches(d, asked.query, asked.fuzzy)}
\* Documents the query is only a part of a word in: the gap core.py:1343 names.
CutShort == {d \in Scan : ~asked.fuzzy /\ Tokens(d, asked.query) = 0 /\ ~Within(asked.query, d.name)}
Files(results) == {results[i].file : i \in DOMAIN results}

IsTheBestOf(docs, results, limit) ==
  LET stems == {d.name : d \in docs}
      best(n) == Max({Score(d, asked.query, asked.fuzzy) : d \in {x \in docs : x.name = n}})
  IN /\ Len(results) = Min({limit, Cardinality(stems)})
     /\ \A i, j \in DOMAIN results : i < j => /\ results[i].score >= results[j].score
                                             /\ results[i].key # results[j].key
     /\ \A i \in DOMAIN results : results[i].score = best(results[i].key)
     /\ \A n \in stems : \/ \E i \in DOMAIN results : results[i].key = n
                         \/ \A i \in DOMAIN results : results[i].score >= best(n)

\* The fast paths return what the scan of every document would, best first,
\* one per stem, but for documents the query only begins a word of.
FastPathsFindTheBest ==
  done /\ asked.api = "search" => IsTheBestOf({d \in Scan : d \notin CutShort}, answer, asked.limit)

\* "the prefilter never drops an exact-substring hit" (core.py:1335).
PrefilterKeepsExactHits ==
  done /\ asked.api = "search" =>
    \A d \in Scan : Within(asked.query, d.words) => \E i \in DOMAIN answer : answer[i].key = d.name \/ Len(answer) = asked.limit

\* Expansion and fusion: no file twice, and a file that every run that found
\* one of two files ranked first is not ranked second.
FusionAgreesWithItsRuns ==
  LET all == <<asked.query>> \o Variants(asked.query)
      runs == [i \in DOMAIN all |-> Search(corpus, all[i], asked.fuzzy)]
      place(l, f) == IF Ranks(l, f) = {} THEN 100 ELSE Min(Ranks(l, f))
  IN /\ done /\ asked.api \in {"search_v2", "search_rrf"} =>
          /\ Cardinality(Files(answer)) = Len(answer)
          /\ Len(answer) = Min({asked.limit, Cardinality(UNION {Files(runs[i]) : i \in DOMAIN runs})})
     /\ done /\ asked.api = "search_rrf" =>
          \A i, j \in DOMAIN answer : i < j =>
            ~(\A l \in ToSet(runs) : place(l, answer[j].file) < place(l, answer[i].file))
-------------------------------------------------------------------------------
(***************************************************************************)
(* agentic_search and lookup of core.py over a small memory.  A query is   *)
(* cut into sub-queries, each is searched, the links of what was found are *)
(* followed for a few hops, the scores are adjusted, a weak first result   *)
(* asks for the whole query once more, and the best results are filed back *)
(* into the notes.  Scores are tenths; what search answers is an input.    *)
(***************************************************************************)
CONSTANTS Pages, Shelves, High, MaxHops, MaxFiled

VARIABLES
  memory,   \* per page: [shelf, links, hits (score per sub-query), whole, says, tier, listed]
  sought,    \* the call: agentic_search or lookup, with its arguments
  listing,   \* the results, in order
  filed     \* the feedback entries written: [query, page], in order
xvars == <<memory, sought, listing, filed>>

Subs == {1, 2}
Nothing == [ask |-> "nothing"]
Least(a, b) == IF a < b THEN a ELSE b
Best(p) == Max({memory[p].hits[s] : s \in Subs})

(* ---- steps 2 and 3: the sub-queries' hits, then the links they hold ---- *)
Found == {p \in Pages : Best(p) > 0}
\* A linked page is scored by the query's words and sub-queries it contains.
HopScore(p) == Least(3 * memory[p].says.words + 5 * memory[p].says.subs, 10)
Frontier_FirstOnly(found, hops) == found
Frontier(found, hops) == found \cup hops
\* One state of the traversal: what was visited, and what of it scored.
Step(t) ==
  LET new == UNION {memory[p].links : p \in Frontier(Found, t.hops)} \ t.visited
  IN [visited |-> t.visited \cup new, hops |-> t.hops \cup {p \in new : HopScore(p) > 0}]
Traversal(hops) ==
  LET After[n \in 0..hops] == IF n = 0 THEN [visited |-> Found, hops |-> {}] ELSE Step(After[n - 1])
  IN After[hops]

(* ---- steps 4 and 5: the order, and the second search ---- *)
Bonus(p) == CASE memory[p].tier = "core" -> 1 [] memory[p].tier = "archival" -> -1 [] OTHER -> 0
Entry(p, score, how) == [page |-> p, score |-> score, how |-> how]
Ranked(entries) == SetToSortSeq(entries, LAMBDA a, b : a.score > b.score)
First(hops) == {Entry(p, Least(10, Best(p) + Bonus(p)), "hit") : p \in Found}
               \cup {Entry(p, Least(10, HopScore(p) + Bonus(p)), "hop") : p \in Traversal(hops).hops}
\* Only the sub-queries' own results are compared with: a page found by a link may be listed again.
Again == {Entry(p, memory[p].whole, "again") : p \in {q \in Pages : memory[q].whole > 0} \ Found}
Weak(entries) == entries # {} /\ Max({e.score : e \in entries}) < 5
Listed(hops) == First(hops) \cup IF Weak(First(hops)) THEN Again ELSE {}

(* ---- file_back_results: the first results, into their own timelines ---- *)
FileBack(results) == filed' = filed \o [i \in 1..Least(MaxFiled, Len(results)) |-> results[i].page]

Agentic(hops, back) ==
  /\ sought = Nothing
  /\ sought' = [ask |-> "agentic", hops |-> hops]
  /\ listing' = Ranked(Listed(hops))
  /\ IF back THEN FileBack(Ranked(Listed(hops))) ELSE UNCHANGED filed
  /\ UNCHANGED memory

(* ---- lookup: shelf after shelf, and no further once two high ones answered ---- *)
LinkMatches(shelf) == {p \in Pages : memory[p].shelf = shelf /\ memory[p].says.subs > 0}
Enough_One(high) == high >= 1
Enough(high) == high >= 2
Look(t, shelf, brainFirst) ==
  IF t.stop \/ (brainFirst /\ Enough(t.high) /\ shelf \notin High) THEN [t EXCEPT !.stop = TRUE]
  ELSE [t EXCEPT !.pages = @ \o SetToSeq(LinkMatches(shelf)),
                 !.high = @ + IF shelf \in High THEN Cardinality(LinkMatches(shelf)) ELSE 0]
Lookup(brainFirst) ==
  /\ sought = Nothing
  /\ sought' = [ask |-> "lookup", brainFirst |-> brainFirst]
  /\ listing' = FoldLeft(LAMBDA t, s : Look(t, s, brainFirst), [pages |-> <<>>, high |-> 0, stop |-> FALSE], Shelves).pages
  /\ UNCHANGED <<memory, filed>>
Next1 == sought # Nothing /\ sought' = Nothing /\ listing' = <<>> /\ filed' = <<>> /\ UNCHANGED memory

XInit(memories) == memory \in memories /\ sought = Nothing /\ listing = <<>> /\ filed = <<>>
XNext == (\E hops \in 0..MaxHops, back \in BOOLEAN : Agentic(hops, back)) \/ (\E b \in BOOLEAN : Lookup(b)) \/ Next1

---------------------------------------------------------------------------
\* A chain of links through pages that answer, from a hit, of at most n links.
Reaches(p, n) ==
  LET Far[k \in 0..n] == IF k = 0 THEN Found
        ELSE Far[k - 1] \cup {q \in Pages : HopScore(q) > 0 /\ \E r \in Far[k - 1] : q \in memory[r].links}
  IN p \in Far[n]
\* The search lists exactly the hits and what answering links lead to within its hops, each once, and
\* a second search adds pages only when nothing scored half.
SearchReachesTheLinked ==
  sought # Nothing /\ sought.ask = "agentic" =>
    /\ {e.page : e \in {x \in Range(listing) : x.how # "again"}} = {p \in Pages : Reaches(p, sought.hops)}
    /\ \A i, j \in DOMAIN listing : (i < j /\ listing[i].page = listing[j].page) => "again" \in {listing[i].how, listing[j].how}
    /\ \A p \in Range(filed) : \E e \in Range(listing) : e.page = p
\* However early it stops, a brain-first lookup leaves out nothing when fewer than two pages of the
\* first shelves match, and never a page of those.
EarlyStopsHadEnough ==
  sought # Nothing /\ sought.ask = "lookup" =>
    LET all == {p \in Pages : memory[p].says.subs > 0}
        high == {p \in all : memory[p].shelf \in High}
    IN /\ high \subseteq Range(listing)
       /\ (Range(listing) # all => sought.brainFirst /\ Cardinality(high) >= 2)
===============================================================================
