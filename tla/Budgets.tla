------------------------------- MODULE Budgets -------------------------------
(***************************************************************************)
(* The compilers that pack what they found into a budget: a context of     *)
(* five sections (context_compiler.py), windows of evidence                *)
(* (evidence_context.py), a block of lines (context_compress.py) and the   *)
(* reasoning block for a task (reasoning_bank.py).  A text is its size, and*)
(* a rendered record the bytes its JSON takes.                             *)
(***************************************************************************)
EXTENDS Integers, Sequences, FiniteSets, SequencesExt, FiniteSetsExt

CONSTANTS
  ItemBytes, GateBytes, FocusBytes, AuthorityBytes,  \* rendered records
  Limits,             \* budgets a caller may pass
  Reserves,           \* what it may set aside for a section
  BodyBytes, TimeBytes,  \* a record of evidence and its optional source_time
  Widths, Lengths     \* windows, and lines of a file, in characters

VARIABLES asked, answer
zvars == <<asked, answer>>

Nothing == <<>>
Tokens(bytes) == (bytes + 3) \div 4
Least(a, b) == IF a < b THEN a ELSE b
Most(a, b) == IF a > b THEN a ELSE b
Total(s) == FoldLeft(LAMBDA sum, n : sum + n, 0, s)

(* ---- compile_context ---- *)
Content == <<"truth", "timeline", "session">>
NameBytes == [truth |-> 5, timeline |-> 8, session |-> 7, focus |-> 5, authority |-> 9, execution |-> 9]
SourceBytes == [a |-> 1, b |-> 1, current_focus |-> 13, decision_authority |-> 18]
Empty == [n \in DOMAIN NameBytes |-> <<>>]

Cited(sections) == UNION {{sections[n][i].source : i \in DOMAIN sections[n]} : n \in DOMAIN sections} \ {"gate"}
\* {"sections":{...},"sources":[...]} without spaces.
SectionBytes(n, items) == NameBytes[n] + 4 + Len(items) + Total([i \in DOMAIN items |-> items[i].bytes])
Rendered(sections, cited) ==
  LET present == {n \in DOMAIN sections : sections[n] # <<>>}
  IN IF present = {} /\ cited = {} THEN 0
     ELSE Tokens(28 + MapThenSumSet(LAMBDA n : SectionBytes(n, sections[n]), present) + Most(Cardinality(present) - 1, 0)
                    + MapThenSumSet(LAMBDA s : SourceBytes[s] + 2, cited) + Most(Cardinality(cited) - 1, 0))

Enabled(a) == a.goal /\ a.execution > 0
Reserved(a) == IF Enabled(a) THEN a.execution ELSE 0
AcceptsBudgets(a) == /\ a.focus > 0 => a.focus < a.budget - a.execution
                     /\ a.authority > 0 => a.authority < a.budget - a.execution - a.focus

ContentBudget_TakesAll(a) == a.budget - a.focus - a.authority
ContentBudget(a) == a.budget - Reserved(a) - a.focus - a.authority

\* Pinned sources first, then the useful, then the baseline order.
Ranked(items) == SortSeq([i \in DOMAIN items |-> <<i, items[i]>>],
                         LAMBDA x, y : \/ x[2].pinned /\ ~y[2].pinned
                                       \/ x[2].pinned = y[2].pinned /\ x[2].score > y[2].score
                                       \/ x[2].pinned = y[2].pinned /\ x[2].score = y[2].score /\ x[1] < y[1])
\* An item that does not fit is passed over and the next one is tried.
Grown(sections, name, item) == [sections EXCEPT ![name] = Append(@, item)]
Pack(sections, name, items, within) ==
  FoldLeft(LAMBDA acc, item : LET more == Grown(acc, name, item)
                              IN IF Rendered(more, Cited(more)) <= within THEN more ELSE acc,
           sections, items)
PackContent(a) ==
  FoldLeft(LAMBDA acc, name :
             Pack(acc, name, [i \in DOMAIN a.rows[name] |-> Ranked(a.rows[name])[i][2]],
                  ContentBudget(a)),
           Empty, Content)
\* A reserved section is capped by its own budget and by the kind's ceiling.
PackReserved(a, sections, name, items, own, ceiling, within, most) ==
  FoldLeft(LAMBDA acc, item : LET more == Grown(acc, name, item)
                              IN IF /\ Len(more[name]) <= most
                                    /\ Rendered([Empty EXCEPT ![name] = more[name]], {}) <= Least(own, ceiling)
                                    /\ Rendered(more, Cited(more)) <= within
                                 THEN more ELSE acc,
           sections, items)
PackFocus(a, sections) ==
  PackReserved(a, sections, "focus", a.topics, a.focus, 200, a.budget - Reserved(a), Len(a.topics))
PackAuthority(a, sections) ==
  PackReserved(a, sections, "authority", a.grants, a.authority, 300, a.budget - Reserved(a), Len(a.grants))
PackExecution(a, sections) ==
  IF Enabled(a)
  THEN PackReserved(a, sections, "execution", SelectSeq(a.gates, LAMBDA g : g.required /\ g.pending),
                    a.execution, 400, a.budget, 8)
  ELSE sections
Compile(a) ==
  IF ~AcceptsBudgets(a) THEN Nothing
  ELSE LET all == PackExecution(a, PackAuthority(a, PackFocus(a, PackContent(a))))
       IN [sections |-> all, tokens |-> Rendered(all, Cited(all))]

(* ---- compile_evidence_context ---- *)
\* Undated hits keep their place behind the dated ones.
TemporalOrder(hits, intent) ==
  LET dated == SelectSeq(hits, LAMBDA h : h.time > 0)
      undated == SelectSeq(hits, LAMBDA h : h.time = 0)
      ascending == SortSeq(dated, LAMBDA x, y : x.time < y.time \/ (x.time = y.time /\ x.rank < y.rank))
      newest == SortSeq(dated, LAMBDA x, y : x.time > y.time \/ (x.time = y.time /\ x.rank < y.rank))
      ends == <<Last(ascending), Head(ascending)>>
  IN CASE intent = "neutral" -> hits
       [] intent = "past" -> ascending \o undated
       [] intent = "latest" -> newest \o undated
       [] intent = "change" -> IF Len(dated) < 2 THEN dated \o undated
                               ELSE ends \o SelectSeq(newest, LAMBDA h : h \notin ToSet(ends)) \o undated
Ordered(hits, intent) == TemporalOrder(SelectSeq(hits, LAMBDA h : h.anchored), intent)
                           \o TemporalOrder(SelectSeq(hits, LAMBDA h : ~h.anchored), intent)

EvidenceTokens(records) ==
  Tokens(Total([i \in DOMAIN records |-> records[i].bytes + IF records[i].time THEN TimeBytes ELSE 0])
         + Most(Len(records) - 1, 0))
\* Without its own time first; then earlier records lose theirs, last first, until it fits.
Reclaimed_Everything(records, budget) == [i \in DOMAIN records |-> [records[i] EXCEPT !.time = FALSE]]
Reclaimed(records, budget) ==
  LET without(k) == [i \in DOMAIN records |-> IF i >= k THEN [records[i] EXCEPT !.time = FALSE] ELSE records[i]]
      enough == {k \in DOMAIN records : EvidenceTokens(without(k)) <= budget}
  IN without(IF enough = {} THEN 1 ELSE Max(enough))
Offer(acc, hit, nth, budget) ==
  LET full == Append(acc.records, [file |-> hit.rank, window |-> nth, bytes |-> hit.windows[nth], time |-> hit.time > 0])
      records == IF EvidenceTokens(full) <= budget THEN full ELSE Reclaimed(full, budget)
  IN IF nth > Len(hit.windows) THEN acc
     ELSE IF EvidenceTokens(records) <= budget THEN [acc EXCEPT !.records = records]
     ELSE IF nth = 1 THEN [acc EXCEPT !.omitted = @ \cup {hit.rank}] ELSE acc
\* Every file's first window comes before any file's second.
CompileEvidence(a) ==
  LET hits == Ordered(a.hits, a.intent)
      rounds == FoldLeft(LAMBDA m, h : Most(m, Len(h.windows)), 0, hits)
  IN FoldLeft(LAMBDA acc, nth : FoldLeft(LAMBDA acc1, h : Offer(acc1, h, nth, a.budget), acc, hits),
              [records |-> <<>>, omitted |-> {}], [n \in 1..rounds |-> n])

\* A token's window is its line with its neighbours when that fits, and a cut around it when not.
Windows(a) ==
  LET n == Len(a.lines)
      offset(i) == Total(SubSeq(a.lines, 1, i - 1))
      around(i) == <<offset(Most(1, i - a.adjacent)), offset(Least(n, i + a.adjacent) + 1)>>
      cut(i, first, last) ==
        LET start == Most(offset(i), offset(i) + first - Most(0, (a.width - (last - first)) \div 2))
            end == Least(offset(i + 1), start + a.width)
        IN <<Most(offset(i), end - a.width), end>>
      candidates == {IF around(t.line)[2] - around(t.line)[1] <= a.width THEN around(t.line)
                     ELSE cut(t.line, t.at, t.at + t.size) : t \in a.tokens}
      sorted == SetToSortSeq(candidates, LAMBDA x, y : x[1] < y[1] \/ (x[1] = y[1] /\ x[2] < y[2]))
  IN FoldLeft(LAMBDA acc, w :
                IF acc # <<>> /\ w[1] <= Last(acc)[2] /\ w[2] - Last(acc)[1] <= a.width
                THEN [acc EXCEPT ![Len(acc)][2] = Most(@, w[2])] ELSE Append(acc, w),
              <<>>, sorted)

(* ---- compress_context: one line per fact, best first, cut at the budget ---- *)
Compress(a) ==
  LET sorted == SortSeq([i \in DOMAIN a.rows |-> [a.rows[i] EXCEPT !.rank = i]],
                        LAMBDA x, y : x.score > y.score \/ (x.score = y.score /\ x.rank < y.rank))
      kept == FoldLeft(LAMBDA acc, r : IF Len(acc) < a.most /\ \A k \in DOMAIN acc : acc[k].key # r.key
                                       THEN Append(acc, r) ELSE acc, <<>>, sorted)
      used(k) == Total([i \in 1..k |-> kept[i].size + 1])
      taken == {k \in DOMAIN kept : \A j \in 2..k : used(j) <= a.chars}
      chosen == SubSeq(kept, 1, IF taken = {} THEN 0 ELSE Max(taken))
  IN [chosen |-> chosen, size |-> Least(a.chars, Most(used(Len(chosen)) - 1, 0)), kept |-> kept]

(* ---- reasoning_inject_for_task ---- *)
\* Failures come before successes; an item past the cap, or too long, is counted and passed over.
Inject(a) ==
  LET hits == a.failures \o a.successes
      kind(i) == IF i <= Len(a.failures) THEN "failure" ELSE "success"
      good == SelectSeq([i \in DOMAIN hits |-> [key |-> hits[i].key, size |-> hits[i].size, score |-> hits[i].score, kind |-> kind(i)]],
                        LAMBDA h : h.score >= a.floor)
      fresh == FoldLeft(LAMBDA acc, h : IF \E k \in DOMAIN acc : acc[k].key = h.key THEN acc ELSE Append(acc, h), <<>>, good)
      add(acc, h) ==
        LET title == IF \E k \in DOMAIN acc.emitted : acc.emitted[k].kind = h.kind THEN 0 ELSE a.title + 1
        IN IF Len(acc.emitted) >= a.items THEN [acc EXCEPT !.capped = @ + 1]
           ELSE IF acc.size + title + h.size + 1 <= a.chars
                THEN [acc EXCEPT !.size = @ + title + h.size + 1, !.emitted = Append(@, h)]
                ELSE [acc EXCEPT !.squeezed = @ + 1]
      all == FoldLeft(add, [size |-> a.header, emitted |-> <<>>, capped |-> 0, squeezed |-> 0], fresh)
      none == all.emitted = <<>>
  IN [emitted |-> all.emitted, chars |-> IF none THEN 0 ELSE all.size, candidates |-> Len(hits),
      weak |-> Len(hits) - Len(good), doubles |-> Len(good) - Len(fresh), squeezed |-> all.squeezed,
      capped |-> Most(all.capped, IF Len(fresh) > a.items THEN Most(0, Len(fresh) - Len(all.emitted) - all.squeezed) ELSE 0)]

(* ---- the questions ---- *)
UpTo(n, S) == UNION {[1..k -> S] : k \in 0..n}
Rows == {[bytes |-> n, source |-> s, pinned |-> s = "b", score |-> 0] : n \in ItemBytes, s \in {"a", "b"}}
Contexts ==
  {[kind |-> "context", budget |-> b, execution |-> e, focus |-> f, authority |-> u, goal |-> e > 0,
    rows |-> [truth |-> t, timeline |-> l, session |-> <<>>],
    topics |-> [i \in 1..2 |-> [bytes |-> FocusBytes[i], source |-> "current_focus"]],
    grants |-> [i \in 1..2 |-> [bytes |-> AuthorityBytes[i], source |-> "decision_authority"]],
    gates |-> [i \in 1..2 |-> [bytes |-> GateBytes[i], source |-> "gate", required |-> TRUE, pending |-> p = 0 \/ i = p]]]
     : b \in Limits, e \in Reserves, f \in Reserves, u \in Reserves,
       t \in UpTo(2, Rows), l \in UpTo(1, Rows), p \in 0..1}
Hits == [windows : UpTo(2, BodyBytes) \ {<<>>}, time : 0..2, anchored : {TRUE}, rank : {0}]
Evidences ==
  {[kind |-> "evidence", budget |-> b, intent |-> n, hits |-> [i \in DOMAIN h |-> [h[i] EXCEPT !.rank = i]]]
     : b \in Limits, n \in {"neutral", "latest", "change"}, h \in UpTo(2, Hits)}
Spans == {[kind |-> "windows", width |-> w, adjacent |-> d, lines |-> l, tokens |-> t]
            : w \in Widths, d \in 0..1, l \in [1..3 -> Lengths],
              t \in SUBSET {[line |-> i, at |-> j, size |-> 2] : i \in 1..3, j \in {0, 3}}}
Blocks ==
  {[kind |-> "block", chars |-> c, most |-> m,
    rows |-> [i \in DOMAIN r |-> [key |-> r[i][1], size |-> r[i][2], score |-> r[i][3], rank |-> i]]]
     : c \in Limits, m \in 1..3, r \in UpTo(3, {"k", "l"} \X {9, 30} \X {0, 1})}
Injections ==
  {[kind |-> "inject", chars |-> c, items |-> m, floor |-> g, header |-> 10, title |-> 5, failures |-> f, successes |-> s]
     : c \in Limits, m \in 0..3, g \in 0..1,
       f \in UpTo(2, [key : {"k", "l"}, size : {9, 30}, score : 0..1]), s \in UpTo(1, [key : {"k", "l"}, size : {9, 30}, score : 0..1])}
Holds(s) == \A t \in s.tokens : t.at + t.size <= s.lines[t.line]

Answered(a) == CASE a.kind = "context" -> Compile(a) [] a.kind = "evidence" -> CompileEvidence(a)
                 [] a.kind = "windows" -> Windows(a) [] a.kind = "block" -> Compress(a) [] a.kind = "inject" -> Inject(a)

ZInit == asked = <<>> /\ answer = <<>>
Ask ==
  /\ asked = <<>>
  /\ \/ \E a \in Contexts : asked' = <<a>>
     \/ \E a \in Evidences : asked' = <<a>>
     \/ \E a \in Spans : Holds(a) /\ asked' = <<a>>
     \/ \E a \in Blocks : asked' = <<a>>
     \/ \E a \in Injections : asked' = <<a>>
  /\ UNCHANGED answer
Answer == asked # <<>> /\ answer = <<>> /\ answer' = <<Answered(asked[1])>> /\ UNCHANGED asked
Again == answer # <<>> /\ asked' = <<>> /\ answer' = <<>>
ZNext == Ask \/ Answer \/ Again
ZSpec == ZInit /\ [][ZNext]_zvars

---------------------------------------------------------------------------
(* What was set aside is there. *)
Fits(a, got) ==
  CASE a.kind = "context" -> got = Nothing \/ got.tokens <= a.budget
    [] a.kind = "evidence" -> EvidenceTokens(got.records) <= a.budget
    [] a.kind = "windows" -> \A i \in DOMAIN got : got[i][2] - got[i][1] <= a.width
    [] a.kind = "block" -> got.size <= a.chars
    [] a.kind = "inject" -> got.chars <= a.chars

\* Gates, focus and authority are those that would be there with nothing else in the context.
ReservesAreKept(a, got) ==
  got # Nothing /\ a.execution <= a.budget =>
    \A n \in {"focus", "authority", "execution"} :
      got.sections[n] = (CASE n = "focus" -> PackFocus(a, Empty)
                           [] n = "authority" -> PackAuthority(a, Empty)
                           [] n = "execution" -> PackExecution(a, Empty))[n]
\* A time is dropped for want of room, and there is none for it now.
TimesHadNoRoom(a, got) ==
  \A i \in DOMAIN got.records :
    LET r == got.records[i] IN
    (a.hits[r.file].time > 0 /\ ~r.time) =>
      EvidenceTokens([got.records EXCEPT ![i].time = TRUE]) > a.budget
TokensAreCovered(a, got) ==
  \A t \in a.tokens : \E i \in DOMAIN got :
    LET first == Total(SubSeq(a.lines, 1, t.line - 1)) + t.at
    IN got[i][1] <= first /\ first + t.size <= got[i][2]
CutsAreOfOneLine(a, got) == Total([i \in DOMAIN got.chosen |-> got.chosen[i].size + 1]) - 1 > a.chars => Len(got.chosen) = 1
EveryHitIsAccounted(a, got) ==
  got.candidates = got.weak + got.doubles + got.capped + got.squeezed + Len(got.emitted)

\* A compiler answers within its budget; what it reserved is not eaten by what was packed before it,
\* what it dropped had no room, and what it counted adds up.
BudgetsAreKept ==
  answer # <<>> =>
    LET a == asked[1] got == answer[1] IN
    /\ Fits(a, got)
    /\ CASE a.kind = "context" -> ReservesAreKept(a, got)
         [] a.kind = "evidence" -> TimesHadNoRoom(a, got)
         [] a.kind = "windows" -> TokensAreCovered(a, got)
         [] a.kind = "block" -> CutsAreOfOneLine(a, got)
         [] a.kind = "inject" -> EveryHitIsAccounted(a, got)
=============================================================================
