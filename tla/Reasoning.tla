------------------------------ MODULE Reasoning ------------------------------
(***************************************************************************)
(* The reasoning bank (reasoning_bank.py) and the procedures it authorizes *)
(* (reasoning_execution.py).  A trajectory is a file of records; completing *)
(* one appends to it, then appends a row to the index that recall prefers  *)
(* to the file, then rewrites the patterns it read before.  There is no    *)
(* lock, and a process may die at each of these steps.                     *)
(***************************************************************************)
EXTENDS Integers, Sequences, FiniteSets, SequencesExt, FiniteSetsExt

CONSTANTS
  Callers, Tasks, Rules,   \* trajectories; curated lessons are trajectories too
  Lessons, Statuses,
  MaxCalls, MaxKills, MaxRecords, \* bounds; the records of a file that is logged to
  Torn, NoCall

VARIABLES
  file,        \* per trajectory: its records, an unfinished one being Torn
  index,       \* reasoning_index.jsonl
  patterns,    \* patterns.json, by status and signature
  call,        \* per caller: the call it is in
  seals,       \* authorizations of this process: what was sealed, of what
  calls, kills,
  warned,      \* history: patterns reported as repeated
  generation,  \* history: how often a lesson's file was started anew
  counted,     \* history: completions of a new status and signature
  smeared,     \* history: trajectories two calls were in, or a kill left half done
  executed     \* what the executor ran in this process, and on which bytes

bvars == <<file, index, patterns, call, seals, calls, kills, warned, generation, counted, smeared, executed>>

Files == Tasks \union Rules
Started == [kind |-> "start"]
Logged(n, ref) == [kind |-> "step", step |-> n, ref |-> ref]
Completed(status, lesson) == [kind |-> "complete", status |-> status, lesson |-> lesson]

\* Readers skip a line that is torn; an append that follows one is glued to it.
Records(s) == SelectSeq(s, LAMBDA r : r # Torn)
Appended(s, r) == IF s # <<>> /\ s[Len(s)] = Torn THEN s ELSE Append(s, r)
Kind(s, k) == SelectSeq(Records(s), LAMBDA r : r.kind = k)
LastOf(s) == s[Len(s)]

\* The rows of the index by trajectory, later rows winning.
Rows_First(t) == SelectSeq(Reverse(Records(index)), LAMBDA r : r.task = t)
Rows(t) == SelectSeq(Records(index), LAMBDA r : r.task = t)
InProgress == [status |-> "in_progress", lesson |-> "none"]
Told(t) == LET done == Kind(file[t], "complete") IN
           IF done = <<>> THEN InProgress ELSE [status |-> LastOf(done).status, lesson |-> LastOf(done).lesson]
\* reasoning_recall and reasoning_stats: the index, then the files it misses.
Recalled(t) == IF Rows(t) # <<>> THEN [status |-> LastOf(Rows(t)).status, lesson |-> LastOf(Rows(t)).lesson]
               ELSE Told(t)

NoPattern == [count |-> 0, tasks |-> <<>>]
Pattern(p, k) == IF k \in DOMAIN p THEN p[k] ELSE NoPattern
MostTasks == 2
\* The task moves to the end of the pattern's list, which keeps the newest.
Upserted(bucket, t, bump) ==
  LET ids == Append(SelectSeq(bucket.tasks, LAMBDA x : x # t), t)
  IN [count |-> bucket.count + (IF bump THEN 1 ELSE 0),
      tasks |-> IF Len(ids) > MostTasks THEN Tail(ids) ELSE ids]

-----------------------------------------------------------------------------

BInit ==
  /\ file = [t \in Files |-> <<>>] /\ index = <<>> /\ patterns = [k \in {} |-> NoPattern]
  /\ call = [c \in Callers |-> NoCall] /\ seals = {} /\ calls = 0 /\ kills = 0
  /\ warned = {} /\ generation = [t \in Files |-> 1] /\ counted = {} /\ smeared = {} /\ executed = {}

On(c, t) == call[c] # NoCall /\ call[c].task = t
At(c, at) == call[c] # NoCall /\ call[c].at = at
Enter(c, t, new) ==
  /\ call[c] = NoCall /\ calls < MaxCalls
  /\ calls' = calls + 1
  /\ call' = [call EXCEPT ![c] = new]
  /\ smeared' = IF \E d \in Callers \ {c} : On(d, t) THEN smeared \union {t} ELSE smeared
Write(t, r) == file' = [file EXCEPT ![t] = Appended(@, r)]
WithStart(s) == IF Kind(s, "start") # <<>> THEN s ELSE Appended(s, Started)

\* trajectory_start and trajectory_log: a start record unless there is one, then
\* the step.
TrajectoryLog(c, t, n, ref) ==
  /\ call[c] = NoCall /\ Len(file[t]) < MaxRecords
  /\ file' = [file EXCEPT ![t] = Appended(WithStart(@), Logged(n, ref))]
  /\ smeared' = IF \E d \in Callers : On(d, t) THEN smeared \union {t} ELSE smeared
  /\ UNCHANGED <<index, patterns, call, seals, calls, kills, warned, generation, counted, executed>>

Completing(t, status, lesson, at) ==
  [op |-> "complete", task |-> t, status |-> status, lesson |-> lesson, at |-> at,
   new |-> FALSE, read |-> NoPattern]
TrajectoryComplete(c, t, status, lesson) ==
  /\ Enter(c, t, Completing(t, status, lesson, "look"))
  /\ UNCHANGED <<file, index, patterns, seals, kills, warned, generation, counted, executed>>
\* lesson_add removes the file, and completes it as a failure once restarted.
LessonAdd(c, t, lesson) ==
  /\ Enter(c, t, Completing(t, "failure", lesson, "look"))
  /\ file' = [file EXCEPT ![t] = <<Started>>]
  /\ generation' = [generation EXCEPT ![t] = IF file[t] = <<>> THEN @ ELSE @ + 1]
  /\ UNCHANGED <<index, patterns, seals, kills, warned, counted, executed>>

\* A lesson's signature is its id, a trajectory's is made of what it learned.
Signature(t, lesson) == IF t \in Rules THEN t ELSE lesson
Key(c) == <<call[c].status, Signature(call[c].task, call[c].lesson)>>
IsNew_Always(s, status, t, lesson) == TRUE
\* No earlier complete record of this status and signature.
IsNew(s, status, t, lesson) ==
  \A i \in DOMAIN s : s[i] # Torn /\ s[i].kind = "complete" =>
    <<s[i].status, Signature(t, s[i].lesson)>> # <<status, Signature(t, lesson)>>
Look(c) ==
  /\ At(c, "look")
  /\ LET q == call[c] IN
     call' = [call EXCEPT ![c].new = IsNew(file[q.task], q.status, q.task, q.lesson), ![c].at = "record"]
  /\ UNCHANGED <<file, index, patterns, seals, calls, kills, warned, generation, counted, smeared, executed>>
Record(c) ==
  /\ At(c, "record")
  /\ LET q == call[c] IN
       /\ file' = [file EXCEPT ![q.task] = Appended(WithStart(@), Completed(q.status, q.lesson))]
       /\ counted' = IF q.new THEN counted \union {<<Key(c), q.task, generation[q.task]>>} ELSE counted
       /\ smeared' = IF file'[q.task][Len(file'[q.task])] = Torn THEN smeared \union {q.task} ELSE smeared
  /\ call' = [call EXCEPT ![c].at = "index"]
  /\ UNCHANGED <<index, patterns, seals, calls, kills, warned, generation, executed>>
IndexRow(c) ==
  /\ At(c, "index")
  /\ LET q == call[c] IN
       /\ index' = Appended(index, [task |-> q.task, status |-> q.status, lesson |-> q.lesson])
       /\ smeared' = IF LastOf(index') = Torn /\ Rows(q.task) # <<>> THEN smeared \union {q.task} ELSE smeared
  /\ call' = [call EXCEPT ![c].at = "patterns"]
  /\ UNCHANGED <<file, patterns, seals, calls, kills, warned, generation, counted, executed>>
\* _upsert_pattern reads the whole table and replaces it.
ReadPatterns(c) ==
  /\ At(c, "patterns")
  /\ call' = [call EXCEPT ![c].read = patterns, ![c].at = "replace"]
  /\ smeared' = IF \E d \in Callers \ {c} : At(d, "replace") THEN smeared \union {"patterns"} ELSE smeared
  /\ UNCHANGED <<file, index, patterns, seals, calls, kills, warned, generation, counted, executed>>
ReplacePatterns(c) ==
  /\ At(c, "replace")
  /\ LET q == call[c]
         bucket == Upserted(Pattern(q.read, Key(c)), q.task, q.new)
     IN /\ patterns' = [k \in DOMAIN q.read \union {Key(c)} |-> IF k = Key(c) THEN bucket ELSE q.read[k]]
        /\ warned' = IF q.status = "failure" /\ q.new /\ bucket.count >= 2 THEN warned \union {Key(c)} ELSE warned
  /\ call' = [call EXCEPT ![c] = NoCall]
  /\ UNCHANGED <<file, index, seals, calls, kills, generation, counted, smeared, executed>>

-----------------------------------------------------------------------------
(* Authorization and execution.                                             *)

\* _parse_trajectory: one start first, one successful complete last, steps that
\* increase, one of which names the procedure.
Refs(s) == {i \in DOMAIN s : s[i] # Torn /\ s[i].kind = "step" /\ s[i].ref # "none"}
Procedure(s) == s[CHOOSE i \in Refs(s) : TRUE].ref
Parses(s) ==
  /\ Len(s) >= 3 /\ \A i \in DOMAIN s : s[i] # Torn
  /\ s[1] = Started /\ s[Len(s)].kind = "complete" /\ s[Len(s)].status = "success"
  /\ \A i \in 2..Len(s) - 1 : s[i].kind = "step"
  /\ \A i \in 3..Len(s) - 1 : s[i].step > s[i - 1].step
  /\ Cardinality(Refs(s)) = 1
ReasoningBuildAuthorization(t) ==
  /\ Parses(file[t])
  /\ seals' = seals \union {[task |-> t, bytes |-> file[t], procedure |-> Procedure(file[t])]}
  /\ UNCHANGED <<file, index, patterns, call, calls, kills, warned, generation, counted, smeared, executed>>
\* A call recalls one success, then verifies the file against one seal.
ReasoningExecute(c, t, seal) ==
  /\ Recalled(t).status = "success"
  /\ Enter(c, t, [op |-> "execute", task |-> t, at |-> "verify", hit |-> Recalled(t), seal |-> seal])
  /\ UNCHANGED <<file, index, patterns, seals, kills, warned, generation, counted, executed>>
Verified_ByTask(q, s) == q.seal.task = q.task
Verified(q, s) ==
  /\ q.seal.task = q.task /\ q.seal.bytes = s
  /\ Parses(s) /\ LastOf(s).lesson = q.hit.lesson
\* A hit that fails any check is answered by the fallback, and nothing is kept.
Execute(c) ==
  /\ At(c, "verify")
  /\ LET q == call[c] IN
     executed' = IF Verified(q, file[q.task])
                 THEN executed \union {[task |-> q.task, bytes |-> file[q.task], procedure |-> q.seal.procedure]}
                 ELSE executed
  /\ call' = [call EXCEPT ![c] = NoCall]
  /\ UNCHANGED <<file, index, patterns, seals, calls, kills, warned, generation, counted, smeared>>

\* The process dies: its calls stop, an append may stay unfinished, and its
\* seals are worth nothing to the next one.
Kill ==
  /\ kills < MaxKills /\ kills' = kills + 1
  /\ call' = [c \in Callers |-> NoCall] /\ seals' = {} /\ executed' = {}
  /\ \E torn \in SUBSET {c \in Callers : At(c, "record") \/ At(c, "index")} :
       /\ Cardinality(torn) <= 1
       /\ file' = [t \in Files |-> IF \E c \in torn : At(c, "record") /\ On(c, t) THEN Appended(file[t], Torn) ELSE file[t]]
       /\ index' = IF \E c \in torn : At(c, "index") THEN Appended(index, Torn) ELSE index
  /\ smeared' = smeared
       \union {t \in Files : \E c \in Callers : On(c, t) /\ At(c, "index") /\ Rows(t) # <<>>}
       \union {t \in Rules : \E c \in Callers : On(c, t) /\ call[c].at \in {"look", "record"}}
       \union (IF \E c \in Callers : call[c] # NoCall /\ call[c].at \in {"index", "patterns", "replace"}
               THEN {"patterns"} ELSE {})
  /\ UNCHANGED <<patterns, calls, warned, generation, counted>>

BNext ==
  \/ \E c \in Callers :
       \/ \E t \in Tasks :
            \/ \E n \in 1..2, ref \in {"none", "sum"} : TrajectoryLog(c, t, n, ref)
            \/ \E s \in Statuses, l \in Lessons : TrajectoryComplete(c, t, s, l)
            \/ \E seal \in seals : ReasoningExecute(c, t, seal)
       \/ \E t \in Rules, l \in Lessons : LessonAdd(c, t, l)
       \/ Look(c) \/ Record(c) \/ IndexRow(c) \/ ReadPatterns(c) \/ ReplacePatterns(c) \/ Execute(c)
  \/ \E t \in Tasks : ReasoningBuildAuthorization(t)
  \/ Kill

BSpec == BInit /\ [][BNext]_bvars

-----------------------------------------------------------------------------
(* Properties. *)

Quiet(t) == t \notin smeared /\ ~\E c \in Callers : On(c, t)

\* What recall tells of a trajectory is its last completion, from the index or
\* from the file the index misses, whichever step a call died at and whatever
\* line a torn append swallowed, unless two calls met on it or an older row hides
\* a completion that never reached the index.
RecallTellsTheLast == \A t \in Files : Quiet(t) => Recalled(t) = Told(t)

\* The count of a pattern is the number of trajectories that completed with its
\* status and signature, each counted once however often it was completed again.
PatternsCountOnce ==
  ("patterns" \notin smeared /\ smeared = {} /\ \A c \in Callers : call[c] = NoCall) =>
    \A k \in DOMAIN patterns : patterns[k].count = Cardinality({e \in counted : e[1] = k})
\* "Log a high-importance event when a failure pattern repeats": it is reported
\* of two trajectories that failed, not of one lesson that was put in words again.
RepeatsAreOfTwoTasks ==
  smeared = {} => \A k \in warned : Cardinality({e[2] : e \in {x \in counted : x[1] = k}}) >= 2

\* What the executor ran was authorized by this process, on the very bytes that the
\* file still had when it ran: one start, one successful completion, one procedure.
ExecutedAsSealed ==
  \A e \in executed : Parses(e.bytes) /\ Procedure(e.bytes) = e.procedure /\ e \in seals
-------------------------------------------------------------------------------
(***************************************************************************)
(* The procedures an authorization may run (reasoning_execution.py:461-605) *)
(* as they compute, to be compared with what their tasks ask for.  A task  *)
(* is a procedure and its numbers; what the grammar or a safety constraint *)
(* refuses is left to the fallback.                                        *)
(***************************************************************************)
CONSTANTS
  MaxLimit,       \* bound on sums, factorials, factors and powers
  MaxSide,        \* bound on grids
  MaxItems,       \* divisors or factors of a problem (8)
  MaxPrime        \* the largest prime a problem may name (1_000_000)

VARIABLES problem, answer
xvars == <<problem, answer>>

Refused == -1

\* _is_prime tries 2, then odd divisors up to the root.
IsPrime(n) ==
  /\ n >= 2 /\ n <= MaxPrime
  /\ IF n % 2 = 0 THEN n = 2
     ELSE \A d \in {e \in 3..n : e % 2 = 1 /\ e * e <= n} : n % d # 0

Divides(d, n) == n % d = 0
Gcd(a, b) == CHOOSE g \in 1..a : Divides(g, a) /\ Divides(g, b)
               /\ \A h \in g + 1..a : ~(Divides(h, a) /\ Divides(h, b))
LcmOf(S) == FoldSet(LAMBDA d, rest : (d * rest) \div Gcd(d, rest), 1, S)
SumOf(S, f(_)) == MapThenSumSet(f, S)

\* _run_a adds and takes away, over every choice of divisors.
Multiples_Inclusive(limit, common) == LET count == limit \div common IN (common * count * (count + 1)) \div 2
Multiples(limit, common) == LET count == (limit - 1) \div common IN (common * count * (count + 1)) \div 2
RunA(limit, divisors) ==
  SumOf(SUBSET divisors \ {{}},
        LAMBDA S : (IF Cardinality(S) % 2 = 1 THEN 1 ELSE -1) * Multiples(limit, LcmOf(S)))
AllowedA(divisors) == Cardinality(divisors) \in 2..MaxItems /\ 1 \notin divisors

\* _legendre divides until nothing is left.
Legendre(n, prime) ==
  LET f[k \in 0..n] == IF k = 0 THEN 0 ELSE k \div prime + f[k \div prime] IN f[n]

\* math.comb of the steps of a path.
Comb(n, k) == LET f[j \in 0..k] == IF j = 0 THEN 1 ELSE (f[j - 1] * (n - k + j)) \div j IN f[k]

\* _run_d multiplies what each prime may contribute.
RunD(p, e, q, f) == IF IsPrime(p) /\ IsPrime(q) /\ p # q THEN (e + 1) * (f + 1) ELSE Refused

RunE(power, n) == IF power = "squares" THEN (n * (n + 1) * (2 * n + 1)) \div 6
                  ELSE ((n * (n + 1)) \div 2) * ((n * (n + 1)) \div 2)

\* pow(base, exponent, modulus) squares and multiplies.
PowMod(b, e, m) ==
  LET f[x \in 0..b + m, k \in 0..e] == IF k = 0 THEN 1 % m
                                      ELSE IF k % 2 = 1 THEN (x * f[x, k - 1]) % m
                                      ELSE f[(x * x) % m, k \div 2]
  IN f[b, e]
RunF(b, e, m) == IF m <= 1 THEN Refused ELSE PowMod(b, e, m)

-----------------------------------------------------------------------------
(* What the tasks ask for. *)

Power(b, e) == LET f[k \in 0..e] == IF k = 0 THEN 1 ELSE b * f[k - 1] IN f[e]
Paths(r, c) ==
  LET f[i \in 0..r, j \in 0..c] == IF i = 0 \/ j = 0 THEN 1 ELSE f[i - 1, j] + f[i, j - 1] IN f[r, c]
Divisors(n) == {d \in 1..n : Divides(d, n)}
ExponentIn(n, p) == Max({e \in 0..5 : Power(p, e) <= n /\ Divides(Power(p, e), n)})

Asked(t) ==
  CASE t.ask = "A" -> SumOf({n \in 1..t.n - 1 : \E d \in t.set : Divides(d, n)}, LAMBDA n : n)
    [] t.ask = "B" -> SumOf(1..t.n, LAMBDA i : ExponentIn(i, t.p))
    [] t.ask = "C" -> Paths(t.n, t.p)
    [] t.ask = "D" -> Cardinality(Divisors(Power(t.p, t.e) * Power(t.q, t.f)))
    [] t.ask = "E" -> SumOf(1..t.n, LAMBDA i : IF t.power = "squares" THEN i * i ELSE i * i * i)
    [] t.ask = "F" -> Power(t.n, t.e) % t.m

Answered(t) ==
  CASE t.ask = "A" -> IF AllowedA(t.set) THEN RunA(t.n, t.set) ELSE Refused
    [] t.ask = "B" -> IF IsPrime(t.p) THEN Legendre(t.n, t.p) ELSE Refused
    [] t.ask = "C" -> Comb(t.n + t.p, t.n)
    [] t.ask = "D" -> RunD(t.p, t.e, t.q, t.f)
    [] t.ask = "E" -> RunE(t.power, t.n)
    [] t.ask = "F" -> RunF(t.n, t.e, t.m)

Nothing == [ask |-> "nothing"]
TasksOf ==
  {[ask |-> "A", n |-> n, set |-> s] : n \in 1..MaxLimit, s \in kSubset(2, 2..5) \union {{2, 3, 4}, {4, 6}}}
  \union {[ask |-> "B", n |-> n, p |-> p] : n \in 1..MaxLimit, p \in 1..7}
  \union {[ask |-> "C", n |-> r, p |-> c] : r \in 1..MaxSide, c \in 1..MaxSide}
  \union {[ask |-> "D", p |-> p, e |-> e, q |-> q, f |-> f] : p \in 2..5, q \in 2..5, e \in 1..2, f \in 1..2}
  \union {[ask |-> "E", n |-> n, power |-> w] : n \in 1..MaxLimit, w \in {"squares", "cubes"}}
  \union {[ask |-> "F", n |-> b, e |-> e, m |-> m] : b \in 0..4, e \in 0..4, m \in 1..5}

XInit == problem = Nothing /\ answer = Refused
Run == \E t \in TasksOf : problem' = t /\ answer' = Answered(t)
XNext == problem = Nothing /\ Run
XSpec == XInit /\ [][XNext]_xvars

-----------------------------------------------------------------------------
\* A procedure that does not refuse its problem answers what the problem asks for, and
\* one that refuses was given a composite, equal primes or a modulus of one.
ProceduresAnswerTheirTasks ==
  problem # Nothing =>
    \/ answer # Refused /\ answer = Asked(problem)
    \/ answer = Refused /\ problem.ask = "B" /\ Cardinality(Divisors(problem.p)) # 2
    \/ answer = Refused /\ problem.ask = "D"
         /\ (problem.p = problem.q \/ Cardinality(Divisors(problem.p)) # 2 \/ Cardinality(Divisors(problem.q)) # 2)
    \/ answer = Refused /\ problem.ask = "F" /\ problem.m = 1
===============================================================================
