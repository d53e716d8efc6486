----------------------------- MODULE HermesTiming -----------------------------
(***************************************************************************)
(* How the Hermes provider writes the timing of a turn (hermes_provider.py)*)
(* into the delay ledger.  The phases of an open turn are kept in memory;  *)
(* a turn that ends is queued, and a thread of its own, started when there *)
(* is none and gone when the queue is empty, writes it: a task, its phases,*)
(* the end of the task, one call of the ledger each.  A call that raises   *)
(* ends the turn's writing, and the next turn is taken.                    *)
(*                                                                         *)
(* Queue, thread and idle event change under one lock, so each of those is *)
(* a step; a wait for the event takes no lock.  Every provider is a process*)
(* with its own memory; the ledger is shared.  An exit kills the thread.   *)
(***************************************************************************)
EXTENDS DelayLedger

CONSTANTS
  Turns,        \* numbers Hermes gives to the turns that may be open at once
  Phases, Active,   \* phases of a turn, each a cohort of its own, and the first one
  Cohort,       \* the subject of the task
  Aborted,      \* the outcome of a turn that was still open
  MaxTurns,     \* bound: turns, of all providers
  MaxUnstarted  \* bound: threads that could not be started

ASSUME HermesAssumption ==
  /\ Phases \union {Cohort} \subseteq Subjects /\ Active \in Phases
  /\ IsFiniteSet(Phases) /\ Elapsed # {}
  /\ Aborted \in Outcomes /\ MaxTurns \in Nat /\ MaxUnstarted \in Nat

VARIABLES
  turns,    \* per provider and number: the phases of the open turn so far
  begun,    \* per provider: turns so far
  ended,    \* per provider: turns that were queued so far
  queue,    \* _timing_pending
  idle,     \* _timing_idle
  worker,   \* _timing_worker, and how far it got
  process,  \* per provider: "running", "closing" (shutdown was called), "gone"
  unstarted,
  taskOf,   \* history, per run: the turn that wrote it
  lost      \* history: turns that some fault ended

ledger == <<log, view, tail, spoiled, rejected, cache, tears, restores>>
hvars == <<ledger, turns, begun, ended, queue, idle, worker, process, unstarted, taskOf, lost>>

NoWorker == [st |-> "none", job |-> None, step |-> 0, run |-> 0, phase |-> 0]
Ready == [NoWorker EXCEPT !.st = "ready"]
Unstarted == [NoWorker EXCEPT !.st = "unstarted"]

SumOf(f) == FoldFunction(+, 0, f)
Alive(p) == process[p] # "gone"
OpenTurns(p) == {t \in Turns : turns[p][t] # {}}

-----------------------------------------------------------------------------
(* Hermes calls: memory only *)

TurnStart(p, t) ==
  /\ process[p] = "running" /\ turns[p][t] = {}
  /\ SumOf(begun) < MaxTurns
  /\ turns' = [turns EXCEPT ![p][t] = {Active}]
  /\ begun' = [begun EXCEPT ![p] = @ + 1]
  /\ UNCHANGED <<ledger, ended, queue, idle, worker, process, unstarted, taskOf, lost>>

TurnProgress(p, t) ==
  /\ process[p] = "running" /\ turns[p][t] # {}
  /\ \E phase \in Phases \ turns[p][t] : turns' = [turns EXCEPT ![p][t] = @ \union {phase}]
  /\ UNCHANGED <<ledger, begun, ended, queue, idle, worker, process, unstarted, taskOf, lost>>

(* Mutant: the idle event stays set. *)
EnqueueTurn_StaysIdle(p, job) ==
  /\ queue' = [queue EXCEPT ![p] = Append(@, job)]
  /\ UNCHANGED idle
  /\ \/ /\ worker' = [worker EXCEPT ![p] = IF @.st = "none" THEN Ready ELSE @]
        /\ UNCHANGED unstarted
     \/ /\ worker[p].st = "none" /\ unstarted < MaxUnstarted
        /\ worker' = [worker EXCEPT ![p] = Unstarted]
        /\ unstarted' = unstarted + 1

(* _enqueue_turn.  When the thread cannot be started, start() raises with    *)
(* _timing_worker set.                                                       *)
EnqueueTurn(p, job) ==
  /\ queue' = [queue EXCEPT ![p] = Append(@, job)]
  /\ idle' = [idle EXCEPT ![p] = FALSE]
  /\ \/ /\ worker' = [worker EXCEPT ![p] = IF @.st = "none" THEN Ready ELSE @]
        /\ UNCHANGED unstarted
     \/ /\ worker[p].st = "none" /\ unstarted < MaxUnstarted
        /\ worker' = [worker EXCEPT ![p] = Unstarted]
        /\ unstarted' = unstarted + 1

(* on_turn_finish, by Hermes, or by abort_open_turns (shutdown, and a session *)
(* that is reset or rewound) turn by turn.                                    *)
TurnFinish(p, t) ==
  /\ Alive(p) /\ turns[p][t] # {}
  /\ \E outcome \in Outcomes :
       /\ process[p] = "closing" => outcome = Aborted
       /\ EnqueueTurn(p, [number |-> ended[p] + 1, phases |-> turns[p][t],
                          outcome |-> outcome])
  /\ turns' = [turns EXCEPT ![p][t] = {}]
  /\ ended' = [ended EXCEPT ![p] = @ + 1]
  /\ UNCHANGED <<ledger, begun, process, taskOf, lost>>

Shutdown(p) ==
  /\ process[p] = "running"
  /\ process' = [process EXCEPT ![p] = "closing"]
  /\ UNCHANGED <<ledger, turns, begun, ended, queue, idle, worker, unstarted, taskOf, lost>>

-----------------------------------------------------------------------------
(* The thread *)

GivesUp(p, numbers) == lost' = lost \union ({p} \X numbers)
Current(p) == IF worker[p].st = "writing" THEN {worker[p].job.number} ELSE {}
Queued(p) == {queue[p][n].number : n \in DOMAIN queue[p]}

(* Mutant: the event is set with the last turn taken. *)
WorkerTakes_IdleAtOnce(p) ==
  /\ Alive(p) /\ worker[p].st = "ready"
  /\ IF queue[p] = <<>>
     THEN /\ worker' = [worker EXCEPT ![p] = NoWorker]
          /\ idle' = [idle EXCEPT ![p] = TRUE]
          /\ UNCHANGED queue
     ELSE /\ worker' = [worker EXCEPT ![p] = [st |-> "writing", job |-> Head(queue[p]),
                                              step |-> 1, run |-> 0, phase |-> 0]]
          /\ queue' = [queue EXCEPT ![p] = Tail(@)]
          /\ idle' = [idle EXCEPT ![p] = Len(queue[p]) = 1]
  /\ UNCHANGED <<ledger, turns, begun, ended, process, unstarted, taskOf, lost>>

(* Mutant: the turn that ended last is written first. *)
WorkerTakes_Newest(p) ==
  /\ Alive(p) /\ worker[p].st = "ready"
  /\ IF queue[p] = <<>>
     THEN /\ worker' = [worker EXCEPT ![p] = NoWorker]
          /\ idle' = [idle EXCEPT ![p] = TRUE]
          /\ UNCHANGED queue
     ELSE /\ worker' = [worker EXCEPT ![p] = [st |-> "writing", job |-> Last(queue[p]),
                                              step |-> 1, run |-> 0, phase |-> 0]]
          /\ queue' = [queue EXCEPT ![p] = Front(@)]
          /\ UNCHANGED idle
  /\ UNCHANGED <<ledger, turns, begun, ended, process, unstarted, taskOf, lost>>

(* _timing_loop, under the lock: take the next turn, or end. *)
WorkerTakes(p) ==
  /\ Alive(p) /\ worker[p].st = "ready"
  /\ IF queue[p] = <<>>
     THEN /\ worker' = [worker EXCEPT ![p] = NoWorker]
          /\ idle' = [idle EXCEPT ![p] = TRUE]
          /\ UNCHANGED queue
     ELSE /\ worker' = [worker EXCEPT ![p] = [st |-> "writing", job |-> Head(queue[p]),
                                              step |-> 1, run |-> 0, phase |-> 0]]
          /\ queue' = [queue EXCEPT ![p] = Tail(@)]
          /\ UNCHANGED idle
  /\ UNCHANGED <<ledger, turns, begun, ended, process, unstarted, taskOf, lost>>

Steps(job) == 2 + 2 * Cardinality(job.phases)
InOrder(phases) == SetToSeq(phases)

StartRun(run, kind, subject, parent) ==
  [type |-> "delay_run_start", run |-> run, kind |-> kind, subject |-> subject,
   parent |-> parent]
FinishRun(run, job) ==
  {[type |-> "delay_run_finish", run |-> run, elapsed |-> elapsed, outcome |-> job.outcome] :
     elapsed \in Elapsed}

(* Mutant: a phase is left open when the next one starts. *)
CallsOf_OpenPhase(v, w) ==
  CASE w.step = 1 -> {StartRun(NewRun(v), "task", Cohort, 0)}
    [] w.step = Steps(w.job) -> FinishRun(w.run, w.job)
    [] OTHER -> {StartRun(NewRun(v), "phase", InOrder(w.job.phases)[w.step \div 2],
                          w.run)}

(* _write_turn, the call it makes at this step *)
CallsOf(v, w) ==
  CASE w.step = 1 -> {StartRun(NewRun(v), "task", Cohort, 0)}
    [] w.step = Steps(w.job) -> FinishRun(w.run, w.job)
    [] w.step # Steps(w.job) /\ w.step # 1 /\ w.step % 2 = 0 ->
         {StartRun(NewRun(v), "phase", InOrder(w.job.phases)[w.step \div 2], w.run)}
    [] OTHER -> FinishRun(w.phase, w.job)

(* Mutant: the thread ends after one turn. *)
Advanced_OneTurn(w, r) ==
  IF w.step = Steps(w.job) THEN NoWorker
  ELSE [w EXCEPT !.step = @ + 1,
                 !.run = IF w.step = 1 THEN r.run ELSE @,
                 !.phase = IF r.type = "delay_run_start" THEN r.run ELSE @]

(* The thread after a call that was answered *)
Advanced(w, r) ==
  IF w.step = Steps(w.job) THEN Ready
  ELSE [w EXCEPT !.step = @ + 1,
                 !.run = IF w.step = 1 THEN r.run ELSE @,
                 !.phase = IF r.type = "delay_run_start" THEN r.run ELSE @]

WorkerWrites(p) == LET v == Folded(p) IN
  /\ Alive(p) /\ worker[p].st = "writing"
  /\ \E r \in CallsOf(v, worker[p]) :
       /\ NewRun(v) \in Runs \/ r.type = "delay_run_finish"
       /\ Write(p, v, r)
       /\ IF tears' = tears
          THEN /\ worker' = [worker EXCEPT ![p] = Advanced(@, r)]
               /\ taskOf' = IF worker[p].step = 1
                            THEN [taskOf EXCEPT ![r.run] = <<p, worker[p].job.number>>]
                            ELSE taskOf
               /\ UNCHANGED lost
          ELSE /\ worker' = [worker EXCEPT ![p] = Ready]
               /\ GivesUp(p, Current(p))
               /\ UNCHANGED taskOf
  /\ UNCHANGED <<turns, begun, ended, queue, idle, process, unstarted>>

(* The governance lock is not to be had in two seconds: the call raises. *)
WorkerIsRefusedBusy(p) ==
  /\ Alive(p) /\ worker[p].st = "writing"
  /\ worker' = [worker EXCEPT ![p] = Ready]
  /\ GivesUp(p, Current(p))
  /\ UNCHANGED <<ledger, turns, begun, ended, queue, idle, process, unstarted, taskOf>>

(* The ledger refuses the call: a corrupt log is a fault, a guard is not. *)
WorkerIsRefused(p) == LET v == Folded(p) IN
  /\ Alive(p) /\ worker[p].st = "writing"
  /\ \A r \in CallsOf(v, worker[p]) :
       (NewRun(v) \in Runs \/ r.type = "delay_run_finish") /\ ~Applies(v, r)
  /\ worker' = [worker EXCEPT ![p] = Ready]
  /\ GivesUp(p, IF Healthy THEN {} ELSE Current(p))
  /\ cache' = [cache EXCEPT ![p] = Refreshed(p)]
  /\ UNCHANGED <<log, view, tail, spoiled, rejected, tears, restores>>
  /\ UNCHANGED <<turns, begun, ended, queue, idle, process, unstarted, taskOf>>

-----------------------------------------------------------------------------
(* The process ends, and its thread and memory with it. *)

Ends(p) ==
  /\ process' = [process EXCEPT ![p] = "gone"]
  /\ GivesUp(p, Queued(p) \union Current(p))
  /\ turns' = [turns EXCEPT ![p] = [t \in Turns |-> {}]]
  /\ queue' = [queue EXCEPT ![p] = <<>>] /\ idle' = [idle EXCEPT ![p] = TRUE]
  /\ worker' = [worker EXCEPT ![p] = NoWorker]
  /\ cache' = [cache EXCEPT ![p] = NoCache]
  /\ UNCHANGED <<log, view, tail, spoiled, rejected, tears, restores>>
  /\ UNCHANGED <<begun, ended, unstarted, taskOf>>

(* flush_timing returns TRUE. *)
ShutdownDrained(p) ==
  /\ process[p] = "closing" /\ OpenTurns(p) = {} /\ idle[p]
  /\ Ends(p)

(* flush_timing waited long enough. *)
ShutdownTimesOut(p) ==
  /\ process[p] = "closing" /\ OpenTurns(p) = {} /\ ~idle[p]
  /\ Ends(p)

Kill(p) == process[p] = "running" /\ Ends(p)

HInit ==
  /\ Init
  /\ turns = [p \in Instances |-> [t \in Turns |-> {}]]
  /\ begun = [p \in Instances |-> 0] /\ ended = [p \in Instances |-> 0]
  /\ queue = [p \in Instances |-> <<>>] /\ idle = [p \in Instances |-> TRUE]
  /\ worker = [p \in Instances |-> NoWorker]
  /\ process = [p \in Instances |-> "running"]
  /\ unstarted = 0
  /\ taskOf = [r \in Runs |-> None]
  /\ lost = {}

HNext == \E p \in Instances :
  \/ \E t \in Turns : TurnStart(p, t) \/ TurnProgress(p, t) \/ TurnFinish(p, t)
  \/ Shutdown(p) \/ ShutdownDrained(p) \/ ShutdownTimesOut(p) \/ Kill(p)
  \/ WorkerTakes(p) \/ WorkerWrites(p) \/ WorkerIsRefusedBusy(p) \/ WorkerIsRefused(p)

(* The scheduler runs the thread of a live process, and a call of the ledger *)
(* returns or raises within two seconds: weak fairness of the thread's steps,*)
(* one of which is enabled whenever it runs and all of which change worker.  *)
WorkerRuns(p) == Alive(p) /\ worker[p].st \in {"ready", "writing"}
WorkerIsScheduled(p) ==
  []<>~WorkerRuns(p) \/ []<><<WorkerRuns(p) /\ worker'[p] # worker[p]>>_hvars

HSpec == HInit /\ [][HNext]_hvars /\ \A p \in Instances : WorkerIsScheduled(p)

-----------------------------------------------------------------------------
(* Properties *)

(* When flush_timing returns TRUE nothing is pending: the event is set only  *)
(* while the queue is empty and no turn is being written, whatever was       *)
(* queued between the thread's last look and the event.                      *)
IdleMeansDrained ==
  \A p \in Instances : idle[p] => queue[p] = <<>> /\ worker[p].st # "writing"

(* One thread at a time writes a provider's turns, in the order they ended:  *)
(* a turn is begun in the ledger only after the turns that ended before it   *)
(* were written to their end, or given up.                                   *)
IsDone(p, n) ==
  \E r \in Runs : taskOf[r] = <<p, n>> /\ Finished(View, r)
TurnsKeepTheirOrder ==
  \A p \in Instances : \A r \in Runs : taskOf[r] # None /\ taskOf[r][1] = p =>
    \A n \in 1 .. taskOf[r][2] - 1 : <<p, n>> \in lost \/ spoiled \/ IsDone(p, n)

(* A turn that ended is queued, or being written, or whole in the ledger, or *)
(* was given up for a fault: a busy lock, a torn line, a corrupt log, a      *)
(* process that went away.  No order of two providers' calls makes the       *)
(* ledger refuse the sequence one of them writes.                            *)
TurnsAreLostToFaultsOnly ==
  \A p \in Instances : \A n \in 1 .. ended[p] :
    \/ n \in Queued(p) \union Current(p)
    \/ <<p, n>> \in lost \/ spoiled
    \/ IsDone(p, n)

(* A turn that ended does not wait for ever: the queue is drained, unless    *)
(* the process ends or its thread could not be started.                      *)
TurnsDrain ==
  \A p \in Instances :
    ~idle[p] ~> idle[p] \/ process[p] = "gone" \/ worker[p].st = "unstarted"

(* Turns reach the ledger whole and in order, unless a fault took them, and the idle event is set only when
   nothing is pending (_enqueue_turn, _timing_loop, flush_timing). *)
TurnsAreRecorded == IdleMeansDrained /\ TurnsKeepTheirOrder /\ TurnsAreLostToFaultsOnly

(* Small instances: twelve lines, in a log that is never replaced. *)
TwelveLines == [n \in 0 .. MaxRestores |-> 12]
=============================================================================
