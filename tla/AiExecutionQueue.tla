--------------------------- MODULE AiExecutionQueue ---------------------------
(***************************************************************************)
(* The durable queue of AI executions: rows of AutomationJob with job_type *)
(* AI_EXECUTION, the executions (EjecucionCaso) they run, the scheduler of *)
(* every backend process, the dispatch tasks and timeout watchers those    *)
(* processes hold in memory, and the callbacks of the Motor IA.  The       *)
(* engine is EngineDelivery, the update host's pause is AiQueueGate.       *)
(*                                                                         *)
(* A database transaction is one step, except the scheduler's, whose plain *)
(* read of the active rows and whose later writes are two: other           *)
(* transactions commit in between.  While it is open, the rows it locked   *)
(* are not changed by anybody else.                                        *)
(***************************************************************************)
EXTENDS EngineDelivery, AiQueueGate, FiniteSets, FiniteSetsExt

CONSTANTS Processes,      \* backend processes (uvicorn workers)
          MaxJobs,        \* bound: rows ever enqueued
          MaxPosts,       \* attempts to post a task to the engine (3 in the code)
          ParallelRuns,   \* values of the setting max_parallel_ai_runs
          MaxTasks,       \* bound: live dispatch tasks of a row when a tick begins
          MaxFaults,      \* bound: crashes of a backend process or of the engine
          VideoArgument,  \* does trigger_ai_execution take record_video=?
          NoExecution

ASSUME QueueAssumption ==
  /\ MaxJobs \in Nat /\ MaxPosts \in Nat \ {0}
  /\ MaxTasks \in Nat /\ MaxFaults \in Nat
  /\ ParallelRuns \subseteq Nat /\ ParallelRuns # {}
  /\ VideoArgument \in BOOLEAN
  /\ NoExecution \notin Executions

VARIABLES
  estado,      \* estado[j]: status of job row j
  ejecucion,   \* ejecucion[j]: the execution row j runs
  inicio,      \* rows whose fecha_inicio is set
  resultado,   \* resultado[e]: estado_resultado of execution e
  report,      \* report[e]: whose terminal_delivery_id the report carries
  tick,        \* tick[p]: what the open scheduler transaction of p has read
  tasks,       \* dispatch tasks of the processes
  watchers,    \* timeout watchers of the processes
  parallel,    \* the setting max_parallel_ai_runs
  faults       \* crashes so far

queueVars == <<estado, ejecucion, inicio, resultado, report>>
procVars == <<tick, tasks, watchers>>
vars == <<queueVars, procVars, parallel, faults, engineVars, gateVars>>

Jobs == 1..MaxJobs
ActiveStates == {"CLAIMED", "RUNNING"}
FinalStates == {"PASSED", "FAILED", "BLOCKED", "TIMEOUT"}
Unfinished == {"SIN_CORRER", "EJECUTANDO_AI"}
Finished == {"PASO", "FALLO", "BLOQUEADO"}

Reports == {"none", "engine", "backend"}

(* A dispatch task: where it stands, how many posts it has left, and the report
   its session loaded with the execution. *)
Tasks == [process: Processes, job: Jobs, left: 1..MaxPosts, seen: Reports,
          at: {"created", "starting", "posting", "returned", "raised"}]

(* An open scheduler transaction: the executions it recovers (and holds locked),
   the rows it will requeue, and the rows it will close with which status. *)
Ticks == [open: BOOLEAN, stale: SUBSET Executions, requeue: SUBSET Jobs,
          close: SUBSET (Jobs \X FinalStates)]
NoTick == [open |-> FALSE, stale |-> {}, requeue |-> {}, close |-> {}]

TypeOK ==
  /\ EngineTypeOK /\ GateTypeOK
  /\ estado \in [Jobs -> {"NONE", "PENDING"} \cup ActiveStates \cup FinalStates]
  /\ ejecucion \in [Jobs -> Executions \cup {NoExecution}]
  /\ \A j \in Jobs : estado[j] # "NONE" => ejecucion[j] \in Executions
  /\ inicio \subseteq Jobs
  /\ resultado \in [Executions -> Unfinished \cup Finished]
  /\ report \in [Executions -> Reports]
  /\ tick \in [Processes -> Ticks]
  /\ tasks \subseteq Tasks
  /\ \A t \in tasks : estado[t.job] # "NONE"
  /\ watchers \subseteq (Processes \X Executions)
  /\ parallel \in ParallelRuns
  /\ faults \in 0..MaxFaults

Init ==
  /\ EngineInit /\ GateInit
  /\ estado = [j \in Jobs |-> "NONE"]
  /\ ejecucion = [j \in Jobs |-> NoExecution]
  /\ inicio = {}
  /\ resultado = [e \in Executions |-> "SIN_CORRER"]
  /\ report = [e \in Executions |-> "none"]
  /\ tick = [p \in Processes |-> NoTick]
  /\ tasks = {}
  /\ watchers = {}
  /\ parallel \in ParallelRuns
  /\ faults = 0

-------------------------------------------------------------------------------
ActiveJobs == {j \in Jobs : estado[j] \in ActiveStates}
ActiveOf(e) == {j \in ActiveJobs : ejecucion[j] = e}
OpenOf(e) == {j \in Jobs : estado[j] \in {"PENDING"} \cup ActiveStates /\ ejecucion[j] = e}

(* The row locks of open scheduler transactions, and AI_QUEUE_LOCK. *)
Unlocked(e) == \A p \in Processes : e \notin tick[p].stale
QueueLockFree == \A p \in Processes : ~tick[p].open

JobVerdict(r) ==
  IF r = "PASO" THEN "PASSED" ELSE IF r = "BLOQUEADO" THEN "BLOCKED" ELSE "FAILED"

(* mark_ai_execution_finished: one active row of the execution, if there is one. *)
MarkFinished(e, r) ==
  \/ ActiveOf(e) = {} /\ UNCHANGED estado
  \/ \E j \in ActiveOf(e) : estado' = [estado EXCEPT ![j] = JobVerdict(r)]

(* A backend timeout closes the execution and all its active rows. *)
TimedOut(late) == [j \in Jobs |-> IF j \in ActiveJobs /\ ejecucion[j] \in late
                                  THEN "TIMEOUT" ELSE estado[j]]

-------------------------------------------------------------------------------
(* Requests to run an execution. *)

(* trigger_ai_run without a base URL: the execution is blocked, nothing is queued. *)
AskWithoutUrl(e) ==
  /\ Unlocked(e)
  /\ resultado[e] # "EJECUTANDO_AI"
  /\ resultado' = [resultado EXCEPT ![e] = "BLOQUEADO"]
  /\ report' = [report EXCEPT ![e] = "none"]
  /\ UNCHANGED <<estado, ejecucion, inicio, procVars, parallel, faults, engineVars, gateVars>>

(* enqueue_ai_execution, under the lock of the execution row: an open row is
   returned, otherwise one is added.  trigger_ai_run refuses an execution that
   runs, but in an earlier transaction: a request may come here at any time. *)
Enqueue(e) ==
  /\ Unlocked(e)
  /\ OpenOf(e) = {}
  /\ \E j \in Jobs :
       /\ estado[j] = "NONE"
       /\ \A i \in Jobs : i < j => estado[i] # "NONE"
       /\ estado' = [estado EXCEPT ![j] = "PENDING"]
       /\ ejecucion' = [ejecucion EXCEPT ![j] = e]
  /\ UNCHANGED <<inicio, resultado, report, procVars, parallel, faults, engineVars, gateVars>>

-------------------------------------------------------------------------------
(* drain_ai_execution_queue. *)

(* Mutant: only executions that still have an active row are recovered. *)
BugRecoverable ==
  {e \in Executions : resultado[e] = "EJECUTANDO_AI" /\ report[e] = "none" /\ ActiveOf(e) # {}}

(* recover_stale_ai_executions closes what runs since before a cutoff and has no
   final report. *)
Recoverable == {e \in Executions : resultado[e] = "EJECUTANDO_AI" /\ report[e] = "none"}

(* Mutant: the pause is not looked at. *)
BugTickRead(p, stale) ==
  /\ QueueLockFree
  /\ tick' = [tick EXCEPT ![p] = [NoTick EXCEPT !.open = TRUE]]
  /\ UNCHANGED <<queueVars, tasks, watchers, parallel, faults, engineVars, gateVars>>

(* Under the advisory lock, if not paused: lock the executions that are stale by
   now and read, without a lock, the active rows and their executions. *)
TickRead(p, stale) ==
  /\ QueueLockFree
  /\ paused = NoTransaction
  /\ stale \subseteq Recoverable
  /\ \A j \in Jobs : Cardinality({t \in tasks : t.job = j}) <= MaxTasks
  /\ LET seen == {j \in ActiveJobs : ejecucion[j] \notin stale} IN
        tick' = [tick EXCEPT ![p] =
          [open |-> TRUE,
           stale |-> stale,
           requeue |-> {j \in seen : resultado[ejecucion[j]] = "SIN_CORRER" /\ j \notin inicio},
           close |-> {<<j, JobVerdict(resultado[ejecucion[j]])>> :
                        j \in {k \in seen : resultado[ejecucion[k]] \in Finished}}]]
  /\ UNCHANGED <<queueVars, tasks, watchers, parallel, faults, engineVars, gateVars>>

(* The rows after recovery and reconciliation: what was read decides, whatever
   the rows hold by now. *)
Reconciled(t) ==
  [j \in Jobs |->
     IF j \in t.requeue THEN "PENDING"
     ELSE IF \E f \in FinalStates : <<j, f>> \in t.close
          THEN CHOOSE f \in FinalStates : <<j, f>> \in t.close
          ELSE TimedOut(t.stale)[j]]

Limit == Max({1, Min({5, parallel})})

(* Mutant: the limit is given to every tick anew. *)
BugAvailable(busy) == Limit

Available(busy) == Max({0, Limit - Cardinality(busy)})

(* The oldest rows of queued that fit into n slots. *)
Oldest(batch, queued, n) ==
  /\ Cardinality(batch) = Min({n, Cardinality(queued)})
  /\ \A b \in batch, q \in queued \ batch : b < q

(* Write, count, claim, commit, and start one dispatch task per claimed row. *)
TickCommit(p) ==
  /\ tick[p].open
  /\ LET rows == Reconciled(tick[p])
         busy == {j \in Jobs : rows[j] \in ActiveStates}
         queued == {j \in Jobs : rows[j] = "PENDING"}
     IN \E batch \in SUBSET queued :
          /\ Oldest(batch, queued, Available(busy))
          /\ estado' = [j \in Jobs |-> IF j \in batch THEN "CLAIMED" ELSE rows[j]]
          /\ tasks' = tasks \cup {[process |-> p, job |-> j, left |-> MaxPosts,
                                   seen |-> "none", at |-> "created"] : j \in batch}
  /\ resultado' = [e \in Executions |-> IF e \in tick[p].stale THEN "FALLO" ELSE resultado[e]]
  /\ report' = [e \in Executions |-> IF e \in tick[p].stale THEN "backend" ELSE report[e]]
  /\ tick' = [tick EXCEPT ![p] = NoTick]
  /\ UNCHANGED <<ejecucion, inicio, watchers, parallel, faults>>
  /\ UNCHANGED <<engineVars, gateVars>>

-------------------------------------------------------------------------------
(* _dispatch and trigger_ai_execution. *)
Goes(t, place) == tasks' = (tasks \ {t}) \cup {[t EXCEPT !.at = place]}
Posts(t, seen) ==
  tasks' = (tasks \ {t}) \cup {[process |-> t.process, job |-> t.job, left |-> t.left,
                               seen |-> seen, at |-> "posting"]}
Ends(t) == tasks' = tasks \ {t}
Writes(t, r) ==
  /\ Unlocked(ejecucion[t.job])
  /\ resultado' = [resultado EXCEPT ![ejecucion[t.job]] = r]
TaskLeaves == UNCHANGED <<ejecucion, tick, parallel, faults, gateVars>>

(* A row that is not CLAIMED any more is somebody else's. *)
Start(t) ==
  /\ t.at = "created"
  /\ Unlocked(ejecucion[t.job])
  /\ \/ /\ estado[t.job] = "CLAIMED"
        /\ estado' = [estado EXCEPT ![t.job] = "RUNNING"]
        /\ inicio' = inicio \cup {t.job}
        /\ Goes(t, "starting")
     \/ /\ estado[t.job] # "CLAIMED"
        /\ Ends(t)
        /\ UNCHANGED <<estado, inicio>>
  /\ UNCHANGED <<resultado, report, watchers, engineVars>> /\ TaskLeaves

(* A mission, permission or quota check raises before anything was written;
   without VideoArgument so does the call itself. *)
TriggerRaises(t) ==
  /\ t.at = "starting"
  /\ Goes(t, "raised")
  /\ UNCHANGED <<estado, inicio, resultado, report, watchers, engineVars>>
  /\ TaskLeaves

(* A chatbot case that is not configured returns, an engine that is not healthy
   raises; both block the execution first. *)
TriggerBlocks(t) ==
  /\ VideoArgument
  /\ t.at = "starting"
  /\ Writes(t, "BLOQUEADO")
  /\ \E place \in {"returned", "raised"} : Goes(t, place)
  /\ UNCHANGED <<estado, inicio, report, watchers, engineVars>> /\ TaskLeaves

(* The execution starts; then a timeout watcher is armed and the task posts, or
   building the request raises. *)
TriggerBegins(t) ==
  /\ VideoArgument
  /\ t.at = "starting"
  /\ Writes(t, "EJECUTANDO_AI")
  /\ \/ /\ watchers' = watchers \cup {<<t.process, ejecucion[t.job]>>}
        /\ Posts(t, report[ejecucion[t.job]])
     \/ Goes(t, "raised") /\ UNCHANGED watchers
  /\ UNCHANGED <<estado, inicio, report, engineVars>> /\ TaskLeaves

(* HTTP 200. *)
PostAccepted(t) ==
  /\ t.at = "posting"
  /\ Admit(ejecucion[t.job])
  /\ Goes(t, "returned")
  /\ UNCHANGED <<estado, inicio, resultado, report, watchers>> /\ TaskLeaves

(* Mutant: one retry too many. *)
BugPostFails(t) ==
  /\ t.at = "posting"
  /\ UNCHANGED engineVars
  /\ tasks' = (tasks \ {t}) \cup {[t EXCEPT !.left = @ - 1]}
  /\ UNCHANGED <<estado, inicio, resultado, report, watchers>> /\ TaskLeaves

(* No 200: unreachable, refused, already active (202), or admitted by the engine
   and the answer lost.  The last attempt blocks the execution and puts back the
   report its session knows, whatever the row holds by now; a refusal returns and a lost connection raises. *)
PostFails(t) ==
  /\ t.at = "posting"
  /\ Admit(ejecucion[t.job]) \/ UNCHANGED engineVars
  /\ \/ /\ t.left > 1
        /\ tasks' = (tasks \ {t}) \cup {[t EXCEPT !.left = @ - 1]}
        /\ UNCHANGED <<resultado, report>>
     \/ /\ t.left = 1
        /\ Writes(t, "BLOQUEADO")
        /\ report' = [report EXCEPT ![ejecucion[t.job]] = t.seen]
        /\ \E place \in {"returned", "raised"} : Goes(t, place)
  /\ UNCHANGED <<estado, inicio, watchers>> /\ TaskLeaves

(* trigger_ai_execution returned: an execution that is blocked or failed by now
   closes an active row. *)
Returned(t) ==
  /\ t.at = "returned"
  /\ Ends(t)
  /\ LET e == ejecucion[t.job] IN
       \/ resultado[e] \in {"BLOQUEADO", "FALLO"} /\ Unlocked(e) /\ MarkFinished(e, resultado[e])
       \/ resultado[e] \notin {"BLOQUEADO", "FALLO"} /\ UNCHANGED estado
  /\ UNCHANGED <<inicio, resultado, report, watchers, engineVars>> /\ TaskLeaves

(* The exception handler of _dispatch: an active row is blocked, and with it an
   execution that never started. *)
Raised(t) ==
  /\ t.at = "raised"
  /\ Unlocked(ejecucion[t.job])
  /\ Ends(t)
  /\ \/ /\ t.job \in ActiveJobs
        /\ estado' = [estado EXCEPT ![t.job] = "BLOCKED"]
        /\ resultado' = [resultado EXCEPT ![ejecucion[t.job]] =
                           IF @ = "SIN_CORRER" THEN "BLOQUEADO" ELSE @]
     \/ /\ t.job \notin ActiveJobs
        /\ UNCHANGED <<estado, resultado>>
  /\ UNCHANGED <<inicio, report, watchers, engineVars>> /\ TaskLeaves

TaskStep(t) ==
  \/ Start(t) \/ TriggerRaises(t) \/ TriggerBlocks(t) \/ TriggerBegins(t)
  \/ PostAccepted(t) \/ PostFails(t) \/ Returned(t) \/ Raised(t)

-------------------------------------------------------------------------------
(* Time, the engine's results, and faults. *)

(* ai_execution_timeout_watcher wakes up: an execution that still runs, of this
   dispatch or a later one, is closed. *)
WatcherFires(w) ==
  /\ w \in watchers
  /\ watchers' = watchers \ {w}
  /\ LET e == w[2] IN
       \/ /\ resultado[e] = "EJECUTANDO_AI"
          /\ Unlocked(e)
          /\ resultado' = [resultado EXCEPT ![e] = "FALLO"]
          /\ report' = [report EXCEPT ![e] = "backend"]
          /\ estado' = TimedOut({e})
       \/ resultado[e] # "EJECUTANDO_AI" /\ UNCHANGED <<estado, resultado, report>>
  /\ UNCHANGED <<ejecucion, inicio, tick, tasks, parallel, faults>>
  /\ UNCHANGED <<engineVars, gateVars>>

(* Mutant: a late result is stored whatever became of the execution. *)
BugComplete(e, v) ==
  /\ Unlocked(e)
  /\ resultado' = [resultado EXCEPT ![e] = v]
  /\ report' = [report EXCEPT ![e] = "engine"]
  /\ MarkFinished(e, v)

(* complete_ai_engine_execution: only an execution that runs takes the result. *)
Complete(e, v) ==
  /\ Unlocked(e)
  /\ \/ /\ resultado[e] = "EJECUTANDO_AI"
        /\ resultado' = [resultado EXCEPT ![e] = v]
        /\ report' = [report EXCEPT ![e] = "engine"]
        /\ MarkFinished(e, v)
     \/ resultado[e] # "EJECUTANDO_AI" /\ UNCHANGED <<estado, resultado, report>>

(* The engine posts a result; the answer is an acknowledgement only when the
   stored report carries the engine's delivery id, and it may be lost. *)
Callback(e) ==
  /\ \E v \in Deliverable(e) :
       /\ Complete(e, v)
       /\ \/ report'[e] = "engine" /\ Acknowledged(e, v)
          \/ UNCHANGED engineVars
  /\ UNCHANGED <<ejecucion, inicio, procVars, parallel, faults, gateVars>>

EngineStep(e) ==
  /\ (\E v \in Verdicts : Finish(e, v)) \/ GiveUp(e)
  /\ UNCHANGED <<queueVars, procVars, parallel, faults, gateVars>>

(* A backend process dies with its tasks, its watchers and its transaction, and
   is started again. *)
Crash(p) ==
  /\ faults < MaxFaults
  /\ faults' = faults + 1
  /\ tasks' = {t \in tasks : t.process # p}
  /\ watchers' = {w \in watchers : w[1] # p}
  /\ tick' = [tick EXCEPT ![p] = NoTick]
  /\ UNCHANGED <<queueVars, parallel, engineVars, gateVars>>

EngineDies ==
  /\ faults < MaxFaults
  /\ faults' = faults + 1
  /\ EngineCrash
  /\ UNCHANGED <<queueVars, procVars, parallel, gateVars>>

(* An administrator changes max_parallel_ai_runs. *)
SetParallel(n) ==
  /\ parallel # n
  /\ parallel' = n
  /\ UNCHANGED <<queueVars, procVars, faults, engineVars, gateVars>>

(* A step of the update host; both writers of the pause row wait for the
   advisory lock. *)
NoWork == ActiveJobs = {} /\ \A e \in Executions : resultado[e] # "EJECUTANDO_AI"
GateStep ==
  /\ \/ \E x \in Transactions : AcquireBegin(x) \/ ReleaseBegin(x, NoWork)
     \/ QueueLockFree /\ (AcquirePause \/ ReleaseUnpause)
     \/ AcquireClose(NoWork) \/ ReleaseConfirm \/ ReleaseBury \/ ReleaseSeal
     \/ CallFails
  /\ UNCHANGED <<queueVars, procVars, parallel, faults, engineVars>>

Next ==
  \/ \E e \in Executions : AskWithoutUrl(e) \/ Enqueue(e)
  \/ \E p \in Processes : TickCommit(p) \/ Crash(p) \/ \E stale \in SUBSET Recoverable : TickRead(p, stale)
  \/ \E t \in tasks : TaskStep(t)
  \/ \E w \in watchers : WatcherFires(w)
  \/ \E e \in Executions : Callback(e) \/ EngineStep(e)
  \/ EngineDies
  \/ \E n \in ParallelRuns : SetParallel(n)
  \/ GateStep

Spec == Init /\ [][Next]_vars

(* Every process ticks every two seconds and runs its tasks and watchers.  Time
   passes: an execution that runs without a report is before the cutoff of every
   tick from some tick on, so one of them recovers it.  Nothing is assumed of the
   engine, of callbacks or of the host. *)
Fairness ==
  /\ \A p \in Processes :
       /\ WF_vars(\E stale \in SUBSET Recoverable : TickRead(p, stale))
       /\ WF_vars(TickCommit(p))
  /\ \A e \in Executions :
       SF_vars(\E p \in Processes, stale \in SUBSET Recoverable : e \in stale /\ TickRead(p, stale))
  /\ \A p \in Processes, j \in Jobs :
       WF_vars(\E t \in tasks : t.process = p /\ t.job = j /\ TaskStep(t))
  /\ \A p \in Processes, e \in Executions : WF_vars(WatcherFires(<<p, e>>))

FairSpec == Spec /\ Fairness

-------------------------------------------------------------------------------
(* Properties. *)

(* The scheduler never claims past the limit it reads: whenever more rows are
   active than before, they are at most max_parallel_ai_runs, clamped to 1..5,
   whatever callbacks, timeouts and other processes' ticks did since it counted
   (drain_ai_execution_queue's count-and-claim under the advisory lock). *)
ClaimsWithinLimit ==
  [][Cardinality(ActiveJobs') > Cardinality(ActiveJobs)
       => Cardinality(ActiveJobs') <= Limit]_vars

(* While the update host's gate is closed no job is claimed or running, through
   crashes of the host between any two steps of acquire and release
   (AIQueueLocalGate.acquire, release). *)
ClosedGateIsIdle == journal.phase = "closed" => ActiveJobs = {}

(* The gate's journal tells the truth about the pause row: closed means paused
   by that transaction, and a released transaction never pauses again. *)
PauseOwned ==
  /\ journal.phase = "closed" => paused = journal.transaction
  /\ paused # NoTransaction => paused = journal.transaction /\ paused \notin tombstones

(* First terminal result wins against callbacks, watchers, recovery and ticks:
   the verdict of an execution that ended is changed only by a request for it
   without a base URL, or by a live dispatch of it that itself takes the step
   and starts or blocks it (complete_ai_engine_execution, the watcher and
   recover_stale_ai_executions write only what still runs, under its lock). *)
VerdictKept ==
  [][\A e \in Executions :
       resultado[e] \in Finished /\ resultado'[e] # resultado[e]
         => \/ AskWithoutUrl(e)
            \/ /\ \E t \in tasks \ tasks' : ejecucion[t.job] = e /\ t.at \in {"starting", "posting"}
               /\ resultado'[e] \in {"EJECUTANDO_AI", "BLOQUEADO"}]_vars

(* An execution that runs and has no final report is closed in the end, whatever
   crashes, if the pause does not last for ever: by its callback, its watcher or
   the recovery of a tick. *)
ExecutionsSettle ==
  []<>(paused = NoTransaction) =>
     \A e \in Executions :
        (resultado[e] = "EJECUTANDO_AI" /\ report[e] = "none") ~> resultado[e] # "EJECUTANDO_AI"
===============================================================================
