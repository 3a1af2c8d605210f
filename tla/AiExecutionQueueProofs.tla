------------------------ MODULE AiExecutionQueueProofs ------------------------
(***************************************************************************)
(* Proofs about the AI execution queue, for any number of executions, job  *)
(* rows, backend processes, crashes and update transactions.               *)
(***************************************************************************)
EXTENDS AiExecutionQueue, FiniteSetTheorems, TLAPS

\* The gate's journal, its pause row and the call under way agree.
GateOK ==
  /\ paused # NoTransaction =>
       /\ paused = journal.transaction /\ paused \notin tombstones
       /\ journal.phase \in {"acquiring", "closed", "releasing"}
  /\ journal.phase = "closed" => paused = journal.transaction
  /\ call # NoCall => call.transaction = journal.transaction
  /\ At("pause") \/ At("drain") =>
       journal.phase \in {"acquiring", "closed"} /\ call.transaction \notin tombstones
  /\ At("unpause") \/ At("confirm") \/ At("bury") \/ At("seal") => journal.phase = "releasing"
  /\ At("bury") \/ At("seal") => paused = NoTransaction

\* What an open scheduler transaction has read is still so, as far as it matters.
TickOK ==
  /\ \A p \in Processes : ~tick[p].open => tick[p] = NoTick
  /\ \A p, q \in Processes : tick[p].open /\ tick[q].open => p = q
  /\ \A p \in Processes : \A e \in tick[p].stale : resultado[e] = "EJECUTANDO_AI"
  /\ \A p \in Processes, j \in Jobs :
       j \in tick[p].requeue \/ (\E f \in FinalStates : <<j, f>> \in tick[p].close)
         => estado[j] # "NONE"

\* A paused scheduler has no transaction open, a closed gate no work.
PauseOK ==
  /\ paused # NoTransaction => QueueLockFree
  /\ journal.phase = "closed" => \A j \in Jobs : estado[j] \notin ActiveStates

\* The inductive invariant.
Inv == TypeOK /\ GateOK /\ TickOK /\ PauseOK

\* What a step does that is no scheduler's: it claims no row, drops no row and
\* writes no execution a scheduler holds locked.
Tame ==
  /\ \A j \in Jobs : estado'[j] \in ActiveStates => estado[j] \in ActiveStates
  /\ \A j \in Jobs : estado'[j] = "NONE" => estado[j] = "NONE"
  /\ \A e \in Executions : ~Unlocked(e) => resultado'[e] = resultado[e]

\* VerdictKept, as a formula about one step.
VerdictStep ==
  \A e \in Executions :
    resultado[e] \in Finished /\ resultado'[e] # resultado[e]
      => \/ AskWithoutUrl(e)
         \/ /\ \E t \in tasks \ tasks' : ejecucion[t.job] = e /\ t.at \in {"starting", "posting"}
            /\ resultado'[e] \in {"EJECUTANDO_AI", "BLOQUEADO"}

-------------------------------------------------------------------------------
\* The initial state satisfies the invariant.
LEMMA InvInit == Init => Inv
<1> SUFFICES ASSUME Init PROVE Inv
  OBVIOUS
<1>1. TypeOK
  <2>1. EngineTypeOK /\ GateTypeOK
    BY DEF Init, EngineInit, GateInit, EngineTypeOK, GateTypeOK, Phases
  <2>2. tick \in [Processes -> Ticks]
    BY DEF Init, Ticks, NoTick
  <2> QED
    BY <2>1, <2>2, QueueAssumption DEF Init, TypeOK, Unfinished, Reports
<1>2. GateOK
  BY DEF Init, GateInit, GateOK, NoJournal, NoCall, At
<1>3. TickOK /\ PauseOK
  BY DEF Init, GateInit, TickOK, PauseOK, NoTick, NoJournal
<1> QED
  BY <1>1, <1>2, <1>3 DEF Inv

\* A row a dispatch task works on has an execution.
LEMMA TaskFields ==
  ASSUME TypeOK, NEW t \in tasks
  PROVE  /\ t \in Tasks /\ t.job \in Jobs /\ t.process \in Processes /\ t.seen \in Reports
         /\ ejecucion[t.job] \in Executions
         /\ estado[t.job] # "NONE"
  BY DEF TypeOK, Tasks

\* A timed-out row was active.
LEMMA TimedOutRows ==
  ASSUME TypeOK, NEW late, NEW j \in Jobs
  PROVE  /\ TimedOut(late) \in [Jobs -> {"NONE", "PENDING"} \cup ActiveStates \cup FinalStates]
         /\ TimedOut(late)[j] \in ActiveStates => estado[j] \in ActiveStates
         /\ TimedOut(late)[j] = "NONE" => estado[j] = "NONE"
         /\ estado[j] = "NONE" => TimedOut(late)[j] = "NONE"
  BY DEF TypeOK, TimedOut, ActiveJobs, ActiveStates, FinalStates

\* Closing a row with a verdict.
LEMMA MarkFinishedRows ==
  ASSUME TypeOK, NEW e \in Executions, NEW r, MarkFinished(e, r)
  PROVE  /\ estado' \in [Jobs -> {"NONE", "PENDING"} \cup ActiveStates \cup FinalStates]
         /\ \A j \in Jobs : estado'[j] \in ActiveStates => estado[j] \in ActiveStates
         /\ \A j \in Jobs : (estado'[j] = "NONE") = (estado[j] = "NONE")
<1>1. JobVerdict(r) \in FinalStates
  BY DEF JobVerdict, FinalStates
<1> QED
  BY <1>1 DEF TypeOK, MarkFinished, ActiveOf, ActiveJobs, ActiveStates, FinalStates

\* Rows of tasks stay rows of tasks.
LEMMA TaskMoves ==
  ASSUME TypeOK, NEW t \in tasks,
         \/ Ends(t)
         \/ Goes(t, "starting") \/ Goes(t, "returned") \/ Goes(t, "raised")
         \/ \E r \in Reports : Posts(t, r)
         \/ t.left > 1 /\ tasks' = (tasks \ {t}) \cup {[t EXCEPT !.left = @ - 1]}
  PROVE  tasks' \subseteq Tasks /\ \A u \in tasks' : \E v \in tasks : u.job = v.job
<1>1. t \in Tasks /\ tasks \subseteq Tasks
  BY DEF TypeOK
<1>2. \A at \in {"starting", "posting", "returned", "raised"} :
        [t EXCEPT !.at = at] \in Tasks /\ [t EXCEPT !.at = at].job = t.job
  BY <1>1 DEF Tasks
<1>3. t.left > 1 => [t EXCEPT !.left = @ - 1] \in Tasks /\ [t EXCEPT !.left = @ - 1].job = t.job
  BY <1>1, QueueAssumption DEF Tasks
<1>4. ASSUME NEW r \in Reports, Posts(t, r)
      PROVE  tasks' \subseteq Tasks /\ \A u \in tasks' : \E v \in tasks : u.job = v.job
  <2>1. [process |-> t.process, job |-> t.job, left |-> t.left,
         seen |-> r, at |-> "posting"] \in Tasks
    BY <1>1 DEF Tasks
  <2> QED
    BY <1>1, <1>4, <2>1 DEF Posts
<1> QED
  BY <1>1, <1>2, <1>3, <1>4 DEF Ends, Goes

\* The type invariant after a step of a dispatch task, from its parts.
LEMMA TaskType ==
  ASSUME TypeOK, TaskLeaves, EngineTypeOK',
         tasks' \subseteq Tasks, \A u \in tasks' : \E v \in tasks : u.job = v.job,
         estado' \in [Jobs -> {"NONE", "PENDING"} \cup ActiveStates \cup FinalStates],
         \A j \in Jobs : (estado'[j] = "NONE") = (estado[j] = "NONE"),
         inicio' \subseteq Jobs,
         resultado' \in [Executions -> Unfinished \cup Finished],
         report' \in [Executions -> Reports],
         watchers' \subseteq (Processes \X Executions)
  PROVE  TypeOK'
<1>1. GateTypeOK'
  BY DEF TypeOK, TaskLeaves, GateTypeOK, gateVars
<1>2. \A u \in tasks' : estado'[u.job] # "NONE"
  BY DEF TypeOK, Tasks
<1> QED
  BY <1>1, <1>2 DEF TypeOK, TaskLeaves

\* The engine's state stays well typed.
LEMMA EngineSteps ==
  ASSUME TypeOK, NEW e \in Executions, NEW v \in Verdicts,
         \/ UNCHANGED engineVars \/ Admit(e) \/ Finish(e, v) \/ GiveUp(e)
         \/ Acknowledged(e, v) \/ EngineCrash
  PROVE  EngineTypeOK'
  BY DEF TypeOK, EngineTypeOK, engineVars, Admit, Finish, GiveUp, Acknowledged, EngineCrash, Phases

\* Admitting a task, or not, keeps the engine's state well typed.
LEMMA EngineAdmits ==
  ASSUME TypeOK, NEW e \in Executions, UNCHANGED engineVars \/ Admit(e)
  PROVE  EngineTypeOK'
  BY DEF TypeOK, EngineTypeOK, engineVars, Admit, Phases

\* A task writes only an execution that is not locked.
LEMMA TaskWrites ==
  ASSUME TypeOK, NEW t \in tasks, NEW r \in Unfinished \cup Finished, Writes(t, r)
  PROVE  /\ resultado' \in [Executions -> Unfinished \cup Finished]
         /\ \A e \in Executions : e # ejecucion[t.job] => resultado'[e] = resultado[e]
         /\ Unlocked(ejecucion[t.job])
  BY TaskFields DEF TypeOK, Writes

\* A task that starts or blocks its execution leaves the place it was at: this
\* is the one way a dispatch changes a verdict.
LEMMA TaskVerdict ==
  ASSUME TypeOK, NEW t \in tasks, t.at \in {"starting", "posting"},
         NEW r \in {"EJECUTANDO_AI", "BLOQUEADO"}, Writes(t, r),
         \/ \E place \in {"returned", "raised"} : Goes(t, place)
         \/ t.at = "starting" /\ \E seen \in Reports : Posts(t, seen)
  PROVE  VerdictStep
<1>1. t \in Tasks
  BY DEF TypeOK
<1>2. t \in tasks \ tasks'
  <2>1. CASE \E place \in {"returned", "raised"} : Goes(t, place)
    <3>1. PICK place \in {"returned", "raised"} :
                 tasks' = (tasks \ {t}) \cup {[t EXCEPT !.at = place]}
      BY <2>1 DEF Goes
    <3>2. [t EXCEPT !.at = place].at = place
      BY <1>1 DEF Tasks
    <3> QED
      BY <3>1, <3>2
  <2>2. CASE t.at = "starting" /\ \E seen \in Reports : Posts(t, seen)
    BY <2>2 DEF Posts
  <2> QED
    BY <2>1, <2>2
<1>3. \A e \in Executions : resultado'[e] # resultado[e] => ejecucion[t.job] = e /\ resultado'[e] = r
  BY DEF Writes, TypeOK
<1> QED
  BY <1>2, <1>3 DEF VerdictStep

\* Every step of a dispatch task keeps the types, is tame and keeps verdicts.
LEMMA TaskSteps ==
  ASSUME TypeOK, NEW t \in tasks, TaskStep(t)
  PROVE  TypeOK' /\ Tame /\ VerdictStep
<1> USE TaskFields, TaskMoves
<1>0. /\ estado \in [Jobs -> {"NONE", "PENDING"} \cup ActiveStates \cup FinalStates]
      /\ inicio \subseteq Jobs /\ resultado \in [Executions -> Unfinished \cup Finished]
      /\ watchers \subseteq (Processes \X Executions) /\ report \in [Executions -> Reports]
      /\ {"EJECUTANDO_AI", "BLOQUEADO"} \subseteq Unfinished \cup Finished
  BY DEF TypeOK, Unfinished, Finished
<1>1. CASE Start(t)
  <2>1. tasks' \subseteq Tasks /\ \A u \in tasks' : \E v \in tasks : u.job = v.job
    BY <1>1 DEF Start
  <2>2. /\ estado' \in [Jobs -> {"NONE", "PENDING"} \cup ActiveStates \cup FinalStates]
        /\ \A j \in Jobs : (estado'[j] = "NONE") = (estado[j] = "NONE")
        /\ \A j \in Jobs : estado'[j] \in ActiveStates => estado[j] \in ActiveStates
        /\ inicio' \subseteq Jobs
    BY <1>0, <1>1 DEF Start, ActiveStates, FinalStates
  <2> QED
    BY <1>0, <1>1, <2>1, <2>2, EngineAdmits, TaskType DEF Start, Tame, VerdictStep
<1>2. CASE TriggerRaises(t)
  <2>1. tasks' \subseteq Tasks /\ \A u \in tasks' : \E v \in tasks : u.job = v.job
    BY <1>2 DEF TriggerRaises
  <2> QED
    BY <1>0, <1>2, <2>1, EngineAdmits, TaskType DEF TriggerRaises, Tame, VerdictStep
<1>3. CASE TriggerBlocks(t)
  <2>1. tasks' \subseteq Tasks /\ \A u \in tasks' : \E v \in tasks : u.job = v.job
    BY <1>3 DEF TriggerBlocks
  <2>2. Writes(t, "BLOQUEADO") /\ t.at = "starting"
    BY <1>3 DEF TriggerBlocks
  <2>3. VerdictStep
    BY <1>3, <2>2, TaskVerdict DEF TriggerBlocks
  <2> QED
    BY <1>0, <1>3, <2>1, <2>2, <2>3, TaskWrites, EngineAdmits, TaskType
       DEF TriggerBlocks, Tame
<1>4. CASE TriggerBegins(t)
  <2>1. tasks' \subseteq Tasks /\ \A u \in tasks' : \E v \in tasks : u.job = v.job
    <3>1. report[ejecucion[t.job]] \in Reports
      BY <1>0
    <3> QED
      BY <1>4, <3>1 DEF TriggerBegins
  <2>2. Writes(t, "EJECUTANDO_AI") /\ t.at = "starting"
    BY <1>4 DEF TriggerBegins
  <2>3. watchers' \subseteq (Processes \X Executions)
    <3>1. <<t.process, ejecucion[t.job]>> \in Processes \X Executions
      OBVIOUS
    <3>2. watchers' \subseteq watchers \cup {<<t.process, ejecucion[t.job]>>}
      BY <1>4 DEF TriggerBegins
    <3> QED
      BY <1>0, <3>1, <3>2
  <2>4. VerdictStep
    <3>1. report[ejecucion[t.job]] \in Reports
      BY <1>0
    <3> QED
      BY <1>4, <2>2, <3>1, TaskVerdict DEF TriggerBegins
  <2> QED
    BY <1>0, <1>4, <2>1, <2>2, <2>3, <2>4, TaskWrites, EngineAdmits, TaskType
       DEF TriggerBegins, Tame
<1>5. CASE PostAccepted(t)
  <2>1. tasks' \subseteq Tasks /\ \A u \in tasks' : \E v \in tasks : u.job = v.job
    BY <1>5 DEF PostAccepted
  <2> QED
    BY <1>0, <1>5, <2>1, EngineAdmits, TaskType DEF PostAccepted, Tame, VerdictStep
<1>6. CASE PostFails(t)
  <2>1. tasks' \subseteq Tasks /\ \A u \in tasks' : \E v \in tasks : u.job = v.job
    BY <1>6 DEF PostFails
  <2>2. UNCHANGED resultado \/ Writes(t, "BLOQUEADO")
    BY <1>6 DEF PostFails
  <2>3. EngineTypeOK'
    BY <1>6, EngineAdmits DEF PostFails
  <2>4. report' \in [Executions -> Reports]
    BY <1>0, <1>6 DEF PostFails
  <2>5. VerdictStep
    <3>1. CASE UNCHANGED resultado
      BY <3>1 DEF VerdictStep
    <3>2. CASE /\ Writes(t, "BLOQUEADO")
               /\ \E place \in {"returned", "raised"} : Goes(t, place)
      BY <1>6, <3>2, TaskVerdict DEF PostFails
    <3> QED
      BY <1>6, <3>1, <3>2 DEF PostFails
  <2> QED
    BY <1>0, <1>6, <2>1, <2>2, <2>3, <2>4, <2>5, TaskWrites, TaskType DEF PostFails, Tame
<1>7. CASE Returned(t)
  <2>1. tasks' \subseteq Tasks /\ \A u \in tasks' : \E v \in tasks : u.job = v.job
    BY <1>7 DEF Returned
  <2>2. UNCHANGED estado \/ MarkFinished(ejecucion[t.job], resultado[ejecucion[t.job]])
    BY <1>7 DEF Returned
  <2>3. /\ estado' \in [Jobs -> {"NONE", "PENDING"} \cup ActiveStates \cup FinalStates]
        /\ \A j \in Jobs : (estado'[j] = "NONE") = (estado[j] = "NONE")
        /\ \A j \in Jobs : estado'[j] \in ActiveStates => estado[j] \in ActiveStates
    BY <1>0, <2>2, MarkFinishedRows
  <2> QED
    BY <1>0, <1>7, <2>1, <2>3, EngineAdmits, TaskType DEF Returned, Tame, VerdictStep
<1>8. CASE Raised(t)
  <2>1. tasks' \subseteq Tasks /\ \A u \in tasks' : \E v \in tasks : u.job = v.job
    BY <1>8 DEF Raised
  <2>2. /\ estado' \in [Jobs -> {"NONE", "PENDING"} \cup ActiveStates \cup FinalStates]
        /\ \A j \in Jobs : (estado'[j] = "NONE") = (estado[j] = "NONE")
        /\ \A j \in Jobs : estado'[j] \in ActiveStates => estado[j] \in ActiveStates
    BY <1>0, <1>8 DEF Raised, ActiveJobs, ActiveStates, FinalStates
  <2>3. /\ resultado' \in [Executions -> Unfinished \cup Finished]
        /\ \A e \in Executions : e # ejecucion[t.job] => resultado'[e] = resultado[e]
        /\ \A e \in Executions : resultado[e] \in Finished => resultado'[e] = resultado[e]
    BY <1>0, <1>8 DEF Raised, Finished
  <2> QED
    BY <1>0, <1>8, <2>1, <2>2, <2>3, EngineAdmits, TaskType DEF Raised, Tame, VerdictStep
<1> QED
  BY <1>1, <1>2, <1>3, <1>4, <1>5, <1>6, <1>7, <1>8 DEF TaskStep

\* Requests, watchers and callbacks keep the types, are tame and keep verdicts.
LEMMA RequestSteps ==
  ASSUME TypeOK, NEW e \in Executions, AskWithoutUrl(e) \/ Enqueue(e)
  PROVE  TypeOK' /\ Tame /\ VerdictStep
<1>1. CASE AskWithoutUrl(e)
  <2>1. /\ resultado' \in [Executions -> Unfinished \cup Finished]
        /\ report' \in [Executions -> Reports]
        /\ Unlocked(e)
        /\ \A d \in Executions : d # e => resultado'[d] = resultado[d]
        /\ resultado'[e] = "BLOQUEADO" /\ report'[e] = "none"
    BY <1>1 DEF AskWithoutUrl, TypeOK, Finished, Reports
  <2>2. TypeOK'
    BY <1>1, <2>1 DEF AskWithoutUrl, TypeOK, procVars, engineVars, gateVars, EngineTypeOK, GateTypeOK
  <2>3. Tame
    BY <1>1, <2>1 DEF AskWithoutUrl, Tame
  <2>4. VerdictStep
    BY <1>1, <2>1 DEF VerdictStep
  <2> QED
    BY <2>2, <2>3, <2>4
<1>2. CASE Enqueue(e)
  <2>1. PICK j \in Jobs : /\ estado[j] = "NONE"
                          /\ estado' = [estado EXCEPT ![j] = "PENDING"]
                          /\ ejecucion' = [ejecucion EXCEPT ![j] = e]
    BY <1>2 DEF Enqueue
  <2>2. UNCHANGED <<inicio, resultado, report, procVars, parallel, faults, engineVars, gateVars>>
    BY <1>2 DEF Enqueue
  <2>3. TypeOK'
    <3>1. EngineTypeOK' /\ GateTypeOK'
      BY <2>2 DEF TypeOK, EngineTypeOK, GateTypeOK, engineVars, gateVars
    <3>2. \A t \in tasks : t.job \in Jobs
      BY DEF TypeOK, Tasks
    <3>3. /\ estado' \in [Jobs -> {"NONE", "PENDING"} \cup ActiveStates \cup FinalStates]
          /\ ejecucion' \in [Jobs -> Executions \cup {NoExecution}]
          /\ \A i \in Jobs : estado'[i] # "NONE" => ejecucion'[i] \in Executions
          /\ \A t \in tasks : estado'[t.job] # "NONE"
      BY <2>1, <3>2 DEF TypeOK
    <3> QED
      BY <2>2, <3>1, <3>3 DEF TypeOK, procVars
  <2>4. Tame /\ VerdictStep
    BY <2>1, <2>2 DEF TypeOK, Tame, VerdictStep, ActiveStates
  <2> QED
    BY <2>3, <2>4
<1> QED
  BY <1>1, <1>2

\* The type invariant after a result or a timeout, from its parts.
LEMMA ResultType ==
  ASSUME TypeOK, EngineTypeOK',
         estado' \in [Jobs -> {"NONE", "PENDING"} \cup ActiveStates \cup FinalStates],
         \A j \in Jobs : (estado'[j] = "NONE") = (estado[j] = "NONE"),
         resultado' \in [Executions -> Unfinished \cup Finished],
         report' \in [Executions -> Reports],
         watchers' \subseteq watchers,
         UNCHANGED <<ejecucion, inicio, tick, tasks, parallel, faults, gateVars>>
  PROVE  TypeOK'
<1>1. GateTypeOK'
  BY DEF TypeOK, GateTypeOK, gateVars
<1>2. \A u \in tasks : estado'[u.job] # "NONE"
  BY DEF TypeOK, Tasks
<1> QED
  BY <1>1, <1>2 DEF TypeOK

\* A watcher that fires keeps the types, is tame and keeps verdicts.
LEMMA WatcherStep ==
  ASSUME TypeOK, NEW w \in watchers, WatcherFires(w)
  PROVE  TypeOK' /\ Tame /\ VerdictStep
<1>1. w[2] \in Executions
  BY DEF TypeOK
<1>2. EngineTypeOK'
  BY DEF TypeOK, WatcherFires, EngineTypeOK, engineVars
<1>3. /\ watchers' \subseteq watchers
      /\ UNCHANGED <<ejecucion, inicio, tick, tasks, parallel, faults, gateVars>>
  BY DEF WatcherFires
<1>4. CASE resultado[w[2]] = "EJECUTANDO_AI"
  <2>1. /\ Unlocked(w[2])
        /\ resultado' = [resultado EXCEPT ![w[2]] = "FALLO"]
        /\ report' = [report EXCEPT ![w[2]] = "backend"]
        /\ estado' = TimedOut({w[2]})
    BY <1>4 DEF WatcherFires
  <2>2. /\ estado' \in [Jobs -> {"NONE", "PENDING"} \cup ActiveStates \cup FinalStates]
        /\ \A j \in Jobs : (estado'[j] = "NONE") = (estado[j] = "NONE")
        /\ \A j \in Jobs : estado'[j] \in ActiveStates => estado[j] \in ActiveStates
    <3>1. ASSUME NEW j \in Jobs
          PROVE  (estado'[j] = "NONE") = (estado[j] = "NONE")
      BY <2>1, TimedOutRows
    <3>2. ASSUME NEW j \in Jobs
          PROVE  estado'[j] \in ActiveStates => estado[j] \in ActiveStates
      BY <2>1, TimedOutRows
    <3>3. estado' \in [Jobs -> {"NONE", "PENDING"} \cup ActiveStates \cup FinalStates]
      BY <2>1 DEF TypeOK, TimedOut, FinalStates
    <3> QED
      BY <3>1, <3>2, <3>3
  <2>3. /\ resultado' \in [Executions -> Unfinished \cup Finished]
        /\ report' \in [Executions -> Reports]
    BY <1>1, <2>1 DEF TypeOK, Finished, Reports
  <2>4. TypeOK'
    BY <1>2, <1>3, <2>2, <2>3, ResultType
  <2>5. Tame
    BY <2>1, <2>2 DEF Tame, TypeOK
  <2>6. VerdictStep
    BY <1>1, <1>4, <2>1 DEF VerdictStep, TypeOK, Finished
  <2> QED
    BY <2>4, <2>5, <2>6
<1>5. CASE resultado[w[2]] # "EJECUTANDO_AI"
  <2>1. UNCHANGED <<estado, resultado, report>>
    BY <1>5 DEF WatcherFires
  <2> QED
    BY <1>2, <1>3, <2>1, ResultType DEF Tame, VerdictStep, TypeOK
<1> QED
  BY <1>4, <1>5

\* So does a callback of the engine.
LEMMA CallbackStep ==
  ASSUME TypeOK, NEW e \in Executions, Callback(e)
  PROVE  TypeOK' /\ Tame /\ VerdictStep
<1>1. PICK v \in Verdicts : /\ Complete(e, v)
                            /\ Acknowledged(e, v) \/ UNCHANGED engineVars
  BY DEF Callback, Deliverable
<1>2. EngineTypeOK'
  BY <1>1, EngineSteps
<1>3. UNCHANGED <<ejecucion, inicio, tick, tasks, watchers, parallel, faults, gateVars>>
  BY DEF Callback, procVars
<1>4. CASE resultado[e] = "EJECUTANDO_AI"
  <2>1. /\ Unlocked(e)
        /\ resultado' = [resultado EXCEPT ![e] = v]
        /\ report' = [report EXCEPT ![e] = "engine"]
        /\ MarkFinished(e, v)
    BY <1>1, <1>4 DEF Complete
  <2>2. /\ resultado' \in [Executions -> Unfinished \cup Finished]
        /\ report' \in [Executions -> Reports]
    BY <2>1, VerdictAssumption DEF TypeOK, Finished, Reports
  <2>3. TypeOK'
    BY <1>2, <1>3, <2>1, <2>2, MarkFinishedRows, ResultType
  <2>4. Tame
    BY <2>1, MarkFinishedRows DEF Tame, TypeOK
  <2>5. VerdictStep
    BY <1>4, <2>1 DEF VerdictStep, TypeOK, Finished
  <2> QED
    BY <2>3, <2>4, <2>5
<1>5. CASE resultado[e] # "EJECUTANDO_AI"
  <2>1. UNCHANGED <<estado, resultado, report>>
    BY <1>1, <1>5 DEF Complete
  <2> QED
    BY <1>2, <1>3, <2>1, ResultType DEF Tame, VerdictStep, TypeOK
<1> QED
  BY <1>4, <1>5

\* A tame step with the schedulers and the gate at rest preserves the invariant.
LEMMA TameStep ==
  ASSUME Inv, TypeOK', Tame, UNCHANGED <<tick, gateVars>>
  PROVE  Inv'
<1>1. GateOK'
  BY DEF Inv, GateOK, gateVars, At
<1>2. TickOK'
  <2>1. ASSUME NEW p \in Processes, NEW e \in tick[p].stale
        PROVE  resultado'[e] = "EJECUTANDO_AI"
    <3>1. e \in Executions /\ ~Unlocked(e)
      BY DEF Inv, TypeOK, Ticks, Unlocked
    <3> QED
      BY <3>1 DEF Inv, TickOK, Tame
  <2>2. ASSUME NEW p \in Processes, NEW j \in Jobs,
               j \in tick[p].requeue \/ (\E f \in FinalStates : <<j, f>> \in tick[p].close)
        PROVE  estado'[j] # "NONE"
    BY <2>2 DEF Inv, TickOK, Tame
  <2> QED
    BY <2>1, <2>2 DEF Inv, TickOK
<1>3. PauseOK'
  BY DEF Inv, PauseOK, Tame, gateVars, QueueLockFree
<1> QED
  BY <1>1, <1>2, <1>3 DEF Inv

\* The engine's own steps, its crash and a change of the setting touch no row.
LEMMA AsideStep ==
  ASSUME Inv,
         \/ \E e \in Executions : EngineStep(e)
         \/ EngineDies
         \/ \E n \in ParallelRuns : SetParallel(n)
  PROVE  Inv' /\ Tame /\ VerdictStep
<1>1. UNCHANGED <<queueVars, procVars, gateVars>>
  BY DEF EngineStep, EngineDies, SetParallel
<1>2. EngineTypeOK'
  BY DEF Inv, TypeOK, EngineTypeOK, EngineStep, EngineDies, SetParallel, engineVars, Finish,
     GiveUp, EngineCrash, Phases
<1>3. parallel' \in ParallelRuns /\ faults' \in 0..MaxFaults
  BY QueueAssumption DEF Inv, TypeOK, EngineStep, EngineDies, SetParallel
<1>4. TypeOK'
  BY <1>1, <1>2, <1>3 DEF Inv, TypeOK, GateTypeOK, queueVars, procVars, gateVars
<1>5. Tame /\ VerdictStep
  BY <1>1 DEF Tame, VerdictStep, queueVars
<1> QED
  BY <1>1, <1>4, <1>5, TameStep DEF procVars

\* A crashed process loses its transaction and its tasks.
LEMMA CrashStep ==
  ASSUME Inv, NEW p \in Processes, Crash(p)
  PROVE  Inv' /\ Tame /\ VerdictStep
<1>1. UNCHANGED <<queueVars, gateVars>>
  BY DEF Crash
<1>2. tick' = [tick EXCEPT ![p] = NoTick] /\ NoTick \in Ticks /\ tick \in [Processes -> Ticks]
  BY DEF Crash, Inv, TypeOK, NoTick, Ticks
<1>3. TypeOK'
  <2>1. EngineTypeOK' /\ GateTypeOK'
    BY <1>1 DEF Inv, TypeOK, Crash, EngineTypeOK, GateTypeOK, engineVars, gateVars
  <2>2. tasks' \subseteq tasks /\ watchers' \subseteq watchers /\ faults' \in 0..MaxFaults
    BY QueueAssumption DEF Inv, TypeOK, Crash
  <2> QED
    BY <1>1, <1>2, <2>1, <2>2 DEF Inv, TypeOK, Crash, queueVars
<1>4. GateOK'
  BY <1>1 DEF Inv, GateOK, gateVars, At
<1>5. TickOK'
  BY <1>1, <1>2 DEF Inv, TickOK, queueVars, NoTick
<1>6. PauseOK'
  BY <1>1, <1>2 DEF Inv, PauseOK, QueueLockFree, queueVars, gateVars, NoTick
<1>7. Tame /\ VerdictStep
  BY <1>1 DEF Tame, VerdictStep, queueVars
<1> QED
  BY <1>3, <1>4, <1>5, <1>6, <1>7 DEF Inv

\* The gate's fields.
LEMMA GateFields ==
  ASSUME TypeOK
  PROVE  /\ journal = NoJournal \/ journal \in
              [phase: {"acquiring", "closed", "releasing", "released"}, transaction: Transactions]
         /\ call = NoCall \/ call \in
              [step: {"pause", "drain", "unpause", "confirm", "bury", "seal"},
               transaction: Transactions]
         /\ paused \in Transactions \cup {NoTransaction} /\ tombstones \subseteq Transactions
  BY DEF TypeOK, GateTypeOK

\* Every step of the gate keeps journal, pause row and call in agreement, and it
\* closes only what is idle.
LEMMA GateSteps ==
  ASSUME Inv, GateStep
  PROVE  Inv' /\ Tame /\ VerdictStep
<1> USE GateFields, GateAssumption DEF NoCall, NoJournal, At
<1>1. UNCHANGED <<queueVars, procVars, parallel, faults, engineVars>>
  BY DEF GateStep
<1>2. Tame /\ VerdictStep
  BY <1>1 DEF Tame, VerdictStep, queueVars
<1>3. TypeOK' <=> GateTypeOK'
  BY <1>1 DEF Inv, TypeOK, EngineTypeOK, queueVars, procVars, engineVars
<1>4. GateTypeOK' /\ GateOK'
  <2>1. ASSUME NEW x \in Transactions, AcquireBegin(x) PROVE GateTypeOK' /\ GateOK'
    BY <2>1 DEF Inv, GateOK, AcquireBegin, GateTypeOK
  <2>2. ASSUME NEW x \in Transactions, ReleaseBegin(x, NoWork) PROVE GateTypeOK' /\ GateOK'
    BY <2>2 DEF Inv, GateOK, ReleaseBegin, GateTypeOK
  <2>3. CASE AcquirePause
    BY <2>3 DEF Inv, GateOK, AcquirePause, GateTypeOK, Goto
  <2>4. CASE ReleaseUnpause
    BY <2>4 DEF Inv, GateOK, ReleaseUnpause, GateTypeOK, Goto
  <2>5. CASE AcquireClose(NoWork)
    BY <2>5 DEF Inv, GateOK, AcquireClose, GateTypeOK
  <2>6. CASE ReleaseConfirm
    BY <2>6 DEF Inv, GateOK, ReleaseConfirm, GateTypeOK, Goto
  <2>7. CASE ReleaseBury
    BY <2>7 DEF Inv, GateOK, ReleaseBury, GateTypeOK, Goto
  <2>8. CASE ReleaseSeal
    BY <2>8 DEF Inv, GateOK, ReleaseSeal, GateTypeOK
  <2>9. CASE CallFails
    BY <2>9 DEF Inv, GateOK, CallFails, GateTypeOK
  <2> QED
    BY <2>1, <2>2, <2>3, <2>4, <2>5, <2>6, <2>7, <2>8, <2>9 DEF GateStep
<1>5. TickOK'
  BY <1>1 DEF Inv, TickOK, queueVars, procVars
<1>6. PauseOK'
  <2>1. paused' # NoTransaction => paused # NoTransaction \/ QueueLockFree
    BY DEF GateStep, AcquireBegin, ReleaseBegin, AcquirePause, ReleaseUnpause, AcquireClose,
       ReleaseConfirm, ReleaseBury, ReleaseSeal, CallFails
  <2>2. journal'.phase = "closed" => journal.phase = "closed" \/ NoWork
    <3>1. ASSUME NEW x \in Transactions, AcquireBegin(x)
          PROVE  journal'.phase = "closed" => journal.phase = "closed"
      BY <3>1 DEF AcquireBegin
    <3>5. ASSUME NEW x \in Transactions, ReleaseBegin(x, NoWork)
          PROVE  journal'.phase # "closed"
      <4>1. /\ journal \in [phase: {"acquiring", "closed", "releasing", "released"},
                            transaction: Transactions]
            /\ journal' = [journal EXCEPT !.phase = "releasing"]
        BY <3>5 DEF ReleaseBegin, Inv
      <4> QED
        BY <4>1
    <3>2. CASE AcquireClose(NoWork)
      BY <3>2 DEF AcquireClose
    <3>3. CASE ReleaseSeal
      BY <3>3 DEF ReleaseSeal, Inv, GateOK
    <3>4. CASE UNCHANGED journal
      BY <3>4
    <3> QED
      BY <3>1, <3>2, <3>3, <3>4, <3>5 DEF GateStep, AcquirePause, ReleaseUnpause, ReleaseConfirm,
         ReleaseBury, CallFails
  <2> QED
    BY <1>1, <2>1, <2>2
       DEF Inv, PauseOK, QueueLockFree, NoWork, ActiveJobs, queueVars, procVars
<1> QED
  BY <1>2, <1>3, <1>4, <1>5, <1>6 DEF Inv

-------------------------------------------------------------------------------
\* A scheduler reads only under its lock and only while nobody paused it.
LEMMA TickReads ==
  ASSUME Inv, NEW p \in Processes, NEW stale \in SUBSET Recoverable, TickRead(p, stale)
  PROVE  Inv' /\ Tame /\ VerdictStep
<1> DEFINE seen == {j \in ActiveJobs : ejecucion[j] \notin stale}
           requeue == {j \in seen : resultado[ejecucion[j]] = "SIN_CORRER" /\ j \notin inicio}
           close == {<<j, JobVerdict(resultado[ejecucion[j]])>> :
                       j \in {k \in seen : resultado[ejecucion[k]] \in Finished}}
           read == [open |-> TRUE, stale |-> stale, requeue |-> requeue, close |-> close]
<1>1. UNCHANGED <<queueVars, tasks, watchers, parallel, faults, engineVars, gateVars>>
  BY DEF TickRead
<1>2. QueueLockFree /\ paused = NoTransaction /\ tick' = [tick EXCEPT ![p] = read]
  BY DEF TickRead
<1>3. \A r : JobVerdict(r) \in FinalStates
  BY DEF JobVerdict, FinalStates
<1>4. read \in Ticks
  <2>1. seen \subseteq Jobs /\ requeue \subseteq Jobs /\ stale \subseteq Executions
    BY DEF ActiveJobs, Recoverable
  <2>2. close \subseteq Jobs \X FinalStates
    BY <1>3, <2>1
  <2> HIDE DEF requeue, close
  <2> QED
    BY <2>1, <2>2 DEF Ticks
<1>5. \A j \in Jobs : j \in requeue \/ (\E f \in FinalStates : <<j, f>> \in close)
        => estado[j] # "NONE"
  BY DEF ActiveJobs, ActiveStates
<1>6. \A e \in stale : resultado[e] = "EJECUTANDO_AI"
  BY DEF Recoverable
<1>7. read.open = TRUE /\ read.stale = stale /\ read.requeue = requeue /\ read.close = close
  OBVIOUS
<1> HIDE DEF read, requeue, close
<1>8. TypeOK'
  BY <1>1, <1>2, <1>4 DEF Inv, TypeOK, EngineTypeOK, GateTypeOK, queueVars, engineVars, gateVars
<1>9. GateOK' /\ PauseOK'
  BY <1>1, <1>2 DEF Inv, GateOK, PauseOK, gateVars, queueVars, At
<1>10. TickOK'
  <2>1. tick \in [Processes -> Ticks] /\ TickOK
    BY DEF Inv, TypeOK
  <2>2. \A q \in Processes : tick'[q] = IF q = p THEN read ELSE tick[q]
    BY <1>2, <2>1
  <2>3. /\ \A q \in Processes : ~tick'[q].open => tick'[q] = NoTick
        /\ \A q, r \in Processes : tick'[q].open /\ tick'[r].open => q = r
    BY <1>2, <1>7, <2>1, <2>2 DEF TickOK, QueueLockFree
  <2>4. \A q \in Processes : \A e \in tick'[q].stale : resultado'[e] = "EJECUTANDO_AI"
    BY <1>1, <1>6, <1>7, <2>1, <2>2 DEF TickOK, queueVars
  <2>5. \A q \in Processes, j \in Jobs :
          j \in tick'[q].requeue \/ (\E f \in FinalStates : <<j, f>> \in tick'[q].close)
            => estado'[j] # "NONE"
    BY <1>1, <1>5, <1>7, <2>1, <2>2 DEF TickOK, queueVars
  <2> QED
    BY <2>3, <2>4, <2>5 DEF TickOK
<1>11. Tame /\ VerdictStep
  BY <1>1 DEF Tame, VerdictStep, queueVars
<1> QED
  BY <1>8, <1>9, <1>10, <1>11 DEF Inv

\* The rows a scheduler writes: none appears, none vanishes, none becomes active.
LEMMA ReconciledRows ==
  ASSUME Inv, NEW p \in Processes
  PROVE  /\ Reconciled(tick[p]) \in [Jobs -> {"NONE", "PENDING"} \cup ActiveStates \cup FinalStates]
         /\ \A j \in Jobs : Reconciled(tick[p])[j] \in ActiveStates => estado[j] \in ActiveStates
         /\ \A j \in Jobs : (Reconciled(tick[p])[j] = "NONE") = (estado[j] = "NONE")
<1> DEFINE R == Reconciled(tick[p])
<1>1. ASSUME NEW j \in Jobs
      PROVE  /\ R[j] \in {"NONE", "PENDING"} \cup ActiveStates \cup FinalStates
             /\ R[j] \in ActiveStates => estado[j] \in ActiveStates
             /\ (R[j] = "NONE") = (estado[j] = "NONE")
  <2>1. CASE j \in tick[p].requeue
    <3>1. R[j] = "PENDING"
      BY <2>1 DEF Reconciled
    <3> QED
      BY <2>1, <3>1 DEF Inv, TickOK, ActiveStates
  <2>2. CASE j \notin tick[p].requeue /\ \E f \in FinalStates : <<j, f>> \in tick[p].close
    <3>1. R[j] = CHOOSE f \in FinalStates : <<j, f>> \in tick[p].close
      BY <2>2 DEF Reconciled
    <3>2. R[j] \in FinalStates
      BY <2>2, <3>1
    <3> QED
      BY <2>2, <3>2 DEF Inv, TickOK, ActiveStates, FinalStates
  <2>3. CASE j \notin tick[p].requeue /\ ~\E f \in FinalStates : <<j, f>> \in tick[p].close
    <3>1. R[j] = TimedOut(tick[p].stale)[j]
      BY <2>3 DEF Reconciled
    <3> QED
      BY <3>1, TimedOutRows DEF Inv
  <2> QED
    BY <2>1, <2>2, <2>3
<1>2. R = [j \in Jobs |-> R[j]]
  BY DEF Reconciled
<1> HIDE DEF R
<1>3. R \in [Jobs -> {"NONE", "PENDING"} \cup ActiveStates \cup FinalStates]
  BY <1>1, <1>2
<1> QED
  BY <1>1, <1>3 DEF R

\* The larger and the smaller of two numbers.
LEMMA MaxMinOfTwo ==
  ASSUME NEW a \in Int, NEW b \in Int
  PROVE  /\ Max({a, b}) = IF a >= b THEN a ELSE b
         /\ Min({a, b}) = IF a =< b THEN a ELSE b
<1>1. Max({a, b}) \in {a, b} /\ Max({a, b}) >= a /\ Max({a, b}) >= b
  <2>1. \E x \in {a, b} : \A y \in {a, b} : x >= y
    OBVIOUS
  <2> QED
    BY <2>1 DEF Max
<1>2. Min({a, b}) \in {a, b} /\ Min({a, b}) =< a /\ Min({a, b}) =< b
  <2>1. \E x \in {a, b} : \A y \in {a, b} : x =< y
    OBVIOUS
  <2> QED
    BY <2>1 DEF Min
<1> QED
  BY <1>1, <1>2

\* Sets of rows are finite.
LEMMA RowsFinite ==
  ASSUME NEW S \in SUBSET Jobs
  PROVE  IsFiniteSet(S) /\ Cardinality(S) \in Nat
<1>1. IsFiniteSet(Jobs)
  BY FS_Interval, QueueAssumption DEF Jobs
<1> QED
  BY <1>1, FS_Subset, FS_CardinalityType

\* A scheduler fills the free slots and no more: if it adds a row at all, the
\* active rows are within the limit afterwards.
LEMMA Claims ==
  ASSUME TypeOK, NEW busy \in SUBSET Jobs, NEW queued \in SUBSET Jobs, busy \cap queued = {},
         NEW batch \in SUBSET queued, Oldest(batch, queued, Available(busy))
  PROVE  batch = {} \/ Cardinality(busy \cup batch) <= Limit
<1>1. Limit \in Nat
  <2>1. parallel \in Nat
    BY QueueAssumption DEF TypeOK
  <2>2. Min({5, parallel}) = IF 5 =< parallel THEN 5 ELSE parallel
    BY <2>1, MaxMinOfTwo, 5 \in Int
  <2>3. Min({5, parallel}) \in Int
    BY <2>1, <2>2
  <2>4. Limit = IF 1 >= Min({5, parallel}) THEN 1 ELSE Min({5, parallel})
    BY <2>3, MaxMinOfTwo, 1 \in Int DEF Limit
  <2> QED
    BY <2>1, <2>2, <2>4
<1> DEFINE b == Cardinality(busy)
           q == Cardinality(queued)
           n == Cardinality(batch)
<1>2. /\ IsFiniteSet(busy) /\ IsFiniteSet(batch) /\ batch \in SUBSET Jobs
      /\ b \in Nat /\ q \in Nat /\ n \in Nat
  BY RowsFinite
<1>3. Available(busy) = IF Limit - b > 0 THEN Limit - b ELSE 0
  <2>1. Limit - b \in Int /\ 0 \in Int
    BY <1>1, <1>2
  <2>2. Max({0, Limit - b}) = IF 0 >= Limit - b THEN 0 ELSE Limit - b
    BY <2>1, MaxMinOfTwo
  <2> QED
    BY <2>1, <2>2 DEF Available
<1>4. n <= Available(busy)
  <2>1. n = Min({Available(busy), q})
    BY DEF Oldest
  <2>2. Available(busy) \in Int /\ q \in Int
    BY <1>1, <1>2, <1>3
  <2>3. n = IF Available(busy) =< q THEN Available(busy) ELSE q
    BY <2>1, <2>2, MaxMinOfTwo
  <2> QED
    BY <2>2, <2>3
<1>5. Cardinality(busy \cup batch) = b + n
  <2>1. busy \cap batch = {}
    OBVIOUS
  <2>2. Cardinality(busy \cup batch)
          = Cardinality(busy) + Cardinality(batch) - Cardinality(busy \cap batch)
    BY <1>2, FS_Union, Zenon
  <2>3. Cardinality({}) = 0
    BY FS_EmptySet
  <2>4. Cardinality(busy \cap batch) = 0
    BY <2>1, <2>3, Zenon
  <2> QED
    BY <1>2, <2>2, <2>4
<1>6. n = 0 => batch = {}
  BY <1>2, FS_EmptySet
<1> QED
  BY <1>1, <1>2, <1>3, <1>4, <1>5, <1>6

\* ClaimsWithinLimit, as a formula about one step.
ClaimStep ==
  Cardinality(ActiveJobs') > Cardinality(ActiveJobs) => Cardinality(ActiveJobs') <= Limit

\* A step that claims nothing does not make more rows active.
LEMMA TameClaims ==
  ASSUME \A j \in Jobs : estado'[j] \in ActiveStates => estado[j] \in ActiveStates
  PROVE  ClaimStep
<1>1. ActiveJobs' \in SUBSET ActiveJobs /\ ActiveJobs \in SUBSET Jobs
  BY DEF ActiveJobs, Jobs, ActiveStates
<1>2. IsFiniteSet(ActiveJobs) /\ Cardinality(ActiveJobs) \in Nat /\ Cardinality(ActiveJobs') \in Nat
  BY <1>1, RowsFinite
<1>3. Cardinality(ActiveJobs') <= Cardinality(ActiveJobs)
  BY <1>1, <1>2, FS_Subset
<1> QED
  BY <1>2, <1>3 DEF ClaimStep

\* A scheduler's commit preserves the invariant, claims within the limit and
\* changes the verdict only of what it found running and kept locked.
LEMMA TickCommits ==
  ASSUME Inv, NEW p \in Processes, TickCommit(p)
  PROVE  Inv' /\ ClaimStep /\ VerdictStep
<1> DEFINE rows == Reconciled(tick[p])
           busy == {j \in Jobs : rows[j] \in ActiveStates}
           queued == {j \in Jobs : rows[j] = "PENDING"}
<1>1. PICK batch \in SUBSET queued :
        /\ Oldest(batch, queued, Available(busy))
        /\ estado' = [j \in Jobs |-> IF j \in batch THEN "CLAIMED" ELSE rows[j]]
        /\ tasks' = tasks \cup {[process |-> p, job |-> j, left |-> MaxPosts,
                                 seen |-> "none", at |-> "created"] : j \in batch}
  BY DEF TickCommit
<1>2. /\ tick[p].open
      /\ resultado' = [e \in Executions |-> IF e \in tick[p].stale THEN "FALLO" ELSE resultado[e]]
      /\ report' = [e \in Executions |-> IF e \in tick[p].stale THEN "backend" ELSE report[e]]
      /\ tick' = [tick EXCEPT ![p] = NoTick]
      /\ UNCHANGED <<ejecucion, inicio, watchers, parallel, faults, engineVars, gateVars>>
  BY DEF TickCommit
<1>3. /\ rows \in [Jobs -> {"NONE", "PENDING"} \cup ActiveStates \cup FinalStates]
      /\ \A j \in Jobs : rows[j] \in ActiveStates => estado[j] \in ActiveStates
      /\ \A j \in Jobs : (rows[j] = "NONE") = (estado[j] = "NONE")
  BY ReconciledRows
<1> HIDE DEF rows
<1>4. /\ estado' \in [Jobs -> {"NONE", "PENDING"} \cup ActiveStates \cup FinalStates]
      /\ \A j \in Jobs : (estado'[j] = "NONE") = (estado[j] = "NONE")
  BY <1>1, <1>3 DEF ActiveStates
<1>5. TypeOK'
  <2>1. EngineTypeOK' /\ GateTypeOK'
    BY <1>2 DEF Inv, TypeOK, EngineTypeOK, GateTypeOK, engineVars, gateVars
  <2>2. tasks' \subseteq Tasks
    <3>1. \A j \in batch : [process |-> p, job |-> j, left |-> MaxPosts,
                          seen |-> "none", at |-> "created"] \in Tasks
      BY QueueAssumption DEF Tasks, Reports
    <3> QED
      BY <1>1, <3>1 DEF Inv, TypeOK
  <2>3. \A t \in tasks' : estado'[t.job] # "NONE"
    <3>1. \A t \in tasks : t.job \in Jobs /\ estado[t.job] # "NONE"
      BY DEF Inv, TypeOK, Tasks
    <3>2. \A j \in batch : j \in Jobs /\ estado'[j] = "CLAIMED"
      BY <1>1
    <3> QED
      BY <1>1, <1>4, <3>1, <3>2
  <2>4. /\ resultado' \in [Executions -> Unfinished \cup Finished]
        /\ report' \in [Executions -> Reports]
        /\ tick' \in [Processes -> Ticks]
    BY <1>2 DEF Inv, TypeOK, Finished, Ticks, NoTick, Reports
  <2>5. \A j \in Jobs : estado'[j] # "NONE" => ejecucion[j] \in Executions
    BY <1>4 DEF Inv, TypeOK
  <2> QED
    BY <1>2, <1>4, <2>1, <2>2, <2>3, <2>4, <2>5 DEF Inv, TypeOK
<1>6. GateOK'
  BY <1>2 DEF Inv, GateOK, gateVars, At
<1>7. tick \in [Processes -> Ticks] /\ \A q \in Processes : q # p => tick[q] = NoTick
  BY <1>2 DEF Inv, TypeOK, TickOK
<1>8. \A q \in Processes : tick'[q] = NoTick
  BY <1>2, <1>7
<1>9. TickOK'
  <2>1. ~NoTick.open /\ NoTick.stale = {} /\ NoTick.requeue = {} /\ NoTick.close = {}
    BY DEF NoTick
  <2>2. \A q \in Processes : ~tick'[q].open /\ tick'[q].stale = {}
    BY <1>8, <2>1
  <2>3. \A q \in Processes : tick'[q].requeue = {} /\ tick'[q].close = {}
    BY <1>8, <2>1
  <2> QED
    BY <1>8, <2>2, <2>3 DEF TickOK
<1>10. PauseOK'
  <2>1. paused = NoTransaction
    BY <1>2 DEF Inv, PauseOK, QueueLockFree
  <2>2. journal.phase # "closed"
    BY <2>1, GateFields, GateAssumption DEF Inv, GateOK, NoJournal
  <2> QED
    BY <1>2, <2>1, <2>2 DEF PauseOK, gateVars
<1>11. ClaimStep
  <2>1. TypeOK /\ busy \in SUBSET Jobs /\ queued \in SUBSET Jobs /\ busy \cap queued = {}
    BY DEF Inv, ActiveStates
  <2>2. ActiveJobs' = busy \cup batch
    BY <1>1 DEF ActiveJobs, ActiveStates
  <2>3. batch = {} \/ Cardinality(busy \cup batch) <= Limit
    <3> HIDE DEF busy, queued
    <3> QED
      BY <1>1, <2>1, Claims
  <2>4. CASE batch = {}
    BY <1>1, <1>3, <2>4, TameClaims
  <2> QED
    BY <2>2, <2>3, <2>4 DEF ClaimStep
<1>12. VerdictStep
  BY <1>2 DEF Inv, TypeOK, TickOK, VerdictStep, Finished
<1> QED
  BY <1>5, <1>6, <1>9, <1>10, <1>11, <1>12 DEF Inv

\* Every step preserves the invariant, claims within the limit and keeps verdicts.
LEMMA InvNext == Inv /\ [Next]_vars => Inv' /\ ClaimStep /\ VerdictStep
<1> SUFFICES ASSUME Inv, [Next]_vars PROVE Inv' /\ ClaimStep /\ VerdictStep
  OBVIOUS
<1>0. ASSUME Tame PROVE ClaimStep
  BY <1>0, TameClaims DEF Tame
<1>1. ASSUME TypeOK' /\ Tame /\ VerdictStep, UNCHANGED <<tick, gateVars>>
      PROVE  Inv' /\ ClaimStep /\ VerdictStep
  BY <1>0, <1>1, TameStep
<1>2. CASE UNCHANGED vars
  <2>1. TypeOK' /\ Tame /\ VerdictStep
    BY <1>2 DEF Inv, vars, queueVars, procVars, engineVars, gateVars, TypeOK, EngineTypeOK,
       GateTypeOK, Tame, VerdictStep
  <2> QED
    BY <1>1, <1>2, <2>1 DEF vars, procVars
<1>3. ASSUME NEW e \in Executions, AskWithoutUrl(e) \/ Enqueue(e)
      PROVE  Inv' /\ ClaimStep /\ VerdictStep
  BY <1>1, <1>3, RequestSteps DEF Inv, AskWithoutUrl, Enqueue, procVars
<1>4. ASSUME NEW p \in Processes, Crash(p) PROVE Inv' /\ ClaimStep /\ VerdictStep
  BY <1>0, <1>4, CrashStep
<1>5. ASSUME NEW p \in Processes, NEW stale \in SUBSET Recoverable, TickRead(p, stale)
      PROVE  Inv' /\ ClaimStep /\ VerdictStep
  BY <1>0, <1>5, TickReads
<1>6. ASSUME NEW p \in Processes, TickCommit(p) PROVE Inv' /\ ClaimStep /\ VerdictStep
  BY <1>6, TickCommits
<1>7. ASSUME NEW t \in tasks, TaskStep(t) PROVE Inv' /\ ClaimStep /\ VerdictStep
  <2>1. UNCHANGED <<tick, gateVars>>
    BY <1>7 DEF TaskStep, TaskLeaves, Start, TriggerRaises, TriggerBlocks, TriggerBegins,
       PostAccepted, PostFails, Returned, Raised
  <2> QED
    BY <1>1, <1>7, <2>1, TaskSteps DEF Inv
<1>8. ASSUME NEW w \in watchers, WatcherFires(w) PROVE Inv' /\ ClaimStep /\ VerdictStep
  BY <1>1, <1>8, WatcherStep DEF Inv, WatcherFires
<1>9. ASSUME NEW e \in Executions, Callback(e) PROVE Inv' /\ ClaimStep /\ VerdictStep
  BY <1>1, <1>9, CallbackStep DEF Inv, Callback, procVars
<1>10. CASE (\E e \in Executions : EngineStep(e)) \/ EngineDies \/ \E n \in ParallelRuns : SetParallel(n)
  BY <1>0, <1>10, AsideStep
<1>11. CASE GateStep
  BY <1>0, <1>11, GateSteps
<1> QED
  BY <1>2, <1>3, <1>4, <1>5, <1>6, <1>7, <1>8, <1>9, <1>10, <1>11 DEF Next

-------------------------------------------------------------------------------
\* The invariant of the queue, its schedulers and the gate.
THEOREM QueueInvariant == Spec => []Inv
<1>1. Inv /\ [Next]_vars => Inv'
  BY InvNext
<1> QED
  BY InvInit, <1>1, PTL DEF Spec

\* Rows, executions, tasks, watchers, engine and gate keep their types: a dispatch
\* never posts more often than it may, and every row of a task has an execution.
THEOREM QueueTypeOK == Spec => []TypeOK
<1>1. Inv => TypeOK
  BY DEF Inv
<1> QED
  BY <1>1, QueueInvariant, PTL

\* However many processes tick, whatever changes under the scheduler between its
\* read and its commit, no claim takes the active rows past the limit.
THEOREM SchedulerClaimsWithinLimit == Spec => ClaimsWithinLimit
<1>1. Inv /\ [Next]_vars => [ClaimStep]_vars
  BY InvNext
<1>2. [ClaimStep]_vars <=> [Cardinality(ActiveJobs') > Cardinality(ActiveJobs)
                              => Cardinality(ActiveJobs') <= Limit]_vars
  BY DEF ClaimStep
<1> QED
  BY <1>1, <1>2, QueueInvariant, PTL DEF Spec, ClaimsWithinLimit

\* First terminal result wins, for any number of executions and processes.
THEOREM VerdictsAreKept == Spec => VerdictKept
<1>1. Inv /\ [Next]_vars => [VerdictStep]_vars
  BY InvNext
<1>2. [VerdictStep]_vars <=>
        [\A e \in Executions :
           resultado[e] \in Finished /\ resultado'[e] # resultado[e]
             => \/ AskWithoutUrl(e)
                \/ /\ \E t \in tasks \ tasks' :
                        ejecucion[t.job] = e /\ t.at \in {"starting", "posting"}
                   /\ resultado'[e] \in {"EJECUTANDO_AI", "BLOQUEADO"}]_vars
  BY DEF VerdictStep
<1> QED
  BY <1>1, <1>2, QueueInvariant, PTL DEF Spec, VerdictKept

\* While the gate is closed no row is claimed or running.
THEOREM ClosedGatesAreIdle == Spec => []ClosedGateIsIdle
<1>1. Inv => ClosedGateIsIdle
  BY DEF Inv, PauseOK, ClosedGateIsIdle, ActiveJobs
<1> QED
  BY <1>1, QueueInvariant, PTL

\* The gate's journal and the pause row agree over crashes of the host.
THEOREM PausesAreOwned == Spec => []PauseOwned
<1>1. Inv => PauseOwned
  BY DEF Inv, GateOK, PauseOwned
<1> QED
  BY <1>1, QueueInvariant, PTL

===============================================================================
