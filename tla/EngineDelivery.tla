---------------------------- MODULE EngineDelivery ----------------------------
(***************************************************************************)
(* The Motor IA (engine/): the executions it is working on, the terminal   *)
(* results it still has to hand to the backend, and the private spool on   *)
(* disk that keeps a result whose delivery was given up.                   *)
(*                                                                         *)
(* The module holds the engine's state and its own steps.  What happens in *)
(* the backend when a result arrives is AiExecutionQueue's.                *)
(***************************************************************************)
EXTENDS Naturals

CONSTANTS Executions,   \* ids of test-case executions (testId of a task)
          Verdicts      \* the terminal statuses a task may end with

ASSUME VerdictAssumption == Verdicts \subseteq {"PASO", "FALLO", "BLOQUEADO"}

VARIABLES work,    \* work[e]: what the engine process does for execution e
          spool    \* spool[e]: the verdict in pending-deliveries/<e>.json

engineVars == <<work, spool>>

NoVerdict == "none"

(* activeExecutionIds: a task is in it from its admission until its result was
   acknowledged or spooled. *)
Phases == {"idle", "running"} \cup Verdicts

EngineTypeOK ==
  /\ work \in [Executions -> Phases]
  /\ spool \in [Executions -> Verdicts \cup {NoVerdict}]

EngineInit ==
  /\ work = [e \in Executions |-> "idle"]
  /\ spool = [e \in Executions |-> NoVerdict]

(* /run-task, the part before the answer: a task that is already active is
   answered 202 and not started again. *)
Admit(e) ==
  /\ work[e] = "idle"
  /\ work' = [work EXCEPT ![e] = "running"]
  /\ UNCHANGED spool

(* runTask ends, or throws and is reported as FALLO. *)
Finish(e, v) ==
  /\ work[e] = "running"
  /\ work' = [work EXCEPT ![e] = v]
  /\ UNCHANGED spool

(* The results the engine can post for e: the one in memory, or the file. *)
Deliverable(e) == {v \in Verdicts : work[e] = v \/ spool[e] = v}

(* deliverTerminalResult got its acknowledgement: the task leaves
   activeExecutionIds, or redeliverPendingTerminalResults unlinks the file. *)
Acknowledged(e, v) ==
  \/ /\ work[e] = v
     /\ work' = [work EXCEPT ![e] = "idle"]
     /\ UNCHANGED spool
  \/ /\ spool[e] = v
     /\ spool' = [spool EXCEPT ![e] = NoVerdict]
     /\ UNCHANGED work

(* Every attempt to deliver failed: persistPendingTerminalDelivery replaces the
   file of this execution and the task leaves activeExecutionIds. *)
GiveUp(e) ==
  /\ work[e] \in Verdicts
  /\ spool' = [spool EXCEPT ![e] = work[e]]
  /\ work' = [work EXCEPT ![e] = "idle"]

(* The engine process dies: what it had in memory is gone, the files stay. *)
EngineCrash ==
  /\ \E e \in Executions : work[e] # "idle"
  /\ work' = [e \in Executions |-> "idle"]
  /\ UNCHANGED spool

===============================================================================
