------------------------------ MODULE HostBridge ------------------------------
(***************************************************************************)
(* The coordinated update of an installation as the backend asks for it    *)
(* and the host carries it out.                                            *)
(*                                                                         *)
(* The backend keeps a task per update and puts a prepare and later an     *)
(* apply request into an inbox (updater_*, CoordinatedBridgeClient).  A    *)
(* one-shot supervisor on the host turns a request into a receipt          *)
(* (HostBridgeSpool.process_once), the bridge keeps a state file per       *)
(* transaction (HostUpdateBridge.handle), the orchestrator a journal       *)
(* (update_existing_installation), and the controller runs the update      *)
(* itself (UpdateTransaction, here only its outcome).  Every file is       *)
(* replaced atomically; the host may die between any two writes and is     *)
(* started again by its timer.                                             *)
(***************************************************************************)
EXTENDS Naturals

CONSTANTS Transactions,   \* ids of update tasks, as numbers: files are read in their order
          MaxSubmits,     \* bound: apply requests an administrator sends
          MaxFaults       \* bound: crashes of the host process or of the backend

ASSUME BridgeAssumption ==
  Transactions \subseteq Nat /\ MaxSubmits \in Nat /\ MaxFaults \in Nat

VARIABLES
  task,       \* task[t]: the backend's UpdateTaskState, status and stage in one
  coroutine,  \* coroutine[t]: what _run_coordinated_apply of t does
  inbox,      \* request files
  receipt,    \* receipt[t, a]: status of receipts/<t>-<a>.json
  bridge,     \* bridge[t]: status in transactions/<t>.json
  journal,    \* journal[t]: stage of the orchestration journal
  outcome,    \* outcome[t]: what the controller made of the installation
  report,     \* report[t]: status of the report published to the backend
  run,        \* the process_once that is under way
  submits, faults

backendVars == <<task, coroutine, submits>>
hostVars == <<receipt, bridge, journal, outcome, report, run>>
vars == <<backendVars, hostVars, inbox, faults>>

Actions == {"prepare", "apply"}
Requests == Transactions \X Actions
Terminal == {"complete", "rolled_back"}
Pending == {"pending", "running", "apply_uncertain"}
Attempted == {"apply_pending", "apply_uncertain"}
InProgress == {"queued", "prepare_pending", "prepared"} \cup Attempted
BridgeStates == {"prepare_pending", "prepare_stale", "prepared"} \cup Attempted \cup Terminal

(* A run of the host: the request, where it stands, and what its receipt will
   say in the end (the state's own status, or blocked or pending). *)
Places == {"accepted", "picked", "marked", "staging", "preparing", "applying",
           "resuming", "executing", "saving", "uncertain", "reporting", "returning"}
NoRun == [at |-> "idle", tx |-> 0, action |-> "none", end |-> "status"]
Runs == [at: Places, tx: Transactions, action: Actions,
         end: {"status", "blocked", "pending"}] \cup {NoRun}

TypeOK ==
  /\ task \in [Transactions -> InProgress \cup {"none", "applied", "failed", "rolled_back"}]
  /\ coroutine \in [Transactions -> {"none", "downloading", "waiting"}]
  /\ inbox \subseteq Requests
  /\ receipt \in [Requests -> {"none", "blocked", "prepared"} \cup Pending \cup Terminal]
  /\ bridge \in [Transactions -> BridgeStates \cup {"none"}]
  /\ journal \in [Transactions -> {"none", "preparing", "prepared"} \cup Attempted \cup Terminal]
  /\ outcome \in [Transactions -> {"untouched", "started"} \cup Terminal]
  /\ report \in [Transactions -> BridgeStates \cup {"none"}]
  /\ run \in Runs
  /\ submits \in 0..MaxSubmits
  /\ faults \in 0..MaxFaults

Init ==
  /\ task = [t \in Transactions |-> "none"]
  /\ coroutine = [t \in Transactions |-> "none"]
  /\ inbox = {}
  /\ receipt = [r \in Requests |-> "none"]
  /\ bridge = [t \in Transactions |-> "none"]
  /\ journal = [t \in Transactions |-> "none"]
  /\ outcome = [t \in Transactions |-> "untouched"]
  /\ report = [t \in Transactions |-> "none"]
  /\ run = NoRun
  /\ submits = 0
  /\ faults = 0

-------------------------------------------------------------------------------
(* The backend. *)

(* start_update: a new task id, unless some task is in progress. *)
StartUpdate(t) ==
  /\ task[t] = "none"
  /\ \A u \in Transactions : task[u] \notin InProgress
  /\ task' = [task EXCEPT ![t] = "queued"]
  /\ coroutine' = [coroutine EXCEPT ![t] = "downloading"]
  /\ UNCHANGED <<submits, hostVars, inbox, faults>>

(* Preflight, download or staging of the package failed. *)
DownloadFails(t) ==
  /\ coroutine[t] = "downloading"
  /\ task' = [task EXCEPT ![t] = "failed"]
  /\ coroutine' = [coroutine EXCEPT ![t] = "none"]
  /\ UNCHANGED <<submits, hostVars, inbox, faults>>

(* submit_prepare; the nonce is stable, so a request is one file. *)
SubmitPrepare(t) ==
  /\ coroutine[t] = "downloading"
  /\ inbox' = inbox \cup {<<t, "prepare">>}
  /\ task' = [task EXCEPT ![t] = "prepare_pending"]
  /\ coroutine' = [coroutine EXCEPT ![t] = "waiting"]
  /\ UNCHANGED <<submits, hostVars, faults>>

(* wait_report of the prepare action: prepared, or a status read_report does not
   know and raises on, or the time is up. *)
WaitReport(t) ==
  /\ coroutine[t] = "waiting"
  /\ coroutine' = [coroutine EXCEPT ![t] = "none"]
  /\ \/ report[t] = "prepared" /\ task' = [task EXCEPT ![t] = "prepared"]
     \/ report[t] = "prepare_stale" /\ task' = [task EXCEPT ![t] = "failed"]
     \/ UNCHANGED task
  /\ UNCHANGED <<submits, hostVars, inbox, faults>>

(* get_update_status takes over what the report says. *)
GetStatus(t) ==
  /\ task[t] # "none"
  /\ \/ report[t] = "complete" /\ task' = [task EXCEPT ![t] = "applied"]
     \/ report[t] \in {"prepared", "apply_uncertain"} /\ task' = [task EXCEPT ![t] = report[t]]
  /\ UNCHANGED <<coroutine, submits, hostVars, inbox, faults>>

(* restart_prepared_update. *)
RestartPrepared(t) ==
  /\ submits < MaxSubmits
  /\ submits' = submits + 1
  /\ task[t] = "prepared" \/ (task[t] # "none" /\ report[t] = "prepared")
  /\ task' = [task EXCEPT ![t] = "apply_pending"]
  /\ inbox' = inbox \cup {<<t, "apply">>}
  /\ UNCHANGED <<coroutine, hostVars, faults>>

(* The backend process dies; _load_history reconciles what was in progress. *)
BackendRestarts ==
  /\ faults < MaxFaults
  /\ faults' = faults + 1
  /\ coroutine' = [t \in Transactions |-> "none"]
  /\ task' = [t \in Transactions |->
                IF task[t] \notin InProgress THEN task[t]
                ELSE IF report[t] = "complete" THEN "applied"
                ELSE IF report[t] = "rolled_back" THEN "rolled_back" ELSE task[t]]
  /\ UNCHANGED <<submits, hostVars, inbox>>

-------------------------------------------------------------------------------
(* HostBridgeSpool.process_once. *)
At(place) == run.at = place
Goto(place) == run' = [run EXCEPT !.at = place]
Goes(place, end) == run' = [run EXCEPT !.at = place, !.end = end]
Request == <<run.tx, run.action>>

(* File names are read in order: transaction, then apply before prepare. *)
First(r, set) ==
  /\ r \in set
  /\ \A q \in set : r[1] < q[1] \/ (r[1] = q[1] /\ (q[2] = "apply" => r[2] = "apply"))

Unfinished == {r \in Requests : receipt[r] \in Pending}

(* A receipt that is not finished is taken up again before anything new. *)
Replay ==
  /\ run = NoRun
  /\ \E r \in Requests :
       /\ First(r, Unfinished)
       /\ run' = [at |-> "picked", tx |-> r[1], action |-> r[2], end |-> "status"]
  /\ UNCHANGED <<receipt, bridge, journal, outcome, report, backendVars, inbox, faults>>

(* The first request gets a receipt, if it has none yet. *)
Accept ==
  /\ run = NoRun
  /\ Unfinished = {}
  /\ \E r \in Requests :
       /\ First(r, inbox)
       /\ receipt' = [receipt EXCEPT ![r] = IF @ = "none" THEN "pending" ELSE @]
       /\ run' = [at |-> "accepted", tx |-> r[1], action |-> r[2], end |-> "status"]
  /\ UNCHANGED <<bridge, journal, outcome, report, backendVars, inbox, faults>>

Unlink ==
  /\ At("accepted")
  /\ inbox' = inbox \ {Request}
  /\ Goto("picked")
  /\ UNCHANGED <<receipt, bridge, journal, outcome, report, backendVars, faults>>

MarkRunning ==
  /\ At("picked")
  /\ receipt' = [receipt EXCEPT ![Request] = "running"]
  /\ Goto("marked")
  /\ UNCHANGED <<bridge, journal, outcome, report, backendVars, inbox, faults>>

(* Mutant: a request that is refused is tried again for ever. *)
BugReturn ==
  /\ At("returning")
  /\ receipt' = [receipt EXCEPT ![Request] = IF run.end = "status" THEN bridge[run.tx] ELSE "pending"]
  /\ run' = NoRun
  /\ UNCHANGED <<bridge, journal, outcome, report, backendVars, inbox, faults>>

(* handle returned or raised: the receipt's last write. *)
Return ==
  /\ At("returning")
  /\ receipt' = [receipt EXCEPT ![Request] = IF run.end = "status" THEN bridge[run.tx] ELSE run.end]
  /\ run' = NoRun
  /\ UNCHANGED <<bridge, journal, outcome, report, backendVars, inbox, faults>>

-------------------------------------------------------------------------------
(* HostUpdateBridge.handle. *)

(* Mutant: only an update that was attempted keeps others out. *)
BugOthersTerminal == \A u \in Transactions \ {run.tx} : bridge[u] \notin Attempted

(* _check_other_transaction. *)
OthersTerminal == \A u \in Transactions \ {run.tx} : bridge[u] \in {"none"} \cup Terminal

HandleVars == <<receipt, journal, outcome, backendVars, inbox, faults>>

(* A request the bridge does not allow now is blocked. *)
Refuse ==
  /\ At("marked")
  /\ \/ ~OthersTerminal
     \/ run.action = "prepare" /\ bridge[run.tx] \in Attempted \cup Terminal
     \/ run.action = "apply" /\ bridge[run.tx] \in {"none", "prepare_pending", "prepare_stale"}
  /\ Goes("returning", "blocked")
  /\ UNCHANGED <<bridge, report, HandleVars>>

BeginPrepare ==
  /\ At("marked") /\ run.action = "prepare"
  /\ OthersTerminal
  /\ bridge[run.tx] \in {"none", "prepare_pending", "prepare_stale", "prepared"}
  /\ bridge' = [bridge EXCEPT ![run.tx] = "prepare_pending"]
  /\ Goto("staging")
  /\ UNCHANGED <<report, HandleVars>>

(* _stage_package copies and verifies the package, or the request is blocked. *)
StagePackage ==
  /\ At("staging")
  /\ Goto("preparing") \/ Goes("returning", "blocked")
  /\ UNCHANGED <<bridge, report, HandleVars>>

(* Apply of a prepared transaction; of one that was attempted before, resume; of
   a finished one, only the report. *)
BeginApply ==
  /\ At("marked") /\ run.action = "apply"
  /\ OthersTerminal
  /\ \/ /\ bridge[run.tx] = "prepared"
        /\ bridge' = [bridge EXCEPT ![run.tx] = "apply_pending"]
        /\ Goto("applying")
     \/ /\ bridge[run.tx] \in Attempted
        /\ bridge' = [bridge EXCEPT ![run.tx] = "apply_pending"]
        /\ Goto("resuming")
     \/ /\ bridge[run.tx] \in Terminal
        /\ Goto("reporting")
        /\ UNCHANGED bridge
  /\ UNCHANGED <<report, HandleVars>>

(* Mutant: whatever the orchestrator returned for an apply is taken for success. *)
BugSaveState ==
  /\ At("saving")
  /\ bridge' = [bridge EXCEPT ![run.tx] = IF run.action = "apply" THEN "complete" ELSE "prepared"]
  /\ Goto("reporting")
  /\ UNCHANGED <<report, HandleVars>>

(* The orchestrator returned: its stage becomes the bridge's status. *)
SaveState ==
  /\ At("saving")
  /\ bridge' = [bridge EXCEPT ![run.tx] = journal[run.tx]]
  /\ Goto("reporting")
  /\ UNCHANGED <<report, HandleVars>>

(* apply or resume raised: uncertain, and the receipt stays pending. *)
SaveUncertain ==
  /\ At("uncertain")
  /\ bridge' = [bridge EXCEPT ![run.tx] = "apply_uncertain"]
  /\ Goes("reporting", "pending")
  /\ UNCHANGED <<report, HandleVars>>

(* Mutant: the orchestrator's stage is published. *)
BugPublish ==
  /\ At("reporting")
  /\ report' = [report EXCEPT ![run.tx] = journal[run.tx]]
  /\ Goto("returning")
  /\ UNCHANGED <<bridge, HandleVars>>

(* _publish_report. *)
Publish ==
  /\ At("reporting")
  /\ report' = [report EXCEPT ![run.tx] = bridge[run.tx]]
  /\ Goto("returning")
  /\ UNCHANGED <<bridge, HandleVars>>

-------------------------------------------------------------------------------
(* The orchestrator. *)
OrchestratorVars == <<receipt, report, backendVars, inbox, faults>>

(* prepare distributes and prepares again whatever was prepared before. *)
Prepare ==
  /\ At("preparing")
  /\ journal[run.tx] \notin Attempted \cup Terminal
  /\ journal' = [journal EXCEPT ![run.tx] = "preparing"]
  /\ UNCHANGED <<bridge, outcome, run, OrchestratorVars>>

Prepared ==
  /\ At("preparing")
  /\ journal[run.tx] = "preparing"
  /\ journal' = [journal EXCEPT ![run.tx] = "prepared"]
  /\ Goto("saving")
  /\ UNCHANGED <<bridge, outcome, OrchestratorVars>>

(* It raised: the bridge's state becomes prepare_stale. *)
PrepareFails ==
  /\ At("preparing")
  /\ bridge' = [bridge EXCEPT ![run.tx] = "prepare_stale"]
  /\ Goes("reporting", "blocked")
  /\ UNCHANGED <<journal, outcome, OrchestratorVars>>

(* Mutant: apply runs the update before its intent is saved. *)
BugApplyIntent ==
  /\ At("applying")
  /\ journal[run.tx] = "prepared"
  /\ Goto("executing")
  /\ UNCHANGED <<bridge, journal, outcome, OrchestratorVars>>

(* apply: everything validated, the intent is saved. *)
ApplyIntent ==
  /\ At("applying")
  /\ journal[run.tx] = "prepared"
  /\ journal' = [journal EXCEPT ![run.tx] = "apply_pending"]
  /\ Goto("executing")
  /\ UNCHANGED <<bridge, outcome, OrchestratorVars>>

(* resume: only an attempt that was saved can be reconciled. *)
Resume ==
  /\ At("resuming")
  /\ journal[run.tx] \in Attempted
  /\ Goto("executing")
  /\ UNCHANGED <<bridge, journal, outcome, OrchestratorVars>>

(* A validation raised, or there is nothing to reconcile. *)
Raises ==
  /\ At("applying") \/ At("resuming")
  /\ Goto("uncertain")
  /\ UNCHANGED <<bridge, journal, outcome, OrchestratorVars>>

(* The controller starts or goes on, and ends when it ends. *)
Execute(result) ==
  /\ At("executing")
  /\ \/ outcome[run.tx] = "untouched" /\ result = "started"
     \/ outcome[run.tx] = "started" /\ result \in Terminal
  /\ outcome' = [outcome EXCEPT ![run.tx] = result]
  /\ UNCHANGED <<bridge, journal, run, OrchestratorVars>>

SaveOutcome ==
  /\ At("executing")
  /\ outcome[run.tx] \in Terminal
  /\ journal' = [journal EXCEPT ![run.tx] = outcome[run.tx]]
  /\ Goto("saving")
  /\ UNCHANGED <<bridge, outcome, OrchestratorVars>>

(* The controller raised, its answer was lost, or it is not terminal. *)
ExecuteUncertain ==
  /\ At("executing")
  /\ journal' = [journal EXCEPT ![run.tx] = "apply_uncertain"]
  /\ Goto("uncertain")
  /\ UNCHANGED <<bridge, outcome, OrchestratorVars>>

(* The host process dies. *)
HostCrash ==
  /\ run # NoRun
  /\ faults < MaxFaults
  /\ faults' = faults + 1
  /\ run' = NoRun
  /\ UNCHANGED <<receipt, bridge, journal, outcome, report, backendVars, inbox>>

ProcessOnce ==
  \/ Replay \/ Accept \/ Unlink \/ MarkRunning \/ Return
  \/ Refuse \/ BeginPrepare \/ StagePackage \/ BeginApply
  \/ SaveState \/ SaveUncertain \/ Publish
  \/ Prepare \/ Prepared \/ PrepareFails
  \/ ApplyIntent \/ Resume \/ Raises
  \/ (\E result \in {"started"} \cup Terminal : Execute(result))
  \/ SaveOutcome \/ ExecuteUncertain

Next ==
  \/ \E t \in Transactions :
       \/ StartUpdate(t) \/ DownloadFails(t) \/ SubmitPrepare(t)
       \/ WaitReport(t) \/ GetStatus(t) \/ RestartPrepared(t)
  \/ BackendRestarts
  \/ ProcessOnce
  \/ HostCrash

Spec == Init /\ [][Next]_vars

(* The timer starts process_once again and again, and every run goes on.  What
   makes a resume raise is corrected some day, the update ends in one of the runs
   that reach it, and its answer is not lost every time. *)
Fairness ==
  /\ WF_vars(ProcessOnce)
  /\ SF_vars(Resume)
  /\ SF_vars(\E result \in {"started"} \cup Terminal : Execute(result))
  /\ SF_vars(SaveOutcome)

FairSpec == Spec /\ Fairness

-------------------------------------------------------------------------------
(* Properties. *)

(* The intent to mutate is durable in the journal and in the bridge before the
   controller touches the installation, and from then on no replayed prepare or
   apply takes either of them back, whatever crashes ("persists intent before
   every mutating call"). *)
IntentBeforeMutation ==
  \A t \in Transactions : outcome[t] # "untouched" =>
    journal[t] \in Attempted \cup Terminal /\ bridge[t] \in Attempted \cup Terminal

(* While the controller is inside one update, every other transaction of the
   host is finished or was never begun, also when the backend lost track of an
   earlier task (_check_other_transaction). *)
OneUpdateAtATime ==
  \A t, u \in Transactions :
    outcome[t] = "started" /\ u # t => bridge[u] \in {"none"} \cup Terminal

(* What the administrator sees is what happened: a task is applied or rolled back,
   and a report, a receipt or a state is terminal, only as the controller ended. *)
TerminalIsTrue ==
  \A t \in Transactions :
    /\ task[t] = "applied" => outcome[t] = "complete"
    /\ task[t] = "rolled_back" => outcome[t] = "rolled_back"
    /\ \A s \in {receipt[<<t, "apply">>], report[t], bridge[t], journal[t]} :
         s \in Terminal => outcome[t] = s

(* The bridge waits for an attempt the journal does not have (any more). *)
Stranded(t) ==
  run = NoRun /\ bridge[t] \in Attempted /\ journal[t] \notin Attempted

(* Every request and every receipt that was begun is settled in the end, over
   crashes at any point, unless bridge and journal of some transaction disagree
   about whether an attempt is open. *)
RequestsSettle ==
  \A r \in Requests :
    (r \in inbox \/ receipt[r] \in Pending)
      ~> \/ r \notin inbox /\ receipt[r] \notin Pending
         \/ \E t \in Transactions : Stranded(t)
===============================================================================
