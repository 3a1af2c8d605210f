--------------------------- MODULE HostBridgeProofs ---------------------------
(***************************************************************************)
(* Proofs about the host bridge, for any number of update tasks, requests  *)
(* and crashes.                                                            *)
(***************************************************************************)
EXTENDS HostBridge, TLAPS

\* A transaction at rest keeps no other one out.
AtRest == {"none"} \cup Terminal
Decided == Attempted \cup Terminal

\* What the run under way implies about the files of its transaction.
RunOK ==
  /\ run.at \in {"staging", "preparing"} =>
       run.action = "prepare" /\ bridge[run.tx] = "prepare_pending"
  /\ run.at \in {"applying", "resuming", "executing", "uncertain"} =>
       run.action = "apply" /\ bridge[run.tx] = "apply_pending"
  /\ run.at = "executing" => journal[run.tx] \in Attempted
  /\ run.at = "saving" =>
       \/ run.action = "prepare" /\ bridge[run.tx] = "prepare_pending" /\ journal[run.tx] = "prepared"
       \/ run.action = "apply" /\ bridge[run.tx] = "apply_pending" /\ journal[run.tx] \in Terminal
  /\ run.at \in {"reporting", "returning"} /\ run.end = "status" =>
       \/ run.action = "prepare" /\ bridge[run.tx] = "prepared"
       \/ run.action = "apply" /\ bridge[run.tx] \in Terminal

\* What the files of one transaction imply about each other.
FilesOK(t) ==
  /\ outcome[t] # "untouched" => journal[t] \in Decided
  /\ journal[t] \in Decided => bridge[t] \in Decided
  /\ journal[t] \in Terminal => outcome[t] = journal[t]
  /\ bridge[t] \in Terminal => outcome[t] = bridge[t]
  /\ report[t] \in Terminal => outcome[t] = report[t]
  /\ receipt[<<t, "apply">>] \in Terminal => outcome[t] = receipt[<<t, "apply">>]
  /\ task[t] = "applied" => outcome[t] = "complete"
  /\ task[t] = "rolled_back" => outcome[t] = "rolled_back"

\* Only one transaction is begun and not finished.
OneBegun ==
  \A t, u \in Transactions : t # u /\ bridge[t] \notin AtRest => bridge[u] \in AtRest

\* The inductive invariant.
Inv == TypeOK /\ RunOK /\ OneBegun /\ \A t \in Transactions : FilesOK(t)

-------------------------------------------------------------------------------
\* A run is at a place and belongs to a request, or there is none.
LEMMA RunFields ==
  ASSUME TypeOK
  PROVE  /\ run.at \in Places => run \in [at: Places, tx: Transactions, action: Actions,
                                         end: {"status", "blocked", "pending"}]
         /\ run.at \in Places => run.tx \in Transactions /\ Request \in Requests
         /\ NoRun.at = "idle" /\ "idle" \notin Places
  BY DEF TypeOK, Runs, NoRun, Places, Request, Requests

\* The initial state satisfies the invariant.
LEMMA InvInit == Init => Inv
<1> SUFFICES ASSUME Init PROVE Inv
  OBVIOUS
<1>1. TypeOK
  BY BridgeAssumption DEF Init, TypeOK, InProgress, Runs, BridgeStates, Pending
<1>2. RunOK /\ OneBegun
  BY DEF Init, RunOK, OneBegun, NoRun, AtRest
<1>3. \A t \in Transactions : FilesOK(t)
  BY DEF Init, FilesOK, Decided, Attempted, Terminal, Requests, Actions
<1> QED
  BY <1>1, <1>2, <1>3 DEF Inv

\* The backend changes its tasks and the inbox, and believes only the reports.
LEMMA BackendStep ==
  ASSUME Inv, NEW t \in Transactions,
         \/ StartUpdate(t) \/ DownloadFails(t) \/ SubmitPrepare(t)
         \/ WaitReport(t) \/ GetStatus(t) \/ RestartPrepared(t)
  PROVE  Inv'
<1> USE DEF hostVars
<1>1. UNCHANGED <<hostVars, faults>>
  BY DEF StartUpdate, DownloadFails, SubmitPrepare, WaitReport, GetStatus, RestartPrepared
<1>2. RunOK' /\ OneBegun'
  BY <1>1 DEF Inv, RunOK, OneBegun
<1>3. TypeOK'
  BY <1>1, BridgeAssumption DEF Inv, TypeOK, StartUpdate, DownloadFails,
     SubmitPrepare, WaitReport,
     GetStatus, RestartPrepared, InProgress, Attempted, Requests, Actions
<1>4. ASSUME NEW u \in Transactions PROVE FilesOK(u)'
  <2>1. task'[u] = task[u] \/ task'[u] \notin {"applied", "rolled_back"}
        \/ (task'[u] = "applied" /\ report[u] = "complete")
    BY DEF Inv, TypeOK, StartUpdate, DownloadFails, SubmitPrepare, WaitReport, GetStatus,
       RestartPrepared
  <2> QED
    BY <1>1, <2>1 DEF Inv, FilesOK, Terminal
<1> QED
  BY <1>2, <1>3, <1>4 DEF Inv

\* A restarted backend believes only the reports, too.
LEMMA RestartStep ==
  ASSUME Inv, BackendRestarts
  PROVE  Inv'
<1> USE DEF hostVars
<1>1. UNCHANGED hostVars
  BY DEF BackendRestarts
<1>2. RunOK' /\ OneBegun'
  BY <1>1 DEF Inv, RunOK, OneBegun
<1>3. TypeOK'
  BY <1>1, BridgeAssumption DEF Inv, TypeOK, BackendRestarts
<1>4. ASSUME NEW u \in Transactions PROVE FilesOK(u)'
  BY <1>1 DEF Inv, FilesOK, BackendRestarts, Terminal
<1> QED
  BY <1>2, <1>3, <1>4 DEF Inv

\* The spool writes receipts and never a state file.
LEMMA SpoolStep ==
  ASSUME Inv, Replay \/ Accept \/ Unlink \/ MarkRunning \/ Return \/ HostCrash
  PROVE  Inv'
<1> USE RunFields DEF Inv, backendVars
<1>1. CASE Replay
  <2>1. TypeOK'
    BY <1>1 DEF Replay, TypeOK, Places, Runs, Request, Requests, Actions, At, Goto,
       Goes, InProgress, Pending, Attempted, Terminal, BridgeStates
  <2>2. RunOK'
    BY <1>1 DEF Replay, TypeOK, RunOK, At, Goto, Goes, Places, Attempted, Terminal,
       NoRun, OthersTerminal
  <2>3. OneBegun'
    BY <1>1 DEF Replay, TypeOK, RunOK, OneBegun, AtRest, At, Places, Attempted,
       Terminal, OthersTerminal
  <2>4. ASSUME NEW u \in Transactions PROVE FilesOK(u)'
    BY <1>1 DEF Replay, TypeOK, RunOK, FilesOK, Decided, Request, Requests, Actions,
       At, Places, Attempted, Terminal
  <2> QED
    BY <2>1, <2>2, <2>3, <2>4
<1>2. CASE Accept
  <2>1. TypeOK'
    BY <1>2 DEF Accept, TypeOK, Places, Runs, Request, Requests, Actions, At, Goto,
       Goes, InProgress, Pending, Attempted, Terminal, BridgeStates
  <2>2. RunOK'
    BY <1>2 DEF Accept, TypeOK, RunOK, At, Goto, Goes, Places, Attempted, Terminal,
       NoRun, OthersTerminal
  <2>3. OneBegun'
    BY <1>2 DEF Accept, TypeOK, RunOK, OneBegun, AtRest, At, Places, Attempted,
       Terminal, OthersTerminal
  <2>4. ASSUME NEW u \in Transactions PROVE FilesOK(u)'
    BY <1>2 DEF Accept, TypeOK, RunOK, FilesOK, Decided, Request, Requests, Actions,
       At, Places, Attempted, Terminal
  <2> QED
    BY <2>1, <2>2, <2>3, <2>4
<1>3. CASE Unlink
  <2>1. TypeOK'
    BY <1>3 DEF Unlink, TypeOK, Places, Runs, Request, Requests, Actions, At, Goto,
       Goes, InProgress, Pending, Attempted, Terminal, BridgeStates
  <2>2. RunOK'
    BY <1>3 DEF Unlink, TypeOK, RunOK, At, Goto, Goes, Places, Attempted, Terminal,
       NoRun, OthersTerminal
  <2>3. OneBegun'
    BY <1>3 DEF Unlink, TypeOK, RunOK, OneBegun, AtRest, At, Places, Attempted,
       Terminal, OthersTerminal
  <2>4. ASSUME NEW u \in Transactions PROVE FilesOK(u)'
    BY <1>3 DEF Unlink, TypeOK, RunOK, FilesOK, Decided, Request, Requests, Actions,
       At, Places, Attempted, Terminal
  <2> QED
    BY <2>1, <2>2, <2>3, <2>4
<1>4. CASE MarkRunning
  <2>1. TypeOK'
    BY <1>4 DEF MarkRunning, TypeOK, Places, Runs, Request, Requests, Actions, At,
       Goto, Goes, InProgress, Pending, Attempted, Terminal, BridgeStates
  <2>2. RunOK'
    BY <1>4 DEF MarkRunning, TypeOK, RunOK, At, Goto, Goes, Places, Attempted,
       Terminal, NoRun, OthersTerminal
  <2>3. OneBegun'
    BY <1>4 DEF MarkRunning, TypeOK, RunOK, OneBegun, AtRest, At, Places, Attempted,
       Terminal, OthersTerminal
  <2>4. ASSUME NEW u \in Transactions PROVE FilesOK(u)'
    BY <1>4 DEF MarkRunning, TypeOK, RunOK, FilesOK, Decided, Request, Requests,
       Actions, At, Places, Attempted, Terminal
  <2> QED
    BY <2>1, <2>2, <2>3, <2>4
<1>5. CASE Return
  <2>1. TypeOK'
    BY <1>5 DEF Return, RunOK, TypeOK, Places, Runs, Request, Requests, Actions, At,
       Goto, Goes, InProgress, Pending, Attempted, Terminal, BridgeStates
  <2>2. RunOK'
    BY <1>5 DEF Return, TypeOK, RunOK, At, Goto, Goes, Places, Attempted, Terminal,
       NoRun, OthersTerminal
  <2>3. OneBegun'
    BY <1>5 DEF Return, TypeOK, RunOK, OneBegun, AtRest, At, Places, Attempted,
       Terminal, OthersTerminal
  <2>4. ASSUME NEW u \in Transactions PROVE FilesOK(u)'
    BY <1>5 DEF Return, TypeOK, RunOK, FilesOK, Decided, Request, Requests, Actions,
       At, Places, Attempted, Terminal
  <2> QED
    BY <2>1, <2>2, <2>3, <2>4
<1>6. CASE HostCrash
  <2>1. TypeOK'
    BY <1>6, BridgeAssumption DEF HostCrash, TypeOK, Runs
  <2>2. RunOK'
    BY <1>6 DEF HostCrash, TypeOK, RunOK, At, Goto, Goes, Places, Attempted,
       Terminal, NoRun, OthersTerminal
  <2>3. OneBegun'
    BY <1>6 DEF HostCrash, TypeOK, RunOK, OneBegun, AtRest, At, Places, Attempted,
       Terminal, OthersTerminal
  <2>4. ASSUME NEW u \in Transactions PROVE FilesOK(u)'
    BY <1>6 DEF HostCrash, TypeOK, RunOK, FilesOK, Decided, Request, Requests,
       Actions, At, Places, Attempted, Terminal
  <2> QED
    BY <2>1, <2>2, <2>3, <2>4
<1> QED
  BY <1>1, <1>2, <1>3, <1>4, <1>5, <1>6

\* The bridge begins a transaction only when every other one is finished.
LEMMA HandleStep ==
  ASSUME Inv,
         \/ Refuse \/ BeginPrepare \/ StagePackage \/ BeginApply
         \/ SaveState \/ SaveUncertain \/ Publish
  PROVE  Inv'
<1> USE RunFields DEF Inv, backendVars, HandleVars
<1>1. CASE Refuse
  <2>1. TypeOK'
    BY <1>1 DEF Refuse, TypeOK, Places, Runs, Request, Requests, Actions, At, Goto,
       Goes, InProgress, Pending, Attempted, Terminal, BridgeStates
  <2>2. RunOK'
    BY <1>1 DEF Refuse, TypeOK, RunOK, At, Goto, Goes, Places, Attempted, Terminal,
       NoRun, OthersTerminal
  <2>3. OneBegun'
    BY <1>1 DEF Refuse, TypeOK, RunOK, OneBegun, AtRest, At, Places, Attempted,
       Terminal, OthersTerminal
  <2>4. ASSUME NEW u \in Transactions PROVE FilesOK(u)'
    BY <1>1 DEF Refuse, TypeOK, RunOK, FilesOK, Decided, Request, Requests, Actions,
       At, Places, Attempted, Terminal
  <2> QED
    BY <2>1, <2>2, <2>3, <2>4
<1>2. CASE BeginPrepare
  <2>1. TypeOK'
    BY <1>2 DEF BeginPrepare, TypeOK, Places, Runs, Request, Requests, Actions, At,
       Goto, Goes, InProgress, Pending, Attempted, Terminal, BridgeStates
  <2>2. RunOK'
    BY <1>2 DEF BeginPrepare, TypeOK, RunOK, At, Goto, Goes, Places, Attempted,
       Terminal, NoRun, OthersTerminal
  <2>3. OneBegun'
    BY <1>2 DEF BeginPrepare, TypeOK, RunOK, OneBegun, AtRest, At, Places,
       Attempted, Terminal, OthersTerminal
  <2>4. ASSUME NEW u \in Transactions PROVE FilesOK(u)'
    BY <1>2 DEF BeginPrepare, TypeOK, RunOK, FilesOK, Decided, Request, Requests,
       Actions, At, Places, Attempted, Terminal
  <2> QED
    BY <2>1, <2>2, <2>3, <2>4
<1>3. CASE StagePackage
  <2>0. /\ run.at = "staging" /\ run' \in Runs
        /\ run'.tx = run.tx /\ run'.action = run.action
        /\ \/ run'.at = "preparing"
           \/ run'.at = "returning" /\ run'.end = "blocked"
    <3>1. run.at = "staging" /\ run \in [at: Places, tx: Transactions, action: Actions,
                                      end: {"status", "blocked", "pending"}]
      BY <1>3 DEF StagePackage, At, Places
    <3>2. CASE Goto("preparing")
      BY <3>1, <3>2 DEF Goto, Runs, Places
    <3>3. CASE Goes("returning", "blocked")
      BY <3>1, <3>3 DEF Goes, Runs, Places
    <3> QED
      BY <1>3, <3>1, <3>2, <3>3 DEF StagePackage
  <2>1. TypeOK'
    BY <1>3, <2>0 DEF StagePackage, TypeOK, Runs
  <2>2. RunOK'
    BY <1>3, <2>0 DEF StagePackage, TypeOK, RunOK, At, Goto, Goes, Places,
       Attempted, Terminal, NoRun, OthersTerminal
  <2>3. OneBegun'
    BY <1>3 DEF StagePackage, TypeOK, RunOK, OneBegun, AtRest, At, Places,
       Attempted, Terminal, OthersTerminal
  <2>4. ASSUME NEW u \in Transactions PROVE FilesOK(u)'
    BY <1>3 DEF StagePackage, TypeOK, RunOK, FilesOK, Decided, Request, Requests,
       Actions, At, Places, Attempted, Terminal
  <2> QED
    BY <2>1, <2>2, <2>3, <2>4
<1>4. CASE BeginApply
  <2>1. TypeOK'
    BY <1>4 DEF BeginApply, TypeOK, Places, Runs, Request, Requests, Actions, At,
       Goto, Goes, InProgress, Pending, Attempted, Terminal, BridgeStates
  <2>2. RunOK'
    BY <1>4 DEF BeginApply, TypeOK, RunOK, At, Goto, Goes, Places, Attempted,
       Terminal, NoRun, OthersTerminal
  <2>3. OneBegun'
    BY <1>4 DEF BeginApply, TypeOK, RunOK, OneBegun, AtRest, At, Places, Attempted,
       Terminal, OthersTerminal
  <2>4. ASSUME NEW u \in Transactions PROVE FilesOK(u)'
    BY <1>4 DEF BeginApply, TypeOK, RunOK, FilesOK, Decided, Request, Requests,
       Actions, At, Places, Attempted, Terminal
  <2> QED
    BY <2>1, <2>2, <2>3, <2>4
<1>5. CASE SaveState
  <2>1. TypeOK'
    BY <1>5 DEF SaveState, RunOK, TypeOK, Places, Runs, Request, Requests, Actions,
       At, Goto, Goes, InProgress, Pending, Attempted, Terminal, BridgeStates
  <2>2. RunOK'
    BY <1>5 DEF SaveState, TypeOK, RunOK, At, Goto, Goes, Places, Attempted,
       Terminal, NoRun, OthersTerminal
  <2>3. OneBegun'
    BY <1>5 DEF SaveState, TypeOK, RunOK, OneBegun, AtRest, At, Places, Attempted,
       Terminal, OthersTerminal
  <2>4. ASSUME NEW u \in Transactions PROVE FilesOK(u)'
    BY <1>5 DEF SaveState, TypeOK, RunOK, FilesOK, Decided, Request, Requests,
       Actions, At, Places, Attempted, Terminal
  <2> QED
    BY <2>1, <2>2, <2>3, <2>4
<1>6. CASE SaveUncertain
  <2>1. TypeOK'
    BY <1>6 DEF SaveUncertain, TypeOK, Places, Runs, Request, Requests, Actions, At,
       Goto, Goes, InProgress, Pending, Attempted, Terminal, BridgeStates
  <2>2. RunOK'
    BY <1>6 DEF SaveUncertain, TypeOK, RunOK, At, Goto, Goes, Places, Attempted,
       Terminal, NoRun, OthersTerminal
  <2>3. OneBegun'
    BY <1>6 DEF SaveUncertain, TypeOK, RunOK, OneBegun, AtRest, At, Places,
       Attempted, Terminal, OthersTerminal
  <2>4. ASSUME NEW u \in Transactions PROVE FilesOK(u)'
    BY <1>6 DEF SaveUncertain, TypeOK, RunOK, FilesOK, Decided, Request, Requests,
       Actions, At, Places, Attempted, Terminal
  <2> QED
    BY <2>1, <2>2, <2>3, <2>4
<1>7. CASE Publish
  <2>1. TypeOK'
    BY <1>7 DEF Publish, TypeOK, Places, Runs, Request, Requests, Actions, At, Goto,
       Goes, InProgress, Pending, Attempted, Terminal, BridgeStates
  <2>2. RunOK'
    BY <1>7 DEF Publish, TypeOK, RunOK, At, Goto, Goes, Places, Attempted, Terminal,
       NoRun, OthersTerminal
  <2>3. OneBegun'
    BY <1>7 DEF Publish, TypeOK, RunOK, OneBegun, AtRest, At, Places, Attempted,
       Terminal, OthersTerminal
  <2>4. ASSUME NEW u \in Transactions PROVE FilesOK(u)'
    BY <1>7 DEF Publish, TypeOK, RunOK, FilesOK, Decided, Request, Requests,
       Actions, At, Places, Attempted, Terminal
  <2> QED
    BY <2>1, <2>2, <2>3, <2>4
<1> QED
  BY <1>1, <1>2, <1>3, <1>4, <1>5, <1>6, <1>7

\* The orchestrator saves its intent before the controller runs.
LEMMA OrchestratorStep ==
  ASSUME Inv,
         \/ Prepare \/ Prepared \/ PrepareFails \/ ApplyIntent \/ Resume \/ Raises
         \/ (\E result \in {"started"} \cup Terminal : Execute(result))
         \/ SaveOutcome \/ ExecuteUncertain
  PROVE  Inv'
<1> USE RunFields DEF Inv, backendVars, OrchestratorVars
<1>1. CASE Prepare
  <2>1. TypeOK'
    BY <1>1 DEF Prepare, TypeOK, Places, Runs, Request, Requests, Actions, At, Goto,
       Goes, InProgress, Pending, Attempted, Terminal, BridgeStates
  <2>2. RunOK'
    BY <1>1 DEF Prepare, TypeOK, RunOK, At, Goto, Goes, Places, Attempted, Terminal,
       NoRun, OthersTerminal
  <2>3. OneBegun'
    BY <1>1 DEF Prepare, TypeOK, RunOK, OneBegun, AtRest, At, Places, Attempted,
       Terminal, OthersTerminal
  <2>4. ASSUME NEW u \in Transactions PROVE FilesOK(u)'
    BY <1>1 DEF Prepare, TypeOK, RunOK, FilesOK, Decided, Request, Requests,
       Actions, At, Places, Attempted, Terminal
  <2> QED
    BY <2>1, <2>2, <2>3, <2>4
<1>2. CASE Prepared
  <2>1. TypeOK'
    BY <1>2 DEF Prepared, TypeOK, Places, Runs, Request, Requests, Actions, At,
       Goto, Goes, InProgress, Pending, Attempted, Terminal, BridgeStates
  <2>2. RunOK'
    BY <1>2 DEF Prepared, TypeOK, RunOK, At, Goto, Goes, Places, Attempted,
       Terminal, NoRun, OthersTerminal
  <2>3. OneBegun'
    BY <1>2 DEF Prepared, TypeOK, RunOK, OneBegun, AtRest, At, Places, Attempted,
       Terminal, OthersTerminal
  <2>4. ASSUME NEW u \in Transactions PROVE FilesOK(u)'
    BY <1>2 DEF Prepared, TypeOK, RunOK, FilesOK, Decided, Request, Requests,
       Actions, At, Places, Attempted, Terminal
  <2> QED
    BY <2>1, <2>2, <2>3, <2>4
<1>3. CASE PrepareFails
  <2>1. TypeOK'
    BY <1>3 DEF PrepareFails, TypeOK, Places, Runs, Request, Requests, Actions, At,
       Goto, Goes, InProgress, Pending, Attempted, Terminal, BridgeStates
  <2>2. RunOK'
    BY <1>3 DEF PrepareFails, TypeOK, RunOK, At, Goto, Goes, Places, Attempted,
       Terminal, NoRun, OthersTerminal
  <2>3. OneBegun'
    BY <1>3 DEF PrepareFails, TypeOK, RunOK, OneBegun, AtRest, At, Places,
       Attempted, Terminal, OthersTerminal
  <2>4. ASSUME NEW u \in Transactions PROVE FilesOK(u)'
    BY <1>3 DEF PrepareFails, TypeOK, RunOK, FilesOK, Decided, Request, Requests,
       Actions, At, Places, Attempted, Terminal
  <2> QED
    BY <2>1, <2>2, <2>3, <2>4
<1>4. CASE ApplyIntent
  <2>1. TypeOK'
    BY <1>4 DEF ApplyIntent, TypeOK, Places, Runs, Request, Requests, Actions, At,
       Goto, Goes, InProgress, Pending, Attempted, Terminal, BridgeStates
  <2>2. RunOK'
    BY <1>4 DEF ApplyIntent, TypeOK, RunOK, At, Goto, Goes, Places, Attempted,
       Terminal, NoRun, OthersTerminal
  <2>3. OneBegun'
    BY <1>4 DEF ApplyIntent, TypeOK, RunOK, OneBegun, AtRest, At, Places, Attempted,
       Terminal, OthersTerminal
  <2>4. ASSUME NEW u \in Transactions PROVE FilesOK(u)'
    BY <1>4 DEF ApplyIntent, TypeOK, RunOK, FilesOK, Decided, Request, Requests,
       Actions, At, Places, Attempted, Terminal
  <2> QED
    BY <2>1, <2>2, <2>3, <2>4
<1>5. CASE Resume
  <2>1. TypeOK'
    BY <1>5 DEF Resume, TypeOK, Places, Runs, Request, Requests, Actions, At, Goto,
       Goes, InProgress, Pending, Attempted, Terminal, BridgeStates
  <2>2. RunOK'
    BY <1>5 DEF Resume, TypeOK, RunOK, At, Goto, Goes, Places, Attempted, Terminal,
       NoRun, OthersTerminal
  <2>3. OneBegun'
    BY <1>5 DEF Resume, TypeOK, RunOK, OneBegun, AtRest, At, Places, Attempted,
       Terminal, OthersTerminal
  <2>4. ASSUME NEW u \in Transactions PROVE FilesOK(u)'
    BY <1>5 DEF Resume, TypeOK, RunOK, FilesOK, Decided, Request, Requests, Actions,
       At, Places, Attempted, Terminal
  <2> QED
    BY <2>1, <2>2, <2>3, <2>4
<1>6. CASE Raises
  <2>1. TypeOK'
    BY <1>6 DEF Raises, TypeOK, Places, Runs, Request, Requests, Actions, At, Goto,
       Goes, InProgress, Pending, Attempted, Terminal, BridgeStates
  <2>2. RunOK'
    BY <1>6 DEF Raises, TypeOK, RunOK, At, Goto, Goes, Places, Attempted, Terminal,
       NoRun, OthersTerminal
  <2>3. OneBegun'
    BY <1>6 DEF Raises, TypeOK, RunOK, OneBegun, AtRest, At, Places, Attempted,
       Terminal, OthersTerminal
  <2>4. ASSUME NEW u \in Transactions PROVE FilesOK(u)'
    BY <1>6 DEF Raises, TypeOK, RunOK, FilesOK, Decided, Request, Requests, Actions,
       At, Places, Attempted, Terminal
  <2> QED
    BY <2>1, <2>2, <2>3, <2>4
<1>7. CASE (\E result \in {"started"} \cup Terminal : Execute(result))
  <2>1. TypeOK'
    BY <1>7 DEF Execute, TypeOK, Places, Runs, Request, Requests, Actions, At, Goto,
       Goes, InProgress, Pending, Attempted, Terminal, BridgeStates
  <2>2. RunOK'
    BY <1>7 DEF Execute, TypeOK, RunOK, At, Goto, Goes, Places, Attempted, Terminal,
       NoRun, OthersTerminal
  <2>3. OneBegun'
    BY <1>7 DEF Execute, TypeOK, RunOK, OneBegun, AtRest, At, Places, Attempted,
       Terminal, OthersTerminal
  <2>4. ASSUME NEW u \in Transactions PROVE FilesOK(u)'
    BY <1>7 DEF Execute, TypeOK, RunOK, FilesOK, Decided, Request, Requests,
       Actions, At, Places, Attempted, Terminal
  <2> QED
    BY <2>1, <2>2, <2>3, <2>4
<1>8. CASE SaveOutcome
  <2>1. TypeOK'
    BY <1>8 DEF SaveOutcome, TypeOK, Places, Runs, Request, Requests, Actions, At,
       Goto, Goes, InProgress, Pending, Attempted, Terminal, BridgeStates
  <2>2. RunOK'
    BY <1>8 DEF SaveOutcome, TypeOK, RunOK, At, Goto, Goes, Places, Attempted,
       Terminal, NoRun, OthersTerminal
  <2>3. OneBegun'
    BY <1>8 DEF SaveOutcome, TypeOK, RunOK, OneBegun, AtRest, At, Places, Attempted,
       Terminal, OthersTerminal
  <2>4. ASSUME NEW u \in Transactions PROVE FilesOK(u)'
    BY <1>8 DEF SaveOutcome, TypeOK, RunOK, FilesOK, Decided, Request, Requests,
       Actions, At, Places, Attempted, Terminal
  <2> QED
    BY <2>1, <2>2, <2>3, <2>4
<1>9. CASE ExecuteUncertain
  <2>1. TypeOK'
    BY <1>9 DEF ExecuteUncertain, TypeOK, Places, Runs, Request, Requests, Actions,
       At, Goto, Goes, InProgress, Pending, Attempted, Terminal, BridgeStates
  <2>2. RunOK'
    BY <1>9 DEF ExecuteUncertain, TypeOK, RunOK, At, Goto, Goes, Places, Attempted,
       Terminal, NoRun, OthersTerminal
  <2>3. OneBegun'
    BY <1>9 DEF ExecuteUncertain, TypeOK, RunOK, OneBegun, AtRest, At, Places,
       Attempted, Terminal, OthersTerminal
  <2>4. ASSUME NEW u \in Transactions PROVE FilesOK(u)'
    BY <1>9 DEF ExecuteUncertain, TypeOK, RunOK, FilesOK, Decided, Request,
       Requests, Actions, At, Places, Attempted, Terminal
  <2> QED
    BY <2>1, <2>2, <2>3, <2>4
<1> QED
  BY <1>1, <1>2, <1>3, <1>4, <1>5, <1>6, <1>7, <1>8, <1>9

\* Every step preserves the invariant.
LEMMA InvNext == Inv /\ [Next]_vars => Inv'
<1> SUFFICES ASSUME Inv, [Next]_vars PROVE Inv'
  OBVIOUS
<1>1. CASE UNCHANGED vars
  BY <1>1 DEF Inv, TypeOK, RunOK, OneBegun, FilesOK, vars, backendVars, hostVars, Request
<1>2. CASE Next
  BY <1>2, BackendStep, RestartStep, SpoolStep, HandleStep, OrchestratorStep DEF Next,
     ProcessOnce
<1> QED
  BY <1>1, <1>2

\* The invariant of the files of backend and host.
THEOREM BridgeInvariant == Spec => []Inv
  BY InvInit, InvNext, PTL DEF Spec

\* Every file holds only statuses its readers know, for any number of updates.
THEOREM BridgeTypeOK == Spec => []TypeOK
<1>1. Inv => TypeOK
  BY DEF Inv
<1> QED
  BY <1>1, BridgeInvariant, PTL

\* The controller never touches the installation before the intent is durable in
\* the journal and in the bridge, and no replayed request takes it back.
THEOREM IntentIsBeforeMutation == Spec => []IntentBeforeMutation
<1>1. Inv => IntentBeforeMutation
  BY DEF Inv, FilesOK, IntentBeforeMutation, Decided
<1> QED
  BY <1>1, BridgeInvariant, PTL

\* While the controller is inside one update no other transaction is begun on the
\* host and not finished, whatever the backend believes.
THEOREM UpdatesAreExclusive == Spec => []OneUpdateAtATime
<1>1. Inv => OneUpdateAtATime
  BY DEF Inv, TypeOK, FilesOK, OneBegun, AtRest, OneUpdateAtATime, Decided, Attempted,
     Terminal
<1> QED
  BY <1>1, BridgeInvariant, PTL

\* Tasks, reports, receipts and states are terminal only as the controller ended.
THEOREM TerminalStatesAreTrue == Spec => []TerminalIsTrue
<1>1. ASSUME Inv, NEW t \in Transactions
      PROVE  /\ task[t] = "applied" => outcome[t] = "complete"
             /\ task[t] = "rolled_back" => outcome[t] = "rolled_back"
             /\ \A s \in {receipt[<<t, "apply">>], report[t], bridge[t], journal[t]} :
                  s \in Terminal => outcome[t] = s
  <2>1. FilesOK(t)
    BY <1>1 DEF Inv
  <2> QED
    BY <2>1 DEF FilesOK
<1>2. Inv => TerminalIsTrue
  BY <1>1 DEF TerminalIsTrue
<1> QED
  BY <1>2, BridgeInvariant, PTL

===============================================================================
