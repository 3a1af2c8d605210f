# Treseko platform: specifications and proofs

TLA+ specifications of the parts of the Treseko platform where processes, machines and
crashes meet, the TLC runs that check them on small instances, and TLAPS proofs of the
results that matter for every instance.  Paths are relative to the repository (`src/`).

## The system

| Part | State | Operations | Interacts with |
|---|---|---|---|
| **Automation job queue** (`backend/app/repositories/automation_*.py`, `api/routers/automation.py`) | `automation_jobs`, `automation_claim_intents`, the executions and the run they belong to | create, next, claim (with and without intent), reconcile, recover, heartbeat, result, cancel | workers over HTTP; build, permission and run administration |
| **Automation worker** (`automation-worker/src`) | main loop, active job, lease timer; on disk: claim file, result spool, quarantine, drain receipt | poll, claim, execute, deliver, flush, reconcile, pause | the queue; the updater through request and receipt files |
| **Update transaction** (`backend/app/services/update_transaction.py`, `update_journal.py`) | the journal, one node per participant and gate | run, recover, activate, finalize, abort | participants, admission gates, worker drain, AI queue pause |
| **Update participant** (`update_participant.py`) | one journal per host and transaction: phase, receipts, intents | the ten operations of `update_transport.OPERATIONS` | the coordinator over SSH, the operator's runtime adapter |
| **Ingress gate** (`update_durable_ingress.py`, `update_ingress_rpc.py`) | phase, fence and draining marker, release tombstone | acquire, seal, release, assertions | the coordinator over SSH, the proxy |
| **AI execution queue** (`services/ai_execution_queue.py`, `ai_execution_lifecycle.py`, `repositories/ai_execution_*.py`) | AI jobs, executions, one advisory lock | enqueue, drain, dispatch, callback, stale recovery | engine, update gate |
| **Engine** (`engine/src/run-routes.ts`, `delivery/terminal-callback.ts`) | active tasks in memory; on disk: undelivered results | admit, run, deliver, give up, redeliver | AI queue |
| **AI queue gate** (`update_ai_queue_gate.py`) | journal and tombstones on the host, the pause row in the database | acquire, assert, release | AI queue, coordinator |
| **Host bridge** (`update_host_bridge*.py`, `update_existing_installation.py`, `updater_*.py`) | backend tasks, request inbox, receipts, bridge state, orchestration journal, reports | start, prepare, apply, status, process_once | administrator, coordinator |
| **Chunked upload**, **pairing**, **API jobs**, **scheduled missions** | uploads, pairing codes and tokens, one job per suite, missions | see the plan | queue, worker, AI queue |
| **MCP server** (`services/mcp_*.py`) | idempotency records, its own queue | tools, cancel | queue |
| Portability, notifications, plugins, reports, bugs, wiki, users, frontend | records | CRUD, rendering | - |

What is hard in it:

* *Concurrency.* Every request is an asyncio task with its own session.  Rows are sometimes
  read without a lock and used later; `FOR UPDATE SKIP LOCKED`, conditional updates and
  plain reads are mixed on the same rows.
* *Failure.* Workers crash and are restarted, responses are lost, and a request that was
  given up may be processed long after its sender went on.
* *Time.* A lease that runs out does not by itself revoke its owner: recovery does, and it
  only runs inside the polls of other workers.
* *Updates.* A worker that says it is drained is stopped; if the backend assigns a job
  to it afterwards, that job waits for a lease to expire.  A coordinated update spans
  machines: any call may be lost, stop half way, or be executed after its sender gave up.

What makes each part correct:

* *Queue*: one owner at a time, under the newest lease; bounded attempts; only the newest
  lease completes a job; a finished job stays finished; job, execution and run agree; an
  attempt that was closed never claims.
* *Worker*: a result is neither lost nor produced twice for one lease; a worker never
  forgets an assignment; a drain receipt is true; every intent is resolved, every job ends.
* *Update*: participants never serve different versions; snapshots of all hosts describe one
  moment; data that may hold admitted writes is not replaced; ingress opens only over a
  serving installation; a crash anywhere is recovered from the journal.
* *AI queue*: the scheduler claims within the limit; a verdict is not changed by whatever
  comes late; an execution that runs is closed in the end; a closed update gate means an idle
  queue, and the pause belongs to the transaction that took it.
* *Host bridge*: nothing is mutated before the intent is durable, updates exclude each other,
  what the administrator is told is what happened, and every request is settled.

## Modules

| Module | Models |
|---|---|
| `AutomationJobs` | the queue's tables and every handler that changes them, with arbitrary clients |
| `JobLease` | the abstract promise of the queue as built, per job: grant, revoke, time out, deliver, withdraw, and what requests under way have read |
| `AutomationDispatch` | `AutomationJobs` with real workers instead of arbitrary clients, faults and updates |
| `AtomicUpdate` | the abstract promise of an update: withdraw, decide once, admit the decided version |
| `UpdateHost` | what one request does to a participant's journal and to a gate's, as operators |
| `UpdateTransaction` | the coordinator, its participants and gates, and the faults between them |
| `EngineDelivery` | the engine: tasks, results, spool of undelivered results |
| `AiQueueGate` | the update host's gate on the AI scheduler, write by write |
| `AiExecutionQueue` | the AI queue, its scheduler, dispatch tasks, watchers and callbacks, composed with the engine and the gate |
| `HostBridge` | a coordinated update from the administrator's request to the report, across the backend's and the host's files |
| `MCAutomationJobs`, `MCAutomationDispatch`, `MCUpdateTransaction`, `MCAiExecutionQueue`, `MCHostBridge` | instances for TLC |
| `AutomationJobsProofs` | the inductive invariants of the queue and of its claims, and their theorems |
| `JobLeaseProofs` | the queue implements `JobLease` |
| `AutomationDispatchProofs` | the inductive invariant of the queue with its workers; it implements `AutomationJobs` |
| `UpdateTransactionProofs` | the inductive invariant of the update; it implements `AtomicUpdate` |
| `UpdateGatesProofs` | the inductive invariant of gates, seals and admissions, on top of the former |
| `AiExecutionQueueProofs` | the inductive invariant of the AI queue with its gate, and its theorems |
| `HostBridgeProofs` | the inductive invariant of the host bridge and its theorems |

### AutomationJobs

`job[j]` is a row of `automation_jobs` reduced to the columns the protocol looks at.  A
lease token is a fresh random string drawn by the statement that increments
`attempt_count`, so the counter's value stands for the token; a worker makes one result
event per lease, so an event is identified by its lease and a fingerprint by lease and
outcome.  `expired` says that `lease_expires_at` has passed; when it passes is arbitrary.
`intent[r][a]` is the claim-intent row of runner `r` and attempt id `a`; `OPEN` is inserted
and left within one transaction and no one reads it.  `execution`, `run`, `authority` and
`build` are the parts of the rest of the platform the queue reads or writes; all jobs
belong to one run and every job has its own execution.

A request is processed by a handler `h`: `req[h]`, `phase[h]` and what its session
remembers (`todo`, `seen`, `closes`).  One action is what happens between two points where
another transaction can be noticed:

| Actions | Code |
|---|---|
| `ClaimLoad` | the unlocked load of the job in the claim route |
| `RecoverStale` | `recover_stale_automation_jobs`, its own commit, first step of next and reconcile, second of a claim |
| `NextRead`, `NextBlock`, `NextAnswer` | `get_next_automation_job`: unlocked read, one commit per blocked job, answer |
| `ClaimGrant`, `ClaimRepeat`, `ClaimRefuse`, `IntentMismatch` | `automation_claim_intents.claim` and the commit of its route |
| `ReconcileWait`, `ReconcileClose` | `automation_claim_intents.reconcile` |
| `LegacyClaim` | `claim_automation_job`: scope check and conditional UPDATE |
| `Heartbeat` | `update_runner_heartbeat` with a current job |
| `ResultRead` | the unlocked load in the route, `ensure_job_runner_access`, `prepare_worker_result_evidence` |
| `ResultRepeat`, `ResultInactiveBuild`, `ResultDecide` | `complete_automation_job` once it has the row lock |
| `ResultCommit` | its commit |
| `CreateJob`, `CancelRun`, `LeaseExpires`, `ChangeAuthority`, `ChangeBuild` | the rest of the platform |
| `Receive`, `Release` | a request arrives; a handler ends, or its connection or process does |

`Locked` are the rows between the lock and the commit of a completion.  Actions that need
such a row wait, recovery and cancellation skip it.

Reading a row `FOR UPDATE` does not refresh a row the session already holds: SQLAlchemy does
that only with `populate_existing`, which two places do not ask for although their route has
loaded the job before.  `complete_automation_job` decides with the row `seen` by the route; its
checks repeat those of the route on the same row and cannot fail, so the model has no action
for their failure.  The recovery inside a claim compares and overwrites the row the claim loaded
(`Held`); a session writes only the columns it changes, so a column whose new value equals the
held one keeps what the table has (`Recovered`).  The assignment that follows does refresh
the row (`automation_claim_intents.py:38`) or is a conditional `UPDATE`.

Since recovery may requeue a job that has used up its attempts, `attempt_count` can pass
`max_attempts` and has no bound in the code.  `MaxLeases` bounds it in the model.

### AutomationDispatch

One worker per runner.  `pc[r]` is where the loop is; it gives up control only while it
waits for a response (`awaits[r]`).  `active[r]` and `beating[r]` are the job it renews,
`claimFile[r]`, `spool[r]`, `quarantine[r]` and `receipt[r]` its files.  `GiveUp` is a
timeout or reset: the request stays with the backend and may be processed later or dropped
(`Drop`).  `Crash` loses the memory and keeps the files.  `recorded` is a history variable:
every result the backend ever committed.  Heartbeat request and response are one step,
because a late heartbeat can only move an expiry that is arbitrary anyway.  Attempt ids are
random in the code and drawn in order here.

### UpdateHost and UpdateTransaction

`host[p]` is the journal of `LocalUpdateParticipant` (`phase`, `receipts`,
`apply_attempted`, `admission_decided`, `restored`, `finalized`) together with what the
runtime adapter did: the installed version (`torn` if an apply or restore stopped half way),
the version the process runs, and whether it admits work.  The adapter is the operator's;
`Effect` is the contract the `Participant` protocol states.  A request runs under the
host's lock, so `execute` is one step; `Interrupted` lists the journals an execution that
dies leaves behind: the intent saved, the effect done without receipt, or torn.

`gate[g]` is the state file, the two markers and the tombstone of
`DurableDockerIngressGate`; `change` is a request that ran to its end, `GateInterrupted` one
that did not.  `Drain` are the callback-drain gates.  A gate in `Sealable` has a seal of its
own; `ProcessIngressGate` without callback drain seals by asserting its closed state.

`status`, `decision`, `node` and `info` are the coordinator's journal; `c` is the running
process: the loop it is in, what the loop has left, and whether it is the first pass
(`forward`) or a recovery.  One action is what happens between two saves:

| Actions | Code |
|---|---|
| `Run` | `run`: a new journal, `_activate` for a decided one, `_recover` for any other |
| `CloseGate`, `Acquired`, `GatesClosed` | `_close_gates` with `_gate_call('acquire')` |
| `Call`, `CheckedGates`, `Reply` | `_check_gates`, `_call`: intent, request, answer |
| `NextOperation`, `TakeDecision` | the order of the loops of `run` and `_recover` |
| `SealGate`, `Sealed`, `SealBarrier` | `_seal_gates` |
| `OpenGates`, `OpenGate`, `Released`, `Finalize`, `Finish` | `_activate`, `_finalize` |
| `CallFails`, `GateCallFails`, `CheckFails` | an exception of the transport or the host |
| `CallOverdue`, `GateCallOverdue`, `Arrives` | `_bounded_response` gives up, the request is executed later |
| `CoordinatorCrash` | the process ends; `Run` is the next `resume` |

`Fail` is what an exception does in each loop.  The save of the decision and the save of
`activation_pending` that follows it are one step: a restart looks at the decision only.
Participants and gates are numbered in inventory order, which is taken to be the order of
their names (the journal sorts its keys, so a resumed coordinator sees that order).

### AiExecutionQueue, EngineDelivery, AiQueueGate

`estado[j]`, `ejecucion[j]` and `inicio` are the columns of an AI row the scheduler looks at,
`resultado[e]` and `report[e]` the verdict of an execution and whose delivery id its report
carries.  `tick[p]` is the open scheduler transaction of process `p`, `tasks` and `watchers`
what the processes hold in memory and lose in a crash.  A transaction is one step, except the
scheduler's: `TickRead` is its plain read of the active rows, `TickCommit` everything it
writes later because of what it read; other transactions commit in between, apart from those
that need the executions it locked (`Unlocked`) or the advisory lock (`QueueLockFree`).

| Actions | Code |
|---|---|
| `AskWithoutUrl`, `Enqueue` | `trigger_ai_run`, `enqueue_ai_execution` |
| `TickRead`, `TickCommit` | `drain_ai_execution_queue` with `recover_stale_ai_executions` |
| `Start`, `Returned`, `Raised` | `_dispatch`: the row, and what follows a return or an exception |
| `TriggerRaises`, `TriggerBlocks`, `TriggerBegins` | `trigger_ai_execution` up to the first post |
| `PostAccepted`, `PostFails` | its posts; the last failure writes what its session remembers |
| `WatcherFires` | `ai_execution_timeout_watcher` |
| `Callback` | the result route and `complete_ai_engine_execution` |
| `Admit`, `Finish`, `GiveUp`, `Acknowledged`, `EngineCrash` | `/run-task` and the delivery of its result |
| `Acquire*`, `Release*`, `CallFails` | `AIQueueLocalGate`, one action per durable write |

A task's `seen` is the report its session loaded before the posts: the last failing post
writes it back with the verdict, over whatever came in meanwhile.

`VideoArgument` says whether `trigger_ai_execution` takes the argument `record_video` that
`_dispatch` passes (`ai_execution_queue.py:243`).  It does not
(`ai_execution_triggers.py:136`): **as built the call raises, and every queued AI execution is
blocked without ever reaching the engine.**  The runs take the signature the caller expects
(`TRUE`), as otherwise nothing after the call is ever reached; the theorems hold for both.

`MaxTasks` bounds how many dispatch tasks of one row are alive when a tick begins (a row that
is requeued gets a second one); it is a bound of the runs, and the theorems hold for every
value of it.

### HostBridge

Every file is a variable: `inbox`, `receipt`, `bridge`, `journal`, `report`, and the backend's
`task` history; `outcome` is what the controller has made of the installation and `run` the
`process_once` under way.  One action is one durable write, so that a crash (`HostCrash`,
`BackendRestarts`) may come between any two.

| Actions | Code |
|---|---|
| `StartUpdate`, `DownloadFails`, `SubmitPrepare`, `WaitReport` | `apply_update`, `_run_apply`, `_run_coordinated_apply` |
| `GetStatus`, `RestartPrepared`, `BackendRestarts` | `get_update_status`, `restart_prepared_update`, `_load_history` |
| `Replay`, `Accept`, `Unlink`, `MarkRunning`, `Return` | `HostBridgeSpool.process_once` |
| `Refuse`, `BeginPrepare`, `StagePackage`, `BeginApply`, `SaveState`, `SaveUncertain`, `Publish` | `HostUpdateBridge.handle` |
| `Prepare`, `Prepared`, `PrepareFails`, `ApplyIntent`, `Resume`, `Raises`, `SaveOutcome`, `ExecuteUncertain` | `update_existing_installation` |
| `Execute` | the controller, whose inside is `UpdateTransaction` |

A receipt of an apply that the orchestrator left unfinished says `apply_uncertain` or
`pending`; both are taken up again alike and the model uses `pending`.

## Runs

| Run | Instance | Checks |
|---|---|---|
| `Lease` | 1 job, 2 runners without intents, 2 handlers, 2 attempts, 3 leases | `LeaseCurrent`, `LeaseSpec` |
| `Run` | 2 jobs, 1 runner without intents, 2 handlers, 1 attempt | `VerdictAgrees`, `FinishedForever`, `RunClosesComplete` |
| `Intents` | 2 jobs, 1 runner, 2 attempt ids, 1 handler | `TypeOK`, `OneIntentPerLease`, `SealedForever` |
| `Worker` | 1 worker, 1 job, 2 handlers, 2 attempts, 1 post, 1 fault, 1 change, 1 update, fair | `DispatchTypeOK`, `OneResultPerLease`, `OneDelivery`, `DrainedIsSafe`, `IntentCoversLease`, `SpoolSettled`, `JobsFinish`, `IntentsResolve` |
| `Update` | 2 hosts, 1 callback-drain and 1 hard gate, 2 faults, 2 overdue calls | `TypeOK`, `OpenMeansServing`, `AtomicUpdateSpec`, `SnapshotBarrier`, `AdmittedDataKept`, `ReopenedForGood` |
| `UpdateProgress` | 2 hosts, 2 hard gates, 2 faults, fair | `Terminates` |
| `AiQueue` | 2 executions, 2 rows, 1 process, 1 post, the limit 0 (clamped to 1) or 2 and changed at any time, no engine, no gate | `TypeOK`, `ClaimsWithinLimit` |
| `AiProgress` | 1 execution, 1 row, 1 process, 2 posts, 1 verdict, 1 update transaction, 1 crash, fair | `ClosedGateIsIdle`, `PauseOwned`, `VerdictKept`, `ExecutionsSettle` |
| `Bridge` | 2 updates, 2 apply requests, 1 crash, fair | `TypeOK`, `IntentBeforeMutation`, `OneUpdateAtATime`, `TerminalIsTrue`, `RequestsSettle` |
| `UpdateSeal` | 1 host, 1 callback-drain gate, 1 fault, fair | `RecoveryResumes` is violated |
| `StaleResult` | 1 job, 2 runners, 1 attempt id, 2 handlers, 2 attempts | `ResultOfLastLease` is violated |
| `Overrun` | as `StaleResult` | `AttemptsBounded` is violated |

*Bounds.* Two handlers are the smallest number at which a read and the write that makes it
stale can overlap; two attempts are the smallest number at which there is an earlier lease, and a third lease
of a job with two attempts is one that recovery should not have made possible;
two jobs are needed where a run is closed or an attempt id is reused.  The clients of
`AutomationJobs` are arbitrary, so one handler stands for any number of earlier requests.
One fault of a worker is a crash, a lost response or a request that is processed late, and the
administrative change and the update meet it at any point; with one post per delivery one lost
response is enough to leave an envelope pending while the lease is renewed, and the next round
posts it again.  For more faults and posts the worker's safety properties rest on the theorems.  Two faults of an update allow a crash while recovering from a
lost response.  An update needs two hosts
for two versions to meet, and two overdue calls for a host to be taken through two
operations behind the coordinator's back (a quiesce, then what quiesce permits).  Two AI rows
with a limit that moves between one and two are what a count can be wrong about; the engine
and the gate do not change a count and are left to `AiProgress`, where one execution can
meet its late result, its watcher, a tick, a crash and a pause.  In `Bridge`, two transactions
are needed for one to be refused because of the other, and two apply requests for one
to be repeated.  The theorems have none of these bounds.

*Deadlock* is not checked: a queue with all jobs finished, an update that is finished, and a
system that has used up its bounded faults, may stop.  The progress runs say what must not stop.

*Symmetry* of runners and handlers is used in the runs that check safety only.

*Fairness* (`Fairness` in `AutomationDispatch`): the loop of a worker never ends, so each of
its enabled steps is eventually taken; the event loop of the backend finishes what it has
received, and a connection nobody waits for is eventually closed; the updater removes its
request when its transaction ends; a lease nobody renews expires.  Nothing is assumed about
faults, the lease of a renewed job, administration or the arrival of jobs.  Every worker
supports every job there: a job no runner supports waits for ever, by design.

For the update (`FairSpec`) the fairness is of the coordinator: it goes on while it runs, and
the operator resumes an unfinished transaction with the same command, as
`docs/en/UPDATE_EXISTING_INSTALLATION.md` instructs.  `Terminates` is checked with faults,
without overdue calls and with hard gates: with a callback-drain gate it fails, as
`UpdateSeal` shows for a half-done acquire or seal, and also because such a gate in phase
`released` refuses the retry of a release whose acknowledgement was lost
(`update_durable_ingress.py:146`), which keeps the update in `activation_pending`; and a
quiesce that is executed after `verify_rollback` leaves a host whose activation is refused for ever.

For the AI queue (`FairSpec` of `AiExecutionQueue`) the fairness is of the backend: every
process ticks every two seconds, runs its tasks and wakes its watchers; since time passes, an
execution that goes on running is past the cutoff of some later tick, and that tick takes it
up (strong fairness, because ticks alternate with other transactions).  Nothing is assumed of
the engine, of callbacks or of the host.  `ExecutionsSettle` is conditional on the pause not
lasting for ever, because the pause also stops recovery, and speaks of executions
without a final report, because recovery skips the others: a retried execution keeps the
report of its last attempt, and if its process dies nothing closes it.

For the host bridge the supervisor's timer starts `process_once` again and again (weak
fairness of its steps).  That a resume succeeds some day, that the controller ends and that its
answer is not lost every time is assumed by strong fairness: an operator who never repairs
what makes a resume fail waits for ever.

### What the violated runs show

* `StaleResult`: a worker posts its result under lease 1; its handler reads the row and
  waits (archiving the evidence takes long).  The lease expires, recovery requeues the job,
  another worker claims it under lease 2.  The handler locks the row, still sees lease 1 in
  its session, and completes the job; the second worker's result is rejected.
* `Overrun`: a claim loads the job, `CLAIMED` with one of two attempts, and stalls before its
  recovery.  The lease expires, another request requeues the job and claims it, which makes two
  attempts, and that lease expires too.  The recovery of the first claim still sees one
  attempt and puts the job back into the queue.  The stall has to be as long as a lease.
* `UpdateSeal`: an acquire or a seal of a callback-drain gate that stops after its first save
  leaves a phase that every resumed recovery only asserts, never repairs.

### What the passing runs leave open

The hazards in `PROJECT.json` name what the properties do not exclude.  The ones that matter
most, each reachable in the model as in the code:

* The bridge saves `apply_pending` before the orchestrator saves its own intent, and its end
  after the orchestrator's.  A crash in between (or a validation that raises) leaves the
  bridge calling `resume`, which refuses with "No attempted application can be reconciled", for
  ever; its receipt stays pending and no other request is looked at.  `Stranded` names this
  state and `RequestsSettle` excludes exactly it.
* A prepare that failed is never finished by the backend, which uses a new id every time; the
  bridge then refuses every later update because of it.  A backend that restarts leaves a
  coordinated task in progress without anybody working on it.
* The last failing post of a dispatch writes `BLOQUEADO` over a verdict the engine has
  delivered meanwhile.  `VerdictKept` says that nobody else does such a thing: besides a request
  without a base URL, a verdict is changed only in a step that a starting or posting dispatch of
  that execution takes itself.
* A process that dies between the commit of `RUNNING` and the start of the execution leaks a
  slot of the AI queue: no tick requeues or closes that row.
* A result that lost against a timeout is never acknowledged; the engine repeats it for ever,
  and it closes a later attempt of the same execution.
* The claim with an intent does not revalidate the authority of the job, although the module
  that does it says "at claim"; the first heartbeat refuses the job, an attempt is used up.
* A quiesce and a rollback the coordinator gave up on may be executed after the rollback
  decision on a host that is not yet active: it is restored again while another host admits
  writes.  `AdmittedDataKept` says what does hold.

## Proofs

`AutomationJobsProofs` proves for any sets of jobs, runners, attempt ids and handlers and
any positive `MaxAttempts` and `MaxLeases`:
`TypeOK`, `LeaseCurrent`, `VerdictAgrees` as invariants and
`FinishedForever`, `SealedForever`, `RunClosesComplete` as action properties.

The inductive invariant is `Inv == TypeOK /\ Phases /\ Rows`.  `Rows` says of every row what
its state implies about owner, lease and attempts (`LeaseCurrent` is a consequence; that a
recovery which overwrites with a stale row keeps it rests on `RecoveredFields`: such a row is
either left alone or released with its owner and lease).  `Phases` ties the phase of a handler to
the kind of its request.  `VerdictAgrees` needs in addition that an execution whose job is
not finished is pending (`AllAgree`), `RunClosesComplete` that the decision an open
completion has taken stays right until it commits (`ClosesRightly`), which rests on
verdicts never becoming pending again.

A second invariant, `ClaimInv`, adds what clients may rely on, and gives `OneIntentPerLease`.
`Intents`: an attempt names a lease its job has issued, and a sealed attempt owns nothing.
`Answers`: what an answer says (granted, closed, acknowledged) stays true until its client
reads it, however long it travels.  `SeenOK`: a finished row in the session of a completion is
finished still.  That a lease has one attempt needs that an attempt is granted the next value
of the counter, which no attempt can name yet.

`AutomationDispatchProofs` proves, for any number of workers, connections, crashes, lost
responses and given-up requests, `DispatchTypeOK`, `OneResultPerLease`, `IntentCoversLease`,
`OneDelivery`, `DrainedIsSafe` and the action property `SpoolSettled`, and that the composition
implements the queue (`DispatchIsQueue`), so that every theorem above holds of it too.  The
invariant `DispatchInv` adds to `ClaimInv` and the types, per worker: what its place in the main
loop implies about its disk (`WorkerOK`), which request it waits for (`AwaitOK`), that the claim
file names the attempt that matters (`FileOK`), that a lease it holds is the one of that
attempt and has no result yet (`HoldOK`), that what it was acknowledged is committed
(`SettledOK`); and per request in flight, the ones nobody waits for included: only a claim the
claim file names can still be granted, and there is one such request per attempt (`ClaimOK`);
a result in flight is on a disk or in the database (`ResultOK`).  None of the theorems is
inductive without these: a drained worker is safe because its claim file is gone, and a claim
given up long ago can then not be granted any more; a lease has one result because a restarted
worker that finds a claim file seals the attempt before it claims again, and is then no owner.

`JobLeaseProofs` proves that the queue implements `JobLease` (`QueueImplementsLease`), without
any assumption on what its handlers read.  The mapping shows per job the lease and what
requests under way have read of it: `due`, the leases of results whose handler found the job
open, and `known`, the counters of claims that have not recovered yet.  `JobLease` then says what
the stale rows can and cannot do: a stored event was sent by someone who held the job when the
handler looked; a job is timed out only after its last attempt; it is requeued after that
only if some counter in `known` was lower.  The added invariant is that a result exists only in a
finished job (`Delivered`), that a counter a claim has loaded is never ahead of the job's, and
that a completion between lock and commit found the job open (`Sessions`).

`UpdateTransactionProofs` proves, for any inventory, any orders, any mix of gates and any
number of faults and overdue calls, that `UpdateTransaction` implements `AtomicUpdate`
(`UpdateIsAtomic`), and `TypeOK` and `AdmittedDataKept`.  The inductive invariant `IInv` ties
four things together.  `RequestInv`: a request, overdue or not, was preceded by an intent,
so a participant without one is untouched; before the decision nobody is asked to activate,
after a commit nothing else is asked.  `ServingInv`: a host that admits work without having
decided to is untouched and serves the old version.  `PassInv`: what the finished part of
the current loop has established (nobody admits after quiesce, the new version runs after
verify, everyone is restored after rollback) and that an overdue request cannot undo it.
`DecisionInv`: what the decision rests on.  Atomicity alone is not inductive: that a commit
finds everyone out of service needs the whole chain of loops, and that an overdue request
of a recovery does no harm after the rollback decision needs that a restored host refuses
apply.  The proof goes request by request (`OutcomeFacts`: what no request does, whatever
becomes of it), then step by step.

`UpdateGatesProofs` proves, under the same assumptions, `OpenMeansServing` and the action
properties `SnapshotBarrier` and `ReopenedForGood`.  Its invariant `GateInv` is relative to
`IInv`.  `FenceInv`: before the decision nobody asks a gate to open, not even a late request,
so a gate that is fenced stays fenced, and no participant is called before all gates are.
`TombstoneInv`: only a release leaves the tombstone that later acquires meet.  `SealInv`: until
the decision a seal in the coordinator's journal is a seal on the gate, and every request for a
snapshot, a late one too, was made behind the seals of all gates.  `AdmitInv`: a participant
that was activated admits work, and gates are asked to open only after the last activation.
`InstalledInv`: what is committed is installed everywhere.  As with `IInv`, a few lemmas say what
one request can do to a gate and to a host whatever becomes of it (`GateOutcomes`,
`OutcomeFacts`); then each step of the coordinator and each late request is taken in turn.

`AiExecutionQueueProofs` proves, for any sets of processes, executions, rows and update
transactions, any limits, any number of crashes and either value of `VideoArgument`:
`TypeOK`, `ClosedGateIsIdle` and `PauseOwned` as invariants, `ClaimsWithinLimit` and
`VerdictKept` as action properties.  The inductive invariant is `TypeOK /\ GateOK /\ TickOK /\
PauseOK`.  `TickOK`: at most one scheduler transaction is
open, what it has locked still runs, and the rows it will requeue or close exist;
`ClaimsWithinLimit` then is counting (`Claims`): its writes before the count make no row
active that was not.  `PauseOK`: no scheduler transaction is open while
the pause is set, which is what the advisory lock gives and why an idle queue stays idle.
`GateOK` says for every step of a call what journal, pause row and tombstones agree on; neither
`ClosedGateIsIdle` nor `PauseOwned` is inductive without it.  Steps that make no row active and
leave ticks and gate alone are treated together (`Tame`).

`HostBridgeProofs` proves, for any set of transactions, requests and crashes, `TypeOK`,
`IntentBeforeMutation`, `OneUpdateAtATime` and `TerminalIsTrue`.  The inductive invariant adds to
the types: `RunOK`, what the place of the run under way implies about state, journal and
outcome of its transaction; `OneBegun`, that at most one transaction of the host is begun and
not finished; and `FilesOK(t)`, how the files of one transaction bound each other: the report is
never ahead of the state, the state never ahead of the journal, the journal never ahead of the
controller.  `TerminalIsTrue` is the end of that chain; alone it is not inductive, because a task
takes over a report that was written long before.

Assumptions about the constants: participants and gates are finite sets of naturals, the two
orders are injective, a callback-drain gate has a seal; jobs are positive naturals (their order is the creation
order), `NoRunner` is no runner, outcomes are terminal states, `MaxAttempts` and
`MaxLeases` are positive; bounds
are naturals, at least one post is tried, limits are naturals, `NoExecution` and
`NoTransaction` are neither; attempt ids are positive naturals, `NoHandler` is no handler.

Only model-checked: liveness, since the prover has no support for fairness or `ENABLED`:
`JobsFinish`, `IntentsResolve`, `Terminates`, `ExecutionsSettle`, `RequestsSettle`.  Every invariant
and every action property of the passing runs is proved, and so is the refinement of `JobLease`
and of `AtomicUpdate`.  The statements the code violates (`ResultOfLastLease`,
`AttemptsBounded`, `RecoveryResumes`) have no theorem.

## Not modelled

Formats, wording, logs, artifacts and step snapshots of results; cryptography of tokens
(a token is known to whom it was given); `DRY_RUN` and `API_EXECUTION` jobs; registration
and pairing; corrupted or legacy worker files; chunked result uploads; a database that fails;
more than one run; the closing of runs by AI callbacks, AI missions and quotas; what an AI
task does; complete-source packages and the legacy in-container updater; a
second update transaction of the same installation, the abort of a preparation (nothing in
the repository calls it), package staging and signatures, the runtime adapters behind
their contract.
`PROJECT.json` lists every component, and the hazards, also the ones without a property.

## Plan

1. `AutomationJobs`, `JobLease`, their proofs, `AutomationDispatch` - done.
2. `UpdateHost`, `UpdateTransaction`, `AtomicUpdate` and their proofs, the gates in
   `UpdateGatesProofs` - done; left: the claim of an installation by two transactions.
3. `AiExecutionQueue`, `EngineDelivery`, `AiQueueGate` and their proofs - done; left: the closing
   of runs by callbacks, scheduled missions as producers.
4. `HostBridge` and its proofs - done; left: `outcome` refined by `UpdateTransaction`.
5. `AutomationDispatchProofs`: the invariant of queue and workers, and that the composition
   implements the queue - done.
6. The host's reading of drain receipts composed with `AutomationDispatch`; chunked result
   upload, runner pairing, creation races, API jobs, MCP idempotency.
