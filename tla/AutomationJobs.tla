---------------------------- MODULE AutomationJobs ----------------------------
(***************************************************************************)
(* The automation job queue of the Treseko backend: the rows of            *)
(* automation_jobs and automation_claim_intents, and every request handler *)
(* that changes them.  The clients are arbitrary: any runner may send any  *)
(* request at any time, repeat it, or hang up in the middle of it.         *)
(* AutomationDispatch composes this module with the real workers.          *)
(*                                                                         *)
(* A handler is one asyncio task with one database session.  Each of its   *)
(* committed transactions, and each unlocked read whose value it uses      *)
(* later, is a step of its own; everything between two such points is one  *)
(* action.                                                                 *)
(***************************************************************************)
EXTENDS Naturals, FiniteSets

CONSTANTS
  Jobs,           \* automation jobs of one run, numbered in creation order
  Runners,        \* registered automation runners (workers)
  IntentIds,      \* attempt ids a worker may draw for X-Claim-Intent
  Handlers,       \* requests the backend can be processing at one time
  Supports,       \* pairs <<r, j>>: runner r can run job j (same solution, framework)
  Outcomes,       \* the statuses a worker may report
  MaxAttempts,    \* max_attempts of every job
  MaxLeases,      \* bound of the model: leases of one job that are looked at
  NoRunner        \* runner_id IS NULL

TerminalStates == {"PASSED", "FAILED", "BLOCKED", "ERROR", "TIMEOUT", "CANCELLED"}

ASSUME JobsAssumption == Jobs \subseteq Nat \ {0}
ASSUME RunnersAssumption == NoRunner \notin Runners
ASSUME SupportsAssumption == Supports \subseteq Runners \X Jobs
ASSUME OutcomesAssumption == Outcomes \subseteq TerminalStates
ASSUME MaxAttemptsAssumption == MaxAttempts \in Nat \ {0}
ASSUME MaxLeasesAssumption == MaxLeases \in Nat \ {0}

VARIABLES
  job,        \* job[j]: the automation_jobs row
  intent,     \* intent[r][a]: the automation_claim_intents row of (r, a)
  execution,  \* execution[j]: estado_resultado of the execution job j belongs to
  run,        \* estado_run of the test run the executions belong to
  authority,  \* authority[j]: creator, permissions, project and case still allow j
  build,      \* the build of the run is active
  req,        \* req[h]: the request handler h is processing
  phase,      \* phase[h]: how far it has got
  todo,       \* todo[h]: jobs /next read as PENDING and has not examined yet
  seen,       \* seen[h]: the job row as the route of a claim or a result loaded it
  closes,     \* closes[h]: an uncommitted completion has decided to close the run
  reply       \* reply[h]: the response

tables == <<job, intent, execution, run>>
world == <<authority, build>>
tasks == <<req, phase, todo, seen, closes, reply>>
vars == <<job, intent, execution, run, authority, build,
          req, phase, todo, seen, closes, reply>>

(***************************************************************************)
(* Types.  A lease token is a fresh random string drawn at each claim;     *)
(* attempt_count is incremented by the same statement, so the value of the *)
(* counter identifies the token.  0 is "no lease".  A worker makes one     *)
(* result event per lease, so the lease identifies the event as well.      *)
(***************************************************************************)
Leases == 1 .. MaxLeases
NoLease == 0
NoResult == [event |-> NoLease, outcome |-> "NONE"]
Results == [event : Leases, outcome : Outcomes] \cup {NoResult}

JobStates == {"NONE", "PENDING", "CLAIMED", "RUNNING"} \cup TerminalStates
Active == {"CLAIMED", "RUNNING"}
JobRows == [estado : JobStates, runner : Runners \cup {NoRunner},
            lease : Leases \cup {NoLease}, expired : BOOLEAN,
            attempts : 0 .. MaxLeases, result : Results]
EmptyRow == [estado |-> "NONE", runner |-> NoRunner, lease |-> NoLease,
             expired |-> FALSE, attempts |-> 0, result |-> NoResult]

\* OPEN is inserted and left within one transaction: no one ever reads it.
NoIntent == [state |-> "NONE", job |-> 0, lease |-> NoLease]
IntentRows == [state : {"CLAIMED", "CLOSED"}, job : Jobs,
               lease : Leases \cup {NoLease}] \cup {NoIntent}

Verdicts == {"SIN_CORRER", "PASO", "FALLO", "BLOQUEADO"}

NextRequests == [op : {"next"}, runner : Runners]
ClaimRequests == [op : {"claim", "reconcile"}, runner : Runners, job : Jobs, id : IntentIds]
LegacyRequests == [op : {"legacy"}, runner : Runners, job : Jobs]
ResultRequests == [op : {"result"}, runner : Runners, job : Jobs,
                   lease : Leases, outcome : Outcomes]
Requests == NextRequests \cup ClaimRequests \cup LegacyRequests \cup ResultRequests
NoRequest == [op |-> "idle"]

Replies == [kind : {"none", "job", "granted", "conflict", "WAIT", "CLOSED", "ack", "rejected"},
            job : Jobs \cup {0}, lease : Leases \cup {NoLease}]
Answer(kind) == [kind |-> kind, job |-> 0, lease |-> NoLease]

\* The type of every variable.
TypeOK ==
  /\ job \in [Jobs -> JobRows]
  /\ intent \in [Runners -> [IntentIds -> IntentRows]]
  /\ execution \in [Jobs -> Verdicts]
  /\ run \in {"ABIERTO", "CERRADO"}
  /\ authority \in [Jobs -> BOOLEAN]
  /\ build \in BOOLEAN
  /\ req \in [Handlers -> Requests \cup {NoRequest}]
  /\ phase \in [Handlers -> {"idle", "load", "recover", "main", "scan", "read", "lock", "commit", "reply"}]
  /\ todo \in [Handlers -> SUBSET Jobs]
  /\ seen \in [Handlers -> JobRows]
  /\ closes \in [Handlers -> BOOLEAN]
  /\ reply \in [Handlers -> Replies]

Init ==
  /\ job = [j \in Jobs |-> EmptyRow]
  /\ intent = [r \in Runners |-> [a \in IntentIds |-> NoIntent]]
  /\ execution = [j \in Jobs |-> "SIN_CORRER"]
  /\ run = "ABIERTO"
  /\ authority = [j \in Jobs |-> TRUE]
  /\ build = TRUE
  /\ req = [h \in Handlers |-> NoRequest]
  /\ phase = [h \in Handlers |-> "idle"]
  /\ todo = [h \in Handlers |-> {}]
  /\ seen = [h \in Handlers |-> EmptyRow]
  /\ closes = [h \in Handlers |-> FALSE]
  /\ reply = [h \in Handlers |-> Answer("none")]

(***************************************************************************)
(* Helpers.                                                                *)
(***************************************************************************)
IsActive(row) == row.estado \in Active

\* validate_worker_job_scope returns without raising.
InScope(j) == authority[j] /\ build

\* Rows under the FOR UPDATE lock of a completion that has not committed yet.
Locked == {req[h].job : h \in {g \in Handlers : phase[g] = "commit"}}

\* Mutant: a job whose worker died before its first heartbeat is overlooked.
BugStale == {j \in Jobs : job[j].estado = "RUNNING" /\ job[j].expired}

\* CLAIMED or RUNNING rows whose lease_expires_at has passed.
Stale == {j \in Jobs : IsActive(job[j]) /\ job[j].expired}

\* Mutant: one attempt too many.
BugExhausted(row) == row.attempts > MaxAttempts

Exhausted(row) == row.attempts >= MaxAttempts

\* status_map of complete_automation_job.
VerdictOf(outcome) ==
  CASE outcome = "PASSED" -> "PASO"
    [] outcome \in {"FAILED", "ERROR", "TIMEOUT"} -> "FALLO"
    [] OTHER -> "BLOQUEADO"

\* Handler h answers: its session is closed and nothing it read survives.
Respond(h, r) ==
  /\ phase' = [phase EXCEPT ![h] = "reply"]
  /\ reply' = [reply EXCEPT ![h] = r]
  /\ todo' = [todo EXCEPT ![h] = {}]
  /\ seen' = [seen EXCEPT ![h] = EmptyRow]
  /\ closes' = [closes EXCEPT ![h] = FALSE]
  /\ UNCHANGED req

Advance(h, p) ==
  /\ phase' = [phase EXCEPT ![h] = p]
  /\ UNCHANGED <<req, reply>>

(***************************************************************************)
(* Requests arrive and handlers end.                                       *)
(***************************************************************************)
FirstPhase(q) ==
  CASE q.op = "result" -> "read"
    [] q.op \in {"claim", "legacy"} -> "load"
    [] OTHER -> "recover"

\* Job ids and lease tokens are random: a client can only name a job that
\* exists and present a lease token that was issued.
Receive(h, q) ==
  /\ phase[h] = "idle"
  /\ q \notin NextRequests => job[q.job].estado # "NONE"
  /\ q \in ResultRequests => q.lease <= job[q.job].attempts
  /\ req' = [req EXCEPT ![h] = q]
  /\ phase' = [phase EXCEPT ![h] = FirstPhase(q)]
  /\ UNCHANGED <<tables, world, todo, seen, closes, reply>>

\* The client has read the reply, or the connection or the backend process
\* is gone: the open transaction, if any, is rolled back.
Release(h) ==
  /\ phase[h] # "idle"
  /\ req' = [req EXCEPT ![h] = NoRequest]
  /\ phase' = [phase EXCEPT ![h] = "idle"]
  /\ todo' = [todo EXCEPT ![h] = {}]
  /\ seen' = [seen EXCEPT ![h] = EmptyRow]
  /\ closes' = [closes EXCEPT ![h] = FALSE]
  /\ reply' = [reply EXCEPT ![h] = Answer("none")]
  /\ UNCHANGED <<tables, world>>

(***************************************************************************)
(* recover_stale_automation_jobs: a separately committed step of /next, of *)
(* both claim routes and of reconcile.  Rows another transaction has       *)
(* locked are skipped.  The claim routes have loaded their job before, and *)
(* reading it FOR UPDATE does not refresh it (no populate_existing).       *)
(***************************************************************************)
ClaimLoad(h) ==
  /\ phase[h] = "load"
  /\ seen' = [seen EXCEPT ![h] = job[req[h].job]]
  /\ Advance(h, "recover")
  /\ UNCHANGED <<tables, world, todo, closes>>

\* The row of job j as the session of handler h has it once it is locked.
Held(h, j) ==
  IF req[h].op \in {"claim", "legacy"} /\ j = req[h].job
  THEN seen[h] ELSE job[j]

\* Mutant: the requeued job keeps its owner.
BugRecovered(held, row) ==
  [row EXCEPT !.estado = IF Exhausted(held) THEN "TIMEOUT" ELSE "PENDING",
              !.lease = NoLease, !.expired = FALSE]

\* The session writes the columns it changed: one whose new value is the one
\* the held row has already keeps what the table has.
Recovered(held, row) ==
  LET released == IF IsActive(held) THEN [row EXCEPT !.lease = NoLease, !.expired = FALSE] ELSE row
  IN CASE Exhausted(held) -> [released EXCEPT !.estado = "TIMEOUT"]
       [] ~Exhausted(held) /\ IsActive(held) -> [released EXCEPT !.estado = "PENDING", !.runner = NoRunner]
       [] OTHER -> row

Pending(verdicts) == {j \in Jobs : verdicts[j] = "SIN_CORRER"}

\* Mutant: the timed out jobs are closed, their executions forgotten.
BugRecoverStale(h) ==
  LET due == Stale \ Locked
  IN /\ phase[h] = "recover"
     /\ job' = [j \in Jobs |-> IF j \in due THEN Recovered(Held(h, j), job[j]) ELSE job[j]]
     /\ seen' = [seen EXCEPT ![h] = EmptyRow]
     /\ Advance(h, "main")
     /\ UNCHANGED <<intent, execution, run, world, todo, closes>>

\* Nothing after it uses the row the route has loaded.
RecoverStale(h) ==
  LET due == Stale \ Locked
      over == {j \in due : Exhausted(Held(h, j))}
  IN /\ phase[h] = "recover"
     /\ job' = [j \in Jobs |-> IF j \in due THEN Recovered(Held(h, j), job[j]) ELSE job[j]]
     /\ execution' = [j \in Jobs |-> IF j \in over THEN "FALLO" ELSE execution[j]]
     /\ run' = IF over # {} /\ Pending(execution') = {} THEN "CERRADO" ELSE run
     /\ seen' = [seen EXCEPT ![h] = EmptyRow]
     /\ Advance(h, "main")
     /\ UNCHANGED <<intent, world, todo, closes>>

(***************************************************************************)
(* GET /automation-jobs/next: reads the pending jobs without locking them, *)
(* then examines them oldest first.                                        *)
(***************************************************************************)
NextRead(h) ==
  /\ phase[h] = "main" /\ req[h].op = "next"
  /\ todo' = [todo EXCEPT ![h] = {j \in Jobs : /\ job[j].estado = "PENDING"
                                               /\ <<req[h].runner, j>> \in Supports}]
  /\ Advance(h, "scan")
  /\ UNCHANGED <<tables, world, seen, closes>>

Oldest(S) == CHOOSE j \in S : \A k \in S : j <= k

\* A job whose creator or build lost its authority is blocked by primary key:
\* the UPDATE does not look at the state the row has by then.
NextBlock(h) ==
  LET j == Oldest(todo[h])
  IN /\ phase[h] = "scan" /\ todo[h] # {}
     /\ ~InScope(j) /\ j \notin Locked
     /\ job' = [job EXCEPT ![j].estado = "BLOCKED"]
     /\ execution' = [execution EXCEPT ![j] = "BLOQUEADO"]
     /\ todo' = [todo EXCEPT ![h] = @ \ {j}]
     /\ UNCHANGED <<intent, run, world, req, phase, seen, closes, reply>>

NextAnswer(h) ==
  /\ phase[h] = "scan"
  /\ todo[h] # {} => InScope(Oldest(todo[h]))
  /\ Respond(h, IF todo[h] = {} THEN Answer("none")
                ELSE [kind |-> "job", job |-> Oldest(todo[h]), lease |-> NoLease])
  /\ UNCHANGED <<tables, world>>

(***************************************************************************)
(* POST /automation-jobs/{job}/claim with X-Claim-Intent, and              *)
(* POST .../claim-intents/{attempt}/reconcile.                             *)
(***************************************************************************)
\* Mutant: the owner is checked, the state is not.
BugFree(j) == job[j].runner = NoRunner

Free(j) == job[j].estado = "PENDING" /\ job[j].runner = NoRunner

\* Mutant: the attempt is not counted.
BugAssign(r, j) ==
  job' = [job EXCEPT ![j].runner = r, ![j].estado = "CLAIMED",
                     ![j].lease = job[j].attempts + 1, ![j].expired = FALSE]

\* Mutant: the attempt is counted twice.
BugAssignTwice(r, j) ==
  /\ job[j].attempts < MaxLeases
  /\ job' = [job EXCEPT ![j].runner = r, ![j].estado = "CLAIMED",
                        ![j].lease = job[j].attempts + 1, ![j].expired = FALSE,
                        ![j].attempts = job[j].attempts + 2]

\* A free job goes to runner r under a new lease.  MaxLeases is a bound of the
\* model: the code compares the counter with max_attempts in recovery only.
Assign(r, j) ==
  /\ job[j].attempts < MaxLeases
  /\ job' = [job EXCEPT ![j].runner = r, ![j].estado = "CLAIMED",
                        ![j].lease = job[j].attempts + 1, ![j].expired = FALSE,
                        ![j].attempts = job[j].attempts + 1]

\* Mutant: a finished job, too, keeps its attempt waiting.
BugStillHolds(r, i) == i.state = "CLAIMED" /\ job[i.job].runner = r

\* The intent owns the lease the job still has.
StillHolds(r, i) ==
  /\ i.state = "CLAIMED"
  /\ IsActive(job[i.job]) /\ job[i.job].runner = r /\ job[i.job].lease = i.lease

Grant(lease) == [kind |-> "granted", job |-> 0, lease |-> lease]

Close(r, a, j) ==
  intent' = [intent EXCEPT ![r][a] = [state |-> "CLOSED", job |-> j, lease |-> @.lease]]

\* What the claim and reconcile handlers have in common: the request, and the
\* rejection of an attempt id that was used for another job.
AtIntent(h, op) == phase[h] = "main" /\ req[h].op = op

Mismatch(i, j) == i.state # "NONE" /\ i.job # j

IntentMismatch(h) ==
  LET q == req[h] IN
  /\ AtIntent(h, "claim") \/ AtIntent(h, "reconcile")
  /\ Mismatch(intent[q.runner][q.id], q.job)
  /\ Respond(h, Answer("conflict"))
  /\ UNCHANGED <<tables, world>>

\* Mutant: a sealed attempt is taken for a new one.
BugSealedGrant(h) ==
  LET q == req[h] IN
  /\ AtIntent(h, "claim") /\ q.job \notin Locked
  /\ intent[q.runner][q.id].state # "CLAIMED"
  /\ <<q.runner, q.job>> \in Supports /\ Free(q.job)
  /\ Assign(q.runner, q.job)
  /\ intent' = [intent EXCEPT ![q.runner][q.id] =
                  [state |-> "CLAIMED", job |-> q.job, lease |-> job[q.job].attempts + 1]]
  /\ Respond(h, Grant(job[q.job].attempts + 1))
  /\ UNCHANGED <<execution, run, world>>

ClaimGrant(h) ==
  LET q == req[h] IN
  /\ AtIntent(h, "claim") /\ q.job \notin Locked
  /\ intent[q.runner][q.id].state = "NONE"
  /\ <<q.runner, q.job>> \in Supports /\ Free(q.job)
  /\ Assign(q.runner, q.job)
  /\ intent' = [intent EXCEPT ![q.runner][q.id] =
                  [state |-> "CLAIMED", job |-> q.job, lease |-> job[q.job].attempts + 1]]
  /\ Respond(h, Grant(job[q.job].attempts + 1))
  /\ UNCHANGED <<execution, run, world>>

\* The same attempt again: no second assignment, no second attempt counted.
ClaimRepeat(h) ==
  LET q == req[h]
      i == intent[q.runner][q.id]
  IN /\ AtIntent(h, "claim") /\ ~Mismatch(i, q.job)
     /\ q.job \notin Locked
     /\ StillHolds(q.runner, i) /\ <<q.runner, q.job>> \in Supports
     /\ Respond(h, Grant(i.lease))
     /\ UNCHANGED <<tables, world>>

ClaimRefuse(h) ==
  LET q == req[h]
      i == intent[q.runner][q.id]
  IN /\ AtIntent(h, "claim") /\ ~Mismatch(i, q.job)
     /\ i.state # "CLOSED" => q.job \notin Locked
     /\ \/ <<q.runner, q.job>> \notin Supports
        \/ i.state = "CLOSED"
        \/ i.state = "CLAIMED" /\ ~StillHolds(q.runner, i)
        \/ i.state = "NONE" /\ ~Free(q.job)
     /\ Close(q.runner, q.id, q.job)
     /\ Respond(h, Answer("conflict"))
     /\ UNCHANGED <<job, execution, run, world>>

\* An attempt that still holds its job has to wait for the lease to expire.
ReconcileWait(h) ==
  LET q == req[h]
      i == intent[q.runner][q.id]
  IN /\ AtIntent(h, "reconcile") /\ ~Mismatch(i, q.job)
     /\ q.job \notin Locked /\ StillHolds(q.runner, i)
     /\ Respond(h, Answer("WAIT"))
     /\ UNCHANGED <<tables, world>>

\* Mutant: an attempt the backend does not know is not sealed.
BugReconcileClose(h) ==
  LET q == req[h]
      i == intent[q.runner][q.id]
  IN /\ AtIntent(h, "reconcile") /\ ~Mismatch(i, q.job)
     /\ i.state = "CLAIMED" => q.job \notin Locked
     /\ ~StillHolds(q.runner, i)
     /\ IF i.state = "NONE" THEN UNCHANGED intent ELSE Close(q.runner, q.id, q.job)
     /\ Respond(h, Answer("CLOSED"))
     /\ UNCHANGED <<job, execution, run, world>>

\* Any other attempt is sealed, also one whose claim has not arrived yet.
ReconcileClose(h) ==
  LET q == req[h]
      i == intent[q.runner][q.id]
  IN /\ AtIntent(h, "reconcile") /\ ~Mismatch(i, q.job)
     /\ i.state = "CLAIMED" => q.job \notin Locked
     /\ ~StillHolds(q.runner, i)
     /\ Close(q.runner, q.id, q.job)
     /\ Respond(h, Answer("CLOSED"))
     /\ UNCHANGED <<job, execution, run, world>>

\* POST /automation-jobs/{job}/claim of a worker without claim intents:
\* validates the scope and claims with one conditional UPDATE.
LegacyClaim(h) ==
  LET q == req[h]
      wins == <<q.runner, q.job>> \in Supports /\ InScope(q.job) /\ Free(q.job)
  IN /\ phase[h] = "main" /\ req[h].op = "legacy" /\ q.job \notin Locked
     /\ IF wins THEN Assign(q.runner, q.job) ELSE UNCHANGED job
     /\ Respond(h, IF wins THEN Grant(job[q.job].attempts + 1) ELSE Answer("conflict"))
     /\ UNCHANGED <<intent, execution, run, world>>

(***************************************************************************)
(* POST /automation-runners/{runner}/heartbeat with a current job.         *)
(***************************************************************************)
HeartbeatValid(r, j, lease) ==
  job[j].runner = r /\ IsActive(job[j]) /\ job[j].lease = lease /\ InScope(j)

Heartbeat(r, j, lease) ==
  /\ j \notin Locked
  /\ HeartbeatValid(r, j, lease)
  /\ job' = [job EXCEPT ![j].estado = "RUNNING", ![j].expired = FALSE]
  /\ UNCHANGED <<intent, execution, run, world, tasks>>

(***************************************************************************)
(* POST /automation-jobs/{job}/result.  The route loads the row without a  *)
(* lock and checks it; complete_automation_job then asks for the same row  *)
(* FOR UPDATE and repeats the checks.  What it sees after the lock is the  *)
(* row the session already holds, so none of them can fail any more.       *)
(***************************************************************************)
Recorded(q) == [event |-> q.lease, outcome |-> q.outcome]

IsTerminal(row) == row.estado \in TerminalStates

\* A result is accepted from the owner under the current lease, or as the
\* repetition of exactly the result the job ended with.
Acceptable(row, q) ==
  /\ row.runner = q.runner
  /\ IF IsTerminal(row) THEN row.result = Recorded(q) ELSE row.lease = q.lease

\* ensure_job_runner_access and prepare_worker_result_evidence.
ResultRead(h) ==
  LET q == req[h] IN
  /\ phase[h] = "read"
  /\ IF Acceptable(job[q.job], q)
     THEN /\ seen' = [seen EXCEPT ![h] = job[q.job]]
          /\ Advance(h, "lock")
          /\ UNCHANGED <<todo, closes>>
     ELSE Respond(h, Answer("rejected"))
  /\ UNCHANGED <<tables, world>>

AtLock(h) == phase[h] = "lock" /\ req[h].job \notin Locked

ResultRepeat(h) ==
  /\ AtLock(h)
  /\ Acceptable(seen[h], req[h]) /\ IsTerminal(seen[h])
  /\ Respond(h, Answer("ack"))
  /\ UNCHANGED <<tables, world>>

\* The columns a completion writes; the owner and the attempts stay.
Completed(row, q, estado) ==
  [row EXCEPT !.estado = estado, !.result = Recorded(q), !.lease = NoLease, !.expired = FALSE]

\* The build was closed meanwhile: the job ends in ERROR, the event is kept,
\* the execution is not touched and the worker is told 409.
ResultInactiveBuild(h) ==
  LET q == req[h] IN
  /\ AtLock(h)
  /\ Acceptable(seen[h], q) /\ ~IsTerminal(seen[h]) /\ ~build
  /\ job' = [job EXCEPT ![q.job] = Completed(@, q, "ERROR")]
  /\ Respond(h, Answer("rejected"))
  /\ UNCHANGED <<intent, execution, run, world>>

\* Mutant: the run is complete when no other job is being worked on.
BugResultDecide(h) ==
  LET q == req[h] IN
  /\ AtLock(h)
  /\ Acceptable(seen[h], q) /\ ~IsTerminal(seen[h]) /\ build
  /\ closes' = [closes EXCEPT ![h] = \A k \in Jobs \ {q.job} : ~IsActive(job[k])]
  /\ Advance(h, "commit")
  /\ UNCHANGED <<tables, world, todo, seen>>

\* The row stays locked until the commit; whether the run is complete is
\* decided from what other transactions have committed so far.
ResultDecide(h) ==
  LET q == req[h] IN
  /\ AtLock(h)
  /\ Acceptable(seen[h], q) /\ ~IsTerminal(seen[h]) /\ build
  /\ closes' = [closes EXCEPT ![h] = Pending(execution) \ {q.job} = {}]
  /\ Advance(h, "commit")
  /\ UNCHANGED <<tables, world, todo, seen>>

ResultCommit(h) ==
  LET q == req[h] IN
  /\ phase[h] = "commit"
  /\ job' = [job EXCEPT ![q.job] = Completed(@, q, q.outcome)]
  /\ execution' = [execution EXCEPT ![q.job] = VerdictOf(q.outcome)]
  /\ run' = IF closes[h] THEN "CERRADO" ELSE run
  /\ Respond(h, Answer("ack"))
  /\ UNCHANGED <<intent, world>>

(***************************************************************************)
(* The rest of the platform.                                               *)
(***************************************************************************)
CreateJob(j) ==
  /\ job[j].estado = "NONE" /\ build
  /\ \A k \in Jobs : k < j => job[k].estado # "NONE"
  /\ job' = [job EXCEPT ![j].estado = "PENDING"]
  /\ UNCHANGED <<intent, execution, run, world, tasks>>

\* cancel_test_run: jobs a worker already claimed are left alone, and rows
\* another transaction has locked are skipped.
CancelRun ==
  /\ job' = [j \in Jobs |-> IF job[j].estado = "PENDING" /\ j \notin Locked
                            THEN [job[j] EXCEPT !.estado = "CANCELLED"] ELSE job[j]]
  /\ run' = "CERRADO"
  /\ UNCHANGED <<intent, execution, world, tasks>>

\* lease_expires_at passes.
LeaseExpires(j) ==
  /\ IsActive(job[j]) /\ ~job[j].expired
  /\ job' = [job EXCEPT ![j].expired = TRUE]
  /\ UNCHANGED <<intent, execution, run, world, tasks>>

\* An administrator changes permissions, assignments or the state of the build.
ChangeAuthority(j) ==
  /\ authority' = [authority EXCEPT ![j] = ~@]
  /\ UNCHANGED <<tables, build, tasks>>

ChangeBuild ==
  /\ build' = ~build
  /\ UNCHANGED <<tables, authority, tasks>>

Step(h) ==
  \/ ClaimLoad(h) \/ RecoverStale(h)
  \/ NextRead(h) \/ NextBlock(h) \/ NextAnswer(h)
  \/ IntentMismatch(h) \/ ClaimGrant(h) \/ ClaimRepeat(h) \/ ClaimRefuse(h)
  \/ ReconcileWait(h) \/ ReconcileClose(h) \/ LegacyClaim(h)
  \/ ResultRead(h) \/ ResultRepeat(h)
  \/ ResultInactiveBuild(h) \/ ResultDecide(h) \/ ResultCommit(h)

Admin ==
  \/ CancelRun \/ ChangeBuild
  \/ \E j \in Jobs : CreateJob(j) \/ ChangeAuthority(j)

Next ==
  \/ \E h \in Handlers : Step(h) \/ Release(h) \/ \E q \in Requests : Receive(h, q)
  \/ \E r \in Runners, j \in Jobs, lease \in Leases : Heartbeat(r, j, lease)
  \/ \E j \in Jobs : LeaseExpires(j)
  \/ Admin

Spec == Init /\ [][Next]_vars

(***************************************************************************)
(* Properties.                                                             *)
(***************************************************************************)

\* A job is handed out at most MaxAttempts times, and one that waits in the
\* queue has an attempt left: recovery never requeues an exhausted job.  This
\* is what the comment in reconcile and the test of exhaustion say; a claim that
\* stalls between its load and its recovery breaks it.
AttemptsBounded ==
  \A j \in Jobs : /\ job[j].attempts <= MaxAttempts
                   /\ job[j].estado = "PENDING" => job[j].attempts < MaxAttempts

\* Whoever works on a job holds the newest lease, and a queued job belongs
\* to no one and carries no lease: no claim, recovery, renewal or completion
\* leaves an owner or a token of an earlier attempt behind.
LeaseCurrent ==
  \A j \in Jobs :
    /\ IsActive(job[j]) => job[j].runner \in Runners /\ job[j].lease = job[j].attempts
    /\ job[j].estado \in {"NONE", "PENDING"} => job[j].runner = NoRunner /\ job[j].lease = NoLease

\* The result a job keeps was produced under its newest lease: a worker whose
\* job was requeued and handed out again cannot complete it any more.
ResultOfLastLease ==
  \A j \in Jobs : job[j].result # NoResult => job[j].result.event = job[j].attempts

\* Two claim attempts never own the same lease of the same job, not even
\* attempts of one runner whose first request was given up and processed late.
OneIntentPerLease ==
  \A r, s \in Runners : \A a, b \in IntentIds :
    LET x == intent[r][a]
        y == intent[s][b]
    IN (x.lease # NoLease /\ x.job = y.job /\ x.lease = y.lease) => r = s /\ a = b

\* The job and the execution it was created for tell the same story.  ERROR is
\* left out: a result for an inactive build does not touch the execution.
VerdictAgrees ==
  \A j \in Jobs :
    LET v == execution[j] IN
    CASE job[j].estado = "PASSED" -> v = "PASO"
      [] job[j].estado \in {"FAILED", "TIMEOUT"} -> v = "FALLO"
      [] job[j].estado = "BLOCKED" -> v = "BLOQUEADO"
      [] job[j].estado = "ERROR" -> TRUE
      [] job[j].estado = "CANCELLED" -> v \in {"BLOQUEADO", "SIN_CORRER"}
      [] OTHER -> v = "SIN_CORRER"

\* A finished job is never queued, claimed or run again.
FinishedForever ==
  [][\A j \in Jobs : IsTerminal(job[j]) => IsTerminal(job'[j])]_vars

\* A sealed attempt never becomes a claim again.
SealedForever ==
  [][\A r \in Runners, a \in IntentIds :
       intent[r][a].state = "CLOSED" => intent'[r][a] = intent[r][a]]_vars

\* Only a cancellation closes a run that still has executions to come.
RunClosesComplete ==
  [][(run = "ABIERTO" /\ run' = "CERRADO" /\ ~CancelRun) => Pending(execution') = {}]_vars

(***************************************************************************)
(* The queue implements JobLease: a handler whose row was active when the  *)
(* route loaded it is about to deliver, and a claim between its load and   *)
(* its recovery knows the counter it has read.                             *)
(***************************************************************************)
LeaseOf(row) ==
  [granted |-> row.attempts, holder |-> IF IsActive(row) THEN row.lease ELSE NoLease,
   state |-> IF ~IsTerminal(row) THEN "open"
             ELSE IF row.estado = "TIMEOUT" /\ row.result = NoResult THEN "exhausted" ELSE "closed",
   event |-> row.result.event]

Completing(j) ==
  {h \in Handlers : phase[h] \in {"lock", "commit"} /\ req[h].job = j /\ ~IsTerminal(seen[h])}

Recovering(j) ==
  {h \in Handlers : phase[h] = "recover" /\ req[h].op \in {"claim", "legacy"} /\ req[h].job = j}

UnderWay(j) ==
  [due |-> {req[h].lease : h \in Completing(j)}, known |-> {seen[h].attempts : h \in Recovering(j)}]

Lease == INSTANCE JobLease WITH lease <- [j \in Jobs |-> LeaseOf(job[j])],
                                under <- [j \in Jobs |-> UnderWay(j)]

\* Every transaction of every handler grants, revokes or ends the lease of a
\* job as JobLease allows, whatever the clients send and however their requests
\* interleave: attempts are neither skipped nor counted twice, a job is timed
\* out only after its last attempt, and every event kept had been sent by a
\* holder.
LeaseSpec == Lease!Spec

===============================================================================
