-------------------------- MODULE AutomationDispatch --------------------------
(***************************************************************************)
(* The automation queue together with its workers: automation-worker's     *)
(* main loop, its claim-intent file, its result spool and quarantine, the  *)
(* background lease heartbeat and the drain receipt of an update.          *)
(*                                                                         *)
(* The loop is sequential; it gives up control only while it waits for the *)
(* backend.  A request that is given up (timeout, reset) may still reach   *)
(* the backend and be processed there, at any later time.                  *)
(***************************************************************************)
EXTENDS AutomationJobs

CONSTANTS
  MaxPosts,    \* RESULT_RETRY_ATTEMPTS: posts before a delivery is left pending
  MaxFaults,   \* bound on crashes of workers, lost or late responses
  MaxAdmin,    \* bound on permission changes, build changes and cancellations
  MaxUpdates,  \* bound on update requests
  NoHandler    \* the worker is not waiting for a response

ASSUME BoundsAssumption ==
  MaxPosts \in Nat \ {0} /\ MaxFaults \in Nat /\ MaxAdmin \in Nat /\ MaxUpdates \in Nat
ASSUME NoHandlerAssumption == NoHandler \notin Handlers
ASSUME IdsAssumption == IntentIds \subseteq Nat \ {0}

VARIABLES
  pc,          \* pc[r]: where the loop of worker r is
  awaits,      \* awaits[r]: the request it is waiting for
  active,      \* active[r]: activeJobId and activeJobLeaseToken
  beating,     \* beating[r]: the lease heartbeat timer is running
  posts,       \* posts[r]: posts made in the current delivery
  claimFile,   \* claimFile[r]: claim.json
  spool,       \* spool[r]: envelopes in the spool directory
  quarantine,  \* quarantine[r]: envelopes in the quarantine directory
  receipt,     \* receipt[r]: the drain receipt this process wrote
  update,      \* an update request is present
  recorded,    \* history: every result the backend ever committed
  faults, admin, updates   \* what is left of each bound

disk == <<claimFile, spool, quarantine, receipt>>
memory == <<pc, awaits, active, beating, posts>>
bounds == <<faults, admin, updates>>
worker == <<pc, awaits, active, beating, posts, claimFile, spool, quarantine, receipt>>
allVars == <<vars, worker, update, recorded, bounds>>

NoJob == [job |-> 0, lease |-> NoLease]
NoFile == [job |-> 0, id |-> 0]
Envelopes == [job : Jobs, lease : Leases, outcome : Outcomes]

Points == {"top", "next", "sendclaim", "claim", "busy", "execute",
           "post", "posting", "confirm", "unlink", "reconcile"}

\* The type of every variable of the workers.
DispatchTypeOK ==
  /\ TypeOK
  /\ pc \in [Runners -> Points]
  /\ awaits \in [Runners -> Handlers \cup {NoHandler}]
  /\ active \in [Runners -> [job : Jobs, lease : Leases] \cup {NoJob}]
  /\ beating \in [Runners -> BOOLEAN]
  /\ posts \in [Runners -> 0 .. MaxPosts]
  /\ claimFile \in [Runners -> [job : Jobs, id : IntentIds] \cup {NoFile}]
  /\ spool \in [Runners -> SUBSET Envelopes]
  /\ quarantine \in [Runners -> SUBSET Envelopes]
  /\ receipt \in [Runners -> {"none", "ready", "busy"}]
  /\ update \in BOOLEAN
  /\ recorded \in SUBSET Envelopes
  /\ faults \in 0 .. MaxFaults /\ admin \in 0 .. MaxAdmin /\ updates \in 0 .. MaxUpdates

DispatchInit ==
  /\ Init
  /\ pc = [r \in Runners |-> "top"]
  /\ awaits = [r \in Runners |-> NoHandler]
  /\ active = [r \in Runners |-> NoJob]
  /\ beating = [r \in Runners |-> FALSE]
  /\ posts = [r \in Runners |-> 0]
  /\ claimFile = [r \in Runners |-> NoFile]
  /\ spool = [r \in Runners |-> {}]
  /\ quarantine = [r \in Runners |-> {}]
  /\ receipt = [r \in Runners |-> "none"]
  /\ update = FALSE
  /\ recorded = {}
  /\ faults = MaxFaults /\ admin = MaxAdmin /\ updates = MaxUpdates

(***************************************************************************)
(* The loop's moves.                                                       *)
(***************************************************************************)
Goto(r, p) == pc' = [pc EXCEPT ![r] = p]

\* Send q on an idle connection and wait at point p.
Send(r, q, p) ==
  \E h \in Handlers :
    /\ Receive(h, q)
    /\ awaits' = [awaits EXCEPT ![r] = h]
    /\ Goto(r, p)

\* Worker r reads the response it is waiting for at point p.
Take(r, p) ==
  /\ pc[r] = p /\ awaits[r] # NoHandler
  /\ phase[awaits[r]] = "reply"
  /\ Release(awaits[r])
  /\ awaits' = [awaits EXCEPT ![r] = NoHandler]

Response(r) == reply[awaits[r]]

Deactivate(r) ==
  /\ active' = [active EXCEPT ![r] = NoJob]
  /\ beating' = [beating EXCEPT ![r] = FALSE]

\* updateAdmission.pause: writes the receipt of a pending request, or removes
\* the one this process wrote for an earlier request.
Pause(r, unresolved) ==
  receipt' = [receipt EXCEPT ![r] =
    IF ~update THEN "none"
    ELSE IF active[r] = NoJob /\ spool[r] = {} /\ ~unresolved THEN "ready" ELSE "busy"]

\* Mutant: an undelivered result does not keep the worker from claiming.
BugIdle(r) == pc[r] = "top" /\ active[r] = NoJob /\ claimFile[r] = NoFile

Idle(r) ==
  pc[r] = "top" /\ active[r] = NoJob /\ spool[r] = {} /\ claimFile[r] = NoFile

\* Idle and asked to stop: acknowledge and poll again.
PauseIdle(r) ==
  /\ Idle(r) /\ update
  /\ Pause(r, FALSE)
  /\ UNCHANGED <<vars, memory, claimFile, spool, quarantine>>

SendNext(r) ==
  /\ Idle(r) /\ ~update
  /\ Pause(r, FALSE)
  /\ Send(r, [op |-> "next", runner |-> r], "next")
  /\ UNCHANGED <<active, beating, posts, claimFile, spool, quarantine>>

\* Attempt ids are random; here they are drawn in order.
FreshIds(r) == {a \in IntentIds : /\ intent[r][a].state = "NONE"
                                  /\ \A h \in Handlers : req[h] \in ClaimRequests =>
                                       req[h].runner # r \/ req[h].id # a}

NextNone(r) ==
  /\ Take(r, "next") /\ Response(r).kind # "job"
  /\ Goto(r, "top")
  /\ UNCHANGED <<active, beating, posts, disk>>

\* A job was offered.  A request to stop may have come meanwhile; otherwise
\* the intent is made durable before the claim is sent.
NextJob(r) ==
  /\ Take(r, "next") /\ Response(r).kind = "job"
  /\ Pause(r, FALSE)
  /\ IF update
     THEN Goto(r, "top") /\ UNCHANGED claimFile
     ELSE /\ FreshIds(r) # {}
          /\ claimFile' = [claimFile EXCEPT ![r] = [job |-> Response(r).job,
                                                    id |-> Oldest(FreshIds(r))]]
          /\ Goto(r, "sendclaim")
  /\ UNCHANGED <<active, beating, posts, spool, quarantine>>

SendClaim(r) ==
  /\ pc[r] = "sendclaim"
  /\ Send(r, [op |-> "claim", runner |-> r, job |-> claimFile[r].job, id |-> claimFile[r].id],
          "claim")
  /\ UNCHANGED <<active, beating, posts, disk>>

\* A conflict leaves the intent to be reconciled.
ClaimReply(r) ==
  /\ Take(r, "claim")
  /\ IF Response(r).kind = "granted"
     THEN /\ active' = [active EXCEPT ![r] = [job |-> claimFile[r].job, lease |-> Response(r).lease]]
          /\ Goto(r, "busy")
     ELSE Goto(r, "top") /\ UNCHANGED active
  /\ UNCHANGED <<beating, posts, disk>>

(***************************************************************************)
(* The lease heartbeat.  A late heartbeat only moves the expiry, which is  *)
(* arbitrary here, so request and response are one step.                   *)
(***************************************************************************)
Renew(r) == Heartbeat(r, active[r].job, active[r].lease)

Refused(r) ==
  /\ active[r].job \notin Locked
  /\ ~HeartbeatValid(r, active[r].job, active[r].lease)

\* heartbeat("BUSY") right after the claim; its failure goes to the catch block.
BusyAccepted(r) ==
  /\ pc[r] = "busy" /\ Renew(r)
  /\ beating' = [beating EXCEPT ![r] = TRUE]
  /\ Goto(r, "execute")
  /\ UNCHANGED <<awaits, active, posts, disk>>

BusyRefused(r) ==
  /\ pc[r] = "busy" /\ Refused(r)
  /\ Deactivate(r) /\ Goto(r, "top")
  /\ UNCHANGED <<vars, awaits, posts, disk>>

TickAccepted(r) ==
  /\ beating[r] /\ Renew(r)
  /\ UNCHANGED worker

\* onLeaseLost: the timer stops, a running job is aborted and reports BLOCKED.
TickRefused(r) ==
  /\ beating[r] /\ Refused(r)
  /\ beating' = [beating EXCEPT ![r] = FALSE]
  /\ UNCHANGED <<vars, pc, awaits, active, posts, disk>>

(***************************************************************************)
(* Execution and delivery.                                                 *)
(***************************************************************************)
Envelope(r, outcome) == [job |-> active[r].job, lease |-> active[r].lease, outcome |-> outcome]

\* executeJob ends; the envelope is durable before the first post.
Execute(r) ==
  /\ pc[r] = "execute"
  /\ \E outcome \in Outcomes : spool' = [spool EXCEPT ![r] = @ \cup {Envelope(r, outcome)}]
  /\ posts' = [posts EXCEPT ![r] = 0]
  /\ Goto(r, "post")
  /\ UNCHANGED <<vars, awaits, active, beating, claimFile, quarantine, receipt>>

\* Mutant: what is found in the spool is executed again, not delivered.
BugFlush(r) ==
  /\ pc[r] = "top"
  /\ \E e \in spool[r] : active' = [active EXCEPT ![r] = [job |-> e.job, lease |-> e.lease]]
  /\ beating' = [beating EXCEPT ![r] = TRUE]
  /\ posts' = [posts EXCEPT ![r] = 0]
  /\ Goto(r, "execute")
  /\ UNCHANGED <<vars, awaits, disk>>

\* flushPending: an envelope found in the spool is delivered first, under its
\* own lease.
Flush(r) ==
  /\ pc[r] = "top"
  /\ \E e \in spool[r] : active' = [active EXCEPT ![r] = [job |-> e.job, lease |-> e.lease]]
  /\ beating' = [beating EXCEPT ![r] = TRUE]
  /\ posts' = [posts EXCEPT ![r] = 0]
  /\ Goto(r, "post")
  /\ UNCHANGED <<vars, awaits, disk>>

\* The envelope the current delivery is about.
Sending(r) == CHOOSE e \in spool[r] : e.job = active[r].job /\ e.lease = active[r].lease

SendPost(r) ==
  /\ pc[r] = "post"
  /\ Send(r, [op |-> "result", runner |-> r, job |-> Sending(r).job,
              lease |-> Sending(r).lease, outcome |-> Sending(r).outcome], "posting")
  /\ posts' = [posts EXCEPT ![r] = @ + 1]
  /\ UNCHANGED <<active, beating, disk>>

PostAck(r) ==
  /\ Take(r, "posting") /\ Response(r).kind = "ack"
  /\ Goto(r, "confirm")
  /\ UNCHANGED <<active, beating, posts, disk>>

\* Mutant: a rejected envelope is deleted.
BugPostRejected(r) ==
  /\ Take(r, "posting") /\ Response(r).kind = "rejected"
  /\ spool' = [spool EXCEPT ![r] = @ \ {Sending(r)}]
  /\ Deactivate(r) /\ Goto(r, "top")
  /\ UNCHANGED <<posts, claimFile, quarantine, receipt>>

\* A definitive rejection: the envelope is put aside, the intent stays.
PostRejected(r) ==
  /\ Take(r, "posting") /\ Response(r).kind = "rejected"
  /\ quarantine' = [quarantine EXCEPT ![r] = @ \cup {Sending(r)}]
  /\ spool' = [spool EXCEPT ![r] = @ \ {Sending(r)}]
  /\ Deactivate(r) /\ Goto(r, "top")
  /\ UNCHANGED <<posts, claimFile, receipt>>

\* claimIntent.confirmed
ConfirmIntent(r) ==
  /\ pc[r] = "confirm"
  /\ claimFile' = [claimFile EXCEPT ![r] = IF @.job = active[r].job THEN NoFile ELSE @]
  /\ Goto(r, "unlink")
  /\ UNCHANGED <<vars, awaits, active, beating, posts, spool, quarantine, receipt>>

UnlinkSpool(r) ==
  /\ pc[r] = "unlink"
  /\ spool' = [spool EXCEPT ![r] = @ \ {Sending(r)}]
  /\ Deactivate(r) /\ Goto(r, "top")
  /\ UNCHANGED <<vars, awaits, posts, claimFile, quarantine, receipt>>

(***************************************************************************)
(* An intent left over from an earlier round is resolved with the backend. *)
(***************************************************************************)
SendReconcile(r) ==
  /\ pc[r] = "top" /\ spool[r] = {} /\ claimFile[r] # NoFile
  /\ Pause(r, TRUE)
  /\ Send(r, [op |-> "reconcile", runner |-> r, job |-> claimFile[r].job, id |-> claimFile[r].id],
          "reconcile")
  /\ UNCHANGED <<active, beating, posts, claimFile, spool, quarantine>>

\* Mutant: WAIT is taken for an answer that ends the matter.
BugReconcileReply(r) ==
  /\ Take(r, "reconcile")
  /\ claimFile' = [claimFile EXCEPT ![r] = NoFile]
  /\ Goto(r, "top")
  /\ UNCHANGED <<active, beating, posts, spool, quarantine, receipt>>

ReconcileReply(r) ==
  /\ Take(r, "reconcile")
  /\ claimFile' = [claimFile EXCEPT ![r] = IF Response(r).kind = "CLOSED" THEN NoFile ELSE @]
  /\ Goto(r, "top")
  /\ UNCHANGED <<active, beating, posts, spool, quarantine, receipt>>

(***************************************************************************)
(* Faults.                                                                 *)
(***************************************************************************)

\* Mutant: one retry too many.
BugGiveUp(r) ==
  /\ awaits[r] # NoHandler
  /\ awaits' = [awaits EXCEPT ![r] = NoHandler]
  /\ IF pc[r] = "posting"
     THEN /\ Goto(r, IF posts[r] <= MaxPosts THEN "post" ELSE "top")
          /\ UNCHANGED <<active, beating>>
     ELSE Goto(r, "top") /\ Deactivate(r)
  /\ UNCHANGED <<vars, posts, disk>>

\* The response does not come in time.  A delivery retries and then leaves the
\* envelope pending, with the lease still being renewed; every other request
\* ends in the catch block.  The request itself may still be processed.
GiveUp(r) ==
  /\ awaits[r] # NoHandler
  /\ awaits' = [awaits EXCEPT ![r] = NoHandler]
  /\ IF pc[r] = "posting"
     THEN /\ Goto(r, IF posts[r] < MaxPosts THEN "post" ELSE "top")
          /\ UNCHANGED <<active, beating>>
     ELSE Goto(r, "top") /\ Deactivate(r)
  /\ UNCHANGED <<vars, posts, disk>>

\* heartbeat("BUSY") does not get through.
BusyLost(r) ==
  /\ pc[r] = "busy"
  /\ Goto(r, "top") /\ Deactivate(r)
  /\ UNCHANGED <<vars, awaits, posts, disk>>

\* The process dies and is started again: files survive, memory does not.  A
\* receipt of the earlier process is not this one's.
Crash(r) ==
  /\ Goto(r, "top") /\ Deactivate(r)
  /\ awaits' = [awaits EXCEPT ![r] = NoHandler]
  /\ posts' = [posts EXCEPT ![r] = 0]
  /\ receipt' = [receipt EXCEPT ![r] = "none"]
  /\ UNCHANGED <<vars, claimFile, spool, quarantine>>

Orphan(h) == \A r \in Runners : awaits[r] # h

(***************************************************************************)
(* Next-state relation.                                                    *)
(***************************************************************************)
Beat(r) == BusyAccepted(r) \/ BusyRefused(r) \/ TickAccepted(r) \/ TickRefused(r)

Loop(r) ==
  \/ PauseIdle(r) \/ SendNext(r) \/ NextNone(r) \/ NextJob(r)
  \/ SendClaim(r) \/ ClaimReply(r)
  \/ Execute(r) \/ Flush(r) \/ SendPost(r) \/ PostAck(r) \/ PostRejected(r)
  \/ ConfirmIntent(r) \/ UnlinkSpool(r)
  \/ SendReconcile(r) \/ ReconcileReply(r)

Work(r) ==
  /\ Loop(r) \/ Beat(r)
  /\ UNCHANGED <<update, recorded, bounds>>

Fault(r) ==
  /\ faults > 0 /\ faults' = faults - 1
  /\ GiveUp(r) \/ BusyLost(r) \/ Crash(r)
  /\ UNCHANGED <<update, recorded, admin, updates>>

Process(h) ==
  /\ Step(h)
  /\ recorded' = recorded \cup
       {[job |-> j, lease |-> job'[j].result.event, outcome |-> job'[j].result.outcome] :
          j \in {k \in Jobs : job'[k].result # job[k].result}}
  /\ UNCHANGED <<worker, update, bounds>>

\* A request nobody waits for is dropped before, while or after it is processed.
Drop(h) ==
  /\ Orphan(h) /\ Release(h)
  /\ UNCHANGED <<worker, update, recorded, bounds>>

Administer ==
  /\ \/ \E j \in Jobs : CreateJob(j) /\ UNCHANGED admin
     \/ /\ admin > 0 /\ admin' = admin - 1
        /\ CancelRun \/ ChangeBuild \/ \E j \in Jobs : ChangeAuthority(j)
  /\ UNCHANGED <<worker, update, recorded, faults, updates>>

Expire(j) ==
  /\ LeaseExpires(j)
  /\ UNCHANGED <<worker, update, recorded, bounds>>

\* The updater writes and, when its transaction ends, removes the request.
RequestUpdate ==
  /\ ~update /\ updates > 0
  /\ update' = TRUE /\ updates' = updates - 1
  /\ UNCHANGED <<vars, worker, recorded, faults, admin>>

EndUpdate ==
  /\ update /\ update' = FALSE
  /\ UNCHANGED <<vars, worker, recorded, bounds>>

DispatchNext ==
  \/ \E r \in Runners : Work(r) \/ Fault(r)
  \/ \E h \in Handlers : Process(h) \/ Drop(h)
  \/ \E j \in Jobs : Expire(j)
  \/ Administer \/ RequestUpdate \/ EndUpdate

DispatchSpec == DispatchInit /\ [][DispatchNext]_allVars

(***************************************************************************)
(* Fairness: every loop keeps running, the backend finishes what it has    *)
(* received, updates end, a lease nobody renews runs out.                  *)
(***************************************************************************)
Abandoned(j) == \A r \in Runners : ~(beating[r] /\ active[r].job = j)

Fairness ==
  /\ \A r \in Runners :
       /\ WF_allVars((Loop(r) \/ BusyAccepted(r) \/ BusyRefused(r) \/ TickRefused(r))
                     /\ UNCHANGED <<update, recorded, bounds>>)
  /\ \A h \in Handlers : WF_allVars(Process(h)) /\ WF_allVars(Drop(h))
  /\ \A j \in Jobs : WF_allVars(Expire(j) /\ Abandoned(j))
  /\ WF_allVars(EndUpdate)

FairSpec == DispatchSpec /\ Fairness

(***************************************************************************)
(* Properties.                                                             *)
(***************************************************************************)
Everything == recorded \cup UNION {spool[r] \cup quarantine[r] : r \in Runners}

\* A lease yields at most one result, on every disk and in the database, over
\* crashes, restarts and repeated deliveries: no restart runs a job again
\* under the lease of the earlier process.
OneResultPerLease ==
  \A e, f \in Everything : e.job = f.job /\ e.lease = f.lease => e = f

\* A worker has at most one undelivered result, and while it has one it claims
\* nothing.
OneDelivery ==
  \A r \in Runners :
    /\ Cardinality(spool[r]) <= 1
    /\ spool[r] # {} => pc[r] \in {"top", "post", "posting", "confirm", "unlink"}

\* A result leaves the spool only into quarantine or after the backend has
\* committed it.
SpoolSettled ==
  [][\A r \in Runners : \A e \in spool[r] \ spool'[r] :
       e \in quarantine'[r] \/ e \in recorded]_allVars

\* A worker that reports itself drained owns no job in the backend, and none
\* of its requests still under way can claim one.
DrainedIsSafe ==
  \A r \in Runners : receipt[r] = "ready" =>
    /\ \A j \in Jobs : ~(IsActive(job[j]) /\ job[j].runner = r)
    /\ \A h \in Handlers :
         (req[h] \in ClaimRequests /\ req[h].op = "claim" /\ req[h].runner = r
            /\ phase[h] # "reply")
         => intent[r][req[h].id].state = "CLOSED"

\* A worker never forgets a job it may have: the backend assigns a job only
\* while the worker's claim file names the attempt, and the file outlives the
\* assignment.
IntentCoversLease ==
  \A r \in Runners, j \in Jobs :
    IsActive(job[j]) /\ job[j].runner = r =>
      /\ claimFile[r].job = j
      /\ intent[r][claimFile[r].id].lease = job[j].lease

\* Every job ends.
JobsFinish == \A j \in Jobs : job[j].estado = "PENDING" ~> IsTerminal(job[j])

\* Every claim intent is resolved.
IntentsResolve == \A r \in Runners : claimFile[r] # NoFile ~> claimFile[r] = NoFile

===============================================================================
