------------------------- MODULE AutomationJobsProofs -------------------------
(***************************************************************************)
(* Proofs about the automation queue, for any number of jobs, runners,     *)
(* attempt ids, concurrent requests and attempts.                          *)
(***************************************************************************)
EXTENDS AutomationJobs, WellFoundedInduction, TLAPS

\* Which requests a handler can be processing in each of its phases.
Phases ==
  \A h \in Handlers :
    /\ phase[h] \in {"recover", "main"} => req[h] \in Requests
    /\ phase[h] = "load" => req[h] \in ClaimRequests \cup LegacyRequests
    /\ phase[h] = "scan" => req[h] \in NextRequests
    /\ phase[h] \in {"read", "lock", "commit"} => req[h] \in ResultRequests

\* What every row of automation_jobs satisfies: a job not handed out yet, or
\* again, has no owner and no lease; a job somebody works on has an owner and
\* its newest lease.
RowOK(row) ==
  /\ row \in JobRows
  /\ row.estado \in {"NONE", "PENDING"} => row.runner = NoRunner /\ row.lease = NoLease
  /\ IsActive(row) => row.runner \in Runners /\ row.lease = row.attempts /\ row.lease # NoLease

Rows == \A j \in Jobs : RowOK(job[j])

\* The inductive invariant.
Inv == TypeOK /\ Phases /\ Rows

-------------------------------------------------------------------------------

\* The operation of a request tells which fields it has.
LEMMA RequestFields ==
  ASSUME NEW q \in Requests \cup {NoRequest}
  PROVE  /\ q.op = "next" => q \in NextRequests
         /\ q.op \in {"claim", "reconcile"} => q \in ClaimRequests
         /\ q.op = "legacy" => q \in LegacyRequests
         /\ q.op = "result" => q \in ResultRequests
  BY DEF Requests, NoRequest, NextRequests, ClaimRequests, LegacyRequests, ResultRequests

\* The row of every job has the fields of automation_jobs.
LEMMA Constants ==
  /\ NoLease \in Nat /\ 1 \in Leases /\ Leases \subseteq Nat
  /\ EmptyRow \in JobRows
  /\ Outcomes \subseteq JobStates
  BY OutcomesAssumption, MaxLeasesAssumption, JobsAssumption
     DEF NoLease, Leases, EmptyRow, JobRows, JobStates, TerminalStates, NoResult, Results

\* Recovery requeues a row as it was before its first claim or times it out;
\* a session that holds the row as still queued leaves it alone.
LEMMA RecoveredFields ==
  ASSUME NEW held, NEW row \in JobRows
  PROVE  /\ Recovered(held, row) \in JobRows
         /\ Recovered(held, row).attempts = row.attempts
         /\ Recovered(held, row).result = row.result
         /\ \/ ~Exhausted(held) /\ ~IsActive(held) /\ Recovered(held, row) = row
            \/ Exhausted(held) /\ Recovered(held, row).estado = "TIMEOUT"
            \/ /\ ~Exhausted(held) /\ IsActive(held)
               /\ Recovered(held, row).estado = "PENDING"
               /\ Recovered(held, row).runner = NoRunner /\ Recovered(held, row).lease = NoLease
<1> DEFINE released == IF IsActive(held) THEN [row EXCEPT !.lease = NoLease, !.expired = FALSE] ELSE row
<1>1. /\ released \in JobRows /\ released.attempts = row.attempts /\ released.result = row.result
      /\ IsActive(held) => released.lease = NoLease
  BY DEF JobRows
<1> HIDE DEF released
<1>2. CASE Exhausted(held)
  <2>1. Recovered(held, row) = [released EXCEPT !.estado = "TIMEOUT"]
    BY <1>2 DEF Recovered, released
  <2> QED
    BY <1>1, <1>2, <2>1 DEF JobRows, JobStates, TerminalStates
<1>3. CASE ~Exhausted(held) /\ IsActive(held)
  <2>1. Recovered(held, row) = [released EXCEPT !.estado = "PENDING", !.runner = NoRunner]
    BY <1>3 DEF Recovered, released
  <2> QED
    BY <1>1, <1>3, <2>1 DEF JobRows, JobStates
<1>4. CASE ~Exhausted(held) /\ ~IsActive(held)
  BY <1>4 DEF Recovered
<1> QED
  BY <1>2, <1>3, <1>4

\* A recovered row is in order.
LEMMA RecoveredRow ==
  ASSUME NEW held, NEW row, RowOK(row)
  PROVE  RowOK(Recovered(held, row))
<1>1. row \in JobRows
  BY DEF RowOK
<1> QED
  BY <1>1, RecoveredFields DEF RowOK, IsActive, Active

\* A completion ends a job.
LEMMA CompletedRow ==
  ASSUME NEW row, RowOK(row), NEW q \in ResultRequests, NEW e \in TerminalStates
  PROVE  RowOK(Completed(row, q, e)) /\ IsTerminal(Completed(row, q, e))
  BY DEF RowOK, Completed, Recorded, IsActive, Active, IsTerminal, JobRows, JobStates,
         TerminalStates, NoLease, Results, ResultRequests

\* A job blocked by /next ends, whatever state it is in.
LEMMA BlockedRow ==
  ASSUME NEW row, RowOK(row)
  PROVE  RowOK([row EXCEPT !.estado = "BLOCKED"])
  BY DEF RowOK, IsActive, Active, JobRows, JobStates, TerminalStates

\* A step that replaces one row by a row that is in order.
LEMMA UpdateRow ==
  ASSUME Inv, NEW j \in Jobs, NEW row, RowOK(row), job' = [job EXCEPT ![j] = row]
  PROVE  job' \in [Jobs -> JobRows] /\ Rows'
  BY DEF Inv, TypeOK, Rows, RowOK

\* A claim hands out the lease after the last one.
LEMMA AssignRows ==
  ASSUME Inv, NEW r \in Runners, NEW j \in Jobs, Free(j), Assign(r, j)
  PROVE  /\ job' \in [Jobs -> JobRows] /\ Rows'
         /\ job[j].attempts + 1 \in Leases
  BY MaxLeasesAssumption, RunnersAssumption
     DEF Inv, TypeOK, Rows, RowOK, Free, Assign, IsActive, Active, JobRows, JobStates,
         Leases, NoLease, TerminalStates

\* A handler that answers is typed as it was and waits for nothing.
LEMMA RespondTasks ==
  ASSUME Inv, NEW h \in Handlers, NEW r \in Replies, Respond(h, r)
  PROVE  /\ req' \in [Handlers -> Requests \cup {NoRequest}]
         /\ phase' \in [Handlers -> {"idle", "load", "recover", "main", "scan", "read", "lock", "commit", "reply"}]
         /\ todo' \in [Handlers -> SUBSET Jobs]
         /\ seen' \in [Handlers -> JobRows]
         /\ closes' \in [Handlers -> BOOLEAN]
         /\ reply' \in [Handlers -> Replies]
         /\ Phases'
  BY Constants DEF Inv, TypeOK, Phases, Respond

\* The replies the handlers give are replies.
LEMMA AnswerType ==
  /\ \A k \in {"none", "conflict", "WAIT", "CLOSED", "ack", "rejected"} : Answer(k) \in Replies
  /\ \A l \in Leases \cup {NoLease} : Grant(l) \in Replies
  /\ \A j \in Jobs : [kind |-> "job", job |-> j, lease |-> NoLease] \in Replies
  BY DEF Answer, Grant, Replies, NoLease

\* A set of numbers has a smallest one.
LEMMA OldestNat ==
  ASSUME NEW S \in SUBSET Nat, S # {}
  PROVE  Oldest(S) \in S
<1> DEFINE R == OpToRel(<, Nat)
<1>2. \E x \in S : \A y \in S : ~(<<y, x>> \in R)
  <2>1. IsWellFoundedOn(R, Nat)
    BY NatLessThanWellFounded
  <2> HIDE DEF R
  <2> QED
    BY <2>1, WFMin
<1>3. \A x, y \in Nat : y < x => <<y, x>> \in R
  BY Zenon DEF OpToRel
<1>4. \E x \in S : \A y \in S : ~(y < x)
  <2> HIDE DEF R
  <2> QED
    BY <1>2, <1>3, Zenon
<1>5. \E x \in S : \A y \in S : x <= y
  BY <1>4
<1> QED
  BY <1>5 DEF Oldest

\* The oldest of some jobs is one of them.
LEMMA OldestIn ==
  ASSUME NEW S \in SUBSET Jobs, S # {}
  PROVE  Oldest(S) \in S
<1>1. S \in SUBSET Nat
  BY JobsAssumption
<1> QED
  BY <1>1, OldestNat

\* The invariant holds initially.
LEMMA InvInit == Init => Inv
<1> SUFFICES ASSUME Init PROVE Inv
  OBVIOUS
<1>1. RowOK(EmptyRow)
  BY Constants DEF RowOK, EmptyRow, IsActive, Active
<1>2. TypeOK
  BY Constants DEF Init, TypeOK, Verdicts, IntentRows, NoRequest, Answer, Replies, NoLease
<1>3. Phases /\ Rows
  BY <1>1 DEF Init, Phases, Rows
<1> QED
  BY <1>2, <1>3 DEF Inv

\* Every step of a handler preserves the invariant.
LEMMA InvStep ==
  ASSUME Inv, NEW h \in Handlers, Step(h)
  PROVE  Inv'
<1> USE DEF Inv
<1> DEFINE q == req[h]
<1>0. q \in Requests \cup {NoRequest} /\ \A j \in Jobs : job[j] \in JobRows /\ RowOK(job[j])
  BY DEF TypeOK, Rows
<1>1. CASE RecoverStale(h)
  <2>1. job' \in [Jobs -> JobRows] /\ Rows'
    <3>1. \A j \in Jobs : RowOK(Recovered(Held(h, j), job[j]))
      BY <1>0, RecoveredRow
    <3> QED
      BY <1>0, <1>1, <3>1 DEF RecoverStale, Rows, RowOK
  <2>2. execution' \in [Jobs -> Verdicts] /\ run' \in {"ABIERTO", "CERRADO"}
    BY <1>1 DEF RecoverStale, TypeOK, Verdicts
  <2>3. TypeOK'
    BY <1>1, <2>1, <2>2, Constants DEF RecoverStale, TypeOK, Advance, world
  <2>4. Phases'
    BY <1>1 DEF RecoverStale, TypeOK, Advance, Phases
  <2> QED
    BY <2>1, <2>3, <2>4
<1>2. CASE NextRead(h)
  <2>1. q \in NextRequests
    BY <1>0, <1>2, RequestFields DEF NextRead
  <2>2. TypeOK'
    BY <1>2 DEF NextRead, TypeOK, Advance, world, tables
  <2>3. Phases'
    BY <1>2, <2>1 DEF NextRead, TypeOK, Advance, Phases
  <2> QED
    BY <1>2, <2>2, <2>3 DEF NextRead, tables, Rows
<1>3. CASE NextBlock(h)
  <2>1. Oldest(todo[h]) \in Jobs
    BY <1>3, OldestIn DEF NextBlock, TypeOK
  <2>2. job' \in [Jobs -> JobRows] /\ Rows'
    BY <1>0, <1>3, <2>1, BlockedRow, UpdateRow DEF NextBlock
  <2>3. TypeOK'
    BY <1>3, <2>1, <2>2 DEF NextBlock, TypeOK, Verdicts, world
  <2> QED
    BY <1>3, <2>2, <2>3 DEF NextBlock, Phases
<1>4. CASE NextAnswer(h)
  <2> DEFINE r == IF todo[h] = {} THEN Answer("none")
                  ELSE [kind |-> "job", job |-> Oldest(todo[h]), lease |-> NoLease]
  <2>1. r \in Replies
    <3>1. todo[h] \in SUBSET Jobs
      BY DEF TypeOK
    <3> QED
      BY <3>1, OldestIn, AnswerType
  <2>2. Respond(h, r)
    BY <1>4 DEF NextAnswer
  <2> HIDE DEF r
  <2> QED
    BY <1>4, <2>1, <2>2, RespondTasks DEF NextAnswer, tables, world, TypeOK, Rows
<1>5. CASE IntentMismatch(h)
  <2>1. Answer("conflict") \in Replies /\ Respond(h, Answer("conflict"))
    BY <1>5, AnswerType DEF IntentMismatch
  <2> QED
    BY <1>5, <2>1, RespondTasks DEF IntentMismatch, tables, world, TypeOK, Rows
<1>6. CASE ClaimGrant(h)
  <2>1. q \in ClaimRequests
    BY <1>0, <1>6, RequestFields DEF ClaimGrant, AtIntent
  <2>2. q.runner \in Runners /\ q.job \in Jobs /\ q.id \in IntentIds
    BY <2>1 DEF ClaimRequests
  <2>3. /\ job' \in [Jobs -> JobRows] /\ Rows'
        /\ job[q.job].attempts + 1 \in Leases
    BY <1>6, <2>2, AssignRows DEF ClaimGrant
  <2>4. intent' \in [Runners -> [IntentIds -> IntentRows]]
    BY <1>6, <2>2, <2>3 DEF ClaimGrant, TypeOK, IntentRows
  <2>5. Grant(job[q.job].attempts + 1) \in Replies /\ Respond(h, Grant(job[q.job].attempts + 1))
    BY <1>6, <2>3, AnswerType DEF ClaimGrant
  <2> QED
    BY <1>6, <2>3, <2>4, <2>5, RespondTasks DEF ClaimGrant, world, TypeOK
<1>7. CASE ClaimRepeat(h)
  <2>1. q \in ClaimRequests
    BY <1>0, <1>7, RequestFields DEF ClaimRepeat, AtIntent
  <2>2. q.runner \in Runners /\ q.job \in Jobs /\ q.id \in IntentIds
    BY <2>1 DEF ClaimRequests
  <2> DEFINE i == intent[q.runner][q.id]
  <2>3. i \in IntentRows
    BY <2>2 DEF TypeOK
  <2>4. Grant(i.lease) \in Replies
    BY <2>3, AnswerType DEF IntentRows, NoIntent
  <2> QED
    BY <1>7, <2>4, RespondTasks DEF ClaimRepeat, tables, world, TypeOK, Rows
<1>8. CASE ClaimRefuse(h) \/ ReconcileClose(h)
  <2>1. q \in ClaimRequests
    BY <1>0, <1>8, RequestFields DEF ClaimRefuse, ReconcileClose, AtIntent
  <2>2. q.runner \in Runners /\ q.job \in Jobs /\ q.id \in IntentIds
    BY <2>1 DEF ClaimRequests
  <2>3. intent' \in [Runners -> [IntentIds -> IntentRows]]
    <3>1. Close(q.runner, q.id, q.job)
      BY <1>8 DEF ClaimRefuse, ReconcileClose
    <3>2. intent[q.runner][q.id].lease \in Leases \cup {NoLease}
      BY <2>2 DEF TypeOK, IntentRows, NoIntent
    <3> QED
      BY <2>2, <3>1, <3>2 DEF Close, TypeOK, IntentRows
  <2>4. PICK k \in {"conflict", "CLOSED"} : Respond(h, Answer(k))
    BY <1>8 DEF ClaimRefuse, ReconcileClose
  <2>5. Answer(k) \in Replies
    BY AnswerType
  <2>6. UNCHANGED <<job, execution, run, world>>
    BY <1>8 DEF ClaimRefuse, ReconcileClose
  <2> QED
    BY <2>3, <2>4, <2>5, <2>6, RespondTasks DEF world, TypeOK, Rows
<1>9. CASE ReconcileWait(h)
  <2>1. Answer("WAIT") \in Replies /\ Respond(h, Answer("WAIT"))
    BY <1>9, AnswerType DEF ReconcileWait
  <2> QED
    BY <1>9, <2>1, RespondTasks DEF ReconcileWait, tables, world, TypeOK, Rows
<1>10. CASE LegacyClaim(h)
  <2>1. q \in LegacyRequests
    BY <1>0, <1>10, RequestFields DEF LegacyClaim
  <2>2. q.runner \in Runners /\ q.job \in Jobs
    BY <2>1 DEF LegacyRequests
  <2> DEFINE wins == <<q.runner, q.job>> \in Supports /\ InScope(q.job) /\ Free(q.job)
  <2>3. CASE wins
    <3>1. Assign(q.runner, q.job) /\ Free(q.job) /\ Respond(h, Grant(job[q.job].attempts + 1))
      BY <1>10, <2>3 DEF LegacyClaim
    <3>2. /\ job' \in [Jobs -> JobRows] /\ Rows'
          /\ job[q.job].attempts + 1 \in Leases
      BY <2>2, <3>1, AssignRows
    <3>3. Grant(job[q.job].attempts + 1) \in Replies
      BY <3>2, AnswerType
    <3> QED
      BY <1>10, <3>1, <3>2, <3>3, RespondTasks DEF LegacyClaim, world, TypeOK
  <2>4. CASE ~wins
    <3>1. UNCHANGED job /\ Respond(h, Answer("conflict")) /\ Answer("conflict") \in Replies
      BY <1>10, <2>4, AnswerType DEF LegacyClaim
    <3> QED
      BY <1>10, <3>1, RespondTasks DEF LegacyClaim, world, TypeOK, Rows
  <2> QED
    BY <2>3, <2>4
<1>11. CASE ResultRead(h)
  <2>1. q \in ResultRequests /\ q.job \in Jobs
    BY <1>11 DEF ResultRead, Phases, ResultRequests
  <2>2. CASE Acceptable(job[q.job], q)
    <3>1. TypeOK'
      BY <1>11, <2>1, <2>2 DEF ResultRead, Advance, TypeOK, tables, world
    <3>2. Phases'
      BY <1>11, <2>1, <2>2 DEF ResultRead, Advance, TypeOK, Phases
    <3> QED
      BY <1>11, <3>1, <3>2 DEF ResultRead, tables, Rows
  <2>3. CASE ~Acceptable(job[q.job], q)
    <3>1. Respond(h, Answer("rejected")) /\ Answer("rejected") \in Replies
      BY <1>11, <2>3, AnswerType DEF ResultRead
    <3> QED
      BY <1>11, <3>1, RespondTasks DEF ResultRead, tables, world, TypeOK, Rows
  <2> QED
    BY <2>2, <2>3
<1>12. CASE ResultRepeat(h)
  <2>1. Respond(h, Answer("ack"))
    BY <1>12 DEF ResultRepeat
  <2>2. Answer("ack") \in Replies
    BY AnswerType
  <2>3. UNCHANGED <<tables, world>>
    BY <1>12 DEF ResultRepeat
  <2> QED
    BY <2>1, <2>2, <2>3, RespondTasks DEF tables, world, TypeOK, Rows
<1>13. CASE ResultInactiveBuild(h)
  <2>1. q \in ResultRequests /\ q.job \in Jobs
    BY <1>13 DEF ResultInactiveBuild, AtLock, Phases, ResultRequests
  <2>2. job' \in [Jobs -> JobRows] /\ Rows'
    <3>1. RowOK(Completed(job[q.job], q, "ERROR"))
      BY <1>0, <2>1, CompletedRow DEF TerminalStates
    <3> QED
      BY <1>13, <2>1, <3>1, UpdateRow DEF ResultInactiveBuild
  <2>3. Respond(h, Answer("rejected")) /\ Answer("rejected") \in Replies
    BY <1>13, AnswerType DEF ResultInactiveBuild
  <2> QED
    BY <1>13, <2>2, <2>3, RespondTasks DEF ResultInactiveBuild, world, TypeOK
<1>14. CASE ResultDecide(h)
  <2>1. q \in ResultRequests
    BY <1>14 DEF ResultDecide, AtLock, Phases
  <2>2. TypeOK'
    BY <1>14 DEF ResultDecide, Advance, TypeOK, tables, world
  <2>3. Phases'
    BY <1>14, <2>1 DEF ResultDecide, Advance, TypeOK, Phases
  <2> QED
    BY <1>14, <2>2, <2>3 DEF ResultDecide, tables, Rows
<1>15. CASE ResultCommit(h)
  <2>1. q \in ResultRequests /\ q.job \in Jobs /\ q.outcome \in TerminalStates
    BY <1>15, OutcomesAssumption DEF ResultCommit, Phases, ResultRequests
  <2>2. job' \in [Jobs -> JobRows] /\ Rows'
    <3>1. RowOK(Completed(job[q.job], q, q.outcome))
      BY <1>0, <2>1, CompletedRow
    <3> QED
      BY <1>15, <2>1, <3>1, UpdateRow DEF ResultCommit
  <2>3. execution' \in [Jobs -> Verdicts] /\ run' \in {"ABIERTO", "CERRADO"}
    BY <1>15 DEF ResultCommit, TypeOK, VerdictOf, Verdicts
  <2>4. Respond(h, Answer("ack")) /\ Answer("ack") \in Replies
    BY <1>15, AnswerType DEF ResultCommit
  <2> QED
    BY <1>15, <2>2, <2>3, <2>4, RespondTasks DEF ResultCommit, world, TypeOK
<1>16. CASE ClaimLoad(h)
  <2>1. q \in Requests /\ q.job \in Jobs
    BY <1>16 DEF ClaimLoad, Phases, Requests, ClaimRequests, LegacyRequests
  <2>2. TypeOK'
    BY <1>16, <2>1 DEF ClaimLoad, TypeOK, Advance, world, tables
  <2>3. Phases'
    BY <1>16, <2>1 DEF ClaimLoad, TypeOK, Advance, Phases
  <2> QED
    BY <1>16, <2>2, <2>3 DEF ClaimLoad, tables, Rows
<1> QED
  BY <1>1, <1>2, <1>3, <1>4, <1>5, <1>6, <1>7, <1>8, <1>9, <1>10, <1>11, <1>12, <1>13,
     <1>14, <1>15, <1>16 DEF Step

\* Requests that arrive and handlers that end preserve the invariant.
LEMMA InvRequests ==
  ASSUME Inv, NEW h \in Handlers, Release(h) \/ \E q \in Requests : Receive(h, q)
  PROVE  Inv'
<1> USE DEF Inv
<1>1. CASE Release(h)
  <2>1. Answer("none") \in Replies
    BY AnswerType
  <2>2. TypeOK'
    BY <1>1, <2>1, Constants DEF Release, TypeOK, tables, world
  <2> QED
    BY <1>1, <2>2 DEF Release, TypeOK, Phases, Rows, tables
<1>2. ASSUME NEW q \in Requests, Receive(h, q)
      PROVE  Inv'
  <2>1. FirstPhase(q) \in {"read", "load", "recover"}
    BY DEF FirstPhase
  <2>2. /\ FirstPhase(q) = "read" => q \in ResultRequests
        /\ FirstPhase(q) = "load" => q \in ClaimRequests \cup LegacyRequests
    BY RequestFields DEF FirstPhase
  <2>3. TypeOK'
    BY <1>2, <2>1 DEF Receive, TypeOK, tables, world
  <2>4. Phases'
    BY <1>2, <2>1, <2>2 DEF Receive, TypeOK, Phases
  <2> QED
    BY <1>2, <2>3, <2>4 DEF Receive, Rows, tables
<1> QED
  BY <1>1, <1>2

\* So do renewals and expiries of leases and the rest of the platform.
LEMMA InvPlatform ==
  ASSUME Inv,
         \/ \E r \in Runners, j \in Jobs, lease \in Leases : Heartbeat(r, j, lease)
         \/ \E j \in Jobs : LeaseExpires(j)
         \/ Admin
  PROVE  Inv'
<1> USE DEF Inv
<1>0. \A j \in Jobs : job[j] \in JobRows /\ RowOK(job[j])
  BY DEF TypeOK, Rows
<1>1. ASSUME NEW r \in Runners, NEW j \in Jobs, NEW lease \in Leases, Heartbeat(r, j, lease)
      PROVE  Inv'
  <2>1. RowOK([job[j] EXCEPT !.estado = "RUNNING", !.expired = FALSE])
    BY <1>0, <1>1 DEF Heartbeat, HeartbeatValid, RowOK, IsActive, Active, JobRows, JobStates
  <2>2. job' \in [Jobs -> JobRows] /\ Rows'
    BY <1>1, <2>1, UpdateRow DEF Heartbeat
  <2> QED
    BY <1>1, <2>2 DEF Heartbeat, TypeOK, Phases, world, tasks
<1>2. ASSUME NEW j \in Jobs, LeaseExpires(j)
      PROVE  Inv'
  <2>1. RowOK([job[j] EXCEPT !.expired = TRUE])
    BY <1>0 DEF RowOK, IsActive, Active, JobRows
  <2>2. job' \in [Jobs -> JobRows] /\ Rows'
    BY <1>2, <2>1, UpdateRow DEF LeaseExpires
  <2> QED
    BY <1>2, <2>2 DEF LeaseExpires, TypeOK, Phases, world, tasks
<1>3. CASE CancelRun
  <2>1. \A j \in Jobs : RowOK([job[j] EXCEPT !.estado = "CANCELLED"])
    BY <1>0 DEF RowOK, IsActive, Active, JobRows, JobStates, TerminalStates
  <2>2. job' \in [Jobs -> JobRows] /\ Rows'
    BY <1>0, <1>3, <2>1 DEF CancelRun, Rows, RowOK
  <2> QED
    BY <1>3, <2>2 DEF CancelRun, TypeOK, Phases, world, tasks
<1>4. CASE ChangeBuild
  BY <1>4 DEF ChangeBuild, TypeOK, Phases, Rows, tables, tasks
<1>5. ASSUME NEW j \in Jobs, CreateJob(j)
      PROVE  Inv'
  <2>1. RowOK([job[j] EXCEPT !.estado = "PENDING"])
    BY <1>0, <1>5 DEF CreateJob, RowOK, IsActive, Active, JobRows, JobStates
  <2>2. job' \in [Jobs -> JobRows] /\ Rows'
    BY <1>5, <2>1, UpdateRow DEF CreateJob
  <2> QED
    BY <1>5, <2>2 DEF CreateJob, TypeOK, Phases, world, tasks
<1>6. ASSUME NEW j \in Jobs, ChangeAuthority(j)
      PROVE  Inv'
  BY <1>6 DEF ChangeAuthority, TypeOK, Phases, Rows, tables, tasks
<1> QED
  BY <1>1, <1>2, <1>3, <1>4, <1>5, <1>6 DEF Admin

\* The invariant is inductive.
LEMMA InvNext == Inv /\ [Next]_vars => Inv'
<1>1. ASSUME Inv, Next PROVE Inv'
  BY <1>1, InvStep, InvRequests, InvPlatform DEF Next
<1>2. ASSUME Inv, UNCHANGED vars PROVE Inv'
  BY <1>2 DEF vars, Inv, TypeOK, Phases, Rows
<1> QED
  BY <1>1, <1>2

\* Inv is an invariant of the queue.
THEOREM InvHolds == Spec => []Inv
<1> QED
  BY InvInit, InvNext, PTL DEF Spec

\* Every variable keeps its type: no handler, in whatever order the requests
\* of whatever clients interleave, writes a row the tables have no place for,
\* issues a lease token the row does not count or answers without a request.
THEOREM TypeCorrect == Spec => []TypeOK
<1>1. Inv => TypeOK
  BY DEF Inv
<1> QED
  BY <1>1, InvHolds, PTL

\* Whoever works on a job holds its newest lease; a queued job has neither an
\* owner nor a lease.
THEOREM LeasesAreCurrent == Spec => []LeaseCurrent
<1>1. Inv => LeaseCurrent
  BY DEF Inv, Rows, RowOK, LeaseCurrent
<1> QED
  BY <1>1, InvHolds, PTL

-------------------------------------------------------------------------------

\* A step of a handler leaves a finished job finished.
LEMMA FinishedStep ==
  ASSUME Inv, NEW h \in Handlers, Step(h), NEW j \in Jobs, IsTerminal(job[j])
  PROVE  IsTerminal(job'[j])
<1> DEFINE q == req[h]
<1> USE DEF Inv
<1>0. /\ q \in Requests \cup {NoRequest} /\ job \in [Jobs -> JobRows] /\ RowOK(job[j])
      /\ ~IsActive(job[j]) /\ job[j].estado # "PENDING"
  BY DEF TypeOK, Rows, IsTerminal, TerminalStates, IsActive, Active
<1>1. CASE UNCHANGED job
  BY <1>1
<1>2. CASE RecoverStale(h)
  BY <1>0, <1>2 DEF RecoverStale, Stale
<1>3. CASE NextBlock(h)
  <2>1. Oldest(todo[h]) \in Jobs
    BY <1>3, OldestIn DEF NextBlock, TypeOK
  <2>2. job[Oldest(todo[h])] \in JobRows
    BY <1>0, <2>1
  <2> QED
    BY <1>0, <1>3, <2>1, <2>2 DEF NextBlock, IsTerminal, TerminalStates, JobRows
<1>4. ASSUME NEW r \in Runners, NEW k \in Jobs, Free(k), Assign(r, k)
      PROVE  IsTerminal(job'[j])
  BY <1>0, <1>4 DEF Assign, Free
<1>5. CASE ClaimGrant(h)
  <2>1. q.runner \in Runners /\ q.job \in Jobs
    BY <1>0, <1>5, RequestFields DEF ClaimGrant, AtIntent, ClaimRequests
  <2> QED
    BY <1>4, <1>5, <2>1 DEF ClaimGrant
<1>6. CASE LegacyClaim(h)
  <2>1. q.runner \in Runners /\ q.job \in Jobs
    BY <1>0, <1>6, RequestFields DEF LegacyClaim, LegacyRequests
  <2> QED
    BY <1>1, <1>4, <1>6, <2>1 DEF LegacyClaim
<1>7. CASE ResultInactiveBuild(h)
  <2>1. q \in ResultRequests /\ q.job \in Jobs
    BY <1>7 DEF ResultInactiveBuild, AtLock, Phases, ResultRequests
  <2>2. IsTerminal(Completed(job[q.job], q, "ERROR"))
    BY <2>1, CompletedRow DEF Rows, TerminalStates
  <2> QED
    BY <1>0, <1>7, <2>1, <2>2 DEF ResultInactiveBuild
<1>8. CASE ResultCommit(h)
  <2>1. q \in ResultRequests /\ q.job \in Jobs /\ q.outcome \in TerminalStates
    BY <1>8, OutcomesAssumption DEF ResultCommit, Phases, ResultRequests
  <2>2. IsTerminal(Completed(job[q.job], q, q.outcome))
    BY <2>1, CompletedRow DEF Rows
  <2> QED
    BY <1>0, <1>8, <2>1, <2>2 DEF ResultCommit
<1> QED
  BY <1>1, <1>2, <1>3, <1>5, <1>6, <1>7, <1>8
     DEF Step, ClaimLoad, NextRead, NextAnswer, IntentMismatch, ClaimRepeat, ClaimRefuse, ReconcileWait,
         ReconcileClose, ResultRead, ResultRepeat, ResultDecide, tables

\* A finished job is never queued, claimed or run again, although /next may
\* block it by primary key and a completion may write over it.
THEOREM FinishedIsForever == Spec => FinishedForever
<1> DEFINE Stays == \A j \in Jobs : IsTerminal(job[j]) => IsTerminal(job'[j])
<1>1. ASSUME Inv, [Next]_vars PROVE [Stays]_vars
  <2> SUFFICES ASSUME Next, NEW j \in Jobs, IsTerminal(job[j])
               PROVE  IsTerminal(job'[j])
    BY <1>1
  <2>0. job \in [Jobs -> JobRows] /\ ~IsActive(job[j]) /\ job[j].estado \notin {"NONE", "PENDING"}
    BY <1>1 DEF Inv, TypeOK, IsTerminal, TerminalStates, IsActive, Active
  <2>1. ASSUME NEW h \in Handlers, Step(h) PROVE IsTerminal(job'[j])
    BY <1>1, <2>1, FinishedStep
  <2>2. CASE UNCHANGED job
    BY <2>2
  <2>3. ASSUME NEW r \in Runners, NEW k \in Jobs, NEW lease \in Leases, Heartbeat(r, k, lease)
        PROVE  IsTerminal(job'[j])
    BY <2>0, <2>3 DEF Heartbeat, HeartbeatValid
  <2>4. ASSUME NEW k \in Jobs, LeaseExpires(k) \/ CreateJob(k) PROVE IsTerminal(job'[j])
    BY <2>0, <2>4 DEF LeaseExpires, CreateJob
  <2>5. CASE CancelRun
    BY <2>0, <2>5 DEF CancelRun
  <2> QED
    BY <2>1, <2>2, <2>3, <2>4, <2>5
       DEF Next, Admin, Release, Receive, ChangeBuild, ChangeAuthority, tables
<1> QED
  BY <1>1, InvHolds, PTL DEF Spec, FinishedForever

\* A sealed claim attempt stays sealed: a claim that arrives late, or again,
\* never revives it.
THEOREM SealedIsForever == Spec => SealedForever
<1> DEFINE Stays == \A r \in Runners, a \in IntentIds :
                      intent[r][a].state = "CLOSED" => intent'[r][a] = intent[r][a]
<1>1. ASSUME Inv, [Next]_vars PROVE [Stays]_vars
  <2> SUFFICES ASSUME Next, NEW r \in Runners, NEW a \in IntentIds, intent[r][a].state = "CLOSED"
               PROVE  intent'[r][a] = intent[r][a]
    BY <1>1
  <2>0. intent \in [Runners -> [IntentIds -> IntentRows]]
    BY <1>1 DEF Inv, TypeOK
  <2>1. CASE UNCHANGED intent
    BY <2>1
  <2>2. ASSUME NEW h \in Handlers, AtIntent(h, "claim") \/ AtIntent(h, "reconcile")
        PROVE  req[h].runner \in Runners /\ req[h].id \in IntentIds
    <3>1. req[h] \in Requests \cup {NoRequest}
      BY <1>1 DEF Inv, TypeOK
    <3> QED
      BY <2>2, <3>1, RequestFields DEF AtIntent, ClaimRequests
  <2>3. ASSUME NEW h \in Handlers, ClaimGrant(h) PROVE intent'[r][a] = intent[r][a]
    BY <2>0, <2>2, <2>3 DEF ClaimGrant
  <2>4. ASSUME NEW h \in Handlers, ClaimRefuse(h) \/ ReconcileClose(h)
        PROVE  intent'[r][a] = intent[r][a]
    <3> DEFINE q == req[h]
    <3>1. q.runner \in Runners /\ q.id \in IntentIds
      BY <2>2, <2>4 DEF ClaimRefuse, ReconcileClose
    <3>2. Close(q.runner, q.id, q.job) /\ ~Mismatch(intent[q.runner][q.id], q.job)
      BY <2>4 DEF ClaimRefuse, ReconcileClose
    <3>3. CASE q.runner = r /\ q.id = a
      <4>1. intent[r][a] \in IntentRows /\ intent[r][a].job = q.job
        BY <2>0, <3>2, <3>3 DEF Mismatch
      <4>2. intent[r][a] = [state |-> "CLOSED", job |-> q.job, lease |-> intent[r][a].lease]
        BY <4>1 DEF IntentRows, NoIntent
      <4> QED
        BY <2>0, <3>2, <3>3, <4>2 DEF Close
    <3>4. CASE ~(q.runner = r /\ q.id = a)
      BY <2>0, <3>1, <3>2, <3>4 DEF Close
    <3> QED
      BY <3>3, <3>4
  <2> QED
    BY <2>1, <2>3, <2>4
       DEF Next, Step, Admin, ClaimLoad, RecoverStale, NextRead, NextBlock, NextAnswer, IntentMismatch,
           ClaimRepeat, ReconcileWait, LegacyClaim, ResultRead, ResultRepeat,
           ResultInactiveBuild, ResultDecide, ResultCommit, Release, Receive, Heartbeat,
           LeaseExpires, CreateJob, CancelRun, ChangeAuthority, ChangeBuild, tables
<1> QED
  BY <1>1, InvHolds, PTL DEF Spec, SealedForever

-------------------------------------------------------------------------------

\* VerdictAgrees, row by row.
Agrees(estado, verdict) ==
  /\ estado = "PASSED" => verdict = "PASO"
  /\ estado \in {"FAILED", "TIMEOUT"} => verdict = "FALLO"
  /\ estado = "BLOCKED" => verdict = "BLOQUEADO"
  /\ estado = "CANCELLED" => verdict \in {"BLOQUEADO", "SIN_CORRER"}
  /\ estado \notin TerminalStates => verdict = "SIN_CORRER"

AllAgree == \A j \in Jobs : Agrees(job[j].estado, execution[j])

\* The verdict a completion writes is the one of the state it writes.
LEMMA VerdictOfAgrees ==
  ASSUME NEW e \in TerminalStates
  PROVE  Agrees(e, VerdictOf(e))
  BY DEF Agrees, VerdictOf, TerminalStates

\* Every step keeps every job and its execution in agreement.
LEMMA AgreeNext ==
  ASSUME Inv, AllAgree, Next
  PROVE  AllAgree'
<1> SUFFICES ASSUME NEW j \in Jobs PROVE Agrees(job'[j].estado, execution'[j])
  BY DEF AllAgree
<1>0. /\ job \in [Jobs -> JobRows] /\ execution \in [Jobs -> Verdicts]
      /\ Agrees(job[j].estado, execution[j])
  BY DEF Inv, TypeOK, AllAgree
<1>1. CASE job'[j].estado = job[j].estado /\ execution'[j] = execution[j]
  BY <1>0, <1>1
<1>2. CASE job[j].estado \notin TerminalStates /\ job'[j].estado \notin TerminalStates
           /\ execution'[j] = execution[j]
  BY <1>0, <1>2 DEF Agrees, TerminalStates
<1>3. ASSUME NEW h \in Handlers, RecoverStale(h) PROVE Agrees(job'[j].estado, execution'[j])
  <2>1. job'[j] = IF j \in Stale \ Locked THEN Recovered(Held(h, j), job[j]) ELSE job[j]
    BY <1>3 DEF RecoverStale
  <2>2. execution'[j] = IF j \in Stale \ Locked /\ Exhausted(Held(h, j)) THEN "FALLO" ELSE execution[j]
    BY <1>3 DEF RecoverStale
  <2>3. CASE j \in Stale \ Locked
    <3>1. job[j].estado \in Active
      BY <2>3 DEF Stale, IsActive
    <3>2. Recovered(Held(h, j), job[j]).estado \in
            IF Exhausted(Held(h, j)) THEN {"TIMEOUT"} ELSE {"PENDING", job[j].estado}
      BY <1>0, RecoveredFields
    <3> QED
      BY <1>0, <2>1, <2>2, <2>3, <3>1, <3>2 DEF Agrees, Active, TerminalStates
  <2>4. CASE j \notin Stale \ Locked
    BY <1>1, <2>1, <2>2, <2>4
  <2> QED
    BY <2>3, <2>4
<1>4. ASSUME NEW h \in Handlers, NextBlock(h) PROVE Agrees(job'[j].estado, execution'[j])
  <2>1. Oldest(todo[h]) \in Jobs
    BY <1>4, OldestIn DEF NextBlock, Inv, TypeOK
  <2>2. CASE j = Oldest(todo[h])
    BY <1>0, <1>4, <2>2 DEF NextBlock, Agrees, JobRows, TerminalStates
  <2>3. CASE j # Oldest(todo[h])
    BY <1>0, <1>1, <1>4, <2>1, <2>3 DEF NextBlock
  <2> QED
    BY <2>2, <2>3
<1>5. ASSUME NEW r, NEW k, Free(k), Assign(r, k), UNCHANGED execution
      PROVE  Agrees(job'[j].estado, execution'[j])
  <2>1. CASE j = k
    <3>1. job'[j].estado = "CLAIMED" /\ job[j].estado = "PENDING"
      BY <1>0, <1>5, <2>1 DEF Free, Assign, JobRows
    <3> QED
      BY <1>2, <1>5, <3>1 DEF TerminalStates
  <2>2. CASE j # k
    BY <1>0, <1>1, <1>5, <2>2 DEF Assign
  <2> QED
    BY <2>1, <2>2
<1>6. ASSUME NEW h \in Handlers, ResultInactiveBuild(h) PROVE Agrees(job'[j].estado, execution'[j])
  <2>1. CASE j = req[h].job
    <3>1. job'[j].estado = "ERROR"
      BY <1>0, <1>6, <2>1 DEF ResultInactiveBuild, Completed, JobRows
    <3> QED
      BY <3>1 DEF Agrees, TerminalStates
  <2>2. CASE j # req[h].job
    BY <1>0, <1>1, <1>6, <2>2 DEF ResultInactiveBuild
  <2> QED
    BY <2>1, <2>2
<1>7. ASSUME NEW h \in Handlers, ResultCommit(h) PROVE Agrees(job'[j].estado, execution'[j])
  <2> DEFINE q == req[h]
  <2>1. q.outcome \in TerminalStates
    BY <1>7, OutcomesAssumption DEF ResultCommit, Inv, Phases, ResultRequests
  <2>2. CASE j = q.job
    <3>1. job'[j].estado = q.outcome /\ execution'[j] = VerdictOf(q.outcome)
      BY <1>0, <1>7, <2>2 DEF ResultCommit, Completed, JobRows
    <3> QED
      BY <2>1, <3>1, VerdictOfAgrees
  <2>3. CASE j # q.job
    BY <1>0, <1>1, <1>7, <2>3 DEF ResultCommit
  <2> QED
    BY <2>2, <2>3
<1>8. ASSUME NEW r, NEW k, NEW lease, Heartbeat(r, k, lease)
      PROVE  Agrees(job'[j].estado, execution'[j])
  <2>1. CASE j = k
    <3>1. job'[j].estado = "RUNNING" /\ job[j].estado \in Active
      BY <1>0, <1>8, <2>1 DEF Heartbeat, HeartbeatValid, IsActive, JobRows
    <3> QED
      BY <1>2, <1>8, <3>1 DEF Heartbeat, Active, TerminalStates
  <2>2. CASE j # k
    BY <1>0, <1>1, <1>8, <2>2 DEF Heartbeat
  <2> QED
    BY <2>1, <2>2
<1>9. ASSUME NEW k, LeaseExpires(k) PROVE Agrees(job'[j].estado, execution'[j])
  BY <1>0, <1>1, <1>9 DEF LeaseExpires, JobRows
<1>10. ASSUME NEW k, CreateJob(k) PROVE Agrees(job'[j].estado, execution'[j])
  <2>1. CASE j = k
    <3>1. job'[j].estado = "PENDING" /\ job[j].estado = "NONE"
      BY <1>0, <1>10, <2>1 DEF CreateJob, JobRows
    <3> QED
      BY <1>2, <1>10, <3>1 DEF CreateJob, TerminalStates
  <2>2. CASE j # k
    BY <1>0, <1>1, <1>10, <2>2 DEF CreateJob
  <2> QED
    BY <2>1, <2>2
<1>11. CASE CancelRun
  <2>1. CASE job[j].estado = "PENDING" /\ j \notin Locked
    <3>1. job'[j].estado = "CANCELLED" /\ execution'[j] = "SIN_CORRER"
      BY <1>0, <1>11, <2>1 DEF CancelRun, JobRows, Agrees, TerminalStates
    <3> QED
      BY <3>1 DEF Agrees, TerminalStates
  <2>2. CASE ~(job[j].estado = "PENDING" /\ j \notin Locked)
    BY <1>0, <1>1, <1>11, <2>2 DEF CancelRun
  <2> QED
    BY <2>1, <2>2
<1>12. CASE UNCHANGED <<job, execution>>
  BY <1>1, <1>12
<1>13. ASSUME NEW h \in Handlers, ClaimGrant(h) \/ LegacyClaim(h)
       PROVE  Agrees(job'[j].estado, execution'[j])
  BY <1>5, <1>12, <1>13 DEF ClaimGrant, LegacyClaim
<1> QED
  BY <1>3, <1>4, <1>6, <1>7, <1>8, <1>9, <1>10, <1>11, <1>12, <1>13
     DEF Next, Step, Admin, ClaimLoad, NextRead, NextAnswer, IntentMismatch, ClaimRepeat, ClaimRefuse,
         ReconcileWait, ReconcileClose, ResultRead, ResultRepeat, ResultDecide,
         Release, Receive, ChangeAuthority, ChangeBuild, tables

\* A job and the execution it was created for always tell the same story: no
\* recovery, block, cancellation or completion changes one without the other.
THEOREM VerdictsAgree == Spec => []VerdictAgrees
<1>1. Init => AllAgree
  BY DEF Init, AllAgree, Agrees, EmptyRow, TerminalStates
<1>2. Inv /\ AllAgree /\ [Next]_vars => AllAgree'
  <2>1. ASSUME AllAgree, UNCHANGED vars PROVE AllAgree'
    BY <2>1 DEF vars, AllAgree
  <2> QED
    BY <2>1, AgreeNext
<1>3. Inv /\ AllAgree => VerdictAgrees
  BY DEF Inv, TypeOK, JobRows, JobStates, AllAgree, Agrees, VerdictAgrees, TerminalStates
<1> QED
  BY <1>1, <1>2, <1>3, InvHolds, PTL DEF Spec

-------------------------------------------------------------------------------

\* A completion that has decided to close the run has seen every other
\* execution finished.
ClosesRightly ==
  \A h \in Handlers : closes[h] => phase[h] = "commit" /\ Pending(execution) \subseteq {req[h].job}

\* A finished execution stays finished, so the decision stays right.
LEMMA PendingShrinks ==
  ASSUME Inv, Next
  PROVE  Pending(execution') \subseteq Pending(execution)
<1> SUFFICES ASSUME NEW j \in Jobs, execution[j] # "SIN_CORRER"
             PROVE  execution'[j] # "SIN_CORRER"
  BY DEF Pending
<1>0. execution \in [Jobs -> Verdicts]
  BY DEF Inv, TypeOK
<1>1. CASE UNCHANGED execution
  BY <1>1
<1>2. ASSUME NEW h \in Handlers, RecoverStale(h) PROVE execution'[j] # "SIN_CORRER"
  BY <1>2 DEF RecoverStale
<1>3. ASSUME NEW h \in Handlers, NextBlock(h) PROVE execution'[j] # "SIN_CORRER"
  BY <1>0, <1>3 DEF NextBlock
<1>4. ASSUME NEW h \in Handlers, ResultCommit(h) PROVE execution'[j] # "SIN_CORRER"
  BY <1>0, <1>4 DEF ResultCommit, VerdictOf
<1> QED
  BY <1>1, <1>2, <1>3, <1>4
     DEF Next, Step, Admin, ClaimLoad, NextRead, NextAnswer, IntentMismatch, ClaimGrant, ClaimRepeat,
         ClaimRefuse, ReconcileWait, ReconcileClose, LegacyClaim, ResultRead, 
         ResultRepeat, ResultInactiveBuild, ResultDecide, Release, Receive, Heartbeat,
         LeaseExpires, CreateJob, CancelRun, ChangeAuthority, ChangeBuild, tables

\* Only a completion decides, and it forgets the decision when it ends.
LEMMA ClosesNext ==
  ASSUME Inv, ClosesRightly, Next
  PROVE  ClosesRightly'
<1> SUFFICES ASSUME NEW g \in Handlers, closes'[g]
             PROVE  phase'[g] = "commit" /\ Pending(execution') \subseteq {req'[g].job}
  BY DEF ClosesRightly
<1>0. /\ closes \in [Handlers -> BOOLEAN] /\ req \in [Handlers -> Requests \cup {NoRequest}]
      /\ phase \in [Handlers -> {"idle", "load", "recover", "main", "scan", "read", "lock", "commit", "reply"}]
      /\ closes[g] => phase[g] = "commit" /\ Pending(execution) \subseteq {req[g].job}
  BY DEF Inv, TypeOK, ClosesRightly
<1>1. CASE closes[g] /\ phase'[g] = phase[g] /\ req'[g] = req[g]
  BY <1>0, <1>1, PendingShrinks
<1>2. ASSUME NEW h \in Handlers, NEW r, Respond(h, r)
      PROVE  closes[g] /\ phase'[g] = phase[g] /\ req'[g] = req[g]
  BY <1>0, <1>2 DEF Respond
<1>3. ASSUME NEW h \in Handlers, phase[h] # "commit", UNCHANGED closes, NEW p, Advance(h, p)
      PROVE  closes[g] /\ phase'[g] = phase[g] /\ req'[g] = req[g]
  BY <1>0, <1>3 DEF Advance
<1>4. ASSUME NEW h \in Handlers, ResultDecide(h)
      PROVE  phase'[g] = "commit" /\ Pending(execution') \subseteq {req'[g].job}
  <2>1. CASE g = h
    <3>1. Pending(execution) \ {req[g].job} = {} /\ UNCHANGED <<req, execution>>
      BY <1>0, <1>4, <2>1 DEF ResultDecide, Advance, tables
    <3> QED
      BY <1>0, <1>4, <2>1, <3>1 DEF ResultDecide, Advance
  <2>2. CASE g # h
    BY <1>0, <1>1, <1>4, <2>2 DEF ResultDecide, Advance
  <2> QED
    BY <2>1, <2>2
<1>5. ASSUME NEW h \in Handlers, ClaimLoad(h) \/ RecoverStale(h) \/ NextRead(h)
      PROVE  closes[g] /\ phase'[g] = phase[g] /\ req'[g] = req[g]
  <2>1. /\ phase[h] # "commit" /\ UNCHANGED closes
        /\ Advance(h, "recover") \/ Advance(h, "main") \/ Advance(h, "scan")
    BY <1>5 DEF ClaimLoad, RecoverStale, NextRead
  <2> QED
    BY <1>3, <2>1
<1>6. ASSUME NEW h \in Handlers, ResultRead(h)
      PROVE  closes[g] /\ phase'[g] = phase[g] /\ req'[g] = req[g]
  <2>1. \/ Respond(h, Answer("rejected"))
        \/ phase[h] # "commit" /\ UNCHANGED closes /\ Advance(h, "lock")
    BY <1>6 DEF ResultRead
  <2> QED
    BY <1>2, <1>3, <2>1
<1>7. ASSUME NEW h \in Handlers, Release(h) \/ \E q \in Requests : Receive(h, q)
      PROVE  closes[g] /\ phase'[g] = phase[g] /\ req'[g] = req[g]
  BY <1>0, <1>7 DEF Release, Receive
<1>8. ASSUME NEW h \in Handlers,
             \/ NextAnswer(h) \/ IntentMismatch(h) \/ ClaimGrant(h) \/ ClaimRepeat(h)
             \/ ClaimRefuse(h) \/ ReconcileWait(h) \/ ReconcileClose(h) \/ LegacyClaim(h)
             \/ ResultRepeat(h) \/ ResultInactiveBuild(h) \/ ResultCommit(h)
      PROVE  closes[g] /\ phase'[g] = phase[g] /\ req'[g] = req[g]
  <2>1. \E r : Respond(h, r)
    BY <1>8 DEF NextAnswer, IntentMismatch, ClaimGrant, ClaimRepeat, ClaimRefuse, ReconcileWait,
                ReconcileClose, LegacyClaim, ResultRepeat, ResultInactiveBuild,
                ResultCommit
  <2> QED
    BY <1>2, <2>1
<1>9. ASSUME UNCHANGED <<req, phase, closes>>
      PROVE  closes[g] /\ phase'[g] = phase[g] /\ req'[g] = req[g]
  BY <1>9
<1>10. ASSUME NEW h \in Handlers, NextBlock(h)
       PROVE  closes[g] /\ phase'[g] = phase[g] /\ req'[g] = req[g]
  BY <1>9, <1>10 DEF NextBlock
<1>11. ASSUME UNCHANGED tasks PROVE closes[g] /\ phase'[g] = phase[g] /\ req'[g] = req[g]
  BY <1>9, <1>11 DEF tasks
<1> QED
  BY <1>1, <1>4, <1>5, <1>6, <1>7, <1>8, <1>10, <1>11
     DEF Next, Step, Admin, Heartbeat, LeaseExpires, CreateJob, CancelRun, ChangeAuthority,
         ChangeBuild

\* Only a cancellation closes a run that still has executions to come, however
\* the completions of its jobs overlap.
THEOREM RunsCloseComplete == Spec => RunClosesComplete
<1> DEFINE Rightly == (run = "ABIERTO" /\ run' = "CERRADO" /\ ~CancelRun) => Pending(execution') = {}
<1>1. Init => ClosesRightly
  BY DEF Init, ClosesRightly
<1>2. Inv /\ ClosesRightly /\ [Next]_vars => ClosesRightly'
  <2>1. ASSUME ClosesRightly, UNCHANGED vars PROVE ClosesRightly'
    BY <2>1 DEF vars, ClosesRightly, Pending
  <2> QED
    BY <2>1, ClosesNext
<1>3. ASSUME Inv, ClosesRightly, [Next]_vars PROVE [Rightly]_vars
  <2> SUFFICES ASSUME Next, run = "ABIERTO", run' = "CERRADO", ~CancelRun
               PROVE  Pending(execution') = {}
    BY <1>3
  <2>1. ASSUME NEW h \in Handlers, ResultCommit(h) PROVE Pending(execution') = {}
    <3> DEFINE q == req[h]
    <3>1. closes[h] /\ q.job \in Jobs
      BY <1>3, <2>1 DEF ResultCommit, Inv, Phases, ResultRequests
    <3>2. Pending(execution) \subseteq {q.job}
      BY <1>3, <3>1 DEF ClosesRightly
    <3>3. execution'[q.job] # "SIN_CORRER"
      BY <1>3, <2>1, <3>1 DEF ResultCommit, VerdictOf, Inv, TypeOK
    <3>4. Pending(execution') \subseteq Pending(execution)
      BY <1>3, PendingShrinks
    <3> QED
      BY <3>2, <3>3, <3>4 DEF Pending
  <2>2. ASSUME NEW h \in Handlers, RecoverStale(h) PROVE Pending(execution') = {}
    BY <2>2 DEF RecoverStale
  <2> QED
    BY <2>1, <2>2
       DEF Next, Step, Admin, ClaimLoad, NextRead, NextBlock, NextAnswer, IntentMismatch, ClaimGrant,
           ClaimRepeat, ClaimRefuse, ReconcileWait, ReconcileClose, LegacyClaim, ResultRead,
           ResultRepeat, ResultInactiveBuild, ResultDecide, Release, Receive,
           Heartbeat, LeaseExpires, CreateJob, ChangeAuthority, ChangeBuild, tables
<1> QED
  BY <1>1, <1>2, <1>3, InvHolds, PTL DEF Spec, RunClosesComplete

-------------------------------------------------------------------------------

\* What a step may do to a row: attempts are never taken back, a job is active
\* under an attempt that was counted before only if it was so before, with the
\* same owner, and a finished job stays finished.
Carries(old, new) ==
  /\ old.attempts \in Nat /\ new.attempts \in Nat /\ old.attempts <= new.attempts
  /\ IsActive(new) /\ new.attempts = old.attempts =>
       IsActive(old) /\ new.runner = old.runner /\ new.lease = old.lease
  /\ IsTerminal(old) => IsTerminal(new)

\* A job keeps its row.
LEMMA CarriesSame ==
  ASSUME NEW row \in JobRows
  PROVE  Carries(row, row)
<1>1. row.attempts \in Nat
  BY MaxLeasesAssumption DEF JobRows
<1> QED
  BY <1>1 DEF Carries

\* A job that ends, and one that is requeued.
LEMMA CarriesInactive ==
  ASSUME NEW old \in JobRows, NEW new, new.attempts = old.attempts, ~IsActive(new),
         IsTerminal(old) => IsTerminal(new)
  PROVE  Carries(old, new)
<1>1. old.attempts \in Nat
  BY MaxLeasesAssumption DEF JobRows
<1> QED
  BY <1>1 DEF Carries

\* Every step carries every row.
LEMMA RowsCarry ==
  ASSUME Inv, Next, NEW j \in Jobs
  PROVE  Carries(job[j], job'[j])
<1>0. /\ job \in [Jobs -> JobRows] /\ job[j] \in JobRows /\ RowOK(job[j])
      /\ job[j].attempts \in Nat
  BY MaxLeasesAssumption DEF Inv, TypeOK, Rows, JobRows
<1>1. CASE job'[j] = job[j]
  BY <1>0, <1>1, CarriesSame
<1>2. ASSUME NEW h \in Handlers, RecoverStale(h) PROVE Carries(job[j], job'[j])
  <2>1. job'[j] = IF j \in Stale \ Locked THEN Recovered(Held(h, j), job[j]) ELSE job[j]
    BY <1>2 DEF RecoverStale
  <2>2. CASE j \in Stale \ Locked
    <3>1. ~IsTerminal(job[j])
      BY <2>2 DEF Stale, IsActive, Active, IsTerminal, TerminalStates
    <3>2. job'[j].attempts = job[j].attempts /\ (job'[j] = job[j] \/ ~IsActive(job'[j]))
      BY <1>0, <2>1, <2>2, RecoveredFields DEF IsActive, Active
    <3> QED
      BY <1>0, <1>1, <3>1, <3>2, CarriesInactive
  <2> QED
    BY <1>1, <2>1, <2>2
<1>3. ASSUME NEW h \in Handlers, NextBlock(h) PROVE Carries(job[j], job'[j])
  <2>1. Oldest(todo[h]) \in Jobs
    BY <1>3, OldestIn DEF NextBlock, Inv, TypeOK
  <2>2. CASE j = Oldest(todo[h])
    <3>1. job'[j] = [job[j] EXCEPT !.estado = "BLOCKED"]
      BY <1>0, <1>3, <2>2 DEF NextBlock
    <3>2. job'[j].attempts = job[j].attempts /\ ~IsActive(job'[j]) /\ IsTerminal(job'[j])
      BY <1>0, <3>1 DEF JobRows, IsActive, Active, IsTerminal, TerminalStates
    <3> QED
      BY <1>0, <3>2, CarriesInactive
  <2>3. CASE j # Oldest(todo[h])
    BY <1>0, <1>1, <1>3, <2>1, <2>3 DEF NextBlock
  <2> QED
    BY <2>2, <2>3
<1>4. ASSUME NEW r, NEW k, Free(k), Assign(r, k) PROVE Carries(job[j], job'[j])
  <2>1. CASE j = k
    <3>1. job'[j].attempts = job[j].attempts + 1 /\ ~IsTerminal(job[j])
      BY <1>0, <1>4, <2>1 DEF Assign, Free, JobRows, IsTerminal, TerminalStates
    <3> QED
      BY <1>0, <3>1 DEF Carries
  <2>2. CASE j # k
    BY <1>0, <1>1, <1>4, <2>2 DEF Assign
  <2> QED
    BY <2>1, <2>2
<1>5. ASSUME NEW h \in Handlers, NEW e \in TerminalStates,
             job' = [job EXCEPT ![req[h].job] = Completed(@, req[h], e)]
      PROVE  Carries(job[j], job'[j])
  <2>1. CASE j = req[h].job
    <3>1. job'[j].attempts = job[j].attempts /\ job'[j].estado = e
      BY <1>0, <1>5, <2>1 DEF Completed, JobRows
    <3>2. ~IsActive(job'[j]) /\ IsTerminal(job'[j])
      BY <3>1 DEF IsActive, Active, IsTerminal, TerminalStates
    <3> QED
      BY <1>0, <3>1, <3>2, CarriesInactive
  <2>2. CASE j # req[h].job
    BY <1>0, <1>1, <1>5, <2>2
  <2> QED
    BY <2>1, <2>2
<1>6. ASSUME NEW h \in Handlers, ResultInactiveBuild(h) PROVE Carries(job[j], job'[j])
  BY <1>5, <1>6 DEF ResultInactiveBuild, TerminalStates
<1>7. ASSUME NEW h \in Handlers, ResultCommit(h) PROVE Carries(job[j], job'[j])
  <2>1. req[h].outcome \in TerminalStates
    BY <1>7, OutcomesAssumption DEF ResultCommit, Inv, Phases, ResultRequests
  <2> QED
    BY <1>5, <1>7, <2>1 DEF ResultCommit
<1>8. ASSUME NEW r, NEW k, NEW lease, Heartbeat(r, k, lease) PROVE Carries(job[j], job'[j])
  <2>1. CASE j = k
    <3>1. /\ job'[j].attempts = job[j].attempts /\ job'[j].runner = job[j].runner
          /\ job'[j].lease = job[j].lease /\ IsActive(job[j])
      BY <1>0, <1>8, <2>1 DEF Heartbeat, HeartbeatValid, JobRows
    <3>2. ~IsTerminal(job[j])
      BY <3>1 DEF IsActive, Active, IsTerminal, TerminalStates
    <3> QED
      BY <1>0, <3>1, <3>2 DEF Carries
  <2>2. CASE j # k
    BY <1>0, <1>1, <1>8, <2>2 DEF Heartbeat
  <2> QED
    BY <2>1, <2>2
<1>9. ASSUME NEW k, LeaseExpires(k) PROVE Carries(job[j], job'[j])
  <2>1. /\ job'[j].attempts = job[j].attempts /\ job'[j].runner = job[j].runner
        /\ job'[j].lease = job[j].lease /\ job'[j].estado = job[j].estado
    BY <1>0, <1>9 DEF LeaseExpires, JobRows
  <2> QED
    BY <1>0, <2>1 DEF Carries, IsActive, IsTerminal
<1>10. ASSUME NEW k, CreateJob(k) PROVE Carries(job[j], job'[j])
  <2>1. CASE j = k
    <3>1. /\ job'[j].attempts = job[j].attempts /\ job'[j].estado = "PENDING"
          /\ job[j].estado = "NONE"
      BY <1>0, <1>10, <2>1 DEF CreateJob, JobRows
    <3> QED
      BY <1>0, <3>1, CarriesInactive DEF IsActive, Active, IsTerminal, TerminalStates
  <2>2. CASE j # k
    BY <1>0, <1>1, <1>10, <2>2 DEF CreateJob
  <2> QED
    BY <2>1, <2>2
<1>11. CASE CancelRun
  <2>1. CASE job[j].estado = "PENDING" /\ j \notin Locked
    <3>1. job'[j].attempts = job[j].attempts /\ job'[j].estado = "CANCELLED"
      BY <1>0, <1>11, <2>1 DEF CancelRun, JobRows
    <3> QED
      BY <1>0, <3>1, CarriesInactive DEF IsActive, Active, IsTerminal, TerminalStates
  <2>2. CASE ~(job[j].estado = "PENDING" /\ j \notin Locked)
    BY <1>0, <1>1, <1>11, <2>2 DEF CancelRun
  <2> QED
    BY <2>1, <2>2
<1>12. CASE UNCHANGED job
  BY <1>1, <1>12
<1>13. ASSUME NEW h \in Handlers, ClaimGrant(h) \/ LegacyClaim(h) PROVE Carries(job[j], job'[j])
  BY <1>4, <1>12, <1>13 DEF ClaimGrant, LegacyClaim
<1> QED
  BY <1>2, <1>3, <1>6, <1>7, <1>8, <1>9, <1>10, <1>11, <1>12, <1>13
     DEF Next, Step, Admin, ClaimLoad, NextRead, NextAnswer, IntentMismatch, ClaimRepeat, ClaimRefuse,
         ReconcileWait, ReconcileClose, ResultRead, ResultRepeat, ResultDecide,
         Release, Receive, ChangeAuthority, ChangeBuild, tables

-------------------------------------------------------------------------------

\* The job an attempt was granted is still the attempt's.
Owns(rows, r, i) ==
  IsActive(rows[i.job]) /\ rows[i.job].runner = r /\ rows[i.job].lease = i.lease

\* An attempt names a lease its job has issued; one that is granted may run
\* the job, one that is sealed owns nothing any more.
IntentOK(rows, r, i) ==
  /\ i.lease # NoLease => i.lease <= rows[i.job].attempts
  /\ i.state = "CLAIMED" => i.lease # NoLease /\ <<r, i.job>> \in Supports
  /\ i.state = "CLOSED" => ~Owns(rows, r, i)

Intents == \A r \in Runners, a \in IntentIds : IntentOK(job, r, intent[r][a])

\* What the answer of a handler tells its client stays true, also while the
\* client has not read it yet.
AnswerOK(h) ==
  LET q == req[h]
      i == intent[q.runner][q.id]
  IN /\ reply[h].kind = "granted" /\ q.op = "claim" =>
          i.job = q.job /\ i.lease = reply[h].lease /\ i.lease # NoLease
     /\ reply[h].kind = "CLOSED" /\ q.op = "reconcile" => i.state = "CLOSED" /\ i.job = q.job
     /\ reply[h].kind = "ack" /\ q.op = "result" => IsTerminal(job[q.job])
     /\ reply[h].kind = "job" => reply[h].job \in Jobs

Answers == \A h \in Handlers : phase[h] = "reply" => AnswerOK(h)

\* A finished row the session of a result handler holds is finished still.
SeenOK == \A h \in Handlers : phase[h] = "lock" /\ IsTerminal(seen[h]) => IsTerminal(job[req[h].job])

\* The invariant of claims, with which the clients can be reasoned about.
ClaimInv == Inv /\ Intents /\ OneIntentPerLease /\ Answers /\ SeenOK

\* An attempt that is left alone stays in order.
LEMMA IntentKept ==
  ASSUME Inv, Inv', Next, NEW r \in Runners, NEW i \in IntentRows, IntentOK(job, r, i)
  PROVE  IntentOK(job', r, i)
<1>0. i.lease \in Nat /\ (i.lease # NoLease => i.job \in Jobs) /\ (i.state # "NONE" => i.job \in Jobs)
  BY Constants DEF IntentRows, NoIntent, NoLease, Leases
<1>1. ASSUME i.lease # NoLease PROVE i.lease <= job'[i.job].attempts
  <2>1. Carries(job[i.job], job'[i.job]) /\ i.lease <= job[i.job].attempts
    BY <1>0, <1>1, RowsCarry DEF IntentOK
  <2> QED
    BY <1>0, <2>1 DEF Carries
<1>2. ASSUME i.state = "CLOSED", Owns(job', r, i) PROVE FALSE
  <2>1. Carries(job[i.job], job'[i.job]) /\ RowOK(job'[i.job])
    BY <1>0, <1>2, RowsCarry DEF Inv, Rows
  <2>2. /\ IsActive(job'[i.job]) /\ job'[i.job].runner = r /\ job'[i.job].lease = i.lease
        /\ job'[i.job].attempts = i.lease /\ i.lease # NoLease
    BY <1>2, <2>1 DEF Owns, RowOK
  <2>3. job[i.job].attempts = job'[i.job].attempts
    BY <1>0, <2>1, <2>2 DEF Carries, IntentOK
  <2>4. Owns(job, r, i)
    BY <2>1, <2>2, <2>3 DEF Carries, Owns
  <2> QED
    BY <1>2, <2>4 DEF IntentOK
<1> QED
  BY <1>1, <1>2 DEF IntentOK

\* What a step may do to an attempt: nothing; grant the next lease of the job;
\* or seal it, when it owns nothing.
Grants(r, a, j) ==
  /\ intent[r][a].state = "NONE" /\ Free(j) /\ Assign(r, j) /\ <<r, j>> \in Supports
  /\ intent' = [intent EXCEPT ![r][a] =
                  [state |-> "CLAIMED", job |-> j, lease |-> job[j].attempts + 1]]

Seals(r, a, j) ==
  /\ ~Mismatch(intent[r][a], j) /\ ~StillHolds(r, intent[r][a])
  /\ Close(r, a, j) /\ UNCHANGED job

\* A claim and a reconcile request name a runner, a job and an attempt.
LEMMA ClaimFields ==
  ASSUME Inv, NEW h \in Handlers, AtIntent(h, "claim") \/ AtIntent(h, "reconcile")
  PROVE  /\ req[h] \in ClaimRequests
         /\ req[h].runner \in Runners /\ req[h].job \in Jobs /\ req[h].id \in IntentIds
<1>1. req[h] \in Requests \cup {NoRequest}
  BY DEF Inv, TypeOK
<1>2. req[h] \in ClaimRequests
  BY <1>1, RequestFields DEF AtIntent
<1> QED
  BY <1>2 DEF ClaimRequests

\* A refused claim and a reconciled attempt own nothing: what StillHolds says
\* decides, because an attempt that was granted may run its job.
LEMMA RefusalSeals ==
  ASSUME Inv, Intents, NEW h \in Handlers, ClaimRefuse(h) \/ ReconcileClose(h)
  PROVE  Seals(req[h].runner, req[h].id, req[h].job)
<1> DEFINE q == req[h]
           i == intent[q.runner][q.id]
<1>1. q.runner \in Runners /\ q.job \in Jobs /\ q.id \in IntentIds
  BY ClaimFields DEF ClaimRefuse, ReconcileClose
<1>2. Close(q.runner, q.id, q.job) /\ ~Mismatch(i, q.job) /\ UNCHANGED job
  BY DEF ClaimRefuse, ReconcileClose
<1>3. ~StillHolds(q.runner, i)
  <2>1. CASE ReconcileClose(h)
    BY <2>1 DEF ReconcileClose
  <2>2. CASE ClaimRefuse(h)
    <3>1. IntentOK(job, q.runner, i)
      BY <1>1 DEF Intents
    <3>2. StillHolds(q.runner, i) => i.state = "CLAIMED" /\ i.job = q.job /\ <<q.runner, q.job>> \in Supports
      BY <1>2, <3>1 DEF StillHolds, IntentOK, Mismatch
    <3> QED
      BY <2>2, <3>2 DEF ClaimRefuse
  <2> QED
    BY <2>1, <2>2
<1> QED
  BY <1>1, <1>2, <1>3 DEF Seals

\* An attempt is written only by granting or by sealing it.
LEMMA IntentSteps ==
  ASSUME Inv, Intents, Next
  PROVE  \/ UNCHANGED intent
         \/ \E r \in Runners, a \in IntentIds, j \in Jobs : Grants(r, a, j) \/ Seals(r, a, j)
<1>1. ASSUME NEW h \in Handlers, ClaimGrant(h)
      PROVE  \E r \in Runners, a \in IntentIds, j \in Jobs : Grants(r, a, j) \/ Seals(r, a, j)
  <2>1. req[h].runner \in Runners /\ req[h].id \in IntentIds /\ req[h].job \in Jobs
    BY <1>1, ClaimFields DEF ClaimGrant
  <2> QED
    BY <1>1, <2>1 DEF ClaimGrant, Grants
<1>2. ASSUME NEW h \in Handlers, ClaimRefuse(h) \/ ReconcileClose(h)
      PROVE  \E r \in Runners, a \in IntentIds, j \in Jobs : Grants(r, a, j) \/ Seals(r, a, j)
  <2>1. req[h].runner \in Runners /\ req[h].id \in IntentIds /\ req[h].job \in Jobs
    BY <1>2, ClaimFields DEF ClaimRefuse, ReconcileClose
  <2> QED
    BY <1>2, <2>1, RefusalSeals
<1> QED
  BY <1>1, <1>2
     DEF Next, Step, Admin, ClaimLoad, RecoverStale, NextRead, NextBlock, NextAnswer, IntentMismatch,
         ClaimRepeat, ReconcileWait, LegacyClaim, ResultRead, ResultRepeat,
         ResultInactiveBuild, ResultDecide, ResultCommit, Release, Receive, Heartbeat,
         LeaseExpires, CreateJob, CancelRun, ChangeAuthority, ChangeBuild, tables

\* What a grant and a seal leave behind.
LEMMA GrantedIntent ==
  ASSUME Inv, NEW r \in Runners, NEW a \in IntentIds, NEW j \in Jobs, Grants(r, a, j)
  PROVE  /\ intent'[r][a] = [state |-> "CLAIMED", job |-> j, lease |-> job[j].attempts + 1]
         /\ \A s \in Runners, b \in IntentIds : s # r \/ b # a => intent'[s][b] = intent[s][b]
         /\ job'[j].attempts = job[j].attempts + 1 /\ job'[j].lease = job[j].attempts + 1
         /\ job[j].attempts \in Nat /\ job'[j].runner = r /\ IsActive(job'[j])
         /\ \A k \in Jobs \ {j} : job'[k] = job[k]
<1>1. intent \in [Runners -> [IntentIds -> IntentRows]] /\ job \in [Jobs -> JobRows]
      /\ job[j].attempts \in Nat
  BY MaxLeasesAssumption DEF Inv, TypeOK, JobRows
<1> QED
  BY <1>1 DEF Grants, Assign, JobRows, IsActive, Active

\* Sealing an attempt changes its state and no other attempt.
LEMMA SealedIntent ==
  ASSUME Inv, NEW r \in Runners, NEW a \in IntentIds, NEW j \in Jobs, Seals(r, a, j)
  PROVE  /\ intent'[r][a] = [state |-> "CLOSED", job |-> j, lease |-> intent[r][a].lease]
         /\ \A s \in Runners, b \in IntentIds : s # r \/ b # a => intent'[s][b] = intent[s][b]
<1>1. intent \in [Runners -> [IntentIds -> IntentRows]]
  BY DEF Inv, TypeOK
<1> QED
  BY <1>1 DEF Seals, Close

\* Every step keeps every attempt in order.
LEMMA IntentsNext ==
  ASSUME Inv, Inv', Intents, Next
  PROVE  Intents'
<1> SUFFICES ASSUME NEW s \in Runners, NEW b \in IntentIds
             PROVE  IntentOK(job', s, intent'[s][b])
  BY DEF Intents
<1>0. intent[s][b] \in IntentRows /\ IntentOK(job, s, intent[s][b])
  BY DEF Inv, TypeOK, Intents
<1>1. CASE intent'[s][b] = intent[s][b]
  BY <1>0, <1>1, IntentKept
<1>2. ASSUME NEW r \in Runners, NEW a \in IntentIds, NEW j \in Jobs, Grants(r, a, j)
      PROVE  IntentOK(job', s, intent'[s][b])
  <2>1. <<r, j>> \in Supports
    BY <1>2 DEF Grants
  <2>2. CASE s = r /\ b = a
    <3>1. /\ intent'[s][b] = [state |-> "CLAIMED", job |-> j, lease |-> job[j].attempts + 1]
          /\ job'[j].attempts = job[j].attempts + 1 /\ job[j].attempts \in Nat
      BY <1>2, <2>2, GrantedIntent
    <3> QED
      BY <2>1, <2>2, <3>1 DEF IntentOK, NoLease
  <2>3. CASE ~(s = r /\ b = a)
    <3>1. \A v \in Runners, e \in IntentIds : v # r \/ e # a => intent'[v][e] = intent[v][e]
      BY <1>2, GrantedIntent
    <3> QED
      BY <1>1, <2>3, <3>1
  <2> QED
    BY <2>2, <2>3
<1>3. ASSUME NEW r \in Runners, NEW a \in IntentIds, NEW j \in Jobs, Seals(r, a, j)
      PROVE  IntentOK(job', s, intent'[s][b])
  <2>1. ~Mismatch(intent[r][a], j) /\ ~StillHolds(r, intent[r][a]) /\ UNCHANGED job
    BY <1>3 DEF Seals
  <2>2. CASE s = r /\ b = a
    <3> DEFINE i == intent[s][b]
    <3>1. intent'[s][b] = [state |-> "CLOSED", job |-> j, lease |-> i.lease]
      BY <1>3, <2>2, SealedIntent
    <3>2. i.state = "NONE" => i.lease = NoLease
      BY <1>0 DEF IntentRows, NoIntent
    <3>3. i.state # "NONE" => i.job = j /\ ~Owns(job, s, i)
      BY <1>0, <2>1, <2>2 DEF Mismatch, StillHolds, Owns, IntentOK, IntentRows, NoIntent
    <3>4. RowOK(job[j])
      BY DEF Inv, Rows
    <3>5. CASE i.state = "NONE"
      BY <2>1, <3>1, <3>2, <3>4, <3>5 DEF IntentOK, Owns, RowOK
    <3>6. CASE i.state # "NONE"
      BY <1>0, <2>1, <3>1, <3>3, <3>6 DEF IntentOK, Owns
    <3> QED
      BY <3>5, <3>6
  <2>3. CASE ~(s = r /\ b = a)
    <3>1. \A v \in Runners, e \in IntentIds : v # r \/ e # a => intent'[v][e] = intent[v][e]
      BY <1>3, SealedIntent
    <3> QED
      BY <1>1, <2>3, <3>1
  <2> QED
    BY <2>2, <2>3
<1> QED
  BY <1>1, <1>2, <1>3, IntentSteps

\* Every step gives a lease to one attempt only: a grant hands out a lease
\* above all those that attempts of the job own.
LEMMA OneIntentNext ==
  ASSUME Inv, Intents, OneIntentPerLease, Next
  PROVE  OneIntentPerLease'
<1> DEFINE Same(x, y) == x.lease # NoLease /\ x.job = y.job /\ x.lease = y.lease
<1> SUFFICES ASSUME NEW r \in Runners, NEW s \in Runners, NEW a \in IntentIds, NEW b \in IntentIds,
                    Same(intent'[r][a], intent'[s][b])
             PROVE  r = s /\ a = b
  BY DEF OneIntentPerLease
<1>0. /\ intent[r][a] \in IntentRows /\ intent[s][b] \in IntentRows
      /\ Same(intent[r][a], intent[s][b]) => r = s /\ a = b
  BY DEF Inv, TypeOK, OneIntentPerLease
<1>1. CASE UNCHANGED intent
  BY <1>0, <1>1
<1>2. ASSUME NEW t \in Runners, NEW d \in IntentIds, NEW j \in Jobs, Grants(t, d, j), ~(r = s /\ a = b)
      PROVE  FALSE
  <2>2. /\ intent'[t][d] = [state |-> "CLAIMED", job |-> j, lease |-> job[j].attempts + 1]
        /\ \A v \in Runners, e \in IntentIds : v # t \/ e # d => intent'[v][e] = intent[v][e]
        /\ job[j].attempts \in Nat
    BY <1>2, GrantedIntent
  <2>3. ASSUME NEW v \in Runners, NEW e \in IntentIds,
               intent[v][e].job = j, intent[v][e].lease = job[j].attempts + 1
        PROVE  FALSE
    <3>1. IntentOK(job, v, intent[v][e])
      BY DEF Intents
    <3> QED
      BY <2>2, <2>3, <3>1 DEF IntentOK, NoLease
  <2>4. CASE r = t /\ a = d
    BY <1>2, <2>2, <2>3, <2>4
  <2>5. CASE s = t /\ b = d
    BY <1>2, <2>2, <2>3, <2>5
  <2> QED
    BY <1>0, <1>2, <2>2, <2>4, <2>5
<1>3. ASSUME NEW t \in Runners, NEW d \in IntentIds, NEW j \in Jobs, Seals(t, d, j) PROVE r = s /\ a = b
  <2>1. ~Mismatch(intent[t][d], j)
    BY <1>3 DEF Seals
  <2>2. /\ intent'[t][d] = [state |-> "CLOSED", job |-> j, lease |-> intent[t][d].lease]
        /\ \A v \in Runners, e \in IntentIds : v # t \/ e # d => intent'[v][e] = intent[v][e]
    BY <1>3, SealedIntent
  <2>3. ASSUME NEW v \in Runners, NEW e \in IntentIds, intent'[v][e].lease # NoLease
        PROVE  intent'[v][e].lease = intent[v][e].lease /\ intent'[v][e].job = intent[v][e].job
    <3>1. CASE v = t /\ e = d
      <4>1. intent[t][d] \in IntentRows /\ intent[t][d].lease # NoLease
        BY <2>2, <2>3, <3>1 DEF Inv, TypeOK
      <4>2. intent[t][d].job = j
        BY <2>1, <4>1 DEF Mismatch, IntentRows, NoIntent
      <4> QED
        BY <2>2, <3>1, <4>2
    <3>2. CASE ~(v = t /\ e = d)
      BY <2>2, <3>2
    <3> QED
      BY <3>1, <3>2
  <2>4. intent'[r][a].lease # NoLease /\ intent'[s][b].lease # NoLease
    OBVIOUS
  <2> QED
    BY <1>0, <2>3, <2>4
<1> QED
  BY <1>1, <1>2, <1>3, IntentSteps

\* A granted attempt keeps its job and its lease; a sealed one stays sealed.
LEMMA IntentStable ==
  ASSUME Inv, Intents, Next, NEW r \in Runners, NEW a \in IntentIds, intent[r][a].state # "NONE"
  PROVE  /\ intent'[r][a].job = intent[r][a].job /\ intent'[r][a].lease = intent[r][a].lease
         /\ intent'[r][a].state # "NONE"
         /\ intent[r][a].state = "CLOSED" => intent'[r][a].state = "CLOSED"
<1>1. CASE UNCHANGED intent
  BY <1>1
<1>2. ASSUME NEW s \in Runners, NEW b \in IntentIds, NEW j \in Jobs, Grants(s, b, j)
      PROVE  intent'[r][a] = intent[r][a]
  BY <1>2, GrantedIntent DEF Grants
<1>3. ASSUME NEW s \in Runners, NEW b \in IntentIds, NEW j \in Jobs, Seals(s, b, j)
      PROVE  \/ intent'[r][a] = intent[r][a]
             \/ intent'[r][a] = [state |-> "CLOSED", job |-> intent[r][a].job, lease |-> intent[r][a].lease]
  <2>1. /\ intent'[s][b] = [state |-> "CLOSED", job |-> j, lease |-> intent[s][b].lease]
        /\ \A v \in Runners, e \in IntentIds : v # s \/ e # b => intent'[v][e] = intent[v][e]
    BY <1>3, SealedIntent
  <2>2. CASE r = s /\ a = b
    BY <1>3, <2>1, <2>2 DEF Seals, Mismatch
  <2>3. CASE r # s \/ a # b
    BY <2>1, <2>3
  <2> QED
    BY <2>2, <2>3
<1> QED
  BY <1>1, <1>2, <1>3, IntentSteps

\* The session of a handler is its own: only its own steps change it.
Untouched(g) ==
  /\ phase'[g] = phase[g] /\ req'[g] = req[g] /\ reply'[g] = reply[g] /\ seen'[g] = seen[g]

\* A handler's step keeps its request and leaves the other handlers alone.
LEMMA StepFrame ==
  ASSUME Inv, NEW h \in Handlers, Step(h)
  PROVE  /\ req'[h] = req[h] /\ phase'[h] # "idle" /\ phase[h] \notin {"idle", "reply"}
         /\ \A g \in Handlers : g # h => Untouched(g)
<1>0. /\ phase \in [Handlers -> {"idle", "load", "recover", "main", "scan", "read", "lock", "commit", "reply"}]
      /\ req \in [Handlers -> Requests \cup {NoRequest}]
      /\ reply \in [Handlers -> Replies] /\ seen \in [Handlers -> JobRows]
  BY DEF Inv, TypeOK
<1> DEFINE Framed == /\ req'[h] = req[h] /\ phase'[h] # "idle"
                     /\ \A g \in Handlers : g # h => Untouched(g)
<1>1. ASSUME NEW r, Respond(h, r) PROVE Framed
  BY <1>0, <1>1 DEF Respond, Untouched
<1>2. ASSUME NEW p \in {"recover", "main", "scan", "lock", "commit"}, Advance(h, p),
             \A g \in Handlers : g # h => seen'[g] = seen[g]
      PROVE  Framed
  BY <1>0, <1>2 DEF Advance, Untouched
<1>3. ASSUME \/ NextAnswer(h) \/ IntentMismatch(h) \/ ClaimGrant(h) \/ ClaimRepeat(h)
             \/ ClaimRefuse(h) \/ ReconcileWait(h) \/ ReconcileClose(h) \/ LegacyClaim(h)
             \/ ResultRepeat(h) \/ ResultInactiveBuild(h) \/ ResultCommit(h)
      PROVE  Framed
  <2>1. \E r : Respond(h, r)
    BY <1>3 DEF NextAnswer, IntentMismatch, ClaimGrant, ClaimRepeat, ClaimRefuse, ReconcileWait,
                ReconcileClose, LegacyClaim, ResultRepeat, ResultInactiveBuild,
                ResultCommit
  <2> QED
    BY <1>1, <2>1
<1>4. ASSUME ClaimLoad(h) \/ RecoverStale(h) \/ NextRead(h) \/ ResultDecide(h) PROVE Framed
  <2>1. /\ \A g \in Handlers : g # h => seen'[g] = seen[g]
        /\ \/ Advance(h, "recover") \/ Advance(h, "main")
           \/ Advance(h, "scan") \/ Advance(h, "commit")
    BY <1>0, <1>4 DEF ClaimLoad, RecoverStale, NextRead, ResultDecide
  <2> QED
    BY <1>2, <2>1
<1>5. ASSUME ResultRead(h) PROVE Framed
  <2>1. CASE Acceptable(job[req[h].job], req[h])
    <3>1. Advance(h, "lock") /\ seen' = [seen EXCEPT ![h] = job[req[h].job]]
      BY <1>5, <2>1 DEF ResultRead
    <3>2. \A g \in Handlers : g # h => seen'[g] = seen[g]
      BY <1>0, <3>1
    <3> QED
      BY <1>2, <3>1, <3>2
  <2>2. CASE ~Acceptable(job[req[h].job], req[h])
    BY <1>1, <1>5, <2>2 DEF ResultRead
  <2> QED
    BY <2>1, <2>2
<1>6. ASSUME NextBlock(h) PROVE Framed
  BY <1>6 DEF NextBlock, Untouched
<1>7. Framed
  BY <1>3, <1>4, <1>5, <1>6 DEF Step
<1>8. phase[h] \notin {"idle", "reply"}
  BY DEF Step, ClaimLoad, RecoverStale, NextRead, NextBlock, NextAnswer, IntentMismatch, AtIntent, ClaimGrant,
         ClaimRepeat, ClaimRefuse, ReconcileWait, ReconcileClose, LegacyClaim, ResultRead,
         ResultRepeat, ResultInactiveBuild, ResultDecide, ResultCommit, AtLock
<1> QED
  BY <1>7, <1>8

\* What can happen to a handler: nothing, its own step, its end, or a request.
LEMMA OwnSteps ==
  ASSUME Inv, Next, NEW g \in Handlers
  PROVE  Untouched(g) \/ Step(g) \/ Release(g) \/ \E q \in Requests : Receive(g, q)
<1>0. /\ phase \in [Handlers -> {"idle", "load", "recover", "main", "scan", "read", "lock", "commit", "reply"}]
      /\ req \in [Handlers -> Requests \cup {NoRequest}]
      /\ reply \in [Handlers -> Replies] /\ seen \in [Handlers -> JobRows]
  BY DEF Inv, TypeOK
<1>1. ASSUME NEW h \in Handlers, h # g, Release(h) \/ \E q \in Requests : Receive(h, q)
      PROVE  Untouched(g)
  BY <1>0, <1>1 DEF Release, Receive, Untouched
<1>2. ASSUME UNCHANGED tasks PROVE Untouched(g)
  BY <1>2 DEF tasks, Untouched
<1>3. ASSUME NEW h \in Handlers, h # g, Step(h) PROVE Untouched(g)
  BY <1>3, StepFrame
<1> QED
  BY <1>1, <1>2, <1>3
     DEF Next, Admin, Heartbeat, LeaseExpires, CreateJob, CancelRun, ChangeAuthority, ChangeBuild

\* What a handler has answered stays true.
LEMMA AnswerKept ==
  ASSUME ClaimInv, Next, NEW h \in Handlers, phase[h] = "reply", Untouched(h)
  PROVE  AnswerOK(h)'
<1> DEFINE q == req[h]
           i == intent[q.runner][q.id]
<1>0. q \in Requests \cup {NoRequest} /\ AnswerOK(h) /\ Inv /\ Intents
      /\ req'[h] = q /\ reply'[h] = reply[h]
  BY DEF ClaimInv, Inv, TypeOK, Answers, Untouched
<1>1. ASSUME q.op \in {"claim", "reconcile"}, i.lease # NoLease \/ i.state = "CLOSED"
      PROVE  /\ intent'[q.runner][q.id].job = i.job /\ intent'[q.runner][q.id].lease = i.lease
             /\ i.state = "CLOSED" => intent'[q.runner][q.id].state = "CLOSED"
  <2>1. q.runner \in Runners /\ q.id \in IntentIds
    BY <1>0, <1>1, RequestFields DEF ClaimRequests
  <2>2. i \in IntentRows
    BY <1>0, <2>1 DEF Inv, TypeOK
  <2>3. i.state # "NONE"
    BY <1>1, <2>2 DEF IntentRows, NoIntent
  <2> QED
    BY <1>0, <2>1, <2>3, IntentStable
<1>2. ASSUME q.op = "result", IsTerminal(job[q.job]) PROVE IsTerminal(job'[q.job])
  <2>1. q.job \in Jobs
    BY <1>0, <1>2, RequestFields DEF ResultRequests
  <2> QED
    BY <1>0, <1>2, <2>1, RowsCarry DEF Carries
<1> QED
  BY <1>0, <1>1, <1>2 DEF AnswerOK

\* What a handler answers is true.
LEMMA AnswerGiven ==
  ASSUME ClaimInv, NEW h \in Handlers, Step(h), phase'[h] = "reply"
  PROVE  AnswerOK(h)'
<1> DEFINE q == req[h]
           i == intent[q.runner][q.id]
<1>0. /\ q \in Requests \cup {NoRequest} /\ Inv /\ Intents
      /\ phase \in [Handlers -> {"idle", "load", "recover", "main", "scan", "read", "lock", "commit", "reply"}]
      /\ reply \in [Handlers -> Replies] /\ job \in [Jobs -> JobRows]
      /\ intent \in [Runners -> [IntentIds -> IntentRows]]
  BY DEF ClaimInv, Inv, TypeOK
<1>1. ASSUME NEW r, Respond(h, r) PROVE reply'[h] = r /\ req'[h] = q
  BY <1>0, <1>1 DEF Respond
<1>2. ASSUME NEW k \in {"none", "conflict", "WAIT", "rejected"}, Respond(h, Answer(k))
      PROVE  AnswerOK(h)'
  BY <1>1, <1>2 DEF AnswerOK, Answer
<1>3. CASE ClaimLoad(h) \/ RecoverStale(h) \/ NextRead(h) \/ NextBlock(h) \/ ResultDecide(h)
  BY <1>0, <1>3 DEF ClaimLoad, RecoverStale, NextRead, NextBlock, ResultDecide, Advance
<1>4. CASE NextAnswer(h)
  <2>1. todo[h] \in SUBSET Jobs
    BY <1>0 DEF Inv, TypeOK
  <2>2. CASE todo[h] = {}
    BY <1>2, <1>4, <2>2 DEF NextAnswer
  <2>3. CASE todo[h] # {}
    <3>1. Respond(h, [kind |-> "job", job |-> Oldest(todo[h]), lease |-> NoLease])
      BY <1>4, <2>3 DEF NextAnswer
    <3>2. Oldest(todo[h]) \in Jobs
      BY <2>1, <2>3, OldestIn
    <3> QED
      BY <1>1, <3>1, <3>2 DEF AnswerOK
  <2> QED
    BY <2>2, <2>3
<1>5. CASE IntentMismatch(h) \/ ReconcileWait(h) \/ ResultInactiveBuild(h)
  BY <1>2, <1>5 DEF IntentMismatch, ReconcileWait, ResultInactiveBuild
<1>6. CASE ClaimGrant(h)
  <2>1. q.op = "claim" /\ q.runner \in Runners /\ q.job \in Jobs /\ q.id \in IntentIds
    BY <1>0, <1>6, ClaimFields DEF ClaimGrant, AtIntent
  <2>2. /\ intent'[q.runner][q.id] = [state |-> "CLAIMED", job |-> q.job, lease |-> job[q.job].attempts + 1]
        /\ job[q.job].attempts \in Nat
    <3>1. Grants(q.runner, q.id, q.job)
      BY <1>6 DEF ClaimGrant, Grants
    <3> QED
      BY <1>0, <2>1, <3>1, GrantedIntent
  <2>3. reply'[h] = Grant(job[q.job].attempts + 1) /\ req'[h] = q
    BY <1>1, <1>6 DEF ClaimGrant
  <2> QED
    BY <2>1, <2>2, <2>3 DEF AnswerOK, Grant, NoLease
<1>7. CASE ClaimRepeat(h)
  <2>1. q.op = "claim" /\ q.runner \in Runners /\ q.job \in Jobs /\ q.id \in IntentIds
    BY <1>0, <1>7, ClaimFields DEF ClaimRepeat, AtIntent
  <2>2. i.state = "CLAIMED" /\ i.job = q.job /\ i.lease # NoLease
    BY <1>0, <1>7, <2>1 DEF ClaimRepeat, StillHolds, Mismatch, Intents, IntentOK
  <2>3. reply'[h] = Grant(i.lease) /\ req'[h] = q /\ UNCHANGED intent
    BY <1>1, <1>7 DEF ClaimRepeat, tables
  <2> QED
    BY <2>1, <2>2, <2>3 DEF AnswerOK, Grant
<1>8. CASE ClaimRefuse(h)
  BY <1>2, <1>8 DEF ClaimRefuse
<1>9. CASE ReconcileClose(h)
  <2>1. q.op = "reconcile" /\ q.runner \in Runners /\ q.job \in Jobs /\ q.id \in IntentIds
    BY <1>0, <1>9, ClaimFields DEF ReconcileClose, AtIntent
  <2>2. intent'[q.runner][q.id] = [state |-> "CLOSED", job |-> q.job, lease |-> i.lease]
    BY <1>0, <1>9, <2>1 DEF ReconcileClose, Close
  <2>3. reply'[h] = Answer("CLOSED") /\ req'[h] = q
    BY <1>1, <1>9 DEF ReconcileClose
  <2> QED
    BY <2>1, <2>2, <2>3 DEF AnswerOK, Answer
<1>10. CASE LegacyClaim(h)
  <2>1. q.op = "legacy" /\ req'[h] = q
        /\ \/ reply'[h] = Grant(job[q.job].attempts + 1) \/ reply'[h] = Answer("conflict")
    BY <1>1, <1>10 DEF LegacyClaim
  <2> QED
    BY <2>1 DEF AnswerOK, Grant, Answer
<1>11. CASE ResultRead(h)
  <2>1. CASE Acceptable(job[q.job], q)
    BY <1>0, <1>11, <2>1 DEF ResultRead, Advance
  <2>2. CASE ~Acceptable(job[q.job], q)
    BY <1>2, <1>11, <2>2 DEF ResultRead
  <2> QED
    BY <2>1, <2>2
<1>12. CASE ResultRepeat(h)
  <2>1. q \in ResultRequests /\ q.job \in Jobs
    BY <1>0, <1>12 DEF ResultRepeat, AtLock, Inv, Phases, ResultRequests
  <2>2. IsTerminal(job[q.job])
    BY <1>12 DEF ResultRepeat, AtLock, ClaimInv, SeenOK
  <2>3. reply'[h] = Answer("ack") /\ req'[h] = q /\ UNCHANGED job
    BY <1>1, <1>12 DEF ResultRepeat, tables
  <2> QED
    BY <2>2, <2>3 DEF AnswerOK, Answer
<1>13. CASE ResultCommit(h)
  <2>1. q.job \in Jobs /\ q.outcome \in TerminalStates
    BY <1>0, <1>13, OutcomesAssumption DEF ResultCommit, Inv, Phases, ResultRequests
  <2>2. job'[q.job].estado = q.outcome
    BY <1>0, <1>13, <2>1 DEF ResultCommit, Completed, JobRows
  <2>3. reply'[h] = Answer("ack") /\ req'[h] = q
    BY <1>1, <1>13 DEF ResultCommit
  <2> QED
    BY <2>1, <2>2, <2>3 DEF AnswerOK, Answer, IsTerminal
<1> QED
  BY <1>3, <1>4, <1>5, <1>6, <1>7, <1>8, <1>9, <1>10, <1>11, <1>12, <1>13 DEF Step

\* A result handler loads the row it will use under the lock, or not at all.
LEMMA SeenNext ==
  ASSUME ClaimInv, Next
  PROVE  SeenOK'
<1> SUFFICES ASSUME NEW h \in Handlers, phase'[h] = "lock", IsTerminal(seen'[h])
             PROVE  IsTerminal(job'[req'[h].job])
  BY DEF SeenOK
<1>0. /\ Inv /\ phase \in [Handlers -> {"idle", "load", "recover", "main", "scan", "read", "lock", "commit", "reply"}]
      /\ seen \in [Handlers -> JobRows]
  BY DEF ClaimInv, Inv, TypeOK
<1>1. CASE Untouched(h)
  <2>1. req[h].job \in Jobs /\ IsTerminal(job[req[h].job])
    BY <1>0, <1>1 DEF Untouched, ClaimInv, SeenOK, Inv, Phases, ResultRequests
  <2> QED
    BY <1>0, <1>1, <2>1, RowsCarry DEF Carries, Untouched
<1>2. CASE Release(h) \/ \E q \in Requests : Receive(h, q)
  BY <1>0, <1>2 DEF Release, Receive, FirstPhase
<1>3. CASE ResultRead(h)
  <2>1. CASE Acceptable(job[req[h].job], req[h])
    BY <1>0, <1>3, <2>1 DEF ResultRead, Advance, tables
  <2>2. CASE ~Acceptable(job[req[h].job], req[h])
    BY <1>0, <1>3, <2>2 DEF ResultRead, Respond
  <2> QED
    BY <2>1, <2>2
<1>4. ASSUME NEW r, Respond(h, r) PROVE FALSE
  BY <1>0, <1>4 DEF Respond
<1>5. CASE \/ NextAnswer(h) \/ IntentMismatch(h) \/ ClaimGrant(h) \/ ClaimRepeat(h)
           \/ ClaimRefuse(h) \/ ReconcileWait(h) \/ ReconcileClose(h) \/ LegacyClaim(h)
           \/ ResultRepeat(h) \/ ResultInactiveBuild(h) \/ ResultCommit(h)
  <2>1. \E r : Respond(h, r)
    BY <1>5 DEF NextAnswer, IntentMismatch, ClaimGrant, ClaimRepeat, ClaimRefuse, ReconcileWait,
                ReconcileClose, LegacyClaim, ResultRepeat, ResultInactiveBuild,
                ResultCommit
  <2> QED
    BY <1>4, <2>1
<1>6. CASE ClaimLoad(h) \/ RecoverStale(h) \/ NextRead(h) \/ NextBlock(h) \/ ResultDecide(h)
  BY <1>0, <1>6 DEF ClaimLoad, RecoverStale, NextRead, NextBlock, ResultDecide, Advance
<1> QED
  BY <1>0, <1>1, <1>2, <1>3, <1>5, <1>6, OwnSteps DEF Step

\* The invariant of claims is inductive.
LEMMA ClaimInvNext == ClaimInv /\ [Next]_vars => ClaimInv'
<1>1. ASSUME ClaimInv, Next PROVE ClaimInv'
  <2>1. Inv /\ Inv' /\ Intents /\ OneIntentPerLease
    BY <1>1, InvNext DEF ClaimInv
  <2>2. Intents' /\ OneIntentPerLease'
    BY <1>1, <2>1, IntentsNext, OneIntentNext
  <2>3. ASSUME NEW h \in Handlers, phase'[h] = "reply" PROVE AnswerOK(h)'
    <3>1. CASE Untouched(h)
      BY <1>1, <2>3, <3>1, AnswerKept DEF Untouched
    <3>2. CASE Step(h)
      BY <1>1, <2>3, <3>2, AnswerGiven
    <3>3. CASE Release(h) \/ \E q \in Requests : Receive(h, q)
      BY <2>1, <2>3, <3>3 DEF Release, Receive, FirstPhase, Inv, TypeOK
    <3> QED
      BY <1>1, <2>1, <3>1, <3>2, <3>3, OwnSteps
  <2>4. Answers'
    BY <2>3 DEF Answers
  <2>5. SeenOK'
    BY <1>1, SeenNext
  <2> QED
    BY <2>1, <2>2, <2>4, <2>5 DEF ClaimInv
<1>2. ASSUME ClaimInv, UNCHANGED vars PROVE ClaimInv'
  <2>1. Inv'
    BY <1>2, InvNext DEF ClaimInv
  <2> QED
    BY <1>2, <2>1 DEF ClaimInv, vars, Intents, IntentOK, Owns, OneIntentPerLease, Answers,
                      AnswerOK, SeenOK
<1> QED
  BY <1>1, <1>2

\* Without attempts and answers it holds.
LEMMA ClaimInvInit == Init => ClaimInv
<1> SUFFICES ASSUME Init PROVE ClaimInv
  OBVIOUS
<1>1. \A r \in Runners, a \in IntentIds : intent[r][a] = NoIntent
  BY DEF Init
<1>2. Intents /\ OneIntentPerLease
  BY <1>1 DEF Intents, IntentOK, OneIntentPerLease, NoIntent
<1>3. Answers /\ SeenOK
  BY DEF Init, Answers, SeenOK
<1> QED
  BY <1>2, <1>3, InvInit DEF ClaimInv

\* What clients may rely on: leases of attempts, sealed attempts and answers.
THEOREM ClaimInvHolds == Spec => []ClaimInv
<1> QED
  BY ClaimInvInit, ClaimInvNext, PTL DEF Spec

\* Two claim attempts never own the same lease of the same job, whatever is
\* repeated, given up or processed late.
THEOREM LeasesHaveOneIntent == Spec => []OneIntentPerLease
<1>1. ClaimInv => OneIntentPerLease
  BY DEF ClaimInv
<1> QED
  BY <1>1, ClaimInvHolds, PTL

===============================================================================
