---------------------------- MODULE JobLeaseProofs ----------------------------
(***************************************************************************)
(* The queue implements JobLease as it is built, for every number of jobs, *)
(* runners, requests and attempts, and whether or not a FOR UPDATE read    *)
(* refreshes the row the session holds.                                    *)
(***************************************************************************)
EXTENDS AutomationJobsProofs

\* A job has a result only once it is finished.
Delivered(row) == row.result # NoResult => IsTerminal(row)

\* What the sessions hold: a claim that has not recovered yet knows a counter
\* the job once had, and a completion found the job open.
Sessions ==
  \A h \in Handlers :
    /\ phase[h] = "recover" /\ req[h].op \in {"claim", "legacy"} =>
         seen[h].attempts <= job[req[h].job].attempts
    /\ phase[h] = "commit" => ~IsTerminal(seen[h])

LeaseInv == ClaimInv /\ (\A j \in Jobs : Delivered(job[j])) /\ Sessions

\* A row is replaced by one that is in order and that JobLease allows.
Moves(old, u, new) == Delivered(new) /\ Lease!Move(LeaseOf(old), u, LeaseOf(new))

AllMove == \A j \in Jobs : Moves(job[j], UnderWay(j), job'[j])

-------------------------------------------------------------------------------

\* The fields JobLease looks at.
LEMMA RowFields ==
  ASSUME NEW row, RowOK(row), Delivered(row)
  PROVE  /\ row.attempts \in Nat /\ row.lease \in Nat
         /\ ~IsTerminal(row) => row.result = NoResult /\ row.result.event = 0
         /\ IsActive(row) => ~IsTerminal(row) /\ row.lease = row.attempts /\ row.lease # 0
<1>1. /\ row.attempts \in 0 .. MaxLeases /\ row.lease \in 1 .. MaxLeases \cup {0}
  BY DEF RowOK, JobRows, Leases, NoLease
<1>2. NoResult.event = 0
  BY DEF NoResult, NoLease
<1>3. IsActive(row) => ~IsTerminal(row)
  BY DEF IsActive, Active, IsTerminal, TerminalStates
<1> QED
  BY <1>1, <1>2, <1>3, MaxLeasesAssumption DEF RowOK, Delivered, NoLease

\* What JobLease sees of a job that waits in the queue.
LEMMA OpenLease ==
  ASSUME NEW row, RowOK(row), Delivered(row), ~IsTerminal(row), ~IsActive(row)
  PROVE  LeaseOf(row) = Lease!Row(row.attempts, 0, "open", 0)
<1>1. row.result.event = 0
  BY RowFields
<1> QED
  BY <1>1 DEF LeaseOf, Lease!Row, NoLease

\* What it sees of a job a worker holds.
LEMMA HeldLease ==
  ASSUME NEW row, RowOK(row), Delivered(row), IsActive(row)
  PROVE  /\ LeaseOf(row) = Lease!Row(row.attempts, row.attempts, "open", 0)
         /\ row.attempts \in Nat \ {0}
<1>1. row.result.event = 0 /\ ~IsTerminal(row) /\ row.lease = row.attempts /\ row.lease # 0
      /\ row.attempts \in Nat
  BY RowFields
<1> QED
  BY <1>1 DEF LeaseOf, Lease!Row

\* What it sees of a finished job that was not given up.
LEMMA ClosedLease ==
  ASSUME NEW row, IsTerminal(row), row.estado # "TIMEOUT" \/ row.result # NoResult
  PROVE  LeaseOf(row) = Lease!Row(row.attempts, 0, "closed", row.result.event)
<1>1. ~IsActive(row)
  BY DEF IsTerminal, TerminalStates, IsActive, Active
<1> QED
  BY <1>1 DEF LeaseOf, Lease!Row, NoLease

\* What it sees of a job that was.
LEMMA ExhaustedLease ==
  ASSUME NEW row, row.estado = "TIMEOUT", row.result = NoResult
  PROVE  LeaseOf(row) = Lease!Row(row.attempts, 0, "exhausted", 0)
<1>1. ~IsActive(row) /\ IsTerminal(row)
  BY DEF IsTerminal, TerminalStates, IsActive, Active
<1> QED
  BY <1>1 DEF LeaseOf, Lease!Row, NoLease, NoResult

\* What JobLease does not see changes nothing.
LEMMA SameMoves ==
  ASSUME NEW old, Delivered(old), NEW u, NEW new, LeaseOf(new) = LeaseOf(old),
         new.result = old.result, IsTerminal(old) => IsTerminal(new)
  PROVE  Moves(old, u, new)
  BY DEF Moves, Delivered, Lease!Move

\* Recovery revokes the lease, gives the job up or leaves it alone.
LEMMA RecoveredMoves ==
  ASSUME NEW row, RowOK(row), Delivered(row), IsActive(row), NEW held, NEW u,
         Exhausted(held) => row.attempts >= MaxAttempts,
         ~Exhausted(held) => \E n \in u.known \cup {row.attempts} : n < MaxAttempts
  PROVE  Moves(row, u, Recovered(held, row))
<1> DEFINE new == Recovered(held, row)
<1>0. /\ row \in JobRows /\ row.attempts \in Nat /\ row.result = NoResult
      /\ new.attempts = row.attempts /\ new.result = row.result
  BY RowFields, RecoveredFields DEF RowOK
<1>1. LeaseOf(row) = Lease!Row(row.attempts, row.attempts, "open", 0) /\ row.attempts # 0
  BY HeldLease
<1>2. CASE new = row
  BY <1>2, SameMoves
<1>3. CASE Exhausted(held) /\ new.estado = "TIMEOUT"
  <2>1. LeaseOf(new) = Lease!Row(row.attempts, 0, "exhausted", 0)
    BY <1>0, <1>3, ExhaustedLease
  <2>2. Lease!TimeOut(LeaseOf(row), LeaseOf(new))
    BY <1>1, <1>3, <2>1 DEF Lease!TimeOut, Lease!Row, Lease!NoOne
  <2>3. Delivered(new)
    BY <1>0 DEF Delivered
  <2> QED
    BY <2>2, <2>3 DEF Moves, Lease!Move
<1>4. CASE ~Exhausted(held) /\ new.estado = "PENDING"
  <2>1. RowOK(new) /\ Delivered(new)
    BY <1>0, RecoveredRow DEF Delivered
  <2>2. ~IsTerminal(new) /\ ~IsActive(new)
    BY <1>4 DEF IsTerminal, TerminalStates, IsActive, Active
  <2> HIDE DEF new
  <2>3. LeaseOf(new) = Lease!Row(row.attempts, 0, "open", 0)
    BY <1>0, <2>1, <2>2, OpenLease
  <2>4. Lease!Revoke(LeaseOf(row), u, LeaseOf(new))
    BY <1>1, <1>4, <2>3 DEF Lease!Revoke, Lease!Row, Lease!NoOne
  <2> QED
    BY <2>1, <2>4 DEF Moves, Lease!Move, new
<1>5. \/ new = row
      \/ Exhausted(held) /\ new.estado = "TIMEOUT"
      \/ ~Exhausted(held) /\ new.estado = "PENDING"
  BY <1>0, RecoveredFields
<1> QED
  BY <1>2, <1>3, <1>4, <1>5

\* Blocking or cancelling withdraws a job, and keeps the event it has.
LEMMA WithdrawnMoves ==
  ASSUME NEW row, RowOK(row), NEW u, NEW e \in {"BLOCKED", "CANCELLED"}
  PROVE  Moves(row, u, [row EXCEPT !.estado = e])
<1> DEFINE new == [row EXCEPT !.estado = e]
<1>1. new.estado = e /\ new.attempts = row.attempts /\ new.result = row.result
  BY DEF RowOK, JobRows
<1>2. IsTerminal(new) /\ new.estado # "TIMEOUT"
  BY <1>1 DEF IsTerminal, TerminalStates
<1> HIDE DEF new
<1>3. LeaseOf(new) = Lease!Row(row.attempts, 0, "closed", row.result.event)
  BY <1>1, <1>2, ClosedLease
<1>4. LeaseOf(row).granted = row.attempts /\ LeaseOf(row).event = row.result.event
  BY DEF LeaseOf
<1>5. Lease!Withdraw(LeaseOf(row), LeaseOf(new))
  BY <1>3, <1>4 DEF Lease!Withdraw, Lease!NoOne
<1>6. Moves(row, u, new)
  BY <1>2, <1>5 DEF Moves, Delivered, Lease!Move
<1> QED
  BY <1>6 DEF new

\* A result under way is delivered, whatever has become of the row.
LEMMA CompletedMoves ==
  ASSUME NEW row, RowOK(row), NEW u, NEW q \in ResultRequests, q.lease \in u.due,
         NEW e \in TerminalStates
  PROVE  Moves(row, u, Completed(row, q, e))
<1> DEFINE new == Completed(row, q, e)
<1>1. /\ new.estado = e /\ new.attempts = row.attempts /\ new.result.event = q.lease
  BY DEF RowOK, JobRows, Completed, Recorded
<1>2. q.lease # 0
  BY MaxLeasesAssumption DEF ResultRequests, Leases
<1>3. IsTerminal(new) /\ new.result # NoResult
  BY <1>1, <1>2 DEF IsTerminal, NoResult, NoLease
<1> HIDE DEF new
<1>4. LeaseOf(new) = Lease!Row(row.attempts, 0, "closed", q.lease)
  BY <1>1, <1>3, ClosedLease
<1>5. LeaseOf(row).granted = row.attempts
  BY DEF LeaseOf
<1>6. Lease!Deliver(LeaseOf(row), u, LeaseOf(new))
  BY <1>4, <1>5 DEF Lease!Deliver, Lease!NoOne
<1>7. Moves(row, u, new)
  BY <1>3, <1>6 DEF Moves, Delivered, Lease!Move
<1> QED
  BY <1>7 DEF new

-------------------------------------------------------------------------------

\* A step that changes no row changes no lease.
LEMMA NoMoves ==
  ASSUME LeaseInv, UNCHANGED job
  PROVE  AllMove
  BY SameMoves DEF LeaseInv, AllMove

\* A step that replaces the row of one job.
LEMMA OneRow ==
  ASSUME LeaseInv, NEW k \in Jobs, NEW row, Moves(job[k], UnderWay(k), row),
         job' = [job EXCEPT ![k] = row]
  PROVE  AllMove
<1>0. job \in [Jobs -> JobRows] /\ \A j \in Jobs : Delivered(job[j])
  BY DEF LeaseInv, ClaimInv, Inv, TypeOK
<1> SUFFICES ASSUME NEW j \in Jobs PROVE Moves(job[j], UnderWay(j), job'[j])
  BY DEF AllMove
<1>1. CASE j = k
  BY <1>0, <1>1
<1>2. CASE j # k
  BY <1>0, <1>2, SameMoves
<1> QED
  BY <1>1, <1>2

\* A claim of a free job is a grant.
LEMMA AssignMoves ==
  ASSUME LeaseInv, NEW r \in Runners, NEW j \in Jobs, Free(j), Assign(r, j)
  PROVE  AllMove
<1>0. /\ job \in [Jobs -> JobRows] /\ RowOK(job[j]) /\ Delivered(job[j]) /\ RowOK(job'[j])
  BY AssignRows DEF LeaseInv, ClaimInv, Inv, TypeOK, Rows
<1>1. job[j].estado = "PENDING" /\ job[j] \in JobRows /\ job[j].attempts \in Nat
  BY <1>0, RowFields DEF Free, RowOK
<1>2. ~IsTerminal(job[j]) /\ ~IsActive(job[j])
  BY <1>1 DEF IsTerminal, TerminalStates, IsActive, Active
<1>3. /\ job'[j].estado = "CLAIMED" /\ job'[j].attempts = job[j].attempts + 1
      /\ job'[j].result = job[j].result
  BY <1>0, <1>1 DEF Assign, JobRows
<1>4. IsActive(job'[j]) /\ Delivered(job'[j])
  <2>1. job[j].result = NoResult
    BY <1>0, <1>2, RowFields
  <2> QED
    BY <1>3, <2>1 DEF IsActive, Active, Delivered
<1>5. /\ LeaseOf(job[j]) = Lease!Row(job[j].attempts, 0, "open", 0)
      /\ LeaseOf(job'[j]) = Lease!Row(job[j].attempts + 1, job[j].attempts + 1, "open", 0)
  BY <1>0, <1>2, <1>3, <1>4, OpenLease, HeldLease
<1>6. Lease!Grant(LeaseOf(job[j]), LeaseOf(job'[j]))
  BY <1>1, <1>5 DEF Lease!Grant, Lease!Row, Lease!NoOne
<1>7. Moves(job[j], UnderWay(j), job'[j])
  BY <1>4, <1>6 DEF Moves, Lease!Move
<1>8. job' = [job EXCEPT ![j] = job'[j]]
  BY <1>0 DEF Assign
<1> QED
  BY <1>7, <1>8, OneRow

\* Recovery moves every job whose lease has expired.
LEMMA RecoveryMoves ==
  ASSUME LeaseInv, NEW h \in Handlers, RecoverStale(h)
  PROVE  AllMove
<1> SUFFICES ASSUME NEW j \in Jobs PROVE Moves(job[j], UnderWay(j), job'[j])
  BY DEF AllMove
<1> DEFINE held == Held(h, j)
<1>0. /\ RowOK(job[j]) /\ Delivered(job[j]) /\ job[j].attempts \in Nat
      /\ seen[h] \in JobRows /\ phase[h] = "recover"
  BY RowFields DEF LeaseInv, ClaimInv, Inv, TypeOK, Rows, RecoverStale
<1>1. CASE j \notin Stale \ Locked
  <2>1. job'[j] = job[j]
    BY <1>1 DEF RecoverStale
  <2> QED
    BY <1>0, <2>1, SameMoves
<1>2. CASE j \in Stale \ Locked
  <2>1. IsActive(job[j]) /\ job'[j] = Recovered(held, job[j])
    BY <1>2 DEF Stale, RecoverStale
  <2>2. CASE held = job[j]
    <3>1. ~Exhausted(held) => job[j].attempts < MaxAttempts
      BY <1>0, <2>2, MaxAttemptsAssumption DEF Exhausted
    <3>2. Exhausted(held) => job[j].attempts >= MaxAttempts
      BY <2>2 DEF Exhausted
    <3> HIDE DEF held
    <3> QED
      BY <1>0, <2>1, <3>1, <3>2, RecoveredMoves
  <2>3. CASE held # job[j]
    <3>1. held = seen[h] /\ req[h].op \in {"claim", "legacy"} /\ req[h].job = j
      BY <2>3 DEF Held
    <3>2. seen[h].attempts \in Nat /\ seen[h].attempts <= job[j].attempts
      BY <1>0, <3>1, MaxLeasesAssumption DEF LeaseInv, Sessions, JobRows
    <3>3. seen[h].attempts \in UnderWay(j).known
      <4>1. h \in Recovering(j)
        BY <1>0, <3>1 DEF Recovering
      <4> QED
        BY <4>1 DEF UnderWay
    <3> HIDE DEF held
    <3>4. ~Exhausted(held) => seen[h].attempts < MaxAttempts
      BY <3>1, <3>2, MaxAttemptsAssumption DEF Exhausted
    <3>5. Exhausted(held) => job[j].attempts >= MaxAttempts
      BY <1>0, <3>1, <3>2, MaxAttemptsAssumption DEF Exhausted
    <3> QED
      BY <1>0, <2>1, <3>3, <3>4, <3>5, RecoveredMoves
  <2> QED
    BY <2>2, <2>3
<1> QED
  BY <1>1, <1>2

\* A completion stores the event of a result that is under way.
LEMMA ResultMoves ==
  ASSUME LeaseInv, NEW h \in Handlers, ResultInactiveBuild(h) \/ ResultCommit(h)
  PROVE  AllMove
<1> DEFINE q == req[h]
<1>1. /\ q \in ResultRequests /\ q.job \in Jobs /\ RowOK(job[q.job])
      /\ phase[h] \in {"lock", "commit"} /\ q.outcome \in TerminalStates
  BY OutcomesAssumption DEF ResultInactiveBuild, ResultCommit, AtLock, LeaseInv, ClaimInv, Inv,
                            Phases, Rows, ResultRequests
<1>2. ~IsTerminal(seen[h])
  <2>1. CASE ResultInactiveBuild(h)
    BY <2>1 DEF ResultInactiveBuild, AtLock, LeaseInv, ClaimInv, SeenOK
  <2>2. CASE ResultCommit(h)
    BY <2>2 DEF ResultCommit, LeaseInv, Sessions
  <2> QED
    BY <2>1, <2>2
<1>3. q.lease \in UnderWay(q.job).due
  <2>1. h \in Completing(q.job)
    BY <1>1, <1>2 DEF Completing
  <2> QED
    BY <2>1 DEF UnderWay
<1>4. PICK e \in TerminalStates : job' = [job EXCEPT ![q.job] = Completed(job[q.job], q, e)]
  BY <1>1 DEF ResultInactiveBuild, ResultCommit, TerminalStates
<1>5. Moves(job[q.job], UnderWay(q.job), Completed(job[q.job], q, e))
  BY <1>1, <1>3, CompletedMoves
<1> QED
  BY <1>1, <1>4, <1>5, OneRow

\* Every step of a handler.
LEMMA StepMoves ==
  ASSUME LeaseInv, NEW h \in Handlers, Step(h)
  PROVE  AllMove
<1> DEFINE q == req[h]
<1>0. q \in Requests \cup {NoRequest} /\ \A j \in Jobs : RowOK(job[j])
  BY DEF LeaseInv, ClaimInv, Inv, TypeOK, Rows
<1>1. CASE RecoverStale(h)
  BY <1>1, RecoveryMoves
<1>2. CASE NextBlock(h)
  <2> DEFINE k == Oldest(todo[h])
  <2>1. k \in Jobs
    BY <1>2, OldestIn DEF NextBlock, LeaseInv, ClaimInv, Inv, TypeOK
  <2>2. job' = [job EXCEPT ![k] = [job[k] EXCEPT !.estado = "BLOCKED"]]
    BY <1>2 DEF NextBlock
  <2> HIDE DEF k
  <2> QED
    BY <1>0, <2>1, <2>2, WithdrawnMoves, OneRow
<1>3. CASE ClaimGrant(h)
  <2>1. q.runner \in Runners /\ q.job \in Jobs
    BY <1>3, ClaimFields DEF ClaimGrant, LeaseInv, ClaimInv
  <2> QED
    BY <1>3, <2>1, AssignMoves DEF ClaimGrant
<1>4. CASE LegacyClaim(h)
  <2>1. q.runner \in Runners /\ q.job \in Jobs
    BY <1>0, <1>4, RequestFields DEF LegacyClaim, LegacyRequests
  <2>2. (Free(q.job) /\ Assign(q.runner, q.job)) \/ UNCHANGED job
    BY <1>4 DEF LegacyClaim
  <2> QED
    BY <2>1, <2>2, AssignMoves, NoMoves
<1>5. CASE ResultInactiveBuild(h) \/ ResultCommit(h)
  BY <1>5, ResultMoves
<1>6. CASE UNCHANGED job
  BY <1>6, NoMoves
<1> QED
  BY <1>1, <1>2, <1>3, <1>4, <1>5, <1>6
     DEF Step, ClaimLoad, NextRead, NextAnswer, IntentMismatch, ClaimRepeat, ClaimRefuse,
         ReconcileWait, ReconcileClose, ResultRead, ResultRepeat, ResultDecide, tables

\* Every other step of the system.
LEMMA OtherMoves ==
  ASSUME LeaseInv, Next, \A h \in Handlers : ~Step(h)
  PROVE  AllMove
<1>0. /\ job \in [Jobs -> JobRows] /\ \A j \in Jobs : RowOK(job[j]) /\ Delivered(job[j])
  BY DEF LeaseInv, ClaimInv, Inv, TypeOK, Rows
<1>1. ASSUME NEW r \in Runners, NEW k \in Jobs, NEW lease \in Leases, Heartbeat(r, k, lease)
      PROVE  AllMove
  <2> DEFINE row == [job[k] EXCEPT !.estado = "RUNNING", !.expired = FALSE]
  <2>1. IsActive(job[k]) /\ job' = [job EXCEPT ![k] = row]
    BY <1>1 DEF Heartbeat, HeartbeatValid
  <2>2. /\ row.estado = "RUNNING" /\ row.attempts = job[k].attempts /\ row.lease = job[k].lease
        /\ row.result = job[k].result
    BY <1>0 DEF JobRows
  <2>3. IsActive(row) /\ ~IsTerminal(row) /\ ~IsTerminal(job[k])
    BY <2>1, <2>2 DEF IsActive, Active, IsTerminal, TerminalStates
  <2> HIDE DEF row
  <2>4. LeaseOf(row) = LeaseOf(job[k])
    BY <2>1, <2>2, <2>3 DEF LeaseOf
  <2>5. Moves(job[k], UnderWay(k), row)
    BY <1>0, <2>2, <2>3, <2>4, SameMoves
  <2> QED
    BY <2>1, <2>5, OneRow
<1>2. ASSUME NEW k \in Jobs, LeaseExpires(k) PROVE AllMove
  <2> DEFINE row == [job[k] EXCEPT !.expired = TRUE]
  <2>1. job' = [job EXCEPT ![k] = row]
    BY <1>2 DEF LeaseExpires
  <2>2. /\ row.estado = job[k].estado /\ row.attempts = job[k].attempts
        /\ row.lease = job[k].lease /\ row.result = job[k].result
    BY <1>0 DEF JobRows
  <2> HIDE DEF row
  <2>3. LeaseOf(row) = LeaseOf(job[k]) /\ (IsTerminal(job[k]) => IsTerminal(row))
    BY <2>2 DEF LeaseOf, IsActive, IsTerminal
  <2>4. Moves(job[k], UnderWay(k), row)
    BY <1>0, <2>2, <2>3, SameMoves
  <2> QED
    BY <2>1, <2>4, OneRow
<1>3. CASE CancelRun
  <2>1. \A j \in Jobs : job'[j] = IF job[j].estado = "PENDING" /\ j \notin Locked
                                  THEN [job[j] EXCEPT !.estado = "CANCELLED"] ELSE job[j]
    BY <1>3 DEF CancelRun
  <2>2. ASSUME NEW j \in Jobs PROVE Moves(job[j], UnderWay(j), job'[j])
    <3>1. CASE job[j].estado = "PENDING" /\ j \notin Locked
      BY <1>0, <2>1, <3>1, WithdrawnMoves
    <3>2. CASE ~(job[j].estado = "PENDING" /\ j \notin Locked)
      BY <1>0, <2>1, <3>2, SameMoves
    <3> QED
      BY <3>1, <3>2
  <2> QED
    BY <2>2 DEF AllMove
<1>4. ASSUME NEW k \in Jobs, CreateJob(k) PROVE AllMove
  <2> DEFINE row == [job[k] EXCEPT !.estado = "PENDING"]
  <2>1. job[k].estado = "NONE" /\ job' = [job EXCEPT ![k] = row]
    BY <1>4 DEF CreateJob
  <2>2. row.estado = "PENDING" /\ row.attempts = job[k].attempts /\ row.result = job[k].result
    BY <1>0 DEF JobRows
  <2>3. ~IsActive(row) /\ ~IsTerminal(row) /\ ~IsActive(job[k]) /\ ~IsTerminal(job[k])
    BY <2>1, <2>2 DEF IsActive, Active, IsTerminal, TerminalStates
  <2> HIDE DEF row
  <2>4. LeaseOf(row) = LeaseOf(job[k])
    BY <2>2, <2>3 DEF LeaseOf
  <2>5. Moves(job[k], UnderWay(k), row)
    BY <1>0, <2>2, <2>3, <2>4, SameMoves
  <2> QED
    BY <2>1, <2>5, OneRow
<1>5. CASE UNCHANGED job
  BY <1>5, NoMoves
<1> QED
  BY <1>1, <1>2, <1>3, <1>4, <1>5
     DEF Next, Admin, Release, Receive, ChangeBuild, ChangeAuthority, tables

-------------------------------------------------------------------------------

\* How a handler comes to deliver or to recover: it was already at it, or it
\* reads the row as it is in this step.
LEMMA Begins ==
  ASSUME LeaseInv, Next, NEW h \in Handlers,
         phase'[h] \in {"lock", "commit"} \/ (phase'[h] = "recover" /\ req'[h].op \in {"claim", "legacy"})
  PROVE  /\ req'[h] = req[h] /\ req[h].job \in Jobs
         /\ phase'[h] = "recover" => req[h].op \in {"claim", "legacy"}
         /\ \/ phase'[h] = phase[h] /\ seen'[h] = seen[h]
            \/ ClaimLoad(h) /\ phase'[h] = "recover" /\ seen'[h] = job[req[h].job]
            \/ /\ ResultRead(h) /\ phase'[h] = "lock" /\ seen'[h] = job[req[h].job]
               /\ Acceptable(job[req[h].job], req[h])
            \/ ResultDecide(h) /\ phase[h] = "lock" /\ phase'[h] = "commit" /\ seen'[h] = seen[h]
<1> DEFINE q == req[h]
<1>0. /\ Inv /\ q \in Requests \cup {NoRequest}
      /\ phase \in [Handlers -> {"idle", "load", "recover", "main", "scan", "read", "lock", "commit", "reply"}]
      /\ seen \in [Handlers -> JobRows] /\ req \in [Handlers -> Requests \cup {NoRequest}]
  BY DEF LeaseInv, ClaimInv, Inv, TypeOK
<1>1. ASSUME phase[h] \in {"load", "read", "lock", "commit"} \/ q.op \in {"claim", "legacy"}
      PROVE  q.job \in Jobs
  BY <1>0, <1>1, RequestFields
     DEF Inv, Phases, ResultRequests, ClaimRequests, LegacyRequests
<1>2. CASE Untouched(h)
  BY <1>1, <1>2 DEF Untouched
<1>3. CASE Release(h) \/ \E x \in Requests : Receive(h, x)
  BY <1>0, <1>3 DEF Release, Receive, FirstPhase
<1>4. CASE ClaimLoad(h)
  <2>1. phase'[h] = "recover" /\ seen'[h] = job[q.job] /\ req' = req /\ phase[h] = "load"
    BY <1>0, <1>4 DEF ClaimLoad, Advance
  <2> QED
    BY <1>1, <1>4, <2>1
<1>5. CASE ResultRead(h)
  <2>1. CASE Acceptable(job[q.job], q)
    <3>1. phase'[h] = "lock" /\ seen'[h] = job[q.job] /\ req' = req /\ phase[h] = "read"
      BY <1>0, <1>5, <2>1 DEF ResultRead, Advance
    <3> QED
      BY <1>1, <1>5, <2>1, <3>1
  <2>2. CASE ~Acceptable(job[q.job], q)
    BY <1>0, <1>5, <2>2 DEF ResultRead, Respond
  <2> QED
    BY <2>1, <2>2
<1>6. CASE ResultDecide(h)
  <2>1. phase[h] = "lock" /\ phase'[h] = "commit" /\ seen' = seen /\ req' = req
    BY <1>0, <1>6 DEF ResultDecide, AtLock, Advance
  <2> QED
    BY <1>1, <1>6, <2>1
<1>7. CASE RecoverStale(h) \/ NextRead(h) \/ NextBlock(h)
  BY <1>0, <1>7 DEF RecoverStale, NextRead, NextBlock, Advance
<1>8. CASE \/ NextAnswer(h) \/ IntentMismatch(h) \/ ClaimGrant(h) \/ ClaimRepeat(h)
           \/ ClaimRefuse(h) \/ ReconcileWait(h) \/ ReconcileClose(h) \/ LegacyClaim(h)
           \/ ResultRepeat(h) \/ ResultInactiveBuild(h) \/ ResultCommit(h)
  <2>1. \E r : Respond(h, r)
    BY <1>8 DEF NextAnswer, IntentMismatch, ClaimGrant, ClaimRepeat, ClaimRefuse, ReconcileWait,
                ReconcileClose, LegacyClaim, ResultRepeat, ResultInactiveBuild,
                ResultCommit
  <2> QED
    BY <1>0, <2>1 DEF Respond
<1> QED
  BY <1>0, <1>2, <1>3, <1>4, <1>5, <1>6, <1>7, <1>8, OwnSteps DEF Step

\* What the sessions hold stays as it has to be.
LEMMA SessionsNext ==
  ASSUME LeaseInv, Next
  PROVE  Sessions'
<1>0. Inv /\ \A j \in Jobs : Carries(job[j], job'[j])
  BY RowsCarry DEF LeaseInv, ClaimInv
<1>1. ASSUME NEW h \in Handlers, phase'[h] = "recover", req'[h].op \in {"claim", "legacy"}
      PROVE  seen'[h].attempts <= job'[req'[h].job].attempts
  <2> DEFINE j == req[h].job
  <2>1. /\ req'[h] = req[h] /\ j \in Jobs
        /\ seen'[h].attempts <= job[j].attempts
    <3>1. Carries(job[j], job'[j]) => job[j].attempts \in Nat
      BY DEF Carries
    <3> QED
      BY <1>0, <1>1, <3>1, Begins DEF LeaseInv, Sessions
  <2>2. seen'[h].attempts \in Nat
    <3>1. Inv'
      BY <1>0, InvNext
    <3> QED
      BY <3>1, MaxLeasesAssumption DEF Inv, TypeOK, JobRows
  <2> QED
    BY <1>0, <2>1, <2>2 DEF Carries
<1>2. ASSUME NEW h \in Handlers, phase'[h] = "commit" PROVE ~IsTerminal(seen'[h])
  <2>1. CASE phase[h] = "commit" /\ seen'[h] = seen[h]
    BY <2>1 DEF LeaseInv, Sessions
  <2>2. CASE ResultDecide(h) /\ seen'[h] = seen[h]
    BY <2>2 DEF ResultDecide, AtLock, LeaseInv, ClaimInv, SeenOK
  <2> QED
    BY <1>2, <2>1, <2>2, Begins
<1> QED
  BY <1>1, <1>2 DEF Sessions

\* Requests learn of a job only what its row says.
LEMMA Learns ==
  ASSUME LeaseInv, Next, NEW j \in Jobs
  PROVE  Lease!Learn(LeaseOf(job[j]), UnderWay(j), UnderWay(j)')
<1>0. RowOK(job[j]) /\ Delivered(job[j])
  BY DEF LeaseInv, ClaimInv, Inv, Rows
<1>1. ASSUME NEW h \in Handlers, h \in Completing(j)'
      PROVE  req'[h].lease \in UnderWay(j).due \cup ({LeaseOf(job[j]).holder} \ {0})
  <2>1. phase'[h] \in {"lock", "commit"} /\ req'[h].job = j /\ ~IsTerminal(seen'[h])
    BY <1>1 DEF Completing
  <2>2. req'[h] = req[h]
    BY <2>1, Begins
  <2>3. CASE phase[h] \in {"lock", "commit"} /\ seen'[h] = seen[h]
    <3>1. h \in Completing(j)
      BY <2>1, <2>2, <2>3 DEF Completing
    <3> QED
      BY <2>2, <3>1 DEF UnderWay
  <2>4. CASE ResultRead(h) /\ seen'[h] = job[j] /\ Acceptable(job[j], req[h])
    <3>1. req[h] \in ResultRequests
      BY <2>4 DEF ResultRead, LeaseInv, ClaimInv, Inv, Phases
    <3>2. job[j].runner = req[h].runner /\ job[j].lease = req[h].lease /\ req[h].runner \in Runners
      BY <2>1, <2>4, <3>1 DEF Acceptable, ResultRequests
    <3>3. IsActive(job[j])
      BY <1>0, <2>1, <2>4, <3>2, RunnersAssumption
         DEF RowOK, JobRows, JobStates, IsTerminal, IsActive, Active
    <3>4. LeaseOf(job[j]).holder = req[h].lease /\ req[h].lease # 0
      BY <1>0, <3>2, <3>3, RowFields DEF LeaseOf
    <3> QED
      BY <2>2, <3>4
  <2> QED
    BY <2>1, <2>2, <2>3, <2>4, Begins
<1>2. ASSUME NEW h \in Handlers, h \in Recovering(j)'
      PROVE  seen'[h].attempts \in UnderWay(j).known \cup {LeaseOf(job[j]).granted}
  <2>1. phase'[h] = "recover" /\ req'[h].op \in {"claim", "legacy"} /\ req'[h].job = j
    BY <1>2 DEF Recovering
  <2>2. req'[h] = req[h]
    BY <2>1, Begins
  <2>3. CASE phase[h] = "recover" /\ seen'[h] = seen[h]
    <3>1. h \in Recovering(j)
      BY <2>1, <2>2, <2>3 DEF Recovering
    <3> QED
      BY <2>3, <3>1 DEF UnderWay
  <2>4. CASE seen'[h] = job[j]
    BY <2>4 DEF LeaseOf
  <2> QED
    BY <2>1, <2>2, <2>3, <2>4, Begins
<1>3. /\ UnderWay(j)'.due = {req'[h].lease : h \in Completing(j)'}
      /\ UnderWay(j)'.known = {seen'[h].attempts : h \in Recovering(j)'}
      /\ Completing(j)' \subseteq Handlers /\ Recovering(j)' \subseteq Handlers
  BY DEF UnderWay, Completing, Recovering
<1> QED
  BY <1>1, <1>2, <1>3 DEF Lease!Learn, Lease!NoOne

\* Initially the invariant behind the refinement holds, no lease is granted
\* and no request is under way.
LEMMA LeaseInvInit == Init => LeaseInv /\ Lease!Init
<1> SUFFICES ASSUME Init PROVE LeaseInv /\ Lease!Init
  OBVIOUS
<1>1. ClaimInv
  BY ClaimInvInit
<1>2. \A j \in Jobs : job[j] = EmptyRow /\ Delivered(job[j])
  BY DEF Init, EmptyRow, Delivered
<1>3. Sessions /\ \A j \in Jobs : Completing(j) = {} /\ Recovering(j) = {}
  BY DEF Init, Sessions, Completing, Recovering
<1>4. LeaseOf(EmptyRow) = Lease!Row(0, 0, "open", 0)
  BY DEF LeaseOf, EmptyRow, IsActive, Active, IsTerminal, TerminalStates, Lease!Row, NoLease, NoResult
<1>5. \A j \in Jobs : UnderWay(j) = [due |-> {}, known |-> {}]
  BY <1>3 DEF UnderWay
<1> QED
  BY <1>1, <1>2, <1>3, <1>4, <1>5 DEF LeaseInv, Lease!Init, Lease!NoOne

\* Every step preserves that invariant and maps to a step of JobLease.
LEMMA LeaseInvNext ==
  ASSUME LeaseInv, Next
  PROVE  LeaseInv' /\ Lease!Next
<1>1. ClaimInv'
  BY ClaimInvNext DEF LeaseInv
<1>2. AllMove
  BY StepMoves, OtherMoves
<1>3. \A j \in Jobs : Delivered(job'[j]) /\ Lease!Move(LeaseOf(job[j]), UnderWay(j), LeaseOf(job'[j]))
  BY <1>2 DEF AllMove, Moves
<1>4. LeaseInv'
  BY <1>1, <1>3, SessionsNext DEF LeaseInv
<1>5. Lease!Next
  BY <1>3, Learns DEF Lease!Next
<1> QED
  BY <1>4, <1>5

\* The queue as it is built implements JobLease: every transaction of every
\* handler grants, revokes or ends a lease as JobLease allows, for each job it
\* touches, however claims, recoveries, renewals and completions interleave
\* and whether or not a FOR UPDATE read refreshes the row the session holds.
THEOREM QueueImplementsLease == Spec => LeaseSpec
<1> DEFINE leases == [j \in Jobs |-> LeaseOf(job[j])]
           unders == [j \in Jobs |-> UnderWay(j)]
<1>1. LeaseInv /\ [Next]_vars => LeaseInv' /\ [Lease!Next]_<<leases, unders>>
  <2>1. ASSUME LeaseInv, UNCHANGED vars PROVE LeaseInv' /\ UNCHANGED <<leases, unders>>
    <3>1. ClaimInv'
      BY <2>1, ClaimInvNext DEF LeaseInv
    <3>2. UNCHANGED <<job, phase, req, seen>>
      BY <2>1 DEF vars
    <3>3. LeaseInv'
      BY <2>1, <3>1, <3>2 DEF LeaseInv, Sessions
    <3>4. \A j \in Jobs : UnderWay(j)' = UnderWay(j)
      BY <3>2 DEF UnderWay, Completing, Recovering
    <3> QED
      BY <3>2, <3>3, <3>4
  <2> QED
    BY <2>1, LeaseInvNext
<1> QED
  BY <1>1, LeaseInvInit, PTL DEF Spec, LeaseSpec, Lease!Spec
===============================================================================
