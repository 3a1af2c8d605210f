----------------------- MODULE AutomationDispatchProofs -----------------------
(***************************************************************************)
(* Proofs about the queue and its workers together, for any number of      *)
(* jobs, workers, attempt ids, connections, faults and updates.            *)
(***************************************************************************)
EXTENDS AutomationDispatch, AutomationJobsProofs, FiniteSetTheorems

(***************************************************************************)
(* The inductive invariant.  ClaimInv is the queue's own, for arbitrary    *)
(* clients; the rest is what the workers add.                              *)
(***************************************************************************)
Delivering == {"post", "posting", "confirm", "unlink"}
Waiting == {"next", "claim", "posting", "reconcile"}

LeaseIn(e) == [job |-> e.job, lease |-> e.lease]

\* The spool is empty, or holds the one envelope the worker delivers; it holds
\* a job in memory only while it executes it or delivers its result.
SpoolOK(r) ==
  \/ /\ spool[r] = {} /\ pc[r] \notin Delivering
     /\ active[r] # NoJob <=> pc[r] \in {"busy", "execute"}
  \/ \E e \in Envelopes :
       /\ spool[r] = {e} /\ pc[r] \in Delivering \cup {"top"}
       /\ active[r] = LeaseIn(e) \/ (active[r] = NoJob /\ pc[r] = "top")

\* What the place in the loop says about the rest of the worker.
WorkerOK(r) ==
  /\ SpoolOK(r)
  /\ awaits[r] # NoHandler <=> pc[r] \in Waiting
  /\ pc[r] = "post" => posts[r] < MaxPosts
  /\ pc[r] \in {"sendclaim", "claim", "reconcile"} => claimFile[r] # NoFile
  /\ pc[r] = "next" => claimFile[r] = NoFile
  /\ beating[r] => active[r] # NoJob
  /\ receipt[r] = "ready" => pc[r] = "top" /\ spool[r] = {} /\ claimFile[r] = NoFile

NextOf(r) == [op |-> "next", runner |-> r]
IntentOf(op, r, file) == [op |-> op, runner |-> r, job |-> file.job, id |-> file.id]
PostOf(r, e) == [op |-> "result", runner |-> r, job |-> e.job, lease |-> e.lease,
                 outcome |-> e.outcome]

\* A worker waits for the request it sent, and nobody else does.
AwaitOK(r) ==
  LET h == awaits[r] IN
  h # NoHandler =>
    /\ phase[h] # "idle"
    /\ pc[r] = "next" => req[h] = NextOf(r)
    /\ pc[r] \in {"claim", "reconcile"} => req[h] = IntentOf(pc[r], r, claimFile[r])
    /\ pc[r] = "posting" => \E e \in spool[r] : req[h] = PostOf(r, e)
    /\ \A s \in Runners : awaits[s] = h => s = r

\* The claim file names the attempt that matters: only the claim it names can
\* still be granted, and each attempt is claimed once.
FileOK(r) ==
  LET f == claimFile[r]
      i == intent[r][f.id]
  IN f # NoFile =>
       /\ i.state # "NONE" => i.job = f.job
       /\ \A e \in spool[r] : f.job = e.job /\ i.lease = e.lease
       /\ pc[r] = "sendclaim" =>
            /\ i.state = "NONE"
            /\ \A h \in Handlers : req[h] \in ClaimRequests /\ req[h].runner = r => req[h].id # f.id

ClaimOK(h) ==
  LET q == req[h]
      i == intent[q.runner][q.id]
      f == claimFile[q.runner]
  IN q \in ClaimRequests =>
       /\ q.id = f.id => q.job = f.job
       /\ q.op = "claim" =>
            /\ phase[h] \in {"load", "recover", "main"} =>
                 i.state # "CLAIMED" /\ (i.state = "NONE" => f = [job |-> q.job, id |-> q.id])
            /\ \A g \in Handlers : req[g] \in ClaimRequests /\ req[g].op = "claim"
                                   /\ req[g].runner = q.runner /\ req[g].id = q.id => g = h

\* The result a row keeps, as the envelope it came from.
EnvelopeOf(j, result) == [job |-> j, lease |-> result.event, outcome |-> result.outcome]

\* What is in flight is on some disk or in the database, and what the backend
\* acknowledged is in the database.
ResultOK(h) ==
  LET q == req[h] IN
  /\ q.op # "legacy"
  /\ q \in ResultRequests =>
       /\ EnvelopeOf(q.job, Recorded(q)) \in Everything
       /\ phase[h] = "reply" /\ reply[h].kind = "ack" => EnvelopeOf(q.job, Recorded(q)) \in recorded
       /\ phase[h] = "lock" /\ seen[h].result # NoResult =>
            EnvelopeOf(q.job, seen[h].result) \in recorded

LedgerOK ==
  /\ \A j \in Jobs : job[j].result # NoResult => EnvelopeOf(j, job[j].result) \in recorded
  /\ \A e \in Everything : e.lease <= job[e.job].attempts

\* An acknowledged envelope is in the database, and its job is finished.
SettledOK(r) ==
  pc[r] \in {"confirm", "unlink"} => \A e \in spool[r] : e \in recorded /\ IsTerminal(job[e.job])

\* The lease a worker has been granted and has not reported on yet.
Granted(r) == pc[r] = "claim" /\ phase[awaits[r]] = "reply" /\ reply[awaits[r]].kind = "granted"
Holds(r) == Granted(r) \/ pc[r] \in {"busy", "execute"}
LeaseAt(r) == IF pc[r] = "claim" THEN [job |-> claimFile[r].job, lease |-> reply[awaits[r]].lease]
              ELSE active[r]

\* It is the lease of the attempt in its claim file, and no result of it exists.
HoldOK(r) ==
  Holds(r) =>
    LET i == intent[r][claimFile[r].id] IN
    /\ claimFile[r] # NoFile /\ claimFile[r].job = LeaseAt(r).job
    /\ i.job = LeaseAt(r).job /\ i.lease = LeaseAt(r).lease /\ i.lease # NoLease
    /\ \A e \in Everything : ~(e.job = LeaseAt(r).job /\ e.lease = LeaseAt(r).lease)

\* A connection nobody uses carries no request.
QuietOK(h) == phase[h] = "idle" => req[h] = NoRequest

Workers == \A r \in Runners : WorkerOK(r) /\ AwaitOK(r) /\ FileOK(r) /\ SettledOK(r) /\ HoldOK(r)
Traffic == \A h \in Handlers : QuietOK(h) /\ ClaimOK(h) /\ ResultOK(h)

DispatchInv ==
  /\ ClaimInv /\ DispatchTypeOK /\ Workers /\ Traffic /\ LedgerOK
  /\ IntentCoversLease /\ OneResultPerLease

-------------------------------------------------------------------------------

(***************************************************************************)
(* The steps of the system, by what they change.                           *)
(***************************************************************************)

\* Steps of a worker alone, with its heartbeat, with a request, with a response.
Local(r) ==
  \/ PauseIdle(r) \/ BusyRefused(r) \/ TickRefused(r) \/ Execute(r) \/ Flush(r)
  \/ ConfirmIntent(r) \/ UnlinkSpool(r) \/ GiveUp(r) \/ BusyLost(r) \/ Crash(r)
Renews(r) == BusyAccepted(r) \/ TickAccepted(r)
Sends(r) == SendNext(r) \/ SendClaim(r) \/ SendPost(r) \/ SendReconcile(r)
Takes(r) ==
  \/ NextNone(r) \/ NextJob(r) \/ ClaimReply(r)
  \/ PostAck(r) \/ PostRejected(r) \/ ReconcileReply(r)
Moves(r) == Local(r) \/ Renews(r) \/ Sends(r) \/ Takes(r)

\* Steps nobody but the backend takes, and which record nothing.
Backstage ==
  \/ \E h \in Handlers : Orphan(h) /\ Release(h)
  \/ \E j \in Jobs : LeaseExpires(j)
  \/ Admin
  \/ UNCHANGED vars

\* Every step is one of these.
LEMMA DispatchSteps ==
  ASSUME DispatchNext
  PROVE  \/ \E r \in Runners : Moves(r) /\ UNCHANGED recorded
         \/ \E h \in Handlers : Process(h)
         \/ Backstage /\ UNCHANGED <<worker, recorded>>
<1>1. ASSUME NEW r \in Runners, Work(r) PROVE Moves(r) /\ UNCHANGED recorded
  BY <1>1 DEF Work, Loop, Beat, Moves, Local, Renews, Sends, Takes
<1>2. ASSUME NEW r \in Runners, Fault(r) PROVE Moves(r) /\ UNCHANGED recorded
  BY <1>2 DEF Fault, Moves, Local
<1>3. ASSUME \/ \E h \in Handlers : Drop(h)
             \/ \E j \in Jobs : Expire(j)
             \/ Administer \/ RequestUpdate \/ EndUpdate
      PROVE  Backstage /\ UNCHANGED <<worker, recorded>>
  BY <1>3 DEF Drop, Expire, Administer, RequestUpdate, EndUpdate, Backstage, Admin
<1> QED
  BY <1>1, <1>2, <1>3 DEF DispatchNext

\* The worker does not move.
Still(r) ==
  /\ pc'[r] = pc[r] /\ awaits'[r] = awaits[r] /\ active'[r] = active[r]
  /\ beating'[r] = beating[r] /\ posts'[r] = posts[r] /\ claimFile'[r] = claimFile[r]
  /\ spool'[r] = spool[r] /\ quarantine'[r] = quarantine[r] /\ receipt'[r] = receipt[r]

\* A step of one worker leaves every other worker as it is.
LEMMA OneMoves ==
  ASSUME DispatchTypeOK, NEW r \in Runners, Moves(r), NEW s \in Runners, s # r
  PROVE  Still(s)
<1>0. /\ pc \in [Runners -> Points] /\ awaits \in [Runners -> Handlers \cup {NoHandler}]
      /\ active \in [Runners -> [job : Jobs, lease : Leases] \cup {NoJob}]
      /\ beating \in [Runners -> BOOLEAN] /\ posts \in [Runners -> 0 .. MaxPosts]
      /\ claimFile \in [Runners -> [job : Jobs, id : IntentIds] \cup {NoFile}]
      /\ spool \in [Runners -> SUBSET Envelopes] /\ quarantine \in [Runners -> SUBSET Envelopes]
      /\ receipt \in [Runners -> {"none", "ready", "busy"}]
  BY DEF DispatchTypeOK
<1>1. CASE Local(r)
  BY <1>0, <1>1 DEF Local, Still, PauseIdle, BusyRefused, TickRefused, Execute, Flush, ConfirmIntent,
                    UnlinkSpool, GiveUp, BusyLost, Crash, Pause, Deactivate, Goto, memory, disk
<1>2. CASE Renews(r)
  BY <1>0, <1>2 DEF Renews, Still, BusyAccepted, TickAccepted, Goto, disk, worker
<1>3. CASE Sends(r)
  BY <1>0, <1>3 DEF Sends, Still, SendNext, SendClaim, SendPost, SendReconcile, Send, Pause, Goto, disk
<1>4. CASE Takes(r)
  BY <1>0, <1>4 DEF Takes, Still, NextNone, NextJob, ClaimReply, PostAck, PostRejected, ReconcileReply,
                    Take, Pause, Deactivate, Goto, disk
<1> QED
  BY <1>1, <1>2, <1>3, <1>4 DEF Moves

\* A step that leaves the workers alone leaves each of them alone.
LEMMA NoneMoves ==
  ASSUME UNCHANGED worker, NEW s \in Runners
  PROVE  Still(s)
  BY DEF worker, Still

\* What sending a request changes.
LEMMA Sent ==
  ASSUME DispatchTypeOK, NEW r \in Runners, NEW q, NEW p, Send(r, q, p)
  PROVE  \E h \in Handlers :
           /\ phase[h] = "idle" /\ phase'[h] = FirstPhase(q) /\ req'[h] = q
           /\ q \notin NextRequests => job[q.job].estado # "NONE"
           /\ \A g \in Handlers : g # h => Untouched(g)
           /\ reply' = reply /\ seen' = seen /\ job' = job /\ intent' = intent
           /\ awaits'[r] = h /\ pc'[r] = p
           /\ Receive(h, q)
<1>0. /\ pc \in [Runners -> Points] /\ awaits \in [Runners -> Handlers \cup {NoHandler}]
      /\ req \in [Handlers -> Requests \cup {NoRequest}]
      /\ phase \in [Handlers -> {"idle", "load", "recover", "main", "scan", "read", "lock", "commit", "reply"}]
  BY DEF DispatchTypeOK, TypeOK
<1>1. PICK h \in Handlers : Receive(h, q) /\ awaits' = [awaits EXCEPT ![r] = h] /\ Goto(r, p)
  BY DEF Send
<1> WITNESS h \in Handlers
<1> QED
  BY <1>0, <1>1 DEF Receive, Goto, Untouched, tables

\* What reading a response changes.
LEMMA Taken ==
  ASSUME DispatchTypeOK, NEW r \in Runners, NEW p, Take(r, p)
  PROVE  /\ pc[r] = p /\ awaits[r] \in Handlers /\ phase[awaits[r]] = "reply"
         /\ phase'[awaits[r]] = "idle" /\ req'[awaits[r]] = NoRequest
         /\ \A g \in Handlers : g # awaits[r] => Untouched(g)
         /\ job' = job /\ intent' = intent
         /\ awaits'[r] = NoHandler
         /\ Release(awaits[r])
<1>0. /\ awaits \in [Runners -> Handlers \cup {NoHandler}]
      /\ req \in [Handlers -> Requests \cup {NoRequest}] /\ reply \in [Handlers -> Replies]
      /\ phase \in [Handlers -> {"idle", "load", "recover", "main", "scan", "read", "lock", "commit", "reply"}]
      /\ seen \in [Handlers -> JobRows]
  BY DEF DispatchTypeOK, TypeOK
<1> QED
  BY <1>0 DEF Take, Release, Untouched, tables

\* The envelope being delivered is the one in the spool.
LEMMA SendingIt ==
  ASSUME NEW r \in Runners, SpoolOK(r), pc[r] \in Delivering
  PROVE  \E e \in Envelopes : spool[r] = {e} /\ active[r] = LeaseIn(e) /\ Sending(r) = e
<1>1. PICK e \in Envelopes : spool[r] = {e} /\ active[r] = LeaseIn(e)
  BY DEF SpoolOK, Delivering
<1>2. Sending(r) = e
  BY <1>1 DEF Sending, LeaseIn
<1> QED
  BY <1>1, <1>2

\* A worker that knows a job knows a lease of it, and a claim file that is
\* present names a job and an attempt.
LEMMA ActiveType ==
  ASSUME DispatchTypeOK, NEW r \in Runners
  PROVE  /\ active[r] # NoJob => active[r] \in [job : Jobs, lease : Leases]
         /\ claimFile[r] # NoFile => claimFile[r] \in [job : Jobs, id : IntentIds]
  BY DEF DispatchTypeOK

\* What stands for no file, no attempt and no lease is none of them.
LEMMA NothingNamed == 0 \notin Jobs /\ 0 \notin IntentIds /\ NoLease \notin Leases
  BY JobsAssumption, IdsAssumption DEF Leases, NoLease

\* The composition only ever makes the queue take steps of its own.
LEMMA QueueStep ==
  ASSUME DispatchTypeOK, Workers, DispatchNext
  PROVE  Next \/ UNCHANGED vars
<1>1. ASSUME NEW r \in Runners, Moves(r) PROVE Next \/ UNCHANGED vars
  <2>0. WorkerOK(r)
    BY DEF Workers
  <2>1. CASE Local(r)
    BY <2>1 DEF Local, PauseIdle, BusyRefused, TickRefused, Execute, Flush, ConfirmIntent,
                UnlinkSpool, GiveUp, BusyLost, Crash
  <2>2. CASE Renews(r)
    <3>1. active[r] # NoJob
      BY <2>0, <2>2 DEF Renews, BusyAccepted, TickAccepted, WorkerOK, SpoolOK, Delivering
    <3>2. active[r].job \in Jobs /\ active[r].lease \in Leases
      BY <3>1, ActiveType
    <3>3. Heartbeat(r, active[r].job, active[r].lease)
      BY <2>2 DEF Renews, BusyAccepted, TickAccepted, Renew
    <3> QED
      BY <3>2, <3>3 DEF Next
  <2>3. ASSUME NEW q \in Requests, NEW p, Send(r, q, p) PROVE Next
    BY <2>3 DEF Send, Next
  <2>4. CASE Sends(r)
    <3>1. CASE SendNext(r)
      <4>1. [op |-> "next", runner |-> r] \in Requests
        BY DEF Requests, NextRequests
      <4> QED
        BY <2>3, <3>1, <4>1 DEF SendNext
    <3>2. ASSUME claimFile[r] # NoFile, NEW op \in {"claim", "reconcile"}
          PROVE  [op |-> op, runner |-> r, job |-> claimFile[r].job, id |-> claimFile[r].id] \in Requests
      <4>1. claimFile[r].job \in Jobs /\ claimFile[r].id \in IntentIds
        BY <3>2, ActiveType
      <4> QED
        BY <4>1 DEF Requests, ClaimRequests
    <3>3. CASE SendClaim(r)
      BY <2>0, <2>3, <3>2, <3>3 DEF SendClaim, WorkerOK
    <3>4. CASE SendReconcile(r)
      BY <2>3, <3>2, <3>4 DEF SendReconcile
    <3>5. CASE SendPost(r)
      <4>1. Sending(r) \in Envelopes
        BY <2>0, <3>5, SendingIt DEF SendPost, WorkerOK, Delivering
      <4>2. [op |-> "result", runner |-> r, job |-> Sending(r).job,
             lease |-> Sending(r).lease, outcome |-> Sending(r).outcome] \in Requests
        BY <4>1 DEF Requests, ResultRequests, Envelopes
      <4> QED
        BY <2>3, <3>5, <4>2 DEF SendPost
    <3> QED
      BY <2>4, <3>1, <3>3, <3>4, <3>5 DEF Sends
  <2>5. ASSUME NEW p, Take(r, p) PROVE Next
    BY <2>5, Taken DEF Next
  <2>6. CASE Takes(r)
    BY <2>5, <2>6 DEF Takes, NextNone, NextJob, ClaimReply, PostAck, PostRejected, ReconcileReply
  <2> QED
    BY <1>1, <2>1, <2>2, <2>4, <2>6 DEF Moves
<1>2. ASSUME NEW h \in Handlers, Process(h) PROVE Next
  BY <1>2 DEF Process, Next
<1>3. ASSUME Backstage PROVE Next \/ UNCHANGED vars
  BY <1>3 DEF Backstage, Next
<1> QED
  BY <1>1, <1>2, <1>3, DispatchSteps

-------------------------------------------------------------------------------

(***************************************************************************)
(* The worker's own state.                                                 *)
(***************************************************************************)

\* Every step of a worker keeps its state in order.
LEMMA WorkerNext ==
  ASSUME DispatchTypeOK, NEW r \in Runners, Moves(r), WorkerOK(r), AwaitOK(r), FileOK(r), HoldOK(r),
         Answers
  PROVE  WorkerOK(r)'
<1> USE DEF Delivering, Waiting
<1>0. /\ pc \in [Runners -> Points] /\ awaits \in [Runners -> Handlers \cup {NoHandler}]
      /\ active \in [Runners -> [job : Jobs, lease : Leases] \cup {NoJob}]
      /\ beating \in [Runners -> BOOLEAN] /\ posts \in [Runners -> 0 .. MaxPosts]
      /\ claimFile \in [Runners -> [job : Jobs, id : IntentIds] \cup {NoFile}]
      /\ spool \in [Runners -> SUBSET Envelopes] /\ quarantine \in [Runners -> SUBSET Envelopes]
      /\ receipt \in [Runners -> {"none", "ready", "busy"}]
      /\ MaxPosts \in Nat \ {0}
  BY BoundsAssumption DEF DispatchTypeOK
<1>1. CASE PauseIdle(r)
  BY <1>0, <1>1 DEF PauseIdle, Idle, Pause, memory, WorkerOK, SpoolOK
<1>2. CASE BusyRefused(r) \/ BusyLost(r)
  BY <1>0, <1>2 DEF BusyRefused, BusyLost, Deactivate, Goto, disk, WorkerOK, SpoolOK
<1>3. CASE TickRefused(r)
  BY <1>0, <1>3 DEF TickRefused, disk, WorkerOK, SpoolOK
<1>4. CASE Execute(r)
  <2>1. spool[r] = {} /\ active[r] # NoJob /\ awaits[r] = NoHandler
    BY <1>4 DEF Execute, WorkerOK, SpoolOK
  <2>2. PICK outcome \in Outcomes : spool' = [spool EXCEPT ![r] = @ \cup {Envelope(r, outcome)}]
    BY <1>4 DEF Execute
  <2>3. Envelope(r, outcome) \in Envelopes /\ active[r] = LeaseIn(Envelope(r, outcome))
    BY <2>1, ActiveType DEF Envelope, Envelopes, LeaseIn
  <2>4. spool'[r] = {Envelope(r, outcome)}
    BY <1>0, <2>1, <2>2
  <2>5. SpoolOK(r)'
    BY <1>0, <1>4, <2>3, <2>4 DEF Execute, Goto, SpoolOK, LeaseIn
  <2> QED
    BY <1>0, <1>4, <2>1, <2>5 DEF Execute, Goto, WorkerOK
<1>5. CASE Flush(r)
  <2>1. PICK e \in Envelopes : spool[r] = {e}
    BY <1>5 DEF Flush, WorkerOK, SpoolOK
  <2>2. active'[r] = LeaseIn(e)
    BY <1>0, <1>5, <2>1 DEF Flush, LeaseIn
  <2>3. LeaseIn(e) # NoJob
    BY NothingNamed DEF LeaseIn, NoJob, Envelopes
  <2>4. SpoolOK(r)'
    BY <1>0, <1>5, <2>1, <2>2 DEF Flush, Goto, SpoolOK, disk, LeaseIn
  <2> QED
    BY <1>0, <1>5, <2>1, <2>2, <2>3, <2>4 DEF Flush, Goto, WorkerOK, disk
<1>6. CASE ConfirmIntent(r)
  BY <1>0, <1>6 DEF ConfirmIntent, Goto, WorkerOK, SpoolOK, LeaseIn
<1>7. CASE UnlinkSpool(r)
  <2>1. spool'[r] = {}
    BY <1>0, <1>7, SendingIt DEF UnlinkSpool, WorkerOK
  <2> QED
    BY <1>0, <1>7, <2>1 DEF UnlinkSpool, Goto, Deactivate, WorkerOK, SpoolOK
<1>8. CASE GiveUp(r)
  BY <1>0, <1>8 DEF GiveUp, Goto, Deactivate, WorkerOK, SpoolOK, LeaseIn, disk
<1>9. CASE Crash(r)
  BY <1>0, <1>9 DEF Crash, Goto, Deactivate, WorkerOK, SpoolOK, LeaseIn
<1>10. CASE BusyAccepted(r)
  BY <1>0, <1>10 DEF BusyAccepted, Goto, disk, WorkerOK, SpoolOK
<1>11. CASE TickAccepted(r)
  BY <1>0, <1>11 DEF TickAccepted, worker, WorkerOK, SpoolOK
<1>12. ASSUME NEW q, NEW p, Send(r, q, p) PROVE awaits'[r] # NoHandler /\ pc'[r] = p
  BY <1>12, Sent, NoHandlerAssumption
<1>13. CASE SendNext(r)
  BY <1>0, <1>12, <1>13 DEF SendNext, Idle, Pause, WorkerOK, SpoolOK
<1>14. CASE SendClaim(r)
  BY <1>0, <1>12, <1>14 DEF SendClaim, disk, WorkerOK, SpoolOK
<1>15. CASE SendPost(r)
  BY <1>0, <1>12, <1>15 DEF SendPost, disk, WorkerOK, SpoolOK, LeaseIn
<1>16. CASE SendReconcile(r)
  BY <1>0, <1>12, <1>16 DEF SendReconcile, Pause, WorkerOK, SpoolOK
<1>17. ASSUME NEW p, Take(r, p) PROVE awaits'[r] = NoHandler /\ pc[r] = p
  BY <1>17, Taken
<1>18. CASE NextNone(r)
  BY <1>0, <1>17, <1>18 DEF NextNone, Goto, disk, WorkerOK, SpoolOK
<1>19. CASE NextJob(r)
  <2>1. pc[r] = "next" /\ awaits'[r] = NoHandler /\ Response(r).job # 0
    BY <1>17, <1>19, Taken, NothingNamed DEF NextJob, Response, Answers, AnswerOK
  <2>2. \A a : [job |-> Response(r).job, id |-> a] # NoFile
    BY <2>1 DEF NoFile
  <2>3. claimFile'[r] # NoFile \/ (update /\ claimFile'[r] = claimFile[r])
    BY <1>0, <1>19, <2>2 DEF NextJob
  <2>4. pc'[r] = IF update THEN "top" ELSE "sendclaim"
    BY <1>0, <1>19 DEF NextJob, Goto
  <2> QED
    BY <1>0, <1>19, <2>1, <2>3, <2>4 DEF NextJob, Pause, WorkerOK, SpoolOK
<1>20. CASE ClaimReply(r)
  <2>1. pc[r] = "claim" /\ awaits'[r] = NoHandler /\ claimFile[r].job # 0
    BY <1>17, <1>20, ActiveType, NothingNamed DEF ClaimReply, WorkerOK
  <2>2. \A l : [job |-> claimFile[r].job, lease |-> l] # NoJob
    BY <2>1 DEF NoJob
  <2>3. \/ pc'[r] = "busy" /\ active'[r] # NoJob
        \/ pc'[r] = "top" /\ active'[r] = active[r]
    BY <1>0, <1>20, <2>2 DEF ClaimReply, Goto
  <2> QED
    BY <1>0, <1>20, <2>1, <2>3 DEF ClaimReply, disk, WorkerOK, SpoolOK
<1>21. CASE PostAck(r)
  BY <1>0, <1>17, <1>21 DEF PostAck, Goto, disk, WorkerOK, SpoolOK
<1>22. CASE PostRejected(r)
  <2>0. pc[r] = "posting" /\ awaits'[r] = NoHandler
    BY <1>17, <1>22 DEF PostRejected
  <2>1. spool'[r] = {}
    BY <1>0, <1>22, <2>0, SendingIt DEF PostRejected, WorkerOK
  <2> QED
    BY <1>0, <1>22, <2>0, <2>1 DEF PostRejected, Goto, Deactivate, WorkerOK, SpoolOK
<1>23. CASE ReconcileReply(r)
  BY <1>0, <1>17, <1>23 DEF ReconcileReply, Goto, WorkerOK, SpoolOK
<1> QED
  BY <1>1, <1>2, <1>3, <1>4, <1>5, <1>6, <1>7, <1>8, <1>9, <1>10, <1>11, <1>13, <1>14, <1>15,
     <1>16, <1>18, <1>19, <1>20, <1>21, <1>22, <1>23
     DEF Moves, Local, Renews, Sends, Takes

\* A worker's step keeps the type of its state.
LEMMA MoveTypes ==
  ASSUME DispatchTypeOK, NEW r \in Runners, Moves(r), WorkerOK(r), AwaitOK(r), Answers
  PROVE  /\ pc' \in [Runners -> Points]
         /\ awaits' \in [Runners -> Handlers \cup {NoHandler}]
         /\ active' \in [Runners -> [job : Jobs, lease : Leases] \cup {NoJob}]
         /\ beating' \in [Runners -> BOOLEAN]
         /\ posts' \in [Runners -> 0 .. MaxPosts]
         /\ claimFile' \in [Runners -> [job : Jobs, id : IntentIds] \cup {NoFile}]
         /\ spool' \in [Runners -> SUBSET Envelopes]
         /\ quarantine' \in [Runners -> SUBSET Envelopes]
         /\ receipt' \in [Runners -> {"none", "ready", "busy"}]
<1> USE DEF Points
<1>0. /\ pc \in [Runners -> Points] /\ awaits \in [Runners -> Handlers \cup {NoHandler}]
      /\ active \in [Runners -> [job : Jobs, lease : Leases] \cup {NoJob}]
      /\ beating \in [Runners -> BOOLEAN] /\ posts \in [Runners -> 0 .. MaxPosts]
      /\ claimFile \in [Runners -> [job : Jobs, id : IntentIds] \cup {NoFile}]
      /\ spool \in [Runners -> SUBSET Envelopes] /\ quarantine \in [Runners -> SUBSET Envelopes]
      /\ receipt \in [Runners -> {"none", "ready", "busy"}]
      /\ MaxPosts \in Nat \ {0}
  BY BoundsAssumption DEF DispatchTypeOK
<1>1. CASE PauseIdle(r)
  BY <1>0, <1>1 DEF PauseIdle, Pause, memory
<1>2. CASE BusyRefused(r) \/ BusyLost(r) \/ TickRefused(r) \/ TickAccepted(r) \/ BusyAccepted(r)
  BY <1>0, <1>2 DEF BusyRefused, BusyLost, TickRefused, BusyAccepted, TickAccepted, Deactivate, Goto,
                    disk, worker
<1>3. CASE Execute(r)
  <2>1. \A outcome \in Outcomes : Envelope(r, outcome) \in Envelopes
    <3>1. active[r] # NoJob
      BY <1>3 DEF Execute, WorkerOK, SpoolOK, Delivering
    <3> QED
      BY <3>1, ActiveType DEF Envelope, Envelopes
  <2> QED
    BY <1>0, <1>3, <2>1 DEF Execute, Goto
<1>4. CASE Flush(r)
  <2>1. \A e \in spool[r] : [job |-> e.job, lease |-> e.lease] \in [job : Jobs, lease : Leases]
    BY <1>0 DEF Envelopes
  <2> QED
    BY <1>0, <1>4, <2>1 DEF Flush, Goto, disk
<1>5. CASE ConfirmIntent(r)
  BY <1>0, <1>5 DEF ConfirmIntent, Goto
<1>6. CASE UnlinkSpool(r)
  BY <1>0, <1>6 DEF UnlinkSpool, Goto, Deactivate
<1>15. CASE GiveUp(r)
  <2>1. pc' \in [Runners -> Points]
    BY <1>0, <1>15 DEF GiveUp, Goto
  <2>2. /\ active' \in [Runners -> [job : Jobs, lease : Leases] \cup {NoJob}]
        /\ beating' \in [Runners -> BOOLEAN]
    BY <1>0, <1>15 DEF GiveUp, Deactivate
  <2> QED
    BY <1>0, <1>15, <2>1, <2>2 DEF GiveUp, disk
<1>16. CASE Crash(r)
  BY <1>0, <1>16 DEF Crash, Goto, Deactivate
<1>7. ASSUME NEW q, NEW p \in Points, Send(r, q, p)
      PROVE  pc' \in [Runners -> Points] /\ awaits' \in [Runners -> Handlers \cup {NoHandler}]
  BY <1>0, <1>7 DEF Send, Goto
<1>8. CASE SendNext(r) \/ SendClaim(r) \/ SendReconcile(r)
  <2>1. pc' \in [Runners -> Points] /\ awaits' \in [Runners -> Handlers \cup {NoHandler}]
    BY <1>7, <1>8 DEF SendNext, SendClaim, SendReconcile
  <2>2. receipt' \in [Runners -> {"none", "ready", "busy"}]
    BY <1>0, <1>8 DEF SendNext, SendClaim, SendReconcile, Pause, disk
  <2> QED
    BY <1>0, <1>8, <2>1, <2>2 DEF SendNext, SendClaim, SendReconcile, disk
<1>14. CASE SendPost(r)
  <2>1. pc' \in [Runners -> Points] /\ awaits' \in [Runners -> Handlers \cup {NoHandler}]
    BY <1>7, <1>14 DEF SendPost
  <2>2. posts' \in [Runners -> 0 .. MaxPosts]
    <3>1. posts[r] + 1 \in 0 .. MaxPosts
      BY <1>0, <1>14 DEF SendPost, WorkerOK
    <3> QED
      BY <1>0, <1>14, <3>1 DEF SendPost
  <2> QED
    BY <1>0, <1>14, <2>1, <2>2 DEF SendPost, disk
<1>9. ASSUME NEW p, Take(r, p) PROVE awaits' \in [Runners -> Handlers \cup {NoHandler}] /\ pc[r] = p
  BY <1>0, <1>9 DEF Take
<1>10. CASE NextNone(r) \/ PostAck(r) \/ ReconcileReply(r)
  BY <1>0, <1>9, <1>10 DEF NextNone, PostAck, ReconcileReply, Goto, disk
<1>11. CASE NextJob(r)
  <2>1. Response(r).job \in Jobs
    BY <1>11, Taken DEF NextJob, Response, Answers, AnswerOK
  <2>2. FreshIds(r) # {} => Oldest(FreshIds(r)) \in IntentIds
    <3>1. FreshIds(r) \in SUBSET IntentIds /\ FreshIds(r) \in SUBSET Nat
      BY IdsAssumption DEF FreshIds
    <3> QED
      BY <3>1, OldestNat
  <2>3. FreshIds(r) # {} =>
          [job |-> Response(r).job, id |-> Oldest(FreshIds(r))] \in [job : Jobs, id : IntentIds]
    BY <2>1, <2>2
  <2>4. claimFile' \in [Runners -> [job : Jobs, id : IntentIds] \cup {NoFile}]
    BY <1>0, <1>11, <2>3 DEF NextJob
  <2> QED
    BY <1>0, <1>9, <1>11, <2>4 DEF NextJob, Pause, Goto
<1>12. CASE ClaimReply(r)
  <2>1. /\ awaits[r] \in Handlers /\ phase[awaits[r]] = "reply" /\ pc[r] = "claim"
        /\ AnswerOK(awaits[r]) /\ reply[awaits[r]] \in Replies
    BY <1>12, Taken DEF ClaimReply, Answers, DispatchTypeOK, TypeOK
  <2>2. claimFile[r].job \in Jobs
    BY <2>1, ActiveType DEF WorkerOK
  <2>3. req[awaits[r]].op = "claim"
    BY <2>1, NoHandlerAssumption DEF AwaitOK, IntentOf
  <2>4. Response(r).kind = "granted" =>
          [job |-> claimFile[r].job, lease |-> Response(r).lease] \in [job : Jobs, lease : Leases]
    BY <2>1, <2>2, <2>3 DEF AnswerOK, Response, Replies
  <2>5. active' \in [Runners -> [job : Jobs, lease : Leases] \cup {NoJob}]
    BY <1>0, <1>12, <2>4 DEF ClaimReply
  <2> QED
    BY <1>0, <1>9, <1>12, <2>5 DEF ClaimReply, Goto, disk
<1>13. CASE PostRejected(r)
  <2>1. Sending(r) \in Envelopes
    BY <1>9, <1>13, SendingIt DEF PostRejected, WorkerOK, Delivering
  <2> QED
    BY <1>0, <1>9, <1>13, <2>1 DEF PostRejected, Goto, Deactivate
<1> QED
  BY <1>1, <1>2, <1>3, <1>4, <1>5, <1>6, <1>7, <1>8, <1>10, <1>11, <1>12, <1>13, <1>14,
     <1>15, <1>16
     DEF Moves, Local, Renews, Sends, Takes

\* What a request in flight and a row's result would be as an envelope.
LEMMA ResultEnvelope ==
  ASSUME NEW q \in ResultRequests
  PROVE  EnvelopeOf(q.job, Recorded(q)) \in Envelopes
  BY DEF ResultRequests, EnvelopeOf, Recorded, Envelopes

\* The bounds and the history.
LEMMA BoundTypes ==
  ASSUME DispatchTypeOK, DispatchNext
  PROVE  /\ update' \in BOOLEAN
         /\ faults' \in 0 .. MaxFaults /\ admin' \in 0 .. MaxAdmin /\ updates' \in 0 .. MaxUpdates
<1>0. /\ update \in BOOLEAN
      /\ faults \in 0 .. MaxFaults /\ admin \in 0 .. MaxAdmin /\ updates \in 0 .. MaxUpdates
      /\ MaxFaults \in Nat /\ MaxAdmin \in Nat /\ MaxUpdates \in Nat
  BY BoundsAssumption DEF DispatchTypeOK
<1>1. CASE \/ \E r \in Runners : Work(r)
           \/ \E h \in Handlers : Process(h) \/ Drop(h)
           \/ \E j \in Jobs : Expire(j)
  BY <1>0, <1>1 DEF Work, Process, Drop, Expire, bounds
<1>2. CASE \E r \in Runners : Fault(r)
  BY <1>0, <1>2 DEF Fault
<1>3. CASE Administer
  BY <1>0, <1>3 DEF Administer
<1>4. CASE RequestUpdate
  <2>1. updates' \in 0 .. MaxUpdates /\ UNCHANGED <<faults, admin>> /\ update' = TRUE
    BY <1>0, <1>4 DEF RequestUpdate
  <2> QED
    BY <1>0, <2>1
<1>5. CASE EndUpdate
  <2>1. UNCHANGED <<faults, admin, updates>> /\ update' = FALSE
    BY <1>5 DEF EndUpdate, bounds
  <2> QED
    BY <1>0, <2>1
<1> QED
  BY <1>1, <1>2, <1>3, <1>4, <1>5 DEF DispatchNext

-------------------------------------------------------------------------------

(***************************************************************************)
(* Requests and who waits for them.                                        *)
(***************************************************************************)

\* A worker's step takes an unused connection, gives one back, or leaves all
\* handlers alone.
LEMMA MoveFrame ==
  ASSUME DispatchTypeOK, NEW r \in Runners, Moves(r), NEW g \in Handlers
  PROVE  \/ Untouched(g)
         \/ phase[g] = "idle" /\ phase'[g] # "idle" /\ awaits'[r] = g /\ Sends(r)
         \/ /\ awaits[r] = g /\ awaits'[r] = NoHandler /\ phase[g] = "reply"
            /\ req'[g] = NoRequest /\ phase'[g] = "idle"
<1>1. CASE Local(r)
  <2>1. UNCHANGED vars
    BY <1>1 DEF Local, PauseIdle, BusyRefused, TickRefused, Execute, Flush, ConfirmIntent,
                UnlinkSpool, GiveUp, BusyLost, Crash
  <2> QED
    BY <2>1 DEF vars, Untouched
<1>2. CASE Renews(r)
  <2>1. UNCHANGED tasks
    BY <1>2 DEF Renews, BusyAccepted, TickAccepted, Renew, Heartbeat
  <2> QED
    BY <2>1 DEF tasks, Untouched
<1>3. ASSUME Sends(r), NEW q, NEW p, Send(r, q, p)
      PROVE  Untouched(g) \/ (phase[g] = "idle" /\ phase'[g] # "idle" /\ awaits'[r] = g)
  BY <1>3, Sent DEF FirstPhase
<1>4. CASE Sends(r)
  <2>1. \E q, p : Send(r, q, p)
    BY <1>4 DEF Sends, SendNext, SendClaim, SendPost, SendReconcile
  <2> QED
    BY <1>3, <1>4, <2>1
<1>5. CASE Takes(r)
  <2>1. \E p : Take(r, p)
    BY <1>5 DEF Takes, NextNone, NextJob, ClaimReply, PostAck, PostRejected, ReconcileReply
  <2> QED
    BY <2>1, Taken
<1> QED
  BY <1>1, <1>2, <1>4, <1>5 DEF Moves

\* The platform drops what nobody waits for.
LEMMA BackstageFrame ==
  ASSUME DispatchTypeOK, Backstage, NEW g \in Handlers
  PROVE  Untouched(g) \/ (Orphan(g) /\ Release(g) /\ req'[g] = NoRequest /\ phase'[g] = "idle")
<1>0. /\ phase \in [Handlers -> {"idle", "load", "recover", "main", "scan", "read", "lock", "commit", "reply"}]
      /\ req \in [Handlers -> Requests \cup {NoRequest}]
      /\ reply \in [Handlers -> Replies] /\ seen \in [Handlers -> JobRows]
  BY DEF DispatchTypeOK, TypeOK
<1>1. ASSUME NEW h \in Handlers, Orphan(h), Release(h)
      PROVE  Untouched(g) \/ (Orphan(g) /\ Release(g) /\ req'[g] = NoRequest /\ phase'[g] = "idle")
  BY <1>0, <1>1 DEF Release, Untouched
<1>2. ASSUME UNCHANGED tasks \/ UNCHANGED vars PROVE Untouched(g)
  BY <1>2 DEF tasks, vars, Untouched
<1> QED
  BY <1>1, <1>2 DEF Backstage, Admin, LeaseExpires, CancelRun, ChangeBuild, CreateJob, ChangeAuthority

\* What a worker does with the connection it waits on.
LEMMA MoveAwaits ==
  ASSUME DispatchTypeOK, NEW r \in Runners, Moves(r), WorkerOK(r)
  PROVE  \/ awaits'[r] = NoHandler
         \/ /\ awaits'[r] = awaits[r] /\ pc'[r] = pc[r] /\ claimFile'[r] = claimFile[r]
            /\ spool'[r] = spool[r]
         \/ phase[awaits'[r]] = "idle" /\ Sends(r)
<1>0. /\ pc \in [Runners -> Points] /\ awaits \in [Runners -> Handlers \cup {NoHandler}]
      /\ claimFile \in [Runners -> [job : Jobs, id : IntentIds] \cup {NoFile}]
      /\ spool \in [Runners -> SUBSET Envelopes]
  BY DEF DispatchTypeOK
<1>1. CASE TickRefused(r) \/ TickAccepted(r)
  BY <1>1 DEF TickRefused, TickAccepted, disk, worker
<1>2. CASE \/ PauseIdle(r) \/ BusyRefused(r) \/ Execute(r) \/ Flush(r) \/ ConfirmIntent(r)
           \/ UnlinkSpool(r) \/ BusyLost(r) \/ BusyAccepted(r)
  <2>1. pc[r] \notin Waiting
    BY <1>2 DEF PauseIdle, BusyRefused, Execute, Flush, ConfirmIntent, UnlinkSpool, BusyLost,
                BusyAccepted, Idle, Waiting
  <2>2. awaits'[r] = awaits[r]
    BY <1>2 DEF PauseIdle, BusyRefused, Execute, Flush, ConfirmIntent, UnlinkSpool, BusyLost,
                BusyAccepted, memory
  <2> QED
    BY <2>1, <2>2 DEF WorkerOK
<1>3. CASE GiveUp(r) \/ Crash(r)
  BY <1>0, <1>3 DEF GiveUp, Crash
<1>4. CASE Sends(r)
  <2>1. \E q, p : Send(r, q, p)
    BY <1>4 DEF Sends, SendNext, SendClaim, SendPost, SendReconcile
  <2> QED
    BY <1>4, <2>1, Sent
<1>5. CASE Takes(r)
  <2>1. \E p : Take(r, p)
    BY <1>5 DEF Takes, NextNone, NextJob, ClaimReply, PostAck, PostRejected, ReconcileReply
  <2> QED
    BY <2>1, Taken
<1> QED
  BY <1>1, <1>2, <1>3, <1>4, <1>5 DEF Moves, Local, Renews

\* A request somebody keeps waiting for is disturbed by nobody but its handler.
LEMMA AwaitedKept ==
  ASSUME Inv, DispatchTypeOK, Workers, DispatchNext,
         NEW s \in Runners, NEW h \in Handlers, awaits[s] = h, awaits'[s] = h
  PROVE  /\ req'[h] = req[h] /\ phase'[h] # "idle"
         /\ Untouched(h) \/ Process(h)
<1>0. phase[h] # "idle" /\ h # NoHandler /\ \A v \in Runners : awaits[v] = h => v = s
  BY NoHandlerAssumption DEF Workers, AwaitOK
<1>1. ASSUME NEW r \in Runners, Moves(r) PROVE Untouched(h)
  BY <1>0, <1>1, MoveFrame
<1>2. ASSUME NEW g \in Handlers, Process(g) PROVE req'[h] = req[h] /\ (Untouched(h) \/ Process(h))
                                                 /\ phase'[h] # "idle"
  BY <1>0, <1>2, StepFrame DEF Process, Untouched
<1>3. ASSUME Backstage PROVE Untouched(h)
  BY <1>3, BackstageFrame DEF Orphan
<1> QED
  BY <1>0, <1>1, <1>2, <1>3, DispatchSteps DEF Untouched

\* Nobody comes to wait for a request another worker waits for.
LEMMA AwaitedAlone ==
  ASSUME Inv, DispatchTypeOK, Workers, DispatchNext,
         NEW s \in Runners, NEW h \in Handlers, awaits[s] = h, NEW v \in Runners, awaits'[v] = h
  PROVE  v = s
<1>0. phase[h] # "idle" /\ h # NoHandler /\ \A u \in Runners : awaits[u] = h => u = s
  BY NoHandlerAssumption DEF Workers, AwaitOK
<1>1. CASE Moves(v)
  <2>1. WorkerOK(v)
    BY DEF Workers
  <2> QED
    BY <1>0, <1>1, <2>1, MoveAwaits
<1>2. CASE Still(v)
  BY <1>0, <1>2 DEF Still
<1>3. UNCHANGED worker => Still(v)
  BY NoneMoves
<1>4. Process(h) => UNCHANGED worker
  BY DEF Process
<1> QED
  BY <1>1, <1>2, <1>3, <1>4, DispatchSteps, OneMoves DEF Process

\* A worker waits for the request it sent.
LEMMA AwaitNext ==
  ASSUME Inv, DispatchTypeOK, Workers, DispatchNext, NEW s \in Runners
  PROVE  AwaitOK(s)'
<1> DEFINE h == awaits'[s]
<1>0. /\ awaits[s] \in Handlers \cup {NoHandler} /\ WorkerOK(s) /\ AwaitOK(s)
      /\ pc[s] \in Points
  BY DEF DispatchTypeOK, Workers
<1>1. CASE h = NoHandler
  BY <1>1 DEF AwaitOK
<1>2. CASE /\ h # NoHandler /\ h = awaits[s] /\ pc'[s] = pc[s] /\ claimFile'[s] = claimFile[s]
           /\ spool'[s] = spool[s]
  <2>1. h \in Handlers
    BY <1>0, <1>2
  <2>2. req'[h] = req[h] /\ phase'[h] # "idle"
    BY <1>2, <2>1, AwaitedKept
  <2>3. \A v \in Runners : awaits'[v] = h => v = s
    BY <1>2, <2>1, AwaitedAlone
  <2> QED
    BY <1>0, <1>2, <2>2, <2>3 DEF AwaitOK
<1>3. ASSUME Moves(s), NEW q, NEW p, Send(s, q, p)
      PROVE  /\ req'[h] = q /\ phase'[h] # "idle" /\ pc'[s] = p
             /\ \A v \in Runners : awaits'[v] = h => v = s
  <2>1. /\ h \in Handlers /\ phase[h] = "idle" /\ req'[h] = q /\ phase'[h] = FirstPhase(q)
        /\ pc'[s] = p
    BY <1>3, Sent
  <2>2. ASSUME NEW v \in Runners, v # s, awaits'[v] = h PROVE FALSE
    <3>1. awaits[v] = h /\ AwaitOK(v)
      BY <1>3, <2>2, OneMoves DEF Still, Workers
    <3> QED
      BY <2>1, <3>1, NoHandlerAssumption DEF AwaitOK
  <2> QED
    BY <2>1, <2>2 DEF FirstPhase
<1>4. ASSUME Sends(s) PROVE AwaitOK(s)'
  <2>0. Moves(s)
    BY <1>4 DEF Moves
  <2>1. CASE SendNext(s)
    BY <1>3, <2>0, <2>1 DEF SendNext, AwaitOK, NextOf
  <2>2. CASE SendClaim(s)
    <3>1. claimFile'[s] = claimFile[s]
      BY <2>2 DEF SendClaim, disk
    <3> QED
      BY <1>3, <2>0, <2>2, <3>1 DEF SendClaim, AwaitOK, IntentOf
  <2>3. CASE SendReconcile(s)
    <3>1. claimFile'[s] = claimFile[s]
      BY <2>3 DEF SendReconcile
    <3> QED
      BY <1>3, <2>0, <2>3, <3>1 DEF SendReconcile, AwaitOK, IntentOf
  <2>4. CASE SendPost(s)
    <3>1. PICK e \in Envelopes : spool[s] = {e} /\ Sending(s) = e
      BY <1>0, <2>4, SendingIt DEF SendPost, WorkerOK, Delivering
    <3>2. e \in spool'[s]
      BY <2>4, <3>1 DEF SendPost, disk
    <3>3. pc'[s] = "posting" /\ req'[h] = PostOf(s, e) /\ phase'[h] # "idle"
          /\ \A v \in Runners : awaits'[v] = h => v = s
      BY <1>3, <2>0, <2>4, <3>1 DEF SendPost, PostOf
    <3> QED
      BY <3>2, <3>3 DEF AwaitOK
  <2> QED
    BY <1>4, <2>1, <2>2, <2>3, <2>4 DEF Sends
<1>5. CASE Still(s)
  BY <1>1, <1>2, <1>5 DEF Still
<1>6. CASE Moves(s)
  BY <1>0, <1>1, <1>2, <1>4, <1>6, MoveAwaits
<1>7. UNCHANGED worker => Still(s)
  BY NoneMoves
<1> QED
  BY <1>5, <1>6, <1>7, DispatchSteps, OneMoves DEF Process

-------------------------------------------------------------------------------

(***************************************************************************)
(* What the backend does to attempts, rows and the history.                *)
(***************************************************************************)

\* A handler changes no attempt but the one its request names.
LEMMA StepIntent ==
  ASSUME Inv, NEW h \in Handlers, Step(h), NEW r \in Runners, NEW a \in IntentIds
  PROVE  \/ intent'[r][a] = intent[r][a]
         \/ /\ req[h] \in ClaimRequests /\ req[h].runner = r /\ req[h].id = a
            /\ intent'[r][a].job = req[h].job /\ intent'[r][a].state # "NONE"
            /\ ClaimGrant(h) \/ intent'[r][a].state = "CLOSED"
<1>0. intent \in [Runners -> [IntentIds -> IntentRows]]
  BY DEF Inv, TypeOK
<1>1. CASE ClaimGrant(h)
  <2>1. req[h] \in ClaimRequests /\ req[h].runner \in Runners /\ req[h].id \in IntentIds
    BY <1>1, ClaimFields DEF ClaimGrant
  <2> QED
    BY <1>0, <1>1, <2>1 DEF ClaimGrant
<1>2. CASE ClaimRefuse(h) \/ ReconcileClose(h)
  <2>1. req[h] \in ClaimRequests /\ req[h].runner \in Runners /\ req[h].id \in IntentIds
    BY <1>2, ClaimFields DEF ClaimRefuse, ReconcileClose
  <2>2. Close(req[h].runner, req[h].id, req[h].job)
    BY <1>2 DEF ClaimRefuse, ReconcileClose
  <2> QED
    BY <1>0, <2>1, <2>2 DEF Close
<1>3. CASE UNCHANGED intent
  BY <1>3
<1> QED
  BY <1>1, <1>2, <1>3
     DEF Step, ClaimLoad, RecoverStale, NextRead, NextBlock, NextAnswer, IntentMismatch,
         ClaimRepeat, ReconcileWait, LegacyClaim, ResultRead, ResultRepeat, ResultInactiveBuild,
         ResultDecide, ResultCommit, tables

\* A handler counts an attempt only by granting a claim, and records no result
\* but the one of its request.
LEMMA StepJob ==
  ASSUME Inv, NEW h \in Handlers, Step(h), NEW j \in Jobs
  PROVE  /\ \/ job'[j].attempts = job[j].attempts
            \/ j = req[h].job /\ (ClaimGrant(h) \/ LegacyClaim(h))
         /\ \/ job'[j].result = job[j].result
            \/ /\ j = req[h].job /\ req[h] \in ResultRequests
               /\ job'[j].result = Recorded(req[h])
<1>0. job \in [Jobs -> JobRows] /\ job[j] \in JobRows
  BY DEF Inv, TypeOK
<1>1. CASE RecoverStale(h)
  <2>1. job'[j] = job[j] \/ job'[j] = Recovered(Held(h, j), job[j])
    BY <1>1 DEF RecoverStale
  <2> QED
    BY <1>0, <2>1, RecoveredFields
<1>2. CASE NextBlock(h)
  <2>1. Oldest(todo[h]) \in Jobs
    BY <1>2, OldestIn DEF NextBlock, Inv, TypeOK
  <2> QED
    BY <1>0, <1>2, <2>1 DEF NextBlock, JobRows
<1>3. CASE ClaimGrant(h) \/ LegacyClaim(h)
  <2>1. Assign(req[h].runner, req[h].job) \/ UNCHANGED job
    BY <1>3 DEF ClaimGrant, LegacyClaim
  <2>2. job'[j].result = job[j].result /\ (j # req[h].job => job'[j] = job[j])
    BY <1>0, <2>1 DEF Assign, JobRows
  <2> QED
    BY <1>3, <2>2
<1>4. CASE ResultInactiveBuild(h) \/ ResultCommit(h)
  <2>1. req[h] \in ResultRequests
    BY <1>4 DEF ResultInactiveBuild, ResultCommit, AtLock, Inv, Phases
  <2>2. \E e : job' = [job EXCEPT ![req[h].job] = Completed(@, req[h], e)]
    BY <1>4 DEF ResultInactiveBuild, ResultCommit
  <2> QED
    BY <1>0, <2>1, <2>2 DEF Completed, JobRows
<1>5. CASE UNCHANGED job
  BY <1>5
<1> QED
  BY <1>1, <1>2, <1>3, <1>4, <1>5
     DEF Step, ClaimLoad, NextRead, NextAnswer, IntentMismatch, ClaimRepeat, ClaimRefuse,
         ReconcileWait, ReconcileClose, ResultRead, ResultRepeat, ResultDecide, tables

\* Workers and the platform touch no attempt, count none and record nothing.
LEMMA OthersQuiet ==
  ASSUME DispatchTypeOK, (\E r \in Runners : Moves(r)) \/ Backstage
  PROVE  /\ intent' = intent
         /\ \A j \in Jobs : job'[j].attempts = job[j].attempts /\ job'[j].result = job[j].result
<1>0. job \in [Jobs -> JobRows]
  BY DEF DispatchTypeOK, TypeOK
<1> DEFINE Quiet == /\ intent' = intent
                    /\ \A j \in Jobs : job'[j].attempts = job[j].attempts
                                       /\ job'[j].result = job[j].result
<1>1. ASSUME UNCHANGED <<job, intent>> PROVE Quiet
  BY <1>1
<1>2. ASSUME NEW r, NEW k, NEW lease, Heartbeat(r, k, lease) PROVE Quiet
  BY <1>0, <1>2 DEF Heartbeat, JobRows
<1>3. ASSUME NEW k, LeaseExpires(k) \/ CreateJob(k) PROVE Quiet
  BY <1>0, <1>3 DEF LeaseExpires, CreateJob, JobRows
<1>4. ASSUME CancelRun PROVE Quiet
  BY <1>0, <1>4 DEF CancelRun, JobRows
<1>5. ASSUME NEW r \in Runners, Moves(r) PROVE Quiet
  <2>1. CASE Local(r)
    <3>1. UNCHANGED vars
      BY <2>1 DEF Local, PauseIdle, BusyRefused, TickRefused, Execute, Flush, ConfirmIntent,
                  UnlinkSpool, GiveUp, BusyLost, Crash
    <3> QED
      BY <1>1, <3>1 DEF vars
  <2>2. CASE Renews(r)
    BY <1>2, <2>2 DEF Renews, BusyAccepted, TickAccepted, Renew
  <2>3. CASE Sends(r)
    <3>1. \E q, p : Send(r, q, p)
      BY <2>3 DEF Sends, SendNext, SendClaim, SendPost, SendReconcile
    <3> QED
      BY <1>1, <3>1, Sent
  <2>4. CASE Takes(r)
    <3>1. \E p : Take(r, p)
      BY <2>4 DEF Takes, NextNone, NextJob, ClaimReply, PostAck, PostRejected, ReconcileReply
    <3> QED
      BY <1>1, <3>1, Taken
  <2> QED
    BY <1>5, <2>1, <2>2, <2>3, <2>4 DEF Moves
<1>6. ASSUME Backstage PROVE Quiet
  <2>1. UNCHANGED <<job, intent>> \/ CancelRun \/ \E k \in Jobs : LeaseExpires(k) \/ CreateJob(k)
    BY <1>6 DEF Backstage, Admin, Release, ChangeBuild, ChangeAuthority, tables, vars
  <2> QED
    BY <1>1, <1>3, <1>4, <2>1
<1> QED
  BY <1>5, <1>6

\* Membership in the set of all results, before and after a step.
LEMMA EverythingIs ==
  /\ \A e : e \in Everything <=>
       e \in recorded \/ \E r \in Runners : e \in spool[r] \/ e \in quarantine[r]
  /\ \A e : e \in Everything' <=>
       e \in recorded' \/ \E r \in Runners : e \in spool'[r] \/ e \in quarantine'[r]
  BY DEF Everything

\* What a handler adds to the history was on its way already.
LEMMA ProcessRecords ==
  ASSUME Inv, Traffic, NEW h \in Handlers, Process(h)
  PROVE  /\ recorded \subseteq recorded'
         /\ \A e \in recorded' : e \in recorded \/
              (req[h] \in ResultRequests /\ e = EnvelopeOf(req[h].job, Recorded(req[h])))
         /\ \A j \in Jobs : job'[j].result # job[j].result =>
              EnvelopeOf(j, job'[j].result) \in recorded'
         /\ Everything' = Everything
<1>1. recorded' = recorded \cup {EnvelopeOf(j, job'[j].result) :
                                   j \in {k \in Jobs : job'[k].result # job[k].result}}
  BY DEF Process, EnvelopeOf
<1>2. \A e \in recorded' : e \in recorded \/
        (req[h] \in ResultRequests /\ e = EnvelopeOf(req[h].job, Recorded(req[h])))
  BY <1>1, StepJob DEF Process
<1>3. \A e \in recorded' : e \in Everything
  BY <1>2, EverythingIs DEF Traffic, ResultOK
<1>4. UNCHANGED <<spool, quarantine>>
  BY DEF Process, worker
<1>5. \A e : e \in Everything' <=> e \in Everything
  BY <1>1, <1>3, <1>4, EverythingIs
<1> QED
  BY <1>1, <1>2, <1>5

\* A worker's step adds a result only by executing a job.
LEMMA MoveResults ==
  ASSUME DispatchTypeOK, NEW r \in Runners, Moves(r), UNCHANGED recorded, WorkerOK(r), SettledOK(r)
  PROVE  \/ Everything' = Everything /\ ~Execute(r)
         \/ Execute(r) /\ \E o \in Outcomes : /\ Everything' = Everything \cup {Envelope(r, o)}
                                              /\ spool'[r] = {Envelope(r, o)}
<1>0. /\ spool \in [Runners -> SUBSET Envelopes] /\ quarantine \in [Runners -> SUBSET Envelopes]
      /\ pc \in [Runners -> Points]
  BY DEF DispatchTypeOK
<1>1. \A s \in Runners : s # r => spool'[s] = spool[s] /\ quarantine'[s] = quarantine[s]
  BY OneMoves DEF Still
<1>2. CASE Execute(r)
  <2>1. PICK o \in Outcomes : spool' = [spool EXCEPT ![r] = @ \cup {Envelope(r, o)}]
    BY <1>2 DEF Execute
  <2>2. spool[r] = {} /\ spool'[r] = {Envelope(r, o)} /\ quarantine'[r] = quarantine[r]
    BY <1>0, <1>2, <2>1 DEF Execute, WorkerOK, SpoolOK, Delivering
  <2>3. \A e : e \in Everything' <=> e \in Everything \cup {Envelope(r, o)}
    BY <1>1, <2>2, EverythingIs
  <2> QED
    BY <1>2, <2>2, <2>3
<1>3. CASE PostRejected(r)
  <2>1. pc[r] = "posting" /\ spool'[r] = spool[r] \ {Sending(r)}
        /\ quarantine'[r] = quarantine[r] \cup {Sending(r)}
    BY <1>0, <1>3, Taken DEF PostRejected
  <2>2. Sending(r) \in spool[r]
    BY <2>1, SendingIt DEF WorkerOK, Delivering
  <2>3. \A e : e \in Everything' <=> e \in Everything
    BY <1>1, <2>1, <2>2, EverythingIs
  <2>4. ~Execute(r)
    BY <2>1 DEF Execute
  <2> QED
    BY <2>3, <2>4
<1>4. CASE UnlinkSpool(r)
  <2>1. pc[r] = "unlink" /\ spool'[r] = spool[r] \ {Sending(r)} /\ quarantine'[r] = quarantine[r]
    BY <1>0, <1>4 DEF UnlinkSpool
  <2>2. Sending(r) \in recorded
    BY <2>1, SendingIt DEF WorkerOK, Delivering, SettledOK
  <2>3. \A e : e \in Everything' <=> e \in Everything
    BY <1>1, <2>1, <2>2, EverythingIs
  <2>4. ~Execute(r)
    BY <2>1 DEF Execute
  <2> QED
    BY <2>3, <2>4
<1>5. CASE ~Execute(r) /\ spool'[r] = spool[r] /\ quarantine'[r] = quarantine[r]
  <2>1. \A e : e \in Everything' <=> e \in Everything
    BY <1>1, <1>5, EverythingIs
  <2> QED
    BY <1>5, <2>1
<1>6. Moves(r) => \/ Execute(r) \/ PostRejected(r) \/ UnlinkSpool(r)
                  \/ spool'[r] = spool[r] /\ quarantine'[r] = quarantine[r]
  BY DEF Moves, Local, Renews, Sends, Takes, PauseIdle, BusyRefused, TickRefused, Flush,
         ConfirmIntent, GiveUp, BusyLost, Crash, BusyAccepted, TickAccepted, SendNext, SendClaim,
         SendPost, SendReconcile, NextNone, NextJob, ClaimReply, PostAck, ReconcileReply, disk, worker
<1> QED
  BY <1>2, <1>3, <1>4, <1>5, <1>6

\* No result is ever lost, and only an execution makes a new one.
LEMMA ResultsNext ==
  ASSUME DispatchInv, DispatchNext
  PROVE  /\ recorded \subseteq recorded'
         /\ \/ Everything' = Everything
            \/ \E r \in Runners, o \in Outcomes :
                 /\ Execute(r) /\ Moves(r) /\ Everything' = Everything \cup {Envelope(r, o)}
                 /\ spool'[r] = {Envelope(r, o)}
<1>1. ASSUME NEW r \in Runners, Moves(r), UNCHANGED recorded
      PROVE  \/ Everything' = Everything
             \/ Execute(r) /\ \E o \in Outcomes : /\ Everything' = Everything \cup {Envelope(r, o)}
                                                  /\ spool'[r] = {Envelope(r, o)}
  BY <1>1, MoveResults DEF DispatchInv, Workers
<1>2. ASSUME NEW h \in Handlers, Process(h) PROVE recorded \subseteq recorded' /\ Everything' = Everything
  BY <1>2, ProcessRecords DEF DispatchInv, ClaimInv
<1>3. ASSUME UNCHANGED <<worker, recorded>> PROVE Everything' = Everything
  BY <1>3 DEF worker, Everything
<1> QED
  BY <1>1, <1>2, <1>3, DispatchSteps

\* Rows only move forward.
LEMMA RowsForward ==
  ASSUME DispatchInv, DispatchNext, NEW j \in Jobs
  PROVE  Carries(job[j], job'[j])
<1>1. Inv /\ job[j] \in JobRows
  BY DEF DispatchInv, ClaimInv, Inv, TypeOK
<1>2. CASE Next
  BY <1>1, <1>2, RowsCarry
<1>3. CASE UNCHANGED vars
  BY <1>1, <1>3, CarriesSame DEF vars
<1> QED
  BY <1>2, <1>3, QueueStep DEF DispatchInv

\* What can happen to a handler.
LEMMA HandlerChange ==
  ASSUME DispatchInv, DispatchNext, NEW g \in Handlers
  PROVE  \/ Untouched(g)
         \/ Process(g)
         \/ req'[g] = NoRequest /\ phase'[g] = "idle"
         \/ \E r \in Runners : Sends(r) /\ awaits'[r] = g /\ phase[g] = "idle" /\ phase'[g] # "idle"
<1>1. DispatchTypeOK /\ Inv
  BY DEF DispatchInv, ClaimInv
<1>2. ASSUME NEW h \in Handlers, Process(h), h # g PROVE Untouched(g)
  BY <1>1, <1>2, StepFrame DEF Process
<1> QED
  BY <1>1, <1>2, MoveFrame, BackstageFrame, DispatchSteps

\* The four requests a worker sends, and what it knows when it does.
LEMMA SentRequest ==
  ASSUME DispatchTypeOK, NEW r \in Runners, Sends(r), WorkerOK(r)
  PROVE  /\ awaits'[r] \in Handlers /\ phase[awaits'[r]] = "idle"
         /\ \A g \in Handlers : g # awaits'[r] => Untouched(g)
         /\ spool'[r] = spool[r] /\ claimFile'[r] = claimFile[r]
         /\ pc'[r] \in Waiting /\ phase'[awaits'[r]] \in {"load", "recover", "read"}
         /\ \/ req'[awaits'[r]] = NextOf(r)
            \/ /\ pc[r] = "sendclaim" /\ claimFile[r] # NoFile
               /\ req'[awaits'[r]] = IntentOf("claim", r, claimFile[r])
            \/ /\ claimFile[r] # NoFile
               /\ req'[awaits'[r]] = IntentOf("reconcile", r, claimFile[r])
            \/ /\ \E e \in Envelopes : e \in spool[r] /\ req'[awaits'[r]] = PostOf(r, e)
               /\ pc[r] = "post"
<1>1. ASSUME NEW q, NEW p, Send(r, q, p)
      PROVE  /\ awaits'[r] \in Handlers /\ phase[awaits'[r]] = "idle"
             /\ \A g \in Handlers : g # awaits'[r] => Untouched(g)
             /\ pc'[r] = p /\ phase'[awaits'[r]] \in {"load", "recover", "read"}
             /\ req'[awaits'[r]] = q
  BY <1>1, Sent DEF FirstPhase
<1>2. CASE SendNext(r)
  BY <1>1, <1>2 DEF SendNext, NextOf, Waiting
<1>3. CASE SendClaim(r)
  BY <1>1, <1>3 DEF SendClaim, IntentOf, Waiting, disk, WorkerOK
<1>4. CASE SendReconcile(r)
  BY <1>1, <1>4 DEF SendReconcile, IntentOf, Waiting
<1>5. CASE SendPost(r)
  <2>1. PICK e \in Envelopes : spool[r] = {e} /\ Sending(r) = e
    BY <1>5, SendingIt DEF SendPost, WorkerOK, Delivering
  <2>2. Send(r, PostOf(r, e), "posting") /\ UNCHANGED disk /\ pc[r] = "post"
    BY <1>5, <2>1 DEF SendPost, PostOf
  <2> QED
    BY <1>1, <2>1, <2>2 DEF disk, Waiting
<1> QED
  BY <1>2, <1>3, <1>4, <1>5 DEF Sends

-------------------------------------------------------------------------------

(***************************************************************************)
(* Results.                                                                *)
(***************************************************************************)

\* The lease a worker executes under was issued, and is the one its attempt
\* was granted.
LEMMA ExecuteHolds ==
  ASSUME DispatchInv, NEW r \in Runners, Execute(r)
  PROVE  /\ active[r] \in [job : Jobs, lease : Leases] /\ claimFile[r] # NoFile
         /\ claimFile[r].id \in IntentIds /\ claimFile[r].job = active[r].job
         /\ intent[r][claimFile[r].id].job = active[r].job
         /\ intent[r][claimFile[r].id].lease = active[r].lease
         /\ intent[r][claimFile[r].id].lease # NoLease
         /\ active[r].lease <= job[active[r].job].attempts
         /\ \A e \in Everything : ~(e.job = active[r].job /\ e.lease = active[r].lease)
<1>1. pc[r] = "execute" /\ WorkerOK(r) /\ HoldOK(r)
  BY DEF Execute, DispatchInv, Workers
<1>2. active[r] # NoJob
  BY <1>1 DEF WorkerOK, SpoolOK, Delivering
<1>3. active[r] \in [job : Jobs, lease : Leases]
  BY <1>2, ActiveType DEF DispatchInv
<1>4. /\ claimFile[r] # NoFile /\ claimFile[r].job = active[r].job
      /\ intent[r][claimFile[r].id].job = active[r].job
      /\ intent[r][claimFile[r].id].lease = active[r].lease
      /\ intent[r][claimFile[r].id].lease # NoLease
      /\ \A e \in Everything : ~(e.job = active[r].job /\ e.lease = active[r].lease)
  BY <1>1 DEF HoldOK, Holds, LeaseAt
<1>5. claimFile[r].id \in IntentIds
  BY <1>4, ActiveType DEF DispatchInv
<1>6. IntentOK(job, r, intent[r][claimFile[r].id])
  BY <1>5 DEF DispatchInv, ClaimInv, Intents
<1> QED
  BY <1>3, <1>4, <1>5, <1>6 DEF IntentOK

\* Every result is an envelope.
LEMMA EverythingType ==
  ASSUME DispatchTypeOK
  PROVE  Everything \subseteq Envelopes
  BY EverythingIs DEF DispatchTypeOK

\* The ledger stays complete.
LEMMA LedgerNext ==
  ASSUME DispatchInv, DispatchNext
  PROVE  LedgerOK'
<1>0. DispatchTypeOK /\ LedgerOK /\ recorded \subseteq recorded'
  BY ResultsNext DEF DispatchInv
<1>1. ASSUME NEW j \in Jobs, job'[j].result # NoResult
      PROVE  EnvelopeOf(j, job'[j].result) \in recorded'
  <2>1. CASE job'[j].result = job[j].result
    BY <1>0, <1>1, <2>1 DEF LedgerOK
  <2>2. ASSUME NEW h \in Handlers, Process(h), job'[j].result # job[j].result
        PROVE  EnvelopeOf(j, job'[j].result) \in recorded'
    BY <2>2, ProcessRecords DEF DispatchInv, ClaimInv
  <2>3. (\E r \in Runners : Moves(r)) \/ Backstage => job'[j].result = job[j].result
    BY <1>0, OthersQuiet
  <2> QED
    BY <2>1, <2>2, <2>3, DispatchSteps
<1>2. ASSUME NEW e \in Everything' PROVE e.lease <= job'[e.job].attempts
  <2>1. ASSUME e.job \in Jobs, e.lease \in Nat, e.lease <= job[e.job].attempts
        PROVE  e.lease <= job'[e.job].attempts
    BY <2>1, RowsForward DEF Carries
  <2>2. CASE e \in Everything
    <3>1. e.job \in Jobs /\ e.lease \in Nat
      BY <1>0, <2>2, EverythingType DEF Envelopes, Leases
    <3> QED
      BY <1>0, <2>1, <2>2, <3>1 DEF LedgerOK
  <2>3. ASSUME NEW r \in Runners, NEW o \in Outcomes, Execute(r), e = Envelope(r, o)
        PROVE  e.lease <= job'[e.job].attempts
    <3>1. e.job = active[r].job /\ e.lease = active[r].lease
      BY <2>3 DEF Envelope
    <3>2. e.job \in Jobs /\ e.lease \in Nat /\ e.lease <= job[e.job].attempts
      BY <2>3, <3>1, ExecuteHolds DEF Leases
    <3> QED
      BY <2>1, <3>2
  <2> QED
    BY <1>2, <2>2, <2>3, ResultsNext
<1> QED
  BY <1>1, <1>2 DEF LedgerOK

\* A lease yields one result: an execution starts from a lease nothing was
\* reported for.
LEMMA OneResultNext ==
  ASSUME DispatchInv, DispatchNext
  PROVE  OneResultPerLease'
<1>0. OneResultPerLease
  BY DEF DispatchInv
<1>1. CASE Everything' = Everything
  BY <1>0, <1>1 DEF OneResultPerLease
<1>2. ASSUME NEW r \in Runners, NEW o \in Outcomes, Execute(r),
             Everything' = Everything \cup {Envelope(r, o)}
      PROVE  OneResultPerLease'
  <2>1. \A e \in Everything : ~(e.job = Envelope(r, o).job /\ e.lease = Envelope(r, o).lease)
    BY <1>2, ExecuteHolds DEF Envelope
  <2> HIDE DEF Everything
  <2> QED
    BY <1>0, <1>2, <2>1 DEF OneResultPerLease
<1> QED
  BY <1>1, <1>2, ResultsNext

\* What a handler acknowledges is in the database.
LEMMA AckRecorded ==
  ASSUME DispatchInv, LedgerOK', recorded \subseteq recorded', NEW h \in Handlers, Process(h),
         req[h] \in ResultRequests, phase'[h] = "reply", reply'[h].kind = "ack"
  PROVE  EnvelopeOf(req[h].job, Recorded(req[h])) \in recorded'
<1> DEFINE q == req[h]
<1>0. /\ phase \in [Handlers -> {"idle", "load", "recover", "main", "scan", "read", "lock", "commit", "reply"}]
      /\ reply \in [Handlers -> Replies] /\ job \in [Jobs -> JobRows] /\ Step(h)
      /\ q.job \in Jobs /\ q.op = "result"
      /\ Recorded(q) # NoResult
  BY NothingNamed DEF DispatchInv, DispatchTypeOK, TypeOK, Process, ResultRequests, Recorded, NoResult
<1>1. ASSUME NEW k, Respond(h, k) PROVE reply'[h] = k
  BY <1>0, <1>1 DEF Respond
<1>2. CASE ResultRepeat(h)
  <2>1. seen[h].result = Recorded(q) /\ phase[h] = "lock"
    BY <1>2 DEF ResultRepeat, Acceptable, AtLock
  <2> QED
    BY <1>0, <2>1 DEF DispatchInv, Traffic, ResultOK
<1>3. CASE ResultCommit(h)
  <2>1. job'[q.job].result = Recorded(q)
    BY <1>0, <1>3 DEF ResultCommit, Completed, JobRows
  <2> QED
    BY <1>0, <2>1 DEF LedgerOK
<1>4. CASE \/ ClaimLoad(h) \/ RecoverStale(h) \/ NextRead(h) \/ NextBlock(h) \/ ResultDecide(h)
  BY <1>0, <1>4 DEF ClaimLoad, RecoverStale, NextRead, NextBlock, ResultDecide, Advance
<1>5. CASE ResultInactiveBuild(h)
  BY <1>1, <1>5 DEF ResultInactiveBuild, Answer
<1>6. CASE ResultRead(h)
  <2>1. CASE Acceptable(job[q.job], q)
    BY <1>0, <1>6, <2>1 DEF ResultRead, Advance
  <2>2. CASE ~Acceptable(job[q.job], q)
    BY <1>1, <1>6, <2>2 DEF ResultRead, Answer
  <2> QED
    BY <2>1, <2>2
<1>7. CASE \/ IntentMismatch(h) \/ ClaimGrant(h) \/ ClaimRepeat(h) \/ ClaimRefuse(h)
           \/ ReconcileWait(h) \/ ReconcileClose(h) \/ LegacyClaim(h)
  BY <1>0, <1>7 DEF IntentMismatch, ClaimGrant, ClaimRepeat, ClaimRefuse, ReconcileWait, ReconcileClose,
                    LegacyClaim, AtIntent
<1>8. CASE NextAnswer(h)
  BY <1>0, <1>8 DEF NextAnswer, DispatchInv, ClaimInv, Inv, Phases, NextRequests
<1> QED
  BY <1>0, <1>2, <1>3, <1>4, <1>5, <1>6, <1>7, <1>8 DEF Step

\* What a result handler loads for later use, the ledger holds.
LEMMA SeenRecorded ==
  ASSUME DispatchInv, recorded \subseteq recorded', NEW h \in Handlers, Process(h),
         req[h] \in ResultRequests, phase'[h] = "lock", seen'[h].result # NoResult
  PROVE  EnvelopeOf(req[h].job, seen'[h].result) \in recorded'
<1> DEFINE q == req[h]
<1>0. /\ phase \in [Handlers -> {"idle", "load", "recover", "main", "scan", "read", "lock", "commit", "reply"}]
      /\ seen \in [Handlers -> JobRows] /\ Step(h) /\ q.job \in Jobs /\ q.op = "result"
  BY DEF DispatchInv, DispatchTypeOK, TypeOK, Process, ResultRequests
<1>1. ASSUME NEW k, Respond(h, k) PROVE FALSE
  BY <1>0, <1>1 DEF Respond
<1>2. CASE ResultRead(h)
  <2>1. CASE Acceptable(job[q.job], q)
    <3>1. seen'[h] = job[q.job]
      BY <1>0, <1>2, <2>1 DEF ResultRead
    <3> QED
      BY <1>0, <3>1 DEF DispatchInv, LedgerOK
  <2>2. CASE ~Acceptable(job[q.job], q)
    BY <1>1, <1>2, <2>2 DEF ResultRead
  <2> QED
    BY <2>1, <2>2
<1>3. CASE ClaimLoad(h) \/ RecoverStale(h) \/ NextRead(h) \/ NextBlock(h) \/ ResultDecide(h)
  BY <1>0, <1>3 DEF ClaimLoad, RecoverStale, NextRead, NextBlock, ResultDecide, Advance
<1>4. CASE \/ NextAnswer(h) \/ IntentMismatch(h) \/ ClaimGrant(h) \/ ClaimRepeat(h)
           \/ ClaimRefuse(h) \/ ReconcileWait(h) \/ ReconcileClose(h) \/ LegacyClaim(h)
           \/ ResultRepeat(h) \/ ResultInactiveBuild(h) \/ ResultCommit(h)
  <2>1. \E k : Respond(h, k)
    BY <1>4 DEF NextAnswer, IntentMismatch, ClaimGrant, ClaimRepeat, ClaimRefuse, ReconcileWait,
                ReconcileClose, LegacyClaim, ResultRepeat, ResultInactiveBuild,
                ResultCommit
  <2> QED
    BY <1>1, <2>1
<1> QED
  BY <1>0, <1>2, <1>3, <1>4 DEF Step

\* An unused connection carries no request.
LEMMA QuietNext ==
  ASSUME DispatchInv, DispatchNext, NEW g \in Handlers
  PROVE  QuietOK(g)'
<1>1. ASSUME Process(g) PROVE phase'[g] # "idle"
  BY <1>1, StepFrame DEF Process, DispatchInv, ClaimInv
<1> QED
  BY <1>1, HandlerChange DEF QuietOK, Untouched, DispatchInv, Traffic

\* Results on their way stay known.
LEMMA ResultNext ==
  ASSUME DispatchInv, DispatchNext, LedgerOK', NEW g \in Handlers
  PROVE  ResultOK(g)'
<1>0. /\ recorded \subseteq recorded' /\ Everything \subseteq Everything' /\ ResultOK(g)
      /\ DispatchTypeOK /\ Inv /\ req[g] \in Requests \cup {NoRequest}
  BY ResultsNext DEF DispatchInv, Traffic, DispatchTypeOK, TypeOK, ClaimInv
<1>1. CASE Untouched(g)
  <2> HIDE DEF Everything
  <2> QED
    BY <1>0, <1>1 DEF Untouched, ResultOK
<1>2. CASE Process(g)
  <2>1. req'[g] = req[g]
    BY <1>0, <1>2, StepFrame DEF Process
  <2>2. req[g] \in ResultRequests => EnvelopeOf(req[g].job, Recorded(req[g])) \in Everything'
    BY <1>0 DEF ResultOK
  <2>3. /\ req[g] \in ResultRequests /\ phase'[g] = "reply" /\ reply'[g].kind = "ack" =>
             EnvelopeOf(req[g].job, Recorded(req[g])) \in recorded'
        /\ req[g] \in ResultRequests /\ phase'[g] = "lock" /\ seen'[g].result # NoResult =>
             EnvelopeOf(req[g].job, seen'[g].result) \in recorded'
    BY <1>0, <1>2, AckRecorded, SeenRecorded
  <2> QED
    BY <1>0, <2>1, <2>2, <2>3 DEF ResultOK
<1>3. CASE req'[g] = NoRequest
  BY <1>3 DEF ResultOK, NoRequest, ResultRequests
<1>4. ASSUME NEW r \in Runners, Sends(r), awaits'[r] = g PROVE ResultOK(g)'
  <2>0. WorkerOK(r)
    BY DEF DispatchInv, Workers
  <2>1. phase'[g] \in {"load", "recover", "read"}
    BY <1>0, <1>4, <2>0, SentRequest
  <2>2. CASE req'[g] = NextOf(r) \/ \E op \in {"claim", "reconcile"} : req'[g] = IntentOf(op, r, claimFile[r])
    BY <2>2 DEF ResultOK, NextOf, IntentOf, ResultRequests
  <2>3. ASSUME NEW e \in Envelopes, e \in spool[r], req'[g] = PostOf(r, e) PROVE ResultOK(g)'
    <3>1. EnvelopeOf(req'[g].job, Recorded(req'[g])) = e
      BY <2>3 DEF EnvelopeOf, Recorded, PostOf, Envelopes
    <3>2. e \in Everything'
      BY <1>0, <2>3, EverythingIs
    <3>3. req'[g].op = "result"
      BY <2>3 DEF PostOf
    <3> QED
      BY <2>1, <3>1, <3>2, <3>3 DEF ResultOK
  <2> QED
    BY <1>0, <1>4, <2>0, <2>2, <2>3, SentRequest
<1> QED
  BY <1>1, <1>2, <1>3, <1>4, HandlerChange

\* An acknowledged envelope is settled until it is unlinked.
LEMMA SettledNext ==
  ASSUME DispatchInv, DispatchNext, NEW s \in Runners
  PROVE  SettledOK(s)'
<1>0. /\ recorded \subseteq recorded' /\ DispatchTypeOK /\ WorkerOK(s) /\ SettledOK(s) /\ AwaitOK(s)
      /\ spool[s] \in SUBSET Envelopes /\ \A e \in spool[s] : e.job \in Jobs
  BY ResultsNext DEF DispatchInv, Workers, DispatchTypeOK, Envelopes
<1>1. \A j \in Jobs : IsTerminal(job[j]) => IsTerminal(job'[j])
  BY RowsForward DEF Carries
<1>2. CASE pc[s] \in {"confirm", "unlink"} /\ spool'[s] \subseteq spool[s]
  BY <1>0, <1>1, <1>2 DEF SettledOK
<1>3. CASE PostAck(s)
  <2>1. /\ awaits[s] \in Handlers /\ awaits[s] # NoHandler /\ pc[s] = "posting"
        /\ phase[awaits[s]] = "reply" /\ reply[awaits[s]].kind = "ack" /\ spool'[s] = spool[s]
    BY <1>0, <1>3, Taken, NoHandlerAssumption DEF PostAck, Response, disk
  <2>2. PICK e \in spool[s] : req[awaits[s]] = PostOf(s, e)
    BY <1>0, <2>1 DEF AwaitOK
  <2>3. spool[s] = {e}
    BY <1>0, <2>1, <2>2, SendingIt DEF WorkerOK, Delivering
  <2>4. /\ PostOf(s, e) \in ResultRequests /\ PostOf(s, e).op = "result" /\ PostOf(s, e).job = e.job
        /\ EnvelopeOf(e.job, Recorded(PostOf(s, e))) = e
    BY <1>0, <2>2 DEF PostOf, ResultRequests, Envelopes, EnvelopeOf, Recorded
  <2>5. e \in recorded
    BY <2>1, <2>2, <2>4 DEF DispatchInv, Traffic, ResultOK
  <2>6. IsTerminal(job[e.job])
    BY <2>1, <2>2, <2>4 DEF DispatchInv, ClaimInv, Answers, AnswerOK
  <2> QED
    BY <1>0, <1>1, <2>1, <2>3, <2>5, <2>6 DEF SettledOK
<1>4. CASE Still(s)
  <2>1. CASE pc[s] \in {"confirm", "unlink"}
    BY <1>2, <1>4, <2>1 DEF Still
  <2>2. CASE pc[s] \notin {"confirm", "unlink"}
    BY <1>4, <2>2 DEF Still, SettledOK
  <2> QED
    BY <2>1, <2>2
<1>5. CASE Moves(s)
  <2>0. pc \in [Runners -> Points]
    BY <1>0 DEF DispatchTypeOK
  <2>1. CASE \/ ConfirmIntent(s) \/ TickRefused(s) \/ TickAccepted(s) \/ PauseIdle(s)
    <3>1. pc[s] \in {"confirm", "unlink"} \/ pc'[s] \notin {"confirm", "unlink"}
      BY <2>0, <2>1 DEF ConfirmIntent, TickRefused, TickAccepted, PauseIdle, worker, memory
    <3>2. spool'[s] = spool[s]
      BY <2>1 DEF ConfirmIntent, TickRefused, TickAccepted, PauseIdle, worker, disk
    <3> QED
      BY <1>2, <3>1, <3>2 DEF SettledOK
  <2>2. CASE \/ BusyRefused(s) \/ Execute(s) \/ Flush(s) \/ UnlinkSpool(s) \/ GiveUp(s) \/ BusyLost(s)
             \/ Crash(s) \/ BusyAccepted(s)
    <3>1. pc'[s] \notin {"confirm", "unlink"}
      BY <2>0, <2>2 DEF BusyRefused, Execute, Flush, UnlinkSpool, GiveUp, BusyLost, Crash, BusyAccepted,
                        Goto
    <3> QED
      BY <3>1 DEF SettledOK
  <2>3. CASE Sends(s)
    BY <1>0, <2>3, SentRequest DEF SettledOK, Waiting
  <2>4. CASE \/ NextNone(s) \/ NextJob(s) \/ ClaimReply(s) \/ PostRejected(s) \/ ReconcileReply(s)
    <3>1. pc'[s] \notin {"confirm", "unlink"}
      BY <2>0, <2>4 DEF NextNone, NextJob, ClaimReply, PostRejected, ReconcileReply, Goto
    <3> QED
      BY <3>1 DEF SettledOK
  <2> QED
    BY <1>3, <1>5, <2>1, <2>2, <2>3, <2>4 DEF Moves, Local, Renews, Takes
<1>6. UNCHANGED worker => Still(s)
  BY NoneMoves
<1> QED
  BY <1>0, <1>4, <1>5, <1>6, DispatchSteps, OneMoves DEF Process

-------------------------------------------------------------------------------

(***************************************************************************)
(* Claim files and attempts.                                               *)
(***************************************************************************)

\* An attempt the backend knows keeps its job and its lease; a sealed one
\* stays sealed.
LEMMA IntentForward ==
  ASSUME DispatchInv, DispatchNext, NEW r \in Runners, NEW a \in IntentIds, intent[r][a].state # "NONE"
  PROVE  /\ intent'[r][a].job = intent[r][a].job /\ intent'[r][a].lease = intent[r][a].lease
         /\ intent'[r][a].state # "NONE"
         /\ intent[r][a].state = "CLOSED" => intent'[r][a].state = "CLOSED"
<1>1. Inv /\ Intents
  BY DEF DispatchInv, ClaimInv
<1>2. CASE Next
  BY <1>1, <1>2, IntentStable
<1>3. CASE UNCHANGED vars
  BY <1>3 DEF vars
<1> QED
  BY <1>2, <1>3, QueueStep DEF DispatchInv

\* Only the handler of its request changes an attempt.
LEMMA IntentChange ==
  ASSUME DispatchInv, DispatchNext, NEW r \in Runners, NEW a \in IntentIds
  PROVE  \/ intent'[r][a] = intent[r][a]
         \/ \E h \in Handlers :
              /\ Process(h) /\ req[h] \in ClaimRequests /\ req[h].runner = r /\ req[h].id = a
              /\ intent'[r][a].job = req[h].job /\ intent'[r][a].state # "NONE"
              /\ ClaimGrant(h) \/ intent'[r][a].state = "CLOSED"
<1>1. DispatchTypeOK /\ Inv
  BY DEF DispatchInv, ClaimInv
<1>2. ASSUME NEW h \in Handlers, Process(h)
      PROVE  \/ intent'[r][a] = intent[r][a]
             \/ /\ req[h] \in ClaimRequests /\ req[h].runner = r /\ req[h].id = a
                /\ intent'[r][a].job = req[h].job /\ intent'[r][a].state # "NONE"
                /\ ClaimGrant(h) \/ intent'[r][a].state = "CLOSED"
  BY <1>1, <1>2, StepIntent DEF Process
<1> QED
  BY <1>1, <1>2, OthersQuiet, DispatchSteps

\* The row of an attempt nobody asked for names no lease.
LEMMA IntentNames ==
  ASSUME Inv, NEW r \in Runners, NEW a \in IntentIds
  PROVE  /\ intent[r][a] \in IntentRows
         /\ intent[r][a].lease # NoLease => intent[r][a].state # "NONE"
         /\ intent[r][a].state \in {"NONE", "CLAIMED", "CLOSED"}
  BY DEF Inv, TypeOK, IntentRows, NoIntent

\* When the claim file changes.
LEMMA FileChange ==
  ASSUME DispatchTypeOK, NEW r \in Runners, Moves(r)
  PROVE  \/ claimFile'[r] = claimFile[r]
         \/ NextJob(r) /\ ~update
         \/ ConfirmIntent(r) /\ claimFile'[r] = NoFile /\ claimFile[r].job = active[r].job
         \/ ReconcileReply(r) /\ claimFile'[r] = NoFile /\ Response(r).kind = "CLOSED"
<1>0. claimFile \in [Runners -> [job : Jobs, id : IntentIds] \cup {NoFile}]
  BY DEF DispatchTypeOK
<1>1. CASE Local(r)
  BY <1>0, <1>1 DEF Local, PauseIdle, BusyRefused, TickRefused, Execute, Flush, ConfirmIntent,
                    UnlinkSpool, GiveUp, BusyLost, Crash, disk
<1>2. CASE Renews(r) \/ Sends(r)
  BY <1>2 DEF Renews, BusyAccepted, TickAccepted, Sends, SendNext, SendClaim, SendPost, SendReconcile,
              disk, worker
<1>3. CASE Takes(r)
  BY <1>0, <1>3 DEF Takes, NextNone, NextJob, ClaimReply, PostAck, PostRejected, ReconcileReply, disk
<1> QED
  BY <1>1, <1>2, <1>3 DEF Moves

\* The file of a new attempt.
LEMMA NewFile ==
  ASSUME DispatchInv, NEW r \in Runners, NextJob(r), ~update
  PROVE  LET f == claimFile'[r] IN
         /\ claimFile[r] = NoFile /\ spool'[r] = spool[r] /\ spool[r] = {} /\ pc[r] = "next"
         /\ f.job \in Jobs /\ f.id \in IntentIds /\ f.id \in FreshIds(r) /\ f # NoFile
         /\ f = [job |-> f.job, id |-> f.id]
<1>0. /\ claimFile \in [Runners -> [job : Jobs, id : IntentIds] \cup {NoFile}] /\ DispatchTypeOK
      /\ WorkerOK(r)
  BY DEF DispatchInv, DispatchTypeOK, Workers
<1>1. /\ pc[r] = "next" /\ FreshIds(r) # {} /\ spool'[r] = spool[r]
      /\ claimFile'[r] = [job |-> Response(r).job, id |-> Oldest(FreshIds(r))]
  BY <1>0, Taken DEF NextJob
<1>2. Response(r).job \in Jobs
  BY <1>0, Taken DEF NextJob, Response, DispatchInv, ClaimInv, Answers, AnswerOK
<1>3. Oldest(FreshIds(r)) \in FreshIds(r) /\ FreshIds(r) \subseteq IntentIds
  <2>1. FreshIds(r) \in SUBSET Nat
    BY IdsAssumption DEF FreshIds
  <2> QED
    BY <1>1, <2>1, OldestNat DEF FreshIds
<1>4. claimFile'[r] # NoFile
  BY <1>1, <1>2, NothingNamed DEF NoFile
<1>5. claimFile[r] = NoFile /\ spool[r] = {}
  BY <1>0, <1>1 DEF WorkerOK, SpoolOK, Delivering
<1> QED
  BY <1>1, <1>2, <1>3, <1>4, <1>5

\* A claim file is given up only when the backend knows the attempt and the
\* worker owns nothing: its job is finished, or the attempt is sealed.
LEMMA DroppedFile ==
  ASSUME DispatchInv, NEW r \in Runners, claimFile[r] # NoFile,
         \/ ConfirmIntent(r) /\ claimFile[r].job = active[r].job
         \/ ReconcileReply(r) /\ Response(r).kind = "CLOSED"
  PROVE  /\ intent[r][claimFile[r].id].state # "NONE"
         /\ \A j \in Jobs : ~(IsActive(job[j]) /\ job[j].runner = r)
<1> DEFINE f == claimFile[r]
           i == intent[r][f.id]
<1>0. /\ f.job \in Jobs /\ f.id \in IntentIds /\ DispatchTypeOK /\ Inv
      /\ WorkerOK(r) /\ FileOK(r) /\ AwaitOK(r) /\ SettledOK(r) /\ IntentOK(job, r, i)
  BY ActiveType DEF DispatchInv, ClaimInv, Workers, Intents
<1>1. ASSUME NEW j \in Jobs, IsActive(job[j]), job[j].runner = r
      PROVE  f.job = j /\ i.lease = job[j].lease
  BY <1>1 DEF DispatchInv, IntentCoversLease
<1>2. CASE ConfirmIntent(r) /\ f.job = active[r].job
  <2>1. PICK e \in Envelopes : spool[r] = {e} /\ active[r] = LeaseIn(e)
    BY <1>0, <1>2, SendingIt DEF ConfirmIntent, WorkerOK, Delivering
  <2>2. f.job = e.job /\ IsTerminal(job[e.job])
    BY <1>0, <1>2, <2>1 DEF ConfirmIntent, SettledOK, LeaseIn
  <2>3. i.lease = e.lease /\ e.lease # NoLease
    BY <1>0, <2>1, NothingNamed DEF FileOK, Envelopes
  <2>4. i.state # "NONE"
    BY <1>0, <2>3, IntentNames
  <2> QED
    BY <1>1, <2>2, <2>4 DEF IsActive, Active, IsTerminal, TerminalStates
<1>3. CASE ReconcileReply(r) /\ Response(r).kind = "CLOSED"
  <2>1. /\ awaits[r] \in Handlers /\ awaits[r] # NoHandler /\ phase[awaits[r]] = "reply"
        /\ pc[r] = "reconcile" /\ reply[awaits[r]].kind = "CLOSED"
    BY <1>0, <1>3, Taken, NoHandlerAssumption DEF ReconcileReply, Response
  <2>2. req[awaits[r]] = IntentOf("reconcile", r, f)
    BY <1>0, <2>1 DEF AwaitOK
  <2>3. i.state = "CLOSED" /\ i.job = f.job
    BY <2>1, <2>2 DEF IntentOf, DispatchInv, ClaimInv, Answers, AnswerOK
  <2> QED
    BY <1>0, <1>1, <2>3 DEF IntentOK, Owns
<1> QED
  BY <1>2, <1>3

\* The worker's claim file covers what it owns.
LEMMA CoverNext ==
  ASSUME DispatchInv, DispatchNext, Inv'
  PROVE  IntentCoversLease'
<1> SUFFICES ASSUME NEW r \in Runners, NEW j \in Jobs, IsActive(job'[j]), job'[j].runner = r
             PROVE  claimFile'[r].job = j /\ intent'[r][claimFile'[r].id].lease = job'[j].lease
  BY DEF IntentCoversLease
<1>0. /\ DispatchTypeOK /\ Inv /\ RowOK(job'[j])
      /\ job \in [Jobs -> JobRows]
  BY DEF DispatchInv, ClaimInv, DispatchTypeOK, TypeOK, Inv, Rows
<1>1. Carries(job[j], job'[j])
  BY RowsForward
<1>2. CASE job'[j].attempts = job[j].attempts
  <2>1. IsActive(job[j]) /\ job[j].runner = r /\ job'[j].lease = job[j].lease /\ job'[j].lease # NoLease
    BY <1>0, <1>1, <1>2 DEF Carries, RowOK
  <2>2. claimFile[r].job = j /\ intent[r][claimFile[r].id].lease = job[j].lease
    BY <2>1 DEF DispatchInv, IntentCoversLease
  <2>3. claimFile[r] # NoFile
    BY <2>2, NothingNamed DEF NoFile
  <2>4. claimFile[r].id \in IntentIds
    BY <1>0, <2>3, ActiveType
  <2>5. intent[r][claimFile[r].id].state # "NONE"
    BY <1>0, <2>1, <2>2, <2>4, IntentNames
  <2>6. intent'[r][claimFile[r].id].lease = job'[j].lease
    BY <2>1, <2>2, <2>4, <2>5, IntentForward
  <2>7. ASSUME Moves(r) PROVE claimFile'[r] = claimFile[r]
    BY <1>0, <2>1, <2>3, <2>7, FileChange, NewFile, DroppedFile
  <2>8. Still(r) => claimFile'[r] = claimFile[r]
    BY DEF Still
  <2>9. UNCHANGED worker => Still(r)
    BY NoneMoves
  <2>10. claimFile'[r] = claimFile[r]
    BY <1>0, <2>7, <2>8, <2>9, DispatchSteps, OneMoves DEF Process
  <2> QED
    BY <2>2, <2>6, <2>10
<1>3. CASE job'[j].attempts # job[j].attempts
  <2>1. PICK h \in Handlers : Process(h)
    BY <1>0, <1>3, OthersQuiet, DispatchSteps
  <2>2. j = req[h].job /\ (ClaimGrant(h) \/ LegacyClaim(h))
    BY <1>0, <1>3, <2>1, StepJob DEF Process
  <2>3. ClaimGrant(h)
    BY <2>2 DEF LegacyClaim, DispatchInv, Traffic, ResultOK
  <2>4. /\ req[h] \in ClaimRequests /\ req[h].op = "claim" /\ phase[h] = "main"
        /\ req[h].runner \in Runners /\ req[h].id \in IntentIds
        /\ intent[req[h].runner][req[h].id].state = "NONE"
        /\ Grants(req[h].runner, req[h].id, j)
    BY <1>0, <2>2, <2>3, ClaimFields DEF ClaimGrant, AtIntent, Grants
  <2>5. claimFile[req[h].runner] = [job |-> j, id |-> req[h].id]
    BY <2>2, <2>4 DEF DispatchInv, Traffic, ClaimOK
  <2>6. /\ job'[j].runner = req[h].runner /\ job'[j].lease = job[j].attempts + 1
        /\ intent'[req[h].runner][req[h].id].lease = job[j].attempts + 1
    <3> DEFINE v == req[h].runner
               a == req[h].id
    <3>1. v \in Runners /\ a \in IntentIds /\ Grants(v, a, j)
      BY <2>4
    <3> HIDE DEF v, a
    <3>2. /\ intent'[v][a] = [state |-> "CLAIMED", job |-> j, lease |-> job[j].attempts + 1]
          /\ job'[j].runner = v /\ job'[j].lease = job[j].attempts + 1
      BY <1>0, <3>1, GrantedIntent
    <3> QED
      BY <3>2 DEF v, a
  <2>7. claimFile'[r] = claimFile[r]
    BY <2>1 DEF Process, worker
  <2> QED
    BY <2>5, <2>6, <2>7
<1> QED
  BY <1>2, <1>3

\* A lease that is granted is a new one.
LEMMA NewGrant ==
  ASSUME DispatchInv, NEW s \in Runners, NEW h \in Handlers, Process(h), awaits[s] = h,
         pc[s] = "claim", phase'[h] = "reply", reply'[h].kind = "granted"
  PROVE  LET i == intent'[s][claimFile[s].id] IN
         /\ claimFile[s] # NoFile /\ i.job = claimFile[s].job
         /\ i.lease = reply'[h].lease /\ i.lease # NoLease
         /\ \A e \in Everything : ~(e.job = claimFile[s].job /\ e.lease = i.lease)
<1> DEFINE f == claimFile[s]
<1>0. /\ phase \in [Handlers -> {"idle", "load", "recover", "main", "scan", "read", "lock", "commit", "reply"}]
      /\ reply \in [Handlers -> Replies] /\ DispatchTypeOK /\ Inv /\ Step(h)
      /\ req[h] = IntentOf("claim", s, f) /\ f # NoFile
  BY NoHandlerAssumption
     DEF DispatchInv, DispatchTypeOK, TypeOK, ClaimInv, Process, Workers, AwaitOK, WorkerOK
<1>1. f.job \in Jobs /\ f.id \in IntentIds
  BY <1>0, ActiveType
<1>2. /\ req[h].op = "claim" /\ req[h].runner = s /\ req[h].job = f.job /\ req[h].id = f.id
      /\ req[h] \in ClaimRequests
  BY <1>0, <1>1 DEF IntentOf, ClaimRequests
<1>3. ASSUME NEW k, Respond(h, k) PROVE reply'[h] = k
  BY <1>0, <1>3 DEF Respond
<1>4. CASE ClaimGrant(h)
  <2>1. Grants(s, f.id, f.job)
    BY <1>2, <1>4 DEF ClaimGrant, Grants
  <2>2. reply'[h].lease = job[f.job].attempts + 1
    BY <1>2, <1>3, <1>4 DEF ClaimGrant, Grant
  <2> HIDE DEF f
  <2>3. /\ intent'[s][f.id] = [state |-> "CLAIMED", job |-> f.job, lease |-> job[f.job].attempts + 1]
        /\ job[f.job].attempts \in Nat
    BY <1>0, <1>1, <2>1, GrantedIntent
  <2>4. intent'[s][f.id].lease = job[f.job].attempts + 1 /\ intent'[s][f.id].job = f.job
    BY <2>3
  <2>5. ASSUME NEW e \in Everything, e.job = f.job, e.lease = job[f.job].attempts + 1 PROVE FALSE
    <3>1. e.lease <= job[f.job].attempts
      BY <2>5 DEF DispatchInv, LedgerOK
    <3> QED
      BY <2>3, <2>5, <3>1
  <2> QED
    BY <1>0, <2>2, <2>3, <2>4, <2>5 DEF NoLease, f
<1>5. CASE ClaimRepeat(h)
  <2>1. phase[h] = "main" /\ intent[s][f.id].state = "CLAIMED"
    BY <1>2, <1>5 DEF ClaimRepeat, AtIntent, StillHolds
  <2> QED
    BY <1>2, <2>1 DEF DispatchInv, Traffic, ClaimOK
<1>6. CASE ClaimLoad(h) \/ RecoverStale(h) \/ NextRead(h) \/ NextBlock(h) \/ ResultDecide(h)
  BY <1>0, <1>6 DEF ClaimLoad, RecoverStale, NextRead, NextBlock, ResultDecide, Advance
<1>7. CASE IntentMismatch(h) \/ ClaimRefuse(h)
  BY <1>3, <1>7 DEF IntentMismatch, ClaimRefuse, Answer
<1>8. CASE ReconcileWait(h) \/ ReconcileClose(h) \/ LegacyClaim(h)
  BY <1>2, <1>8 DEF ReconcileWait, ReconcileClose, LegacyClaim, AtIntent
<1>9. CASE \/ NextAnswer(h) \/ ResultRead(h) \/ ResultRepeat(h)
           \/ ResultInactiveBuild(h) \/ ResultCommit(h)
  <2>1. phase[h] \in {"scan", "read", "lock", "commit"}
    BY <1>9 DEF NextAnswer, ResultRead, ResultRepeat, ResultInactiveBuild, ResultCommit,
                AtLock
  <2>2. req[h].op \in {"next", "result"}
    BY <1>0, <2>1 DEF Inv, Phases, NextRequests, ResultRequests
  <2> QED
    BY <1>2, <2>2
<1> QED
  BY <1>0, <1>4, <1>5, <1>6, <1>7, <1>8, <1>9 DEF Step

\* A worker that keeps its place keeps the lease it has.
LEMMA HoldKept ==
  ASSUME DispatchInv, DispatchNext, NEW s \in Runners, HoldOK(s), Holds(s), Holds(s)',
         claimFile'[s] = claimFile[s], LeaseAt(s)' = LeaseAt(s),
         \A e \in Everything' : e \in Everything \/ ~(e.job = LeaseAt(s).job /\ e.lease = LeaseAt(s).lease)
  PROVE  HoldOK(s)'
<1> DEFINE f == claimFile[s]
           i == intent[s][f.id]
<1>1. /\ f # NoFile /\ f.job = LeaseAt(s).job
      /\ i.job = LeaseAt(s).job /\ i.lease = LeaseAt(s).lease /\ i.lease # NoLease
      /\ \A e \in Everything : ~(e.job = LeaseAt(s).job /\ e.lease = LeaseAt(s).lease)
  BY DEF HoldOK
<1>2. f.id \in IntentIds /\ Inv
  BY <1>1, ActiveType DEF DispatchInv, ClaimInv
<1>3. i.state # "NONE"
  BY <1>1, <1>2, IntentNames
<1>4. intent'[s][f.id].job = i.job /\ intent'[s][f.id].lease = i.lease
  BY <1>2, <1>3, IntentForward
<1>5. \A e \in Everything' : ~(e.job = LeaseAt(s).job /\ e.lease = LeaseAt(s).lease)
  BY <1>1
<1> HIDE DEF Everything, LeaseAt, Holds
<1> QED
  BY <1>1, <1>4, <1>5 DEF HoldOK

\* Another worker's execution is under another lease.
LEMMA OthersLease ==
  ASSUME DispatchInv, NEW s \in Runners, HoldOK(s), Holds(s), NEW r \in Runners, r # s, Execute(r)
  PROVE  ~(active[r].job = LeaseAt(s).job /\ active[r].lease = LeaseAt(s).lease)
<1>1. /\ claimFile[s] # NoFile
      /\ intent[s][claimFile[s].id].job = LeaseAt(s).job
      /\ intent[s][claimFile[s].id].lease = LeaseAt(s).lease
      /\ intent[s][claimFile[s].id].lease # NoLease
  BY DEF HoldOK
<1>2. claimFile[s].id \in IntentIds
  BY <1>1, ActiveType DEF DispatchInv
<1>3. /\ claimFile[r].id \in IntentIds
      /\ intent[r][claimFile[r].id].job = active[r].job
      /\ intent[r][claimFile[r].id].lease = active[r].lease
  BY ExecuteHolds
<1>4. OneIntentPerLease
  BY DEF DispatchInv, ClaimInv
<1> QED
  BY <1>1, <1>2, <1>3, <1>4 DEF OneIntentPerLease

\* What a worker holds stays its own and unreported.
LEMMA HoldNext ==
  ASSUME DispatchInv, DispatchNext, NEW s \in Runners
  PROVE  HoldOK(s)'
<1>0. /\ DispatchTypeOK /\ Inv /\ Workers /\ HoldOK(s) /\ AwaitOK(s) /\ WorkerOK(s)
      /\ awaits[s] \in Handlers \cup {NoHandler} /\ pc \in [Runners -> Points]
  BY DEF DispatchInv, ClaimInv, Workers, DispatchTypeOK
<1>2. ASSUME Holds(s), ~Execute(s), NEW e \in Everything'
      PROVE  e \in Everything \/ ~(e.job = LeaseAt(s).job /\ e.lease = LeaseAt(s).lease)
  <2>1. ASSUME NEW r \in Runners, NEW o \in Outcomes, Execute(r), e = Envelope(r, o)
        PROVE  ~(e.job = LeaseAt(s).job /\ e.lease = LeaseAt(s).lease)
    <3>1. r # s
      BY <1>2, <2>1
    <3> QED
      BY <1>0, <1>2, <2>1, <3>1, OthersLease DEF Envelope
  <2> HIDE DEF Everything
  <2> QED
    BY <1>2, <2>1, ResultsNext
<1>3. ASSUME pc'[s] = pc[s], awaits'[s] = awaits[s], active'[s] = active[s],
             claimFile'[s] = claimFile[s], ~Execute(s)
      PROVE  HoldOK(s)'
  <2>1. CASE pc[s] \in {"busy", "execute"}
    <3>1. Holds(s) /\ Holds(s)' /\ LeaseAt(s)' = LeaseAt(s)
      BY <1>3, <2>1 DEF Holds, LeaseAt
    <3> QED
      BY <1>0, <1>2, <1>3, <3>1, HoldKept
  <2>2. CASE pc[s] = "claim"
    <3>1. awaits[s] \in Handlers
      BY <1>0, <2>2 DEF WorkerOK, Waiting
    <3>2. Untouched(awaits[s]) \/ Process(awaits[s])
      BY <1>0, <1>3, <3>1, AwaitedKept
    <3>3. CASE Untouched(awaits[s])
      <4>1. Holds(s)' = Holds(s) /\ LeaseAt(s)' = LeaseAt(s)
        BY <1>3, <3>3 DEF Holds, Granted, LeaseAt, Untouched
      <4>2. CASE Holds(s)
        BY <1>0, <1>2, <1>3, <4>1, <4>2, HoldKept
      <4> QED
        BY <4>1, <4>2 DEF HoldOK
    <3>4. CASE Process(awaits[s])
      <4>1. Everything' = Everything
        BY <1>0, <3>1, <3>4, ProcessRecords DEF DispatchInv
      <4>2. ASSUME Holds(s)' PROVE HoldOK(s)'
        <5>1. phase'[awaits[s]] = "reply" /\ reply'[awaits[s]].kind = "granted"
          BY <1>3, <2>2, <4>2 DEF Holds, Granted
        <5>2. LET i == intent'[s][claimFile[s].id] IN
              /\ claimFile[s] # NoFile /\ i.job = claimFile[s].job
              /\ i.lease = reply'[awaits[s]].lease /\ i.lease # NoLease
              /\ \A e \in Everything : ~(e.job = claimFile[s].job /\ e.lease = i.lease)
          BY <2>2, <3>1, <3>4, <5>1, NewGrant
        <5>3. LeaseAt(s)' = [job |-> claimFile[s].job, lease |-> reply'[awaits[s]].lease]
          BY <1>3, <2>2 DEF LeaseAt
        <5> HIDE DEF Everything
        <5> QED
          BY <1>3, <4>1, <5>2, <5>3 DEF HoldOK
      <4> QED
        BY <4>2 DEF HoldOK
    <3> QED
      BY <3>2, <3>3, <3>4
  <2>3. CASE pc[s] \notin {"busy", "execute", "claim"}
    BY <1>3, <2>3 DEF HoldOK, Holds, Granted
  <2> QED
    BY <2>1, <2>2, <2>3
<1>4. ASSUME pc'[s] \notin {"claim", "busy", "execute"} PROVE HoldOK(s)'
  BY <1>4 DEF HoldOK, Holds, Granted
<1>5. ASSUME Moves(s) PROVE HoldOK(s)'
  <2>1. CASE \/ PauseIdle(s) \/ BusyRefused(s) \/ Execute(s) \/ Flush(s) \/ ConfirmIntent(s)
             \/ UnlinkSpool(s) \/ GiveUp(s) \/ BusyLost(s) \/ Crash(s)
    <3>1. pc'[s] \notin {"claim", "busy", "execute"}
      BY <1>0, <2>1 DEF PauseIdle, BusyRefused, Execute, Flush, ConfirmIntent, UnlinkSpool, GiveUp,
                        BusyLost, Crash, Goto, Idle, memory
    <3> QED
      BY <1>4, <3>1
  <2>2. CASE TickRefused(s) \/ TickAccepted(s)
    <3>1. ~Execute(s)
      <4>1. pc' = pc
        BY <2>2 DEF TickRefused, TickAccepted, worker
      <4> QED
        BY <1>0, <4>1 DEF Execute, Goto
    <3> QED
      BY <1>3, <2>2, <3>1 DEF TickRefused, TickAccepted, worker, disk
  <2>3. CASE BusyAccepted(s)
    <3>1. pc[s] = "busy" /\ pc'[s] = "execute" /\ active'[s] = active[s] /\ claimFile'[s] = claimFile[s]
      BY <1>0, <2>3 DEF BusyAccepted, Goto, disk
    <3>2. Holds(s) /\ Holds(s)' /\ LeaseAt(s)' = LeaseAt(s) /\ ~Execute(s)
      BY <3>1 DEF Holds, LeaseAt, Execute
    <3> QED
      BY <1>0, <1>2, <3>1, <3>2, HoldKept
  <2>4. CASE Sends(s)
    <3>1. phase'[awaits'[s]] \in {"load", "recover", "read"} /\ pc'[s] \in Waiting
      BY <1>0, <2>4, SentRequest
    <3> QED
      BY <3>1 DEF HoldOK, Holds, Granted, Waiting
  <2>5. CASE ClaimReply(s)
    <3>1. /\ pc[s] = "claim" /\ phase[awaits[s]] = "reply" /\ claimFile'[s] = claimFile[s]
          /\ pc'[s] \in {"busy", "top"}
      BY <1>0, <2>5, Taken DEF ClaimReply, Goto, disk
    <3>2. CASE pc'[s] = "top"
      BY <1>4, <3>2
    <3>3. CASE pc'[s] = "busy"
      <4>1. /\ Response(s).kind = "granted"
            /\ active'[s] = [job |-> claimFile[s].job, lease |-> Response(s).lease]
        BY <1>0, <2>5, <3>3 DEF ClaimReply, Goto, DispatchTypeOK
      <4>2. Holds(s) /\ Holds(s)' /\ LeaseAt(s)' = LeaseAt(s) /\ ~Execute(s)
        BY <3>1, <3>3, <4>1 DEF Holds, Granted, LeaseAt, Response, Execute
      <4> QED
        BY <1>0, <1>2, <3>1, <4>2, HoldKept
    <3> QED
      BY <3>1, <3>2, <3>3
  <2>6. CASE NextNone(s) \/ NextJob(s) \/ PostAck(s) \/ PostRejected(s) \/ ReconcileReply(s)
    <3>1. pc'[s] \notin {"claim", "busy", "execute"}
      BY <1>0, <2>6 DEF NextNone, NextJob, PostAck, PostRejected, ReconcileReply, Goto
    <3> QED
      BY <1>4, <3>1
  <2> QED
    BY <1>5, <2>1, <2>2, <2>3, <2>4, <2>5, <2>6 DEF Moves, Local, Renews, Takes
<1>6. ASSUME Still(s) PROVE HoldOK(s)'
  <2>1. Execute(s) => pc'[s] # pc[s]
    BY <1>0 DEF Execute, Goto
  <2> QED
    BY <1>3, <1>6, <2>1 DEF Still
<1>7. UNCHANGED worker => Still(s)
  BY NoneMoves
<1> QED
  BY <1>0, <1>5, <1>6, <1>7, DispatchSteps, OneMoves DEF Process

\* A claim or reconcile request is sent for the attempt in the claim file.
LEMMA SentClaim ==
  ASSUME DispatchTypeOK, NEW r \in Runners, Sends(r), WorkerOK(r), NEW g, awaits'[r] = g,
         req'[g] \in ClaimRequests
  PROVE  /\ claimFile[r] # NoFile /\ claimFile'[r] = claimFile[r]
         /\ req'[g].runner = r /\ req'[g].job = claimFile[r].job /\ req'[g].id = claimFile[r].id
         /\ req'[g].op = "claim" => pc[r] = "sendclaim"
<1>1. req'[g].op \in {"claim", "reconcile"}
  BY DEF ClaimRequests
<1>2. req'[g] # NextOf(r) /\ \A e : req'[g] # PostOf(r, e)
  BY <1>1 DEF NextOf, PostOf
<1>3. /\ claimFile[r] # NoFile /\ claimFile'[r] = claimFile[r]
      /\ \/ req'[g] = IntentOf("claim", r, claimFile[r]) /\ pc[r] = "sendclaim"
         \/ req'[g] = IntentOf("reconcile", r, claimFile[r])
  BY <1>2, SentRequest
<1> QED
  BY <1>3 DEF IntentOf

\* Nobody sends a request for an attempt the worker is about to claim.
LEMMA RequestChange ==
  ASSUME DispatchInv, DispatchNext, NEW g \in Handlers, req'[g] \in ClaimRequests
  PROVE  \/ req'[g] = req[g] /\ (Untouched(g) \/ Process(g))
         \/ \E r \in Runners :
              /\ Sends(r) /\ claimFile[r] # NoFile /\ claimFile'[r] = claimFile[r]
              /\ req'[g].runner = r /\ req'[g].job = claimFile[r].job /\ req'[g].id = claimFile[r].id
              /\ req'[g].op = "claim" => pc[r] = "sendclaim"
<1>1. CASE Untouched(g)
  BY <1>1 DEF Untouched
<1>2. CASE Process(g)
  BY <1>2, StepFrame DEF Process, DispatchInv, ClaimInv
<1>3. CASE req'[g] = NoRequest
  BY <1>3 DEF NoRequest, ClaimRequests
<1>4. ASSUME NEW r \in Runners, Sends(r), awaits'[r] = g
      PROVE  /\ claimFile[r] # NoFile /\ claimFile'[r] = claimFile[r]
             /\ req'[g].runner = r /\ req'[g].job = claimFile[r].job /\ req'[g].id = claimFile[r].id
             /\ req'[g].op = "claim" => pc[r] = "sendclaim"
  <2>1. WorkerOK(r) /\ DispatchTypeOK
    BY DEF DispatchInv, Workers
  <2> QED
    BY <1>4, <2>1, SentClaim
<1> QED
  BY <1>1, <1>2, <1>3, <1>4, HandlerChange

\* The claim file stays the attempt that matters.
LEMMA FileNext ==
  ASSUME DispatchInv, DispatchNext, NEW s \in Runners, WorkerOK(s)'
  PROVE  FileOK(s)'
<1> DEFINE f == claimFile[s]
           i == intent[s][f.id]
<1>0. /\ DispatchTypeOK /\ Inv /\ FileOK(s) /\ WorkerOK(s) /\ HoldOK(s)
      /\ pc \in [Runners -> Points] /\ spool[s] \in SUBSET Envelopes
  BY DEF DispatchInv, ClaimInv, Workers, DispatchTypeOK
<1>1. ASSUME claimFile'[s] = f, f # NoFile, spool'[s] \subseteq spool[s], pc'[s] = "sendclaim" => pc[s] = "sendclaim"
      PROVE  FileOK(s)'
  <2>1. f.id \in IntentIds /\ f.job \in Jobs
    BY <1>0, <1>1, ActiveType
  <2>2. intent'[s][f.id].state # "NONE" => intent'[s][f.id].job = f.job
    <3>1. CASE intent'[s][f.id] = i
      BY <1>0, <1>1, <3>1 DEF FileOK
    <3>2. ASSUME NEW h \in Handlers, req[h] \in ClaimRequests, req[h].runner = s, req[h].id = f.id,
                 intent'[s][f.id].job = req[h].job
          PROVE  intent'[s][f.id].job = f.job
      BY <3>2 DEF DispatchInv, Traffic, ClaimOK
    <3> QED
      BY <2>1, <3>1, <3>2, IntentChange
  <2>3. \A e \in spool'[s] : f.job = e.job /\ intent'[s][f.id].lease = e.lease
    <3> SUFFICES ASSUME NEW e \in spool'[s]
                 PROVE  f.job = e.job /\ intent'[s][f.id].lease = e.lease
      OBVIOUS
    <3>1. f.job = e.job /\ i.lease = e.lease /\ e.lease # NoLease
      BY <1>0, <1>1, NothingNamed DEF FileOK, Envelopes
    <3>2. i.state # "NONE"
      BY <1>0, <2>1, <3>1, IntentNames
    <3> QED
      BY <2>1, <3>1, <3>2, IntentForward
  <2>4. ASSUME pc'[s] = "sendclaim"
        PROVE  /\ intent'[s][f.id].state = "NONE"
               /\ \A h \in Handlers : req'[h] \in ClaimRequests /\ req'[h].runner = s => req'[h].id # f.id
    <3>1. /\ pc[s] = "sendclaim" /\ i.state = "NONE"
          /\ \A h \in Handlers : req[h] \in ClaimRequests /\ req[h].runner = s => req[h].id # f.id
      BY <1>0, <1>1, <2>4 DEF FileOK
    <3>2. intent'[s][f.id] = i
      BY <2>1, <3>1, IntentChange
    <3>3. ~Sends(s)
      BY <1>0, <2>4, SentRequest DEF Waiting
    <3>4. ASSUME NEW h \in Handlers, req'[h] \in ClaimRequests, req'[h].runner = s PROVE req'[h].id # f.id
      BY <3>1, <3>3, <3>4, RequestChange
    <3> QED
      BY <3>1, <3>2, <3>4
  <2> QED
    BY <1>1, <2>2, <2>3, <2>4 DEF FileOK
<1>2. ASSUME claimFile'[s] = NoFile PROVE FileOK(s)'
  BY <1>2 DEF FileOK
<1>3. ASSUME Moves(s), NextJob(s), ~update PROVE FileOK(s)'
  <2> DEFINE n == claimFile'[s]
  <2>1. /\ n.job \in Jobs /\ n.id \in IntentIds /\ n.id \in FreshIds(s) /\ spool'[s] = {}
    BY <1>3, NewFile
  <2>2. intent' = intent /\ \A h \in Handlers : req'[h] = req[h] \/ req'[h] = NoRequest
    BY <1>0, <1>3, Taken DEF NextJob, Untouched
  <2>3. intent'[s][n.id].state = "NONE"
    BY <2>1, <2>2 DEF FreshIds
  <2>4. \A h \in Handlers : req'[h] \in ClaimRequests /\ req'[h].runner = s => req'[h].id # n.id
    BY <2>1, <2>2 DEF FreshIds, NoRequest, ClaimRequests
  <2> QED
    BY <2>1, <2>3, <2>4 DEF FileOK
<1>4. ASSUME Execute(s) PROVE FileOK(s)'
  <2>1. /\ f # NoFile /\ f.id \in IntentIds /\ f.job = active[s].job
        /\ i.job = active[s].job /\ i.lease = active[s].lease /\ i.lease # NoLease
    BY <1>4, ExecuteHolds
  <2>2. claimFile'[s] = f /\ intent' = intent /\ pc'[s] = "post" /\ spool[s] = {}
    BY <1>0, <1>4 DEF Execute, Goto, vars, WorkerOK, SpoolOK, Delivering
  <2>3. \A e \in spool'[s] : e.job = active[s].job /\ e.lease = active[s].lease
    <3>1. PICK o \in Outcomes : spool' = [spool EXCEPT ![s] = @ \cup {Envelope(s, o)}]
      BY <1>4 DEF Execute
    <3>2. spool'[s] = {Envelope(s, o)}
      BY <1>0, <2>2, <3>1 DEF DispatchTypeOK
    <3> QED
      BY <3>2 DEF Envelope
  <2> QED
    BY <2>1, <2>2, <2>3 DEF FileOK
<1>5. ASSUME Moves(s), ~Execute(s), claimFile'[s] = f, f # NoFile PROVE FileOK(s)'
  <2>1. spool'[s] \subseteq spool[s]
    BY <1>0, <1>5 DEF Moves, Local, Renews, Sends, Takes, PauseIdle, BusyRefused, TickRefused, Flush,
         ConfirmIntent, UnlinkSpool, GiveUp, BusyLost, Crash, BusyAccepted, TickAccepted, SendNext,
         SendClaim, SendPost, SendReconcile, NextNone, NextJob, ClaimReply, PostAck, PostRejected,
         ReconcileReply, disk, worker, DispatchTypeOK
  <2>2. ASSUME pc'[s] = "sendclaim" PROVE pc[s] = "sendclaim"
    <3>1. CASE Local(s)
      BY <1>0, <2>2, <3>1 DEF Local, PauseIdle, BusyRefused, TickRefused, Execute, Flush, ConfirmIntent,
                  UnlinkSpool, GiveUp, BusyLost, Crash, Goto, memory
    <3>2. CASE Renews(s)
      BY <1>0, <2>2, <3>2 DEF Renews, BusyAccepted, TickAccepted, Goto, worker
    <3>3. CASE Sends(s)
      BY <1>0, <2>2, <3>3, SentRequest DEF Waiting
    <3>4. CASE NextJob(s)
      <4>1. pc[s] = "next"
        BY <1>0, <3>4, Taken DEF NextJob
      <4> QED
        BY <1>0, <1>5, <4>1 DEF WorkerOK
    <3>5. CASE NextNone(s) \/ ClaimReply(s) \/ PostAck(s) \/ PostRejected(s) \/ ReconcileReply(s)
      BY <1>0, <2>2, <3>5 DEF NextNone, ClaimReply, PostAck, PostRejected, ReconcileReply, Goto
    <3> QED
      BY <1>5, <3>1, <3>2, <3>3, <3>4, <3>5 DEF Moves, Takes
  <2> QED
    BY <1>1, <1>5, <2>1, <2>2
<1>6. ASSUME Moves(s) PROVE FileOK(s)'
  BY <1>0, <1>2, <1>3, <1>4, <1>5, <1>6, FileChange
<1>7. ASSUME Still(s) PROVE FileOK(s)'
  BY <1>1, <1>2, <1>7 DEF Still
<1>8. UNCHANGED worker => Still(s)
  BY NoneMoves
<1> QED
  BY <1>0, <1>6, <1>7, <1>8, DispatchSteps, OneMoves DEF Process

\* A claim still on its way is the one in the claim file, and the only one of
\* its attempt.
LEMMA ClaimNext ==
  ASSUME DispatchInv, DispatchNext, NEW g \in Handlers
  PROVE  ClaimOK(g)'
<1> SUFFICES ASSUME req'[g] \in ClaimRequests PROVE ClaimOK(g)'
  BY DEF ClaimOK
<1> DEFINE q == req'[g]
           v == q.runner
           f == claimFile[v]
           i == intent[v][q.id]
<1>0. /\ v \in Runners /\ q.job \in Jobs /\ q.id \in IntentIds /\ DispatchTypeOK /\ Inv
      /\ FileOK(v) /\ WorkerOK(v) /\ i \in IntentRows
      /\ phase \in [Handlers -> {"idle", "load", "recover", "main", "scan", "read", "lock", "commit", "reply"}]
  BY DEF ClaimRequests, DispatchInv, ClaimInv, Workers, DispatchTypeOK, TypeOK
<1>1. ASSUME NEW h \in Handlers, req'[h] \in ClaimRequests, req'[h].op = "claim", q.op = "claim",
             req'[h].runner = v, req'[h].id = q.id, h # g
      PROVE  FALSE
  <2>1. CASE req'[h] = req[h] /\ q = req[g]
    BY <1>1, <2>1 DEF DispatchInv, Traffic, ClaimOK
  <2>2. ASSUME NEW a \in Handlers, NEW b \in Handlers, req[a] \in ClaimRequests, req[a].runner = v,
               req[a].id = q.id, pc[v] = "sendclaim", claimFile[v] # NoFile, q.id = claimFile[v].id
        PROVE  FALSE
    BY <1>0, <2>2 DEF FileOK
  <2>3. ASSUME Sends(v), awaits'[v] = g, awaits'[v] = h PROVE FALSE
    BY <1>1, <2>3
  <2>4. \A b \in Handlers : req'[b] \in ClaimRequests /\ req'[b].runner = v /\ req'[b].op = "claim"
          /\ req'[b] # req[b] => awaits'[v] = b /\ Sends(v)
    <3> SUFFICES ASSUME NEW b \in Handlers, req'[b] \in ClaimRequests, req'[b].runner = v,
                        req'[b] # req[b]
                 PROVE  awaits'[v] = b /\ Sends(v)
      OBVIOUS
    <3>1. PICK r \in Runners : Sends(r) /\ awaits'[r] = b
      BY HandlerChange, StepFrame, <1>0 DEF Untouched, Process, NoRequest, ClaimRequests
    <3>2. req'[b].runner = r
      BY <1>0, <3>1, SentClaim DEF DispatchInv, Workers
    <3> QED
      BY <3>1, <3>2
  <2>5. CASE req'[h] # req[h] /\ q = req[g]
    BY <1>0, <1>1, <2>2, <2>5, RequestChange
  <2>6. CASE req'[h] = req[h] /\ q # req[g]
    BY <1>0, <1>1, <2>2, <2>6, RequestChange
  <2> QED
    BY <1>1, <2>1, <2>3, <2>4, <2>5, <2>6
<1>2. CASE q = req[g] /\ (Untouched(g) \/ Process(g))
  <2>0. ClaimOK(g)
    BY DEF DispatchInv, Traffic
  <2>1. \/ claimFile'[v] = f
        \/ claimFile'[v].id # q.id /\ (f # [job |-> q.job, id |-> q.id] \/ i.state # "NONE")
    <3>1. ASSUME Moves(v)
          PROVE  \/ claimFile'[v] = f
                 \/ claimFile'[v].id # q.id /\ (f # [job |-> q.job, id |-> q.id] \/ i.state # "NONE")
      <4>1. CASE NextJob(v) /\ ~update
        <5>1. f = NoFile /\ claimFile'[v].id \in FreshIds(v)
          BY <1>0, <4>1, NewFile
        <5>2. claimFile'[v].id # q.id
          BY <1>2, <5>1 DEF FreshIds
        <5> QED
          BY <1>0, <5>1, <5>2, NothingNamed DEF NoFile
      <4>2. CASE /\ claimFile'[v] = NoFile
                 /\ \/ ConfirmIntent(v) /\ claimFile[v].job = active[v].job
                    \/ ReconcileReply(v) /\ Response(v).kind = "CLOSED"
        <5>1. claimFile'[v].id # q.id
          BY <1>0, <4>2, NothingNamed DEF NoFile
        <5>2. CASE f = NoFile
          BY <4>2, <5>2
        <5>3. CASE f # NoFile
          BY <1>0, <4>2, <5>1, <5>3, DroppedFile
        <5> QED
          BY <5>2, <5>3
      <4> QED
        BY <1>0, <3>1, <4>1, <4>2, FileChange
    <3>2. Still(v) => claimFile'[v] = f
      BY DEF Still
    <3>3. UNCHANGED worker => Still(v)
      BY <1>0, NoneMoves
    <3>4. Moves(v) \/ Still(v)
      <4> HIDE DEF v
      <4> QED
        BY <1>0, <3>3, DispatchSteps, OneMoves DEF Process
    <3> QED
      BY <3>1, <3>2, <3>4
  <2>2. q.id = claimFile'[v].id => q.job = claimFile'[v].job
    BY <1>2, <2>0, <2>1 DEF ClaimOK
  <2>3. ASSUME q.op = "claim", phase'[g] \in {"load", "recover", "main"}
        PROVE  /\ phase[g] \in {"load", "recover", "main"}
               /\ ~(Process(g) /\ ClaimGrant(g))
    <3>1. CASE Untouched(g)
      <4>1. ~ClaimGrant(g)
        BY <1>0, <2>3, <3>1 DEF Untouched, ClaimGrant, Respond
      <4> QED
        BY <2>3, <3>1, <4>1 DEF Untouched
    <3>2. CASE Process(g)
      <4>1. phase[g] \in {"load", "recover", "main"}
        <5>1. Step(g) /\ req[g].op = "claim"
          BY <1>2, <2>3, <3>2 DEF Process
        <5>2. phase[g] # "idle" /\ phase[g] # "reply"
          BY <1>0, <5>1, StepFrame
        <5>3. phase[g] \notin {"scan", "read", "lock", "commit"}
          BY <1>0, <5>1 DEF Inv, Phases, NextRequests, ResultRequests
        <5> QED
          BY <1>0, <5>2, <5>3
      <4>2. ~ClaimGrant(g)
        BY <1>0, <2>3 DEF ClaimGrant, Respond
      <4> QED
        BY <4>1, <4>2
    <3> QED
      BY <1>2, <3>1, <3>2
  <2>4. ASSUME q.op = "claim", phase'[g] \in {"load", "recover", "main"}
        PROVE  /\ intent'[v][q.id].state # "CLAIMED"
               /\ intent'[v][q.id].state = "NONE" => claimFile'[v] = [job |-> q.job, id |-> q.id]
    <3>1. i.state # "CLAIMED" /\ (i.state = "NONE" => f = [job |-> q.job, id |-> q.id])
      BY <1>2, <2>0, <2>3, <2>4 DEF ClaimOK
    <3>2. CASE intent'[v][q.id] = i
      BY <2>1, <3>1, <3>2
    <3>3. ASSUME NEW h \in Handlers, Process(h), req[h] \in ClaimRequests, req[h].runner = v,
                 req[h].id = q.id, ClaimGrant(h)
          PROVE  FALSE
      <4>1. req[h].op = "claim"
        BY <3>3 DEF ClaimGrant, AtIntent
      <4>2. h = g
        BY <1>2, <2>0, <2>4, <3>3, <4>1 DEF ClaimOK
      <4> QED
        BY <2>3, <2>4, <3>3, <4>2
    <3> QED
      BY <1>0, <3>1, <3>2, <3>3, IntentChange
  <2> QED
    BY <1>1, <2>2, <2>4 DEF ClaimOK
<1>3. ASSUME Sends(v), f # NoFile, claimFile'[v] = f, q.job = f.job, q.id = f.id,
             q.op = "claim" => pc[v] = "sendclaim"
      PROVE  ClaimOK(g)'
  <2>1. intent' = intent
    BY <1>0, <1>3, OthersQuiet DEF Moves
  <2>2. q.op = "claim" => i.state = "NONE"
    BY <1>0, <1>3 DEF FileOK
  <2>3. f = [job |-> q.job, id |-> q.id]
    BY <1>0, <1>3, ActiveType
  <2> QED
    BY <1>1, <1>3, <2>1, <2>2, <2>3 DEF ClaimOK
<1> QED
  BY <1>2, <1>3, RequestChange

-------------------------------------------------------------------------------

(***************************************************************************)
(* The invariant is inductive.                                             *)
(***************************************************************************)
LEMMA QueueKept ==
  ASSUME DispatchInv, DispatchNext
  PROVE  ClaimInv'
<1>1. Next \/ UNCHANGED vars
  BY QueueStep DEF DispatchInv
<1> QED
  BY <1>1, ClaimInvNext DEF DispatchInv

\* Whatever happens, each worker stays consistent with its own disk.
LEMMA EveryWorker ==
  ASSUME DispatchInv, DispatchNext, NEW r \in Runners
  PROVE  WorkerOK(r)'
<1>0. /\ DispatchTypeOK /\ WorkerOK(r) /\ AwaitOK(r) /\ FileOK(r) /\ HoldOK(r) /\ Answers
  BY DEF DispatchInv, Workers, ClaimInv
<1>1. CASE Moves(r)
  BY <1>0, <1>1, WorkerNext
<1>2. CASE Still(r)
  BY <1>0, <1>2 DEF Still, WorkerOK, SpoolOK
<1>3. UNCHANGED worker => Still(r)
  BY NoneMoves
<1> QED
  BY <1>0, <1>1, <1>2, <1>3, DispatchSteps, OneMoves DEF Process

\* Every step keeps the variables of the workers in their types.
LEMMA DispatchTypeNext ==
  ASSUME DispatchInv, DispatchNext, TypeOK'
  PROVE  DispatchTypeOK'
<1>0. DispatchTypeOK /\ Answers /\ Inv
  BY DEF DispatchInv, ClaimInv
<1>1. recorded' \in SUBSET Envelopes
  <2>1. ASSUME NEW h \in Handlers, Process(h) PROVE recorded' \in SUBSET Envelopes
    BY <1>0, <2>1, ProcessRecords, ResultEnvelope DEF DispatchTypeOK, DispatchInv
  <2>2. UNCHANGED recorded => recorded' \in SUBSET Envelopes
    BY <1>0 DEF DispatchTypeOK
  <2> QED
    BY <2>1, <2>2, DispatchSteps
<1>2. CASE UNCHANGED worker
  BY <1>0, <1>1, <1>2, BoundTypes DEF DispatchTypeOK, worker
<1>3. ASSUME NEW r \in Runners, Moves(r) PROVE DispatchTypeOK'
  <2>1. WorkerOK(r) /\ AwaitOK(r)
    BY DEF DispatchInv, Workers
  <2> QED
    BY <1>0, <1>1, <1>3, <2>1, MoveTypes, BoundTypes DEF DispatchTypeOK
<1> QED
  BY <1>2, <1>3, DispatchSteps DEF Process

\* Every step keeps the invariant, one part after the other.
LEMMA DispatchInvStep ==
  ASSUME DispatchInv, DispatchNext
  PROVE  DispatchInv'
<1>1. ClaimInv' /\ Inv' /\ TypeOK'
  BY QueueKept DEF ClaimInv, Inv
<1>2. DispatchTypeOK'
  BY <1>1, DispatchTypeNext
<1>3. Workers'
  <2>1. ASSUME NEW r \in Runners
        PROVE  WorkerOK(r)' /\ AwaitOK(r)' /\ FileOK(r)' /\ SettledOK(r)' /\ HoldOK(r)'
    <3>1. WorkerOK(r)'
      BY EveryWorker
    <3> QED
      BY <3>1, AwaitNext, FileNext, SettledNext, HoldNext DEF DispatchInv, ClaimInv
  <2> QED
    BY <2>1 DEF Workers
<1>4. LedgerOK'
  BY LedgerNext
<1>5. Traffic'
  BY <1>4, QuietNext, ClaimNext, ResultNext DEF Traffic
<1> QED
  BY <1>1, <1>2, <1>3, <1>4, <1>5, CoverNext, OneResultNext DEF DispatchInv

\* So does a stutter.
LEMMA DispatchInvNext == DispatchInv /\ [DispatchNext]_allVars => DispatchInv'
<1>1. ASSUME DispatchInv, UNCHANGED allVars PROVE DispatchInv'
  <2>0. UNCHANGED vars /\ UNCHANGED worker /\ UNCHANGED <<update, recorded, bounds>>
    BY <1>1 DEF allVars
  <2>1. ClaimInv' /\ TypeOK'
    BY <1>1, <2>0, ClaimInvNext DEF DispatchInv, ClaimInv, Inv
  <2>2. DispatchTypeOK'
    BY <1>1, <2>0, <2>1 DEF DispatchInv, DispatchTypeOK, worker, bounds
  <2>3. Everything' = Everything
    BY <2>0 DEF Everything, worker
  <2> HIDE DEF Everything
  <2>4. LedgerOK' /\ OneResultPerLease' /\ IntentCoversLease'
    BY <1>1, <2>0, <2>3 DEF DispatchInv, LedgerOK, OneResultPerLease, IntentCoversLease, vars, worker
  <2>5. Traffic'
    BY <1>1, <2>0, <2>3 DEF DispatchInv, Traffic, QuietOK, ClaimOK, ResultOK, vars, worker
  <2>6. Workers'
    <3>1. ASSUME NEW r \in Runners PROVE WorkerOK(r)' /\ AwaitOK(r)' /\ FileOK(r)' /\ SettledOK(r)'
      BY <1>1, <2>0 DEF DispatchInv, Workers, WorkerOK, SpoolOK, AwaitOK, FileOK, SettledOK, vars, worker
    <3>2. ASSUME NEW r \in Runners PROVE HoldOK(r)'
      BY <1>1, <2>0, <2>3 DEF DispatchInv, Workers, HoldOK, Holds, Granted, LeaseAt, vars, worker
    <3> QED
      BY <3>1, <3>2 DEF Workers
  <2> QED
    BY <2>1, <2>2, <2>4, <2>5, <2>6 DEF DispatchInv
<1> QED
  BY <1>1, DispatchInvStep

\* Idle workers with empty disks satisfy it.
LEMMA DispatchInvInit == DispatchInit => DispatchInv
<1> SUFFICES ASSUME DispatchInit PROVE DispatchInv
  OBVIOUS
<1>1. ClaimInv /\ TypeOK
  BY ClaimInvInit DEF DispatchInit, ClaimInv, Inv
<1>2. DispatchTypeOK
  <2>1. /\ pc \in [Runners -> Points]
        /\ awaits \in [Runners -> Handlers \cup {NoHandler}]
        /\ active \in [Runners -> [job : Jobs, lease : Leases] \cup {NoJob}]
        /\ claimFile \in [Runners -> [job : Jobs, id : IntentIds] \cup {NoFile}]
    BY Zenon DEF DispatchInit, Points
  <2>2. posts \in [Runners -> 0..MaxPosts]
    BY BoundsAssumption DEF DispatchInit
  <2>3. /\ beating \in [Runners -> BOOLEAN]
        /\ receipt \in [Runners -> {"none", "ready", "busy"}]
        /\ update \in BOOLEAN
    BY Zenon DEF DispatchInit
  <2>4. /\ spool \in [Runners -> SUBSET Envelopes]
        /\ quarantine \in [Runners -> SUBSET Envelopes]
        /\ recorded \in SUBSET Envelopes
    BY DEF DispatchInit
  <2>5. faults \in 0..MaxFaults /\ admin \in 0..MaxAdmin /\ updates \in 0..MaxUpdates
    BY BoundsAssumption DEF DispatchInit
  <2> QED
    BY <1>1, <2>1, <2>2, <2>3, <2>4, <2>5 DEF DispatchTypeOK
<1>3. Everything = {}
  BY EverythingIs DEF DispatchInit
<1> HIDE DEF Everything
<1>4. LedgerOK /\ OneResultPerLease /\ IntentCoversLease
  BY <1>3 DEF DispatchInit, Init, LedgerOK, OneResultPerLease, IntentCoversLease, EmptyRow, IsActive, Active
<1>5. Traffic
  BY DEF DispatchInit, Init, Traffic, QuietOK, ClaimOK, ResultOK, NoRequest, ClaimRequests, ResultRequests
<1>6. ASSUME NEW r \in Runners PROVE WorkerOK(r) /\ AwaitOK(r) /\ FileOK(r) /\ SettledOK(r) /\ HoldOK(r)
  BY DEF DispatchInit, WorkerOK, SpoolOK, AwaitOK, FileOK, SettledOK, HoldOK, Holds, Granted,
         Delivering, Waiting
<1> QED
  BY <1>1, <1>2, <1>4, <1>5, <1>6 DEF DispatchInv, Workers

-------------------------------------------------------------------------------

(***************************************************************************)
(* Theorems.                                                               *)
(***************************************************************************)

\* What holds of the queue and its workers at all times.
THEOREM DispatchInvHolds == DispatchSpec => []DispatchInv
<1> QED
  BY DispatchInvInit, DispatchInvNext, PTL DEF DispatchSpec

\* The composition keeps every variable of the workers in its type.
THEOREM DispatchTypeCorrect == DispatchSpec => []DispatchTypeOK
<1>1. DispatchInv => DispatchTypeOK
  BY DEF DispatchInv
<1> QED
  BY <1>1, DispatchInvHolds, PTL

\* A lease yields at most one result, over crashes, restarts and repeated
\* deliveries, on every disk and in the database.
THEOREM LeasesHaveOneResult == DispatchSpec => []OneResultPerLease
<1>1. DispatchInv => OneResultPerLease
  BY DEF DispatchInv
<1> QED
  BY <1>1, DispatchInvHolds, PTL

\* The backend assigns a job only while the worker's claim file names the
\* attempt, and the worker keeps the file as long as it may own the job.
THEOREM IntentsCoverLeases == DispatchSpec => []IntentCoversLease
<1>1. DispatchInv => IntentCoversLease
  BY DEF DispatchInv
<1> QED
  BY <1>1, DispatchInvHolds, PTL

\* A worker has at most one undelivered result, and claims nothing until it is
\* delivered.
THEOREM DeliversOne == DispatchSpec => []OneDelivery
<1>1. ASSUME DispatchInv PROVE OneDelivery
  <2> SUFFICES ASSUME NEW r \in Runners
               PROVE  /\ Cardinality(spool[r]) <= 1
                      /\ spool[r] # {} => pc[r] \in {"top", "post", "posting", "confirm", "unlink"}
    BY DEF OneDelivery
  <2>1. SpoolOK(r)
    BY <1>1 DEF DispatchInv, Workers, WorkerOK
  <2>2. spool[r] = {} \/ \E e : spool[r] = {e}
    BY <2>1 DEF SpoolOK
  <2>3. Cardinality(spool[r]) \in {0, 1}
    BY <2>2, FS_EmptySet, FS_Singleton
  <2> QED
    BY <2>1, <2>3 DEF SpoolOK, Delivering
<1> QED
  BY <1>1, DispatchInvHolds, PTL

\* A worker that reports itself drained to an update owns no job, and no
\* request of it that is still under way can claim one.
THEOREM DrainedWorkersAreSafe == DispatchSpec => []DrainedIsSafe
<1>1. ASSUME DispatchInv PROVE DrainedIsSafe
  <2> SUFFICES ASSUME NEW r \in Runners, receipt[r] = "ready"
               PROVE  /\ \A j \in Jobs : ~(IsActive(job[j]) /\ job[j].runner = r)
                      /\ \A h \in Handlers :
                           (req[h] \in ClaimRequests /\ req[h].op = "claim" /\ req[h].runner = r
                              /\ phase[h] # "reply")
                           => intent[r][req[h].id].state = "CLOSED"
    BY DEF DrainedIsSafe
  <2>0. claimFile[r] = NoFile /\ Inv
    BY <1>1 DEF DispatchInv, ClaimInv, Workers, WorkerOK
  <2>1. ASSUME NEW j \in Jobs, IsActive(job[j]), job[j].runner = r PROVE FALSE
    BY <1>1, <2>0, <2>1, NothingNamed DEF DispatchInv, IntentCoversLease, NoFile
  <2>2. ASSUME NEW h \in Handlers, req[h] \in ClaimRequests, req[h].op = "claim", req[h].runner = r,
               phase[h] # "reply"
        PROVE  intent[r][req[h].id].state = "CLOSED"
    <3>1. req[h].job \in Jobs /\ req[h].id \in IntentIds
      BY <2>2 DEF ClaimRequests
    <3>2. phase[h] \in {"load", "recover", "main"}
      <4>1. phase[h] # "idle"
        BY <1>1, <2>2 DEF DispatchInv, Traffic, QuietOK, NoRequest
      <4>2. phase[h] \notin {"scan", "read", "lock", "commit"}
        BY <2>0, <2>2 DEF Inv, Phases, NextRequests, ResultRequests
      <4> QED
        BY <2>0, <2>2, <4>1, <4>2 DEF Inv, TypeOK
    <3>3. NoFile # [job |-> req[h].job, id |-> req[h].id]
      BY <3>1, NothingNamed DEF NoFile
    <3>4. intent[r][req[h].id].state \notin {"CLAIMED", "NONE"}
      BY <1>1, <2>0, <2>2, <3>2, <3>3 DEF DispatchInv, Traffic, ClaimOK
    <3> QED
      BY <2>0, <3>1, <3>4, IntentNames
  <2> QED
    BY <2>1, <2>2
<1> QED
  BY <1>1, DispatchInvHolds, PTL

\* A result leaves the spool only into quarantine, or after the backend has
\* committed it.
THEOREM SpoolsAreSettled == DispatchSpec => SpoolSettled
<1> DEFINE Settled == \A r \in Runners : \A e \in spool[r] \ spool'[r] :
                        e \in quarantine'[r] \/ e \in recorded
<1>1. ASSUME DispatchInv, DispatchNext PROVE Settled
  <2> SUFFICES ASSUME NEW r \in Runners, NEW e \in spool[r], e \notin spool'[r]
               PROVE  e \in quarantine'[r] \/ e \in recorded
    OBVIOUS
  <2>0. /\ DispatchTypeOK /\ WorkerOK(r) /\ SettledOK(r)
        /\ spool \in [Runners -> SUBSET Envelopes] /\ quarantine \in [Runners -> SUBSET Envelopes]
    BY <1>1 DEF DispatchInv, Workers, DispatchTypeOK
  <2>1. CASE UnlinkSpool(r)
    BY <2>0, <2>1 DEF UnlinkSpool, SettledOK
  <2>2. CASE PostRejected(r)
    <3>1. spool'[r] = spool[r] \ {Sending(r)} /\ quarantine'[r] = quarantine[r] \cup {Sending(r)}
      BY <2>0, <2>2 DEF PostRejected
    <3> QED
      BY <3>1
  <2>3. Moves(r) => \/ UnlinkSpool(r) \/ PostRejected(r) \/ spool[r] \subseteq spool'[r]
    BY <2>0 DEF Moves, Local, Renews, Sends, Takes, PauseIdle, BusyRefused, TickRefused, Execute, Flush,
         ConfirmIntent, GiveUp, BusyLost, Crash, BusyAccepted, TickAccepted, SendNext, SendClaim,
         SendPost, SendReconcile, NextNone, NextJob, ClaimReply, PostAck, ReconcileReply, disk, worker
  <2>4. Still(r) => spool[r] \subseteq spool'[r]
    BY DEF Still
  <2>5. UNCHANGED worker => Still(r)
    BY NoneMoves
  <2> QED
    BY <1>1, <2>0, <2>1, <2>2, <2>3, <2>4, <2>5, DispatchSteps, OneMoves DEF Process
<1>2. DispatchInv /\ [DispatchNext]_allVars => [Settled]_allVars
  BY <1>1
<1> QED
  BY <1>2, DispatchInvHolds, PTL DEF DispatchSpec, SpoolSettled

\* The workers are clients of the queue: the composition implements it, so that
\* every theorem about the queue holds of the two together.
THEOREM DispatchIsQueue == DispatchSpec => Spec
<1>1. DispatchInit => Init
  BY DEF DispatchInit
<1>2. DispatchInv /\ [DispatchNext]_allVars => [Next]_vars
  <2>1. ASSUME DispatchInv, DispatchNext PROVE [Next]_vars
    BY <2>1, QueueStep DEF DispatchInv
  <2>2. ASSUME UNCHANGED allVars PROVE UNCHANGED vars
    BY <2>2 DEF allVars
  <2> QED
    BY <2>1, <2>2
<1> QED
  BY <1>1, <1>2, DispatchInvHolds, PTL DEF DispatchSpec, Spec

===============================================================================
