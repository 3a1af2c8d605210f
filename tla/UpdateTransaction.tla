--------------------------- MODULE UpdateTransaction ---------------------------
(* The durable coordinator of a multi-host update (UpdateTransaction), the     *)
(* participants and the ingress gates it drives, and the calls between them.   *)
(* One transaction is modelled.  A call may be lost, may stop half way, may    *)
(* succeed without its answer arriving, or may be executed after the           *)
(* coordinator gave up on it; the coordinator may crash between any two saves  *)
(* of its journal and is started again with the same transaction.              *)
EXTENDS UpdateHost, FiniteSets

CONSTANTS Participants,     \* the inventory; numbers, in inventory order
          Gates,            \* the admission gates; numbers, in inventory order
          Drain,            \* the gates configured with callback_drain
          Sealable,         \* the gates whose adapter has a seal of its own
          QuiesceRank,      \* position of each participant in quiesce_order
          ActivateRank,     \* position of each participant in activation_order
          MaxFaults,        \* bound on lost, interrupted and unanswered calls and crashes
          MaxLate           \* bound on calls that are executed after they were given up

ASSUME InventoryAssumption ==
  /\ Participants \subseteq Nat /\ Participants # {} /\ IsFiniteSet(Participants)
  /\ Gates \subseteq Nat /\ IsFiniteSet(Gates)
  /\ Drain \subseteq Sealable /\ Sealable \subseteq Gates

ASSUME OrderAssumption ==
  /\ QuiesceRank \in [Participants -> Nat] /\ ActivateRank \in [Participants -> Nat]
  /\ \A p, q \in Participants : p # q => /\ QuiesceRank[p] # QuiesceRank[q]
                                         /\ ActivateRank[p] # ActivateRank[q]

ASSUME BoundAssumption == MaxFaults \in Nat /\ MaxLate \in Nat

VARIABLES
  status, decision,   \* of the coordinator's journal
  node,               \* journal, per participant: completed, pending, previous_version pinned
  info,               \* journal, per gate: pending call, last known state, seal
  c,                  \* the running coordinator: where it is, and the loop it is in
  host,               \* per participant: the host's record (UpdateHost)
  gate,               \* per gate: the gate's record (UpdateHost)
  late,               \* requests that were given up and may still be executed
  faults              \* faults so far: [failed, late]

journal == <<status, decision, node, info>>
vars == <<status, decision, node, info, c, host, gate, late, faults>>

Terminal == {"complete", "rolled_back"}
Statuses == {"none", "preparing", "ingress_pending", "prepare", "quiesce", "snapshot",
             "apply", "start", "verify", "activation_pending", "finalization_pending",
             "recovery_pending"} \cup Terminal
Requests == (Participants \X Operations) \cup (Gates \X GateActions)

\* at: what the coordinator does next; forward: the first pass, before any
\* failure; op, todo: the operation and the participants its loop has left;
\* gates: the gates the current loop has left; failed: a call of the loop failed.
Idle == [at |-> "idle", forward |-> FALSE, op |-> "none", todo |-> {}, gates |-> {},
         failed |-> FALSE]
Control == [at : {"idle", "close", "acquiring", "loop", "reply", "seal", "sealing",
                  "open", "releasing"},
            forward : BOOLEAN, op : Operations \cup {"none"},
            todo : SUBSET Participants, gates : SUBSET Gates, failed : BOOLEAN]

TypeOK ==
  /\ status \in Statuses
  /\ decision \in {"none", "commit", "rollback"}
  /\ node \in [Participants -> [completed : SUBSET Operations,
                                pending : Operations \cup {"none"}, previous : BOOLEAN]]
  /\ info \in [Gates -> [pending : {"none", "acquire", "release"},
                         state : {"unknown", "closed", "open"},
                         seal : {"none", "pending", "sealed"}]]
  /\ c \in Control
  /\ host \in [Participants -> HostRecord]
  /\ gate \in [Gates -> GateRecord]
  /\ late \subseteq Requests
  /\ faults \in [failed : 0..MaxFaults, late : 0..MaxLate]

Init ==
  /\ status = "none" /\ decision = "none"
  /\ node = [p \in Participants |-> [completed |-> {}, pending |-> "none", previous |-> FALSE]]
  /\ info = [g \in Gates |-> [pending |-> "none", state |-> "unknown", seal |-> "none"]]
  /\ c = Idle
  /\ host = [p \in Participants |-> NewHost]
  /\ gate = [g \in Gates |-> NewGate]
  /\ late = {}
  /\ faults = [failed |-> 0, late |-> 0]

(* --------------------------- control helpers -------------------------------- *)
Involved == {p \in Participants : node[p].completed # {} \/ node[p].pending # "none"}

\* The order in which a loop visits the participants.
Before(p, q) ==
  CASE c.op = "quiesce" -> QuiesceRank[p] < QuiesceRank[q]
    [] c.op = "activate" -> ActivateRank[p] < ActivateRank[q]
    [] ~c.forward /\ c.op \in {"rollback", "start", "verify_rollback"} -> q < p
    [] OTHER -> p < q

IsNext(p) == p \in c.todo /\ \A q \in c.todo \ {p} : Before(p, q)
IsNextGate(g) == g \in c.gates /\ \A h \in c.gates : g <= h

\* Entering a loop of calls; the forward pass saves the operation as the status.
Loop(op, names) ==
  /\ c' = [c EXCEPT !.at = "loop", !.op = op, !.todo = names, !.gates = {}, !.failed = FALSE]
  /\ status' = IF c.forward THEN op ELSE status

\* _recover, entered from a failed forward pass or by a new process.
Recover ==
  /\ status' = "recovery_pending"
  /\ c' = [Idle EXCEPT !.at = "close", !.gates = Gates]

\* _activate: the participants that still have to be activated.
Activate ==
  /\ status' = "activation_pending"
  /\ c' = [Idle EXCEPT !.at = "loop", !.op = "activate",
                       !.todo = {p \in Involved : \/ "activate" \notin node[p].completed
                                                  \/ node[p].pending = "activate"}]

\* Mutant: a failed activation is recovered like any other failure.
BugFail ==
  CASE c.forward /\ c.at \in {"close", "acquiring"} ->
         status' = "ingress_pending" /\ c' = Idle
    [] c.forward /\ c.at \notin {"close", "acquiring"} -> Recover
    [] ~c.forward /\ c.at \in {"loop", "reply"} /\ c.op = "activate" -> Recover
    [] ~c.forward /\ c.at \in {"loop", "reply"}
         /\ c.op \in {"rollback", "start", "verify_rollback", "finalize"} ->
         /\ c' = [c EXCEPT !.at = "loop", !.failed = TRUE,
                           !.todo = @ \ {CHOOSE p \in c.todo : IsNext(p)}]
         /\ UNCHANGED status
    [] OTHER -> c' = Idle /\ UNCHANGED status

\* What an exception does, depending on the loop it is raised in.
Fail ==
  CASE c.forward /\ c.at \in {"close", "acquiring"} ->
         status' = "ingress_pending" /\ c' = Idle
    [] c.forward /\ c.at \notin {"close", "acquiring"} -> Recover
    [] ~c.forward /\ c.at \in {"loop", "reply"}
         /\ c.op \in {"rollback", "start", "verify_rollback", "finalize"} ->
         /\ c' = [c EXCEPT !.at = "loop", !.failed = TRUE,
                           !.todo = @ \ {CHOOSE p \in c.todo : IsNext(p)}]
         /\ UNCHANGED status
    [] OTHER -> c' = Idle /\ UNCHANGED status

Crash == c' = Idle /\ UNCHANGED status

\* One more fault; the coordinator sees an exception, or is itself gone.
Fault(n, l) ==
  /\ faults' = [failed |-> faults.failed + n, late |-> faults.late + l]
  /\ faults'.failed <= MaxFaults /\ faults'.late <= MaxLate
  /\ Fail \/ Crash

(* ------------------------------ gate checks --------------------------------- *)
IsSealed(g) == IF g \in Sealable THEN assert_sealed(gate[g]) ELSE assert_closed(gate[g], g \in Drain)
IsClosed(g) == assert_closed(gate[g], g \in Drain)
GateHolds(g) == CASE info[g].seal = "sealed" -> IsSealed(g)
                  [] info[g].seal = "pending" -> IsSealed(g) \/ IsClosed(g)
                  [] OTHER -> IsClosed(g)

\* _check_gates adopts a seal whose acknowledgement was lost.
Adopt(S) == info' = [g \in Gates |-> IF g \in S /\ info[g].seal = "pending" /\ IsSealed(g)
                                     THEN [info[g] EXCEPT !.seal = "sealed"] ELSE info[g]]

GatesHold == \A g \in Gates : GateHolds(g)

(* -------------------------------- run --------------------------------------- *)
\* Mutant: every journal that is not finished is recovered.
BugRun ==
  /\ c.at = "idle" /\ status \notin Terminal
  /\ \/ /\ status = "none"
        /\ status' = "preparing"
        /\ c' = [Idle EXCEPT !.at = "close", !.forward = TRUE, !.gates = Gates]
     \/ /\ status # "none"
        /\ Recover
  /\ UNCHANGED <<decision, node, info, host, gate, late, faults>>

\* run: a new journal, or the continuation of an unfinished one.
Run ==
  /\ c.at = "idle" /\ status \notin Terminal
  /\ \/ /\ status = "none"
        /\ status' = "preparing"
        /\ c' = [Idle EXCEPT !.at = "close", !.forward = TRUE, !.gates = Gates]
     \/ /\ status # "none" /\ decision # "none"
        /\ Activate
     \/ /\ status # "none" /\ decision = "none"
        /\ Recover
  /\ UNCHANGED <<decision, node, info, host, gate, late, faults>>

(* ---------------------------- _close_gates ---------------------------------- *)
\* A gate that was sealed, or may have been, is only checked; any other is acquired.
CloseGate(g) ==
  /\ c.at = "close" /\ IsNextGate(g)
  /\ IF info[g].seal = "none"
     THEN /\ info' = [info EXCEPT ![g].pending = "acquire"]
          /\ c' = [c EXCEPT !.at = "acquiring"]
          /\ UNCHANGED status
     ELSE /\ IF GateHolds(g) THEN c' = [c EXCEPT !.gates = @ \ {g}] /\ UNCHANGED status
                             ELSE Fail
          /\ UNCHANGED info
  /\ UNCHANGED <<decision, node, host, gate, late, faults>>

Acquired(g) ==
  /\ c.at = "acquiring" /\ IsNextGate(g)
  /\ IF GateAccepts(gate[g], g \in Drain, "acquire")
     THEN /\ gate' = [gate EXCEPT ![g] = change(@, g \in Drain, "acquire")]
          /\ info' = [info EXCEPT ![g].pending = "none", ![g].state = "closed"]
          /\ IF assert_closed(gate'[g], g \in Drain)
             THEN c' = [c EXCEPT !.at = "close", !.gates = @ \ {g}] /\ UNCHANGED status
             ELSE Fail
     ELSE Fail /\ UNCHANGED <<gate, info>>
  /\ UNCHANGED <<decision, node, host, late, faults>>

\* Every gate is closed: begin with prepare.  A recovery prepares again the
\* involved participants whose receipt it does not have.
GatesClosed ==
  /\ c.at = "close" /\ c.gates = {}
  /\ Loop("prepare", IF c.forward THEN Participants
                     ELSE {p \in Involved : ~node[p].previous})
  /\ UNCHANGED <<decision, node, info, host, gate, late, faults>>

(* ---------------------- _call and the loops around it ----------------------- *)
\* _check_gates stops at the first gate that does not hold.
CheckedGates == {g \in Gates : \A h \in Gates : h <= g => GateHolds(h)}

\* The gates are checked, and the intent is saved before the call is made; when
\* a gate does not hold the call is not made.
Call(p) ==
  /\ c.at = "loop" /\ IsNext(p)
  /\ IF c.op = "finalize" THEN UNCHANGED info ELSE Adopt(CheckedGates)
  /\ IF c.op = "finalize" \/ GatesHold
     THEN /\ node' = [node EXCEPT ![p].pending = c.op]
          /\ c' = [c EXCEPT !.at = "reply"]
          /\ UNCHANGED status
     ELSE Fail /\ UNCHANGED node
  /\ UNCHANGED <<decision, host, gate, late, faults>>

\* The participant executed the operation and its answer arrived.
Reply(p) ==
  /\ c.at = "reply" /\ IsNext(p)
  /\ host' = [host EXCEPT ![p] = execute(@, c.op)]
  /\ IF Succeeds(host[p], c.op)
     THEN /\ node' = [node EXCEPT ![p] = [completed |-> @.completed \cup {c.op}, pending |-> "none",
                                          previous |-> @.previous \/ c.op = "prepare"]]
          /\ c' = [c EXCEPT !.at = "loop", !.todo = @ \ {p}]
          /\ UNCHANGED status
     ELSE Fail /\ UNCHANGED node
  /\ UNCHANGED <<decision, info, gate, late, faults>>

\* Mutant: snapshot and rollback follow quiesce without the seal barrier.
BugNextOperation ==
  /\ c.at = "loop" /\ c.todo = {} /\ c.op \notin {"verify", "verify_rollback", "activate", "finalize"}
  /\ IF c.failed THEN c' = Idle /\ UNCHANGED status
     ELSE Loop(CASE c.op = "prepare" -> "quiesce"
                 [] c.op = "quiesce" -> IF c.forward THEN "snapshot" ELSE "rollback"
                 [] c.op = "snapshot" -> "apply"
                 [] c.op = "apply" -> "start"
                 [] c.op = "rollback" -> "start"
                 [] c.op = "start" -> IF c.forward THEN "verify" ELSE "verify_rollback",
               IF c.forward THEN Participants ELSE Involved)
  /\ UNCHANGED <<decision, node, info, host, gate, late, faults>>

\* The loop is over: the next operation, the seal barrier, or the decision.
NextOperation ==
  /\ c.at = "loop" /\ c.todo = {} /\ c.op \notin {"verify", "verify_rollback", "activate", "finalize"}
  /\ IF c.failed THEN c' = Idle /\ UNCHANGED status
     ELSE IF c.op = "quiesce"
     THEN c' = [c EXCEPT !.at = "seal", !.gates = Gates] /\ UNCHANGED status
     ELSE Loop(CASE c.op = "prepare" -> "quiesce"
                 [] c.op = "snapshot" -> "apply"
                 [] c.op = "apply" -> "start"
                 [] c.op = "rollback" -> "start"
                 [] c.op = "start" -> IF c.forward THEN "verify" ELSE "verify_rollback",
               IF c.forward THEN Participants ELSE Involved)
  /\ UNCHANGED <<decision, node, info, host, gate, late, faults>>

\* The point of no return: the decision is saved before anyone is activated.
TakeDecision ==
  /\ c.at = "loop" /\ c.todo = {} /\ c.op \in {"verify", "verify_rollback"}
  /\ IF c.failed
     THEN c' = Idle /\ UNCHANGED <<status, decision>>
     ELSE /\ decision' = IF c.forward THEN "commit" ELSE "rollback"
          /\ Activate
  /\ UNCHANGED <<node, info, host, gate, late, faults>>

(* ----------------------------- _seal_gates ----------------------------------- *)
SealGate(g) ==
  /\ c.at = "seal" /\ IsNextGate(g)
  /\ IF info[g].seal = "sealed"
     THEN /\ IF IsSealed(g) THEN c' = [c EXCEPT !.gates = @ \ {g}] /\ UNCHANGED status
                            ELSE Fail
          /\ UNCHANGED info
     ELSE /\ info' = [info EXCEPT ![g].seal = "pending"]
          /\ c' = [c EXCEPT !.at = "sealing"]
          /\ UNCHANGED status
  /\ UNCHANGED <<decision, node, host, gate, late, faults>>

\* An adapter without a seal of its own asserts its closed state instead.
Sealed(g) ==
  /\ c.at = "sealing" /\ IsNextGate(g)
  /\ IF IF g \in Sealable THEN GateAccepts(gate[g], g \in Drain, "seal") ELSE IsClosed(g)
     THEN /\ gate' = IF g \in Sealable
                     THEN [gate EXCEPT ![g] = change(@, g \in Drain, "seal")] ELSE gate
          /\ info' = [info EXCEPT ![g].seal = "sealed"]
          /\ c' = [c EXCEPT !.at = "seal", !.gates = @ \ {g}]
          /\ UNCHANGED status
     ELSE Fail /\ UNCHANGED <<gate, info>>
  /\ UNCHANGED <<decision, node, host, late, faults>>

SealBarrier ==
  /\ c.at = "seal" /\ c.gates = {}
  /\ IF GatesHold THEN Loop(IF c.forward THEN "snapshot" ELSE "rollback",
                            IF c.forward THEN Participants ELSE Involved)
                  ELSE Fail
  /\ UNCHANGED <<decision, node, info, host, gate, late, faults>>

(* ----------------------- _activate and _finalize ----------------------------- *)
\* Mutant: the first activation opens the gates.
BugOpenGates ==
  /\ c.at = "loop" /\ c.op = "activate" /\ c.todo # Participants
  /\ c' = [c EXCEPT !.at = "open",
             !.gates = {g \in Gates : info[g].state # "open" \/ info[g].pending # "none"}]
  /\ UNCHANGED <<journal, host, gate, late, faults>>

\* Everyone is active: the gates are opened in turn.
OpenGates ==
  /\ c.at = "loop" /\ c.op = "activate" /\ c.todo = {}
  /\ c' = [c EXCEPT !.at = "open",
             !.gates = {g \in Gates : info[g].state # "open" \/ info[g].pending # "none"}]
  /\ UNCHANGED <<journal, host, gate, late, faults>>

OpenGate(g) ==
  /\ c.at = "open" /\ IsNextGate(g)
  /\ info' = [info EXCEPT ![g].pending = "release"]
  /\ c' = [c EXCEPT !.at = "releasing"]
  /\ UNCHANGED <<status, decision, node, host, gate, late, faults>>

Released(g) ==
  /\ c.at = "releasing" /\ IsNextGate(g)
  /\ IF GateAccepts(gate[g], g \in Drain, "release")
     THEN /\ gate' = [gate EXCEPT ![g] = change(@, g \in Drain, "release")]
          /\ info' = [info EXCEPT ![g] = [pending |-> "none", state |-> "open", seal |-> "none"]]
          /\ c' = [c EXCEPT !.at = "open", !.gates = @ \ {g}]
          /\ UNCHANGED status
     ELSE Fail /\ UNCHANGED <<gate, info>>
  /\ UNCHANGED <<decision, node, host, late, faults>>

Finalize ==
  /\ c.at = "open" /\ c.gates = {}
  /\ status' = "finalization_pending"
  /\ c' = [c EXCEPT !.at = "loop", !.op = "finalize",
             !.todo = {p \in Participants : /\ node[p].completed # {}
                                            /\ "finalize" \notin node[p].completed}]
  /\ UNCHANGED <<decision, node, info, host, gate, late, faults>>

\* Mutant: the decision is stored as the status.
BugFinish ==
  /\ c.at = "loop" /\ c.op = "finalize" /\ c.todo = {}
  /\ status' = IF c.failed THEN status ELSE decision
  /\ c' = Idle
  /\ UNCHANGED <<decision, node, info, host, gate, late, faults>>

Finish ==
  /\ c.at = "loop" /\ c.op = "finalize" /\ c.todo = {}
  /\ status' = IF c.failed THEN status
               ELSE IF decision = "commit" THEN "complete" ELSE "rolled_back"
  /\ c' = Idle
  /\ UNCHANGED <<decision, node, info, host, gate, late, faults>>

(* --------------------------------- faults ------------------------------------ *)
\* A call to a participant fails: it never began, it stopped half way, or it
\* was executed and only its answer is missing.
CallFails(p) ==
  /\ c.at = "reply" /\ IsNext(p)
  /\ \E h \in {host[p], execute(host[p], c.op)} \cup Interrupted(host[p], c.op) :
       host' = [host EXCEPT ![p] = h]
  /\ Fault(1, 0)
  /\ UNCHANGED <<decision, node, info, gate, late>>

\* The transport gives up; the request is still on its way to the host.
CallOverdue(p) ==
  /\ c.at = "reply" /\ IsNext(p)
  /\ late' = late \cup {<<p, c.op>>}
  /\ Fault(0, 1)
  /\ UNCHANGED <<decision, node, info, host, gate>>

GateAction == CASE c.at = "acquiring" -> "acquire"
                [] c.at = "sealing" -> "seal"
                [] OTHER -> "release"

\* A seal of an adapter without one is a read of the gate: it has no effect.
GateEffects(g) ==
  IF c.at = "sealing" /\ g \notin Sealable THEN {gate[g]}
  ELSE {gate[g]} \cup GateInterrupted(gate[g], g \in Drain, GateAction) \cup
       IF GateAccepts(gate[g], g \in Drain, GateAction)
       THEN {change(gate[g], g \in Drain, GateAction)} ELSE {}

GateCallFails(g) ==
  /\ c.at \in {"acquiring", "sealing", "releasing"} /\ IsNextGate(g)
  /\ \E s \in GateEffects(g) : gate' = [gate EXCEPT ![g] = s]
  /\ Fault(1, 0)
  /\ UNCHANGED <<decision, node, info, host, late>>

GateCallOverdue(g) ==
  /\ c.at \in {"acquiring", "sealing", "releasing"} /\ IsNextGate(g)
  /\ c.at = "sealing" => g \in Sealable
  /\ late' = late \cup {<<g, GateAction>>}
  /\ Fault(0, 1)
  /\ UNCHANGED <<decision, node, info, host, gate>>

\* A gate check fails though the gate holds (the probe or its transport did).
CheckFails ==
  /\ c.at \in {"close", "seal"} \/ (c.at = "loop" /\ c.todo # {} /\ c.op # "finalize")
  /\ Gates # {}
  /\ Fault(1, 0)
  /\ UNCHANGED <<decision, node, info, host, gate, late>>

CoordinatorCrash ==
  /\ c.at # "idle"
  /\ faults.failed < MaxFaults
  /\ faults' = [faults EXCEPT !.failed = @ + 1]
  /\ Crash
  /\ UNCHANGED <<decision, node, info, host, gate, late>>

\* An overdue request reaches its host.
Arrives(r) ==
  /\ r \in late
  /\ late' = late \ {r}
  /\ IF r[2] \in Operations
     THEN host' = [host EXCEPT ![r[1]] = execute(@, r[2])] /\ UNCHANGED gate
     ELSE /\ gate' = IF GateAccepts(gate[r[1]], r[1] \in Drain, r[2])
                     THEN [gate EXCEPT ![r[1]] = change(@, r[1] \in Drain, r[2])] ELSE gate
          /\ UNCHANGED host
  /\ UNCHANGED <<journal, c, faults>>

(* ------------------------------ specification -------------------------------- *)
Coordinator ==
  \/ Run \/ GatesClosed \/ NextOperation \/ TakeDecision \/ SealBarrier
  \/ OpenGates \/ Finalize \/ Finish
  \/ \E p \in Participants : Call(p) \/ Reply(p)
  \/ \E g \in Gates : \/ CloseGate(g) \/ Acquired(g) \/ SealGate(g)
                      \/ Sealed(g) \/ OpenGate(g) \/ Released(g)

Environment ==
  \/ CheckFails \/ CoordinatorCrash
  \/ \E p \in Participants : CallFails(p) \/ CallOverdue(p)
  \/ \E g \in Gates : GateCallFails(g) \/ GateCallOverdue(g)
  \/ \E r \in late : Arrives(r)

Next == Coordinator \/ Environment

Spec == Init /\ [][Next]_vars

\* The coordinator keeps working, and the operator resumes a transaction that
\* is not finished with the same command.
FairSpec == Spec /\ WF_vars(Coordinator)

(* ------------------------------- properties ---------------------------------- *)
\* The version each participant offers to its users.
Serves == [p \in Participants |-> IF host[p].admits THEN host[p].running ELSE "down"]

Atomic == INSTANCE AtomicUpdate WITH decided <- decision, serves <- Serves

\* The update is atomic for the users of the installation: participants leave
\* service before the decision of _call/run is saved and come back once, all
\* with the decided version, whatever was lost, repeated or executed late.
AtomicUpdateSpec == Atomic!AtomicSpec

\* Public ingress is open only while every participant admits work and runs
\* what is installed: _close_gates precedes every quiesce and _activate opens
\* the gates only after the last activation.
OpenMeansServing ==
  (\E g \in Gates : ~Fenced(gate[g])) =>
     \A p \in Participants : host[p].admits /\ host[p].running = host[p].installed

\* A snapshot that can still be restored is pinned behind the global barrier of
\* _seal_gates: nobody admits work and every gate is sealed, so the snapshots
\* of all hosts describe one moment, even one that a late request takes.
SnapshotBarrier ==
  [][\A p \in Participants :
        /\ "snapshot" \in host'[p].receipts \ host[p].receipts
        /\ ~host[p].restored
        => /\ \A q \in Participants : ~host[q].admits
           /\ \A g \in Gates : IsSealed(g)]_vars

\* Data that may hold admitted writes is never replaced: once the new version
\* is committed on the journal, or a host has decided to admit work, neither
\* its installation nor what it runs changes, whoever crashes, retries or is
\* late (the decision of run, admission_decided of _execute).
AdmittedDataKept ==
  [][\A p \in Participants :
        decision = "commit" \/ host[p].admission_decided =>
           /\ host'[p].installed = host[p].installed
           /\ host'[p].running = host[p].running]_vars

\* A gate that a finished transaction reopened is never closed again by one of
\* that transaction's requests, an acquire that arrives late included.
ReopenedForGood ==
  [][\A g \in Gates : gate[g].terminal /\ ~Fenced(gate[g]) => ~Fenced(gate'[g])]_vars

\* A transaction that was started is finished, one way or the other, when the
\* operator keeps resuming it and faults stop.
Terminates == (status # "none") ~> (status \in Terminal)

\* A recovery that is pending gets out of recovery_pending when it is resumed.
RecoveryResumes == (status = "recovery_pending") ~> (status # "recovery_pending")

===============================================================================
