------------------------ MODULE UpdateTransactionProofs ------------------------
(* The update is atomic for any inventory, any orders, any number of faults    *)
(* and any number of overdue calls: UpdateTransaction implements AtomicUpdate. *)
EXTENDS UpdateTransaction, TLAPS

(* --------------------------- inductive invariant ----------------------------- *)
Serving(p) == host[p].admits /\ ~host[p].admission_decided

\* The operations of a pass that is not decided yet.
ForwardOps == {"prepare", "quiesce", "snapshot", "apply", "start", "verify"}
RecoveryOps == {"prepare", "quiesce", "rollback", "start", "verify_rollback"}
InLoop == c.at \in {"loop", "reply"}

\* The participants the current pass is about.
Names == IF c.forward THEN Participants ELSE Involved

\* Where the coordinator can be before and after the decision.
ControlInv ==
  /\ c.forward => decision = "none" /\ late = {} /\ ~c.failed
  /\ decision = "none" => /\ c.at \notin {"open", "releasing"}
                          /\ InLoop => c.op \in IF c.forward THEN ForwardOps ELSE RecoveryOps
                          /\ c.at \in {"seal", "sealing"} => c.op = "quiesce" /\ c.todo = {}
  /\ decision # "none" => /\ c.at \in {"idle", "loop", "reply", "open", "releasing"}
                          /\ InLoop => c.op \in {"activate", "finalize"}
  /\ InLoop => c.todo \subseteq Names
  /\ c.at = "reply" => \A p \in Participants : IsNext(p) => node[p].pending = c.op

\* A request for a participant was sent by the coordinator, after its intent.
RequestInv ==
  /\ \A p \in Participants : p \notin Involved =>
       host[p] = NewHost /\ \A op \in Operations : <<p, op>> \notin late
  /\ \A p \in Participants, op \in Operations : <<p, op>> \in late =>
       /\ decision = "none" => op \notin {"activate", "finalize"}
       /\ decision = "commit" => op \in {"activate", "finalize"}

\* A host that still serves was not touched, and serves nothing but the old version.
ServingInv ==
  \A p \in Participants :
     /\ ~host[p].apply_attempted => host[p].installed = "old"
     /\ decision = "none" => ~host[p].admission_decided
     /\ Serving(p) => /\ host[p].phase \in {"none", "prepare"}
                      /\ host[p].running = "old" /\ host[p].installed = "old"
     /\ Serving(p) /\ p \in Involved => decision = "none"

\* What the finished part of the current pass has established.
PassInv ==
  decision = "none" =>
    /\ InLoop /\ c.op = "quiesce" => \A p \in Names \ c.todo : ~host[p].admits
    /\ c.at \in {"seal", "sealing"} => \A p \in Names : ~host[p].admits
    /\ InLoop /\ c.op \notin {"prepare", "quiesce"} => \A p \in Names : ~host[p].admits
    /\ InLoop /\ c.op = "verify" => \A p \in Names \ c.todo : host[p].running = "new"
    /\ InLoop /\ c.op = "rollback" /\ ~c.failed =>
         \A p \in Names \ c.todo : host[p].restored /\ host[p].installed = "old"
    /\ InLoop /\ ~c.forward /\ c.op \in {"start", "verify_rollback"} =>
         \A p \in Names : host[p].restored /\ host[p].installed = "old"
    /\ InLoop /\ ~c.forward /\ c.op = "start" /\ ~c.failed =>
         \A p \in Names \ c.todo : host[p].running = "old"
    /\ InLoop /\ c.op = "verify_rollback" =>
         \A p \in Names : host[p].running = "old"

\* What the decision rests on, and what no later request can disturb.
DecisionInv ==
  /\ decision = "commit" => \A p \in Participants : /\ host[p].running = "new"
                                                    /\ ~Serving(p)
  /\ decision = "rollback" =>
       \A p \in Involved : /\ host[p].running = "old" /\ host[p].installed = "old"
                           /\ host[p].restored

IInv == TypeOK /\ ControlInv /\ RequestInv /\ ServingInv /\ PassInv /\ DecisionInv

\* Nothing was sent or decided before the journal exists.
StartInv == status = "none" => c.at = "idle" /\ decision = "none" /\ late = {}

(* ------------------------- what a request does to a host --------------------- *)
\* The records a request can leave behind: not begun, finished, or interrupted.
Outcomes(h, op) == {h, execute(h, op)} \cup Interrupted(h, op)

\* The intent, field by field.
LEMMA IntendedFields ==
  ASSUME NEW h \in HostRecord, NEW op \in Operations
  PROVE  LET i == Intended(h, op) IN
         /\ i \in HostRecord
         /\ i.phase = h.phase /\ i.receipts = h.receipts
         /\ i.restored = h.restored /\ i.finalized = h.finalized
         /\ i.installed = h.installed /\ i.running = h.running /\ i.admits = h.admits
         /\ i.apply_attempted <=> (h.apply_attempted \/ op = "apply")
         /\ i.admission_decided <=> (h.admission_decided \/ op = "activate")
BY DEF HostRecord, Intended

\* The effect of the runtime, field by field.
LEMMA EffectFields ==
  ASSUME NEW h \in HostRecord, NEW op \in Operations
  PROVE  LET e == Effect(h, op) IN
         /\ e \in HostRecord
         /\ e.phase = h.phase /\ e.receipts = h.receipts
         /\ e.restored = h.restored /\ e.finalized = h.finalized
         /\ e.apply_attempted = h.apply_attempted
         /\ e.admission_decided = h.admission_decided
         /\ op = "apply" => e.installed = "new"
         /\ op = "rollback" /\ h.apply_attempted => e.installed = "old"
         /\ op # "apply" /\ ~(op = "rollback" /\ h.apply_attempted) => e.installed = h.installed
         /\ op = "start" => e.running = h.installed
         /\ op # "start" => e.running = h.running
         /\ op = "quiesce" => ~e.admits
         /\ op \notin {"quiesce", "activate"} => e.admits = h.admits
         /\ op = "activate" /\ h.admits => e.admits
<1>1. CASE op = "apply"
  BY <1>1 DEF Effect, Restores, HostRecord, Versions
<1>2. CASE op = "rollback" /\ h.apply_attempted
  BY <1>2 DEF Effect, Restores, HostRecord, Versions
<1>3. CASE op = "start"
  BY <1>3 DEF Effect, Restores, HostRecord, Versions
<1>4. CASE op = "quiesce"
  BY <1>4 DEF Effect, Restores, HostRecord, Versions
<1>5. CASE op = "activate" /\ "activate" \notin h.receipts
  BY <1>5 DEF Effect, Restores, HostRecord, Versions
<1>6. CASE /\ op \notin {"apply", "start", "quiesce"}
           /\ ~(op = "rollback" /\ h.apply_attempted)
           /\ ~(op = "activate" /\ "activate" \notin h.receipts)
  BY <1>6 DEF Effect, Restores, HostRecord, Versions
<1> QED
  BY <1>1, <1>2, <1>3, <1>4, <1>5, <1>6

\* The receipt of a request, field by field.
LEMMA ReceiptFields ==
  ASSUME NEW e \in HostRecord, NEW op \in Operations
  PROVE  LET d == Receipt(e, op) IN
         /\ d \in HostRecord
         /\ d.phase = op /\ d.receipts = e.receipts \cup {op}
         /\ d.restored <=> (e.restored \/ op = "rollback")
         /\ d.apply_attempted = e.apply_attempted
         /\ d.admission_decided = e.admission_decided
         /\ d.installed = e.installed /\ d.running = e.running /\ d.admits = e.admits
BY DEF HostRecord, Receipt

\* A half-finished change of the installation, field by field.
LEMMA TornFields ==
  ASSUME NEW h \in HostRecord
  PROVE  LET t == Torn(h) IN
         /\ t \in HostRecord
         /\ t.phase = h.phase /\ t.receipts = h.receipts
         /\ t.restored = h.restored
         /\ t.apply_attempted = h.apply_attempted
         /\ t.admission_decided = h.admission_decided
         /\ t.installed = "torn" /\ t.running = h.running /\ t.admits = h.admits
BY DEF HostRecord, Torn

\* The records an accepted request can leave behind.
LEMMA OutcomeCases ==
  ASSUME NEW h \in HostRecord, NEW op \in Operations, NEW d \in Outcomes(h, op)
  PROVE  LET i == Intended(h, op) IN
         \/ d = h
         \/ /\ Accepts(h, op)
            /\ \/ d \in {i, Effect(i, op), Completed(h, op)}
               \/ (op = "apply" \/ Restores(i, op)) /\ d = Torn(i)
BY DEF Outcomes, execute, Interrupted

\* What no request does, whatever becomes of it.
LEMMA OutcomeFacts ==
  ASSUME NEW h \in HostRecord, NEW op \in Operations, NEW d \in Outcomes(h, op)
  PROVE  /\ d \in HostRecord
         /\ op # "activate" => /\ d.admits => h.admits
                               /\ d.admission_decided => h.admission_decided
         /\ h.admission_decided => /\ d.admission_decided
                                   /\ d.running = h.running /\ d.installed = h.installed
                                   /\ h.admits => d.admits
         /\ op \in {"activate", "finalize"} =>
              /\ d.running = h.running /\ d.installed = h.installed
              /\ d.restored <=> h.restored
              /\ h.admits => d.admits
              /\ d.admits => h.admits \/ d.admission_decided
         /\ h.restored => d.restored
         /\ h.phase \in {"none", "prepare"} =>
              /\ d.running = h.running /\ d.installed = h.installed
              /\ d.admission_decided <=> h.admission_decided
              /\ d.admits => h.admits /\ d.phase \in {"none", "prepare"}
         /\ (~h.apply_attempted => h.installed = "old") =>
              (~d.apply_attempted => d.installed = "old")
         /\ op = "start" => d.installed = h.installed /\ (d.restored <=> h.restored)
         /\ op \in {"verify", "verify_rollback"} =>
              d.running = h.running /\ d.installed = h.installed
<1> DEFINE i == Intended(h, op)
           f == Effect(i, op)
<1>i. /\ i \in HostRecord
      /\ i.phase = h.phase /\ i.receipts = h.receipts
      /\ i.restored = h.restored /\ i.installed = h.installed
      /\ i.running = h.running /\ i.admits = h.admits
      /\ i.apply_attempted <=> (h.apply_attempted \/ op = "apply")
      /\ i.admission_decided <=> (h.admission_decided \/ op = "activate")
  BY IntendedFields
<1> HIDE DEF i
<1>f. /\ f \in HostRecord
      /\ f.phase = i.phase /\ f.restored = i.restored
      /\ f.apply_attempted = i.apply_attempted
      /\ f.admission_decided = i.admission_decided
      /\ op = "apply" => f.installed = "new"
      /\ op = "rollback" /\ i.apply_attempted => f.installed = "old"
      /\ op # "apply" /\ ~(op = "rollback" /\ i.apply_attempted) => f.installed = i.installed
      /\ op = "start" => f.running = i.installed
      /\ op # "start" => f.running = i.running
      /\ op = "quiesce" => ~f.admits
      /\ op \notin {"quiesce", "activate"} => f.admits = i.admits
      /\ op = "activate" /\ i.admits => f.admits
  BY <1>i, EffectFields
<1> HIDE DEF f
<1>t. LET t == Torn(i) IN
      /\ t \in HostRecord /\ t.phase = i.phase /\ t.restored = i.restored
      /\ t.apply_attempted = i.apply_attempted
      /\ t.admission_decided = i.admission_decided
      /\ t.running = i.running /\ t.admits = i.admits
  BY <1>i, TornFields
<1>c. LET e == Completed(h, op) IN
      /\ e \in HostRecord /\ e.phase = op
      /\ e.restored <=> (f.restored \/ op = "rollback")
      /\ e.apply_attempted = f.apply_attempted
      /\ e.admission_decided = f.admission_decided
      /\ e.installed = f.installed /\ e.running = f.running /\ e.admits = f.admits
  BY <1>f, ReceiptFields DEF Completed, i, f
<1>a. Accepts(h, op) =>
        /\ h.admission_decided => op \in {"activate", "finalize"}
        /\ h.phase \in {"none", "prepare"} => op \in {"prepare", "quiesce"}
  BY DEF Accepts, Allowed, Operations
<1>1. CASE d = h
  BY <1>1 DEF HostRecord
<1>2. CASE Accepts(h, op) /\ d = i
  BY <1>2, <1>i, <1>a DEF HostRecord
<1>3. CASE Accepts(h, op) /\ d = f
  BY <1>3, <1>i, <1>f, <1>a DEF HostRecord
<1>4. CASE Accepts(h, op) /\ d = Completed(h, op)
  BY <1>4, <1>i, <1>f, <1>c, <1>a DEF HostRecord
<1>5. CASE Accepts(h, op) /\ (op = "apply" \/ Restores(i, op)) /\ d = Torn(i)
  BY <1>5, <1>i, <1>t, <1>a DEF HostRecord, Restores
<1> QED
  BY <1>1, <1>2, <1>3, <1>4, <1>5, OutcomeCases DEF i, f

\* What an executed request does to a host that was restored.
LEMMA ExecuteRestored ==
  ASSUME NEW h \in HostRecord, NEW op \in Operations,
         h.restored, h.installed = "old"
  PROVE  /\ execute(h, op).installed = "old"
         /\ h.running = "old" => execute(h, op).running = "old"
         /\ op = "start" /\ Succeeds(h, op) => execute(h, op).running = "old"
<1> DEFINE i == Intended(h, op)
           f == Effect(i, op)
<1>i. /\ i \in HostRecord /\ i.restored /\ i.installed = "old" /\ i.running = h.running
  BY IntendedFields
<1> HIDE DEF i
<1>f. /\ f \in HostRecord
      /\ op # "apply" => f.installed = "old"
      /\ op = "start" => f.running = "old"
      /\ op # "start" => f.running = h.running
  BY <1>i, EffectFields
<1> HIDE DEF f
<1>c. Completed(h, op).installed = f.installed /\ Completed(h, op).running = f.running
  BY <1>f, ReceiptFields DEF Completed, i, f
<1>a. Accepts(h, op) => op # "apply"
  BY DEF Accepts
<1>1. CASE execute(h, op) = h /\ ~(op = "start" /\ Succeeds(h, op))
  BY <1>1
<1>2. CASE execute(h, op) = i /\ ~(op = "start" /\ Succeeds(h, op))
  BY <1>2, <1>i
<1>3. CASE execute(h, op) = Completed(h, op) /\ Accepts(h, op)
  BY <1>3, <1>a, <1>c, <1>f
<1> QED
  BY <1>1, <1>2, <1>3 DEF execute, Succeeds, Cached, i

\* What a successful answer means.
LEMMA SuccessFacts ==
  ASSUME NEW h \in HostRecord, NEW op \in Operations, Succeeds(h, op),
         ~h.apply_attempted => h.installed = "old"
  PROVE  /\ op = "quiesce" => ~execute(h, op).admits
         /\ op = "verify" => execute(h, op).running = "new"
         /\ op = "rollback" => execute(h, op).restored /\ execute(h, op).installed = "old"
<1> DEFINE i == Intended(h, op)
           f == Effect(i, op)
<1>i. /\ i \in HostRecord /\ i.running = h.running /\ i.installed = h.installed
      /\ op = "rollback" => (i.apply_attempted <=> h.apply_attempted)
  BY IntendedFields
<1> HIDE DEF i
<1>f. /\ f \in HostRecord
      /\ op = "quiesce" => ~f.admits
      /\ op = "verify" => f.running = h.running
      /\ op = "rollback" => f.installed = "old"
  BY <1>i, EffectFields
<1> HIDE DEF f
<1>c. LET e == Completed(h, op) IN
      /\ e.admits = f.admits /\ e.running = f.running /\ e.installed = f.installed
      /\ op = "rollback" => e.restored
  BY <1>f, ReceiptFields DEF Completed, i, f
<1>1. op \in {"quiesce", "verify", "rollback"} =>
        execute(h, op) = Completed(h, op) /\ Verified(h, op)
  BY DEF execute, Succeeds, Cached
<1> QED
  BY <1>1, <1>c, <1>f DEF Verified

(* --------------------------- the coordinator's control ----------------------- *)
\* A loop has one participant whose turn it is.
LEMMA NextUnique ==
  ASSUME TypeOK, NEW p \in Participants, NEW q \in Participants, IsNext(p), IsNext(q)
  PROVE  p = q
<1> SUFFICES ASSUME p # q PROVE FALSE
  OBVIOUS
<1>1. Before(p, q) /\ Before(q, p)
  BY DEF IsNext
<1>2. p \in Nat /\ q \in Nat
  BY InventoryAssumption
<1>3. /\ QuiesceRank[p] \in Nat /\ QuiesceRank[q] \in Nat
      /\ ActivateRank[p] \in Nat /\ ActivateRank[q] \in Nat
  BY OrderAssumption
<1> QED
  BY <1>1, <1>2, <1>3 DEF Before

\* Where a failed call leaves the coordinator.
LEMMA FailCases ==
  ASSUME TypeOK, Fail \/ Crash
  PROVE  /\ c' \in Control /\ status' \in Statuses /\ ~c'.forward
         /\ \/ c'.at = "idle"
            \/ c.forward /\ c'.at = "close"
            \/ /\ c'.at = "loop" /\ c'.op = c.op /\ c'.failed /\ c'.todo \subseteq c.todo
               /\ ~c.forward /\ InLoop
               /\ c.op \in {"rollback", "start", "verify_rollback", "finalize"}
<1> USE DEF TypeOK
<1>1. Idle \in Control /\ ~Idle.forward /\ Idle.at = "idle"
  BY DEF Idle, Control
<1>2. CASE c' = Idle /\ status' \in Statuses
  BY <1>1, <1>2
<1>3. CASE c.forward /\ Recover
  BY <1>3 DEF Recover, Idle, Control, Statuses
<1>4. CASE /\ ~c.forward /\ InLoop
           /\ c.op \in {"rollback", "start", "verify_rollback", "finalize"}
           /\ c' = [c EXCEPT !.at = "loop", !.failed = TRUE,
                             !.todo = @ \ {CHOOSE p \in c.todo : IsNext(p)}]
           /\ status' = status
  BY <1>4 DEF Control
<1>5. CASE Crash
  BY <1>2, <1>5 DEF Crash
<1>6. CASE Fail
  <2>1. CASE c.forward /\ c.at \in {"close", "acquiring"}
    BY <1>2, <1>6, <2>1 DEF Fail, Statuses
  <2>2. CASE c.forward /\ c.at \notin {"close", "acquiring"}
    BY <1>3, <1>6, <2>2 DEF Fail
  <2>3. CASE /\ ~c.forward /\ InLoop
             /\ c.op \in {"rollback", "start", "verify_rollback", "finalize"}
    BY <1>4, <1>6, <2>3 DEF Fail, InLoop
  <2>4. CASE ~c.forward /\ ~(/\ InLoop
                /\ c.op \in {"rollback", "start", "verify_rollback", "finalize"})
    BY <1>2, <1>6, <2>4 DEF Fail, InLoop
  <2> QED
    BY <2>1, <2>2, <2>3, <2>4
<1> QED
  BY <1>5, <1>6

\* A gate's record keeps its type.
LEMMA GateType ==
  ASSUME NEW s \in GateRecord, NEW drain \in BOOLEAN, NEW action \in GateActions
  PROVE  /\ change(s, drain, action) \in GateRecord
         /\ GateInterrupted(s, drain, action) \subseteq GateRecord
<1>1. change(s, drain, action) \in GateRecord
  BY DEF GateRecord, GateActions, change, Settled
<1>2. CASE ~GateAccepts(s, drain, action) \/ Settled(s, action)
  BY <1>1, <1>2 DEF GateInterrupted
<1>3. CASE ~(~GateAccepts(s, drain, action) \/ Settled(s, action))
  <2>1. CASE action = "acquire"
    <3> DEFINE b == [s EXCEPT !.phase = IF drain THEN "draining" ELSE "closing"]
    <3>1. GateInterrupted(s, drain, action) =
            {b, IF drain THEN [b EXCEPT !.draining = TRUE] ELSE [b EXCEPT !.fence = TRUE]}
      BY <1>3, <2>1 DEF GateInterrupted
    <3>2. b \in GateRecord
      BY DEF GateRecord
    <3> HIDE DEF b
    <3>3. [b EXCEPT !.draining = TRUE] \in GateRecord /\ [b EXCEPT !.fence = TRUE] \in GateRecord
      BY <3>2 DEF GateRecord
    <3> QED
      BY <1>1, <3>1, <3>2, <3>3
  <2>2. CASE action = "seal"
    <3> DEFINE b == [s EXCEPT !.phase = "sealing"]
    <3>1. GateInterrupted(s, drain, action) =
            {b, [b EXCEPT !.fence = TRUE], [b EXCEPT !.fence = TRUE, !.draining = FALSE]}
      BY <1>3, <2>2 DEF GateInterrupted
    <3>2. b \in GateRecord
      BY DEF GateRecord
    <3> HIDE DEF b
    <3>3. /\ [b EXCEPT !.fence = TRUE] \in GateRecord
          /\ [b EXCEPT !.fence = TRUE, !.draining = FALSE] \in GateRecord
      BY <3>2 DEF GateRecord
    <3> QED
      BY <1>1, <3>1, <3>2, <3>3
  <2>3. CASE action = "release"
    <3> DEFINE b == [s EXCEPT !.phase = "releasing"]
    <3>1. GateInterrupted(s, drain, action) =
            {b, [b EXCEPT !.terminal = TRUE], [b EXCEPT !.terminal = TRUE, !.fence = FALSE]}
      BY <1>3, <2>3 DEF GateInterrupted
    <3>2. b \in GateRecord
      BY DEF GateRecord
    <3> HIDE DEF b
    <3>3. /\ [b EXCEPT !.terminal = TRUE] \in GateRecord
          /\ [b EXCEPT !.terminal = TRUE, !.fence = FALSE] \in GateRecord
      BY <3>2 DEF GateRecord
    <3> QED
      BY <1>1, <3>1, <3>2, <3>3
  <2> QED
    BY <2>1, <2>2, <2>3 DEF GateActions
<1> QED
  BY <1>1, <1>2, <1>3

(* ------------------------------- host steps ---------------------------------- *)
\* A request that reaches an involved host keeps what the hosts guarantee, and
\* is a Withdraw, an Admit or a stutter of the abstract update.
LEMMA HostStep ==
  ASSUME IInv, NEW p \in Involved, NEW op \in Operations,
         NEW d \in Outcomes(host[p], op),
         host' = [host EXCEPT ![p] = d], decision' = decision, Involved' = Involved,
         decision = "none" => op \notin {"activate", "finalize"},
         decision = "commit" => op \in {"activate", "finalize"},
         decision = "rollback" =>
           op \in {"activate", "finalize"} \/ d = execute(host[p], op)
  PROVE  /\ host' \in [Participants -> HostRecord]
         /\ host'[p] = d
         /\ \A q \in Participants : q # p => host'[q] = host[q]
         /\ ServingInv' /\ DecisionInv'
         /\ [Atomic!ANext]_(Atomic!aVars)
<1> DEFINE h == host[p]
<1>t. p \in Participants /\ h \in HostRecord /\ host \in [Participants -> HostRecord]
  BY DEF IInv, TypeOK, Involved
<1>d. decision \in {"none", "commit", "rollback"}
  BY DEF IInv, TypeOK
<1> HIDE DEF h
<1>f. /\ d \in HostRecord
      /\ op # "activate" => /\ d.admits => h.admits
                            /\ d.admission_decided => h.admission_decided
      /\ h.admission_decided => /\ d.admission_decided
                                /\ d.running = h.running /\ d.installed = h.installed
                                /\ h.admits => d.admits
      /\ op \in {"activate", "finalize"} =>
           /\ d.running = h.running /\ d.installed = h.installed
           /\ d.restored <=> h.restored
           /\ h.admits => d.admits
           /\ d.admits => h.admits \/ d.admission_decided
      /\ h.restored => d.restored
      /\ h.phase \in {"none", "prepare"} =>
           /\ d.running = h.running /\ d.installed = h.installed
           /\ d.admission_decided <=> h.admission_decided
           /\ d.admits => h.admits /\ d.phase \in {"none", "prepare"}
      /\ (~h.apply_attempted => h.installed = "old") =>
           (~d.apply_attempted => d.installed = "old")
  BY <1>t, OutcomeFacts DEF h
<1>s. /\ ~h.apply_attempted => h.installed = "old"
      /\ decision = "none" => ~h.admission_decided
      /\ h.admits /\ ~h.admission_decided =>
           /\ h.phase \in {"none", "prepare"} /\ h.running = "old" /\ h.installed = "old"
           /\ decision = "none"
  BY <1>t DEF IInv, ServingInv, Serving, h
<1>v. /\ decision = "commit" => h.running = "new"
      /\ decision = "rollback" => h.running = "old" /\ h.installed = "old" /\ h.restored
  BY <1>t DEF IInv, DecisionInv, h
<1>1. /\ host' \in [Participants -> HostRecord] /\ host'[p] = d
      /\ \A q \in Participants : q # p => host'[q] = host[q]
  BY <1>t, <1>f
<1>2. ServingInv'
  <2> SUFFICES ASSUME NEW q \in Participants
               PROVE  /\ ~host'[q].apply_attempted => host'[q].installed = "old"
                      /\ decision = "none" => ~host'[q].admission_decided
                      /\ host'[q].admits /\ ~host'[q].admission_decided =>
                           /\ host'[q].phase \in {"none", "prepare"}
                           /\ host'[q].running = "old" /\ host'[q].installed = "old"
                           /\ q \in Involved => decision = "none"
    BY DEF ServingInv, Serving
  <2>1. CASE q # p
    BY <1>1, <2>1 DEF IInv, ServingInv, Serving
  <2>2. CASE q = p
    <3>1. ~d.apply_attempted => d.installed = "old"
      BY <1>f, <1>s
    <3>2. decision = "none" => ~d.admission_decided
      BY <1>f, <1>s
    <3>3. ASSUME d.admits, ~d.admission_decided
          PROVE  /\ d.phase \in {"none", "prepare"}
                 /\ d.running = "old" /\ d.installed = "old" /\ decision = "none"
      BY <1>f, <1>s, <3>3
    <3> QED
      BY <1>1, <2>2, <3>1, <3>2, <3>3
  <2> QED
    BY <2>1, <2>2
<1>3. DecisionInv'
  <2>1. decision = "rollback" => d.installed = "old" /\ d.running = "old" /\ d.restored
    <3>1. CASE op \in {"activate", "finalize"}
      BY <1>f, <1>v, <3>1
    <3>2. CASE d = execute(h, op)
      BY <1>f, <1>t, <1>v, <3>2, ExecuteRestored
    <3> QED
      BY <3>1, <3>2 DEF h
  <2>2. decision = "commit" => d.running = "new" /\ ~(d.admits /\ ~d.admission_decided)
    BY <1>f, <1>s, <1>v
  <2> QED
    BY <1>1, <1>t, <2>1, <2>2 DEF IInv, DecisionInv, Serving, Involved
<1>4. [Atomic!ANext]_(Atomic!aVars)
  <2> DEFINE v(x) == IF x.admits THEN x.running ELSE "down"
  <2>1. Serves = [q \in Participants |-> v(host[q])]
        /\ Serves' = [q \in Participants |-> v(host'[q])]
    BY DEF Serves
  <2>2. Serves' = [Serves EXCEPT ![p] = v(d)]
    BY <1>1, <1>t, <2>1
  <2>3. Serves[p] = v(h)
    BY <1>t, <2>1 DEF h
  <2>4. CASE v(d) = v(h)
    <3>1. Serves' = Serves
      BY <1>t, <2>1, <2>2, <2>3, <2>4
    <3> QED
      BY <3>1 DEF Atomic!aVars
  <2>5. CASE ~h.admits /\ d.admits
    <3>1. op = "activate" /\ decision # "none"
      BY <1>f, <2>5
    <3>2. d.running = Atomic!VersionOf(decision)
      BY <1>d, <1>f, <1>v, <3>1 DEF Atomic!VersionOf
    <3>3. Atomic!Admit(p)
      BY <2>2, <2>3, <2>5, <3>1, <3>2 DEF Atomic!Admit
    <3> QED
      BY <1>t, <3>3 DEF Atomic!ANext
  <2>6. CASE h.admits /\ ~d.admits
    <3>1. decision = "none"
      BY <1>f, <1>s, <2>6
    <3>2. Atomic!Withdraw(p)
      BY <2>2, <2>6, <3>1 DEF Atomic!Withdraw
    <3> QED
      BY <1>t, <3>2 DEF Atomic!ANext
  <2>7. CASE h.admits /\ d.admits
    BY <1>f, <1>s, <2>4, <2>7
  <2>8. CASE ~h.admits /\ ~d.admits
    BY <2>4, <2>8
  <2> QED
    BY <2>5, <2>6, <2>7, <2>8
<1> QED
  BY <1>1, <1>2, <1>3, <1>4

(* ---------------------------- coordinator steps ------------------------------ *)
\* A step that touches neither the hosts nor what was decided about them.
LEMMA QuietKeeps ==
  ASSUME IInv, UNCHANGED <<decision, node, host, late>>
  PROVE  /\ RequestInv' /\ ServingInv' /\ DecisionInv'
         /\ Involved' = Involved
         /\ UNCHANGED Atomic!aVars
<1>1. Involved' = Involved
  BY DEF Involved
<1>2. Serves' = Serves
  BY DEF Serves
<1> QED
  BY <1>1, <1>2 DEF IInv, RequestInv, ServingInv, Serving, DecisionInv, Atomic!aVars

\* A failed call leaves a control state that claims no more than before.
LEMMA FailKeeps ==
  ASSUME IInv, Fail \/ Crash, decision' = decision, Involved' = Involved,
         decision = "none" => \A q \in Involved : host'[q].admits => host[q].admits,
         /\ decision = "none" /\ InLoop /\ ~c.forward
         /\ c.op \in {"start", "verify_rollback"}
         => \A q \in Involved :
              /\ host[q].restored => host'[q].restored
              /\ host[q].installed = "old" => host'[q].installed = "old"
              /\ c.op = "verify_rollback" /\ host[q].running = "old"
                   => host'[q].running = "old"
  PROVE  c' \in Control /\ status' \in Statuses /\ ControlInv' /\ PassInv'
<1>1. /\ c' \in Control /\ status' \in Statuses /\ ~c'.forward
      /\ \/ c'.at = "idle"
         \/ c.forward /\ c'.at = "close"
         \/ /\ c'.at = "loop" /\ c'.op = c.op /\ c'.failed /\ c'.todo \subseteq c.todo
            /\ ~c.forward /\ InLoop
            /\ c.op \in {"rollback", "start", "verify_rollback", "finalize"}
  BY FailCases DEF IInv
<1>2. ControlInv'
  BY <1>1 DEF IInv, ControlInv, InLoop, Names
<1>3. PassInv'
  <2>1. CASE c'.at \in {"idle", "close"}
    BY <2>1 DEF PassInv, InLoop
  <2>2. CASE /\ c'.at = "loop" /\ c'.op = c.op /\ c'.failed
             /\ ~c.forward /\ InLoop
             /\ c.op \in {"rollback", "start", "verify_rollback", "finalize"}
    <3> SUFFICES ASSUME decision = "none"
                 PROVE  /\ \A q \in Involved : ~host'[q].admits
                        /\ c.op \in {"start", "verify_rollback"} =>
                             \A q \in Involved : host'[q].restored /\ host'[q].installed = "old"
                        /\ c.op = "verify_rollback" =>
                             \A q \in Involved : host'[q].running = "old"
      BY <1>1, <2>2 DEF PassInv, InLoop, Names
    <3> QED
      BY <2>2 DEF IInv, PassInv, Names
  <2> QED
    BY <1>1, <2>1, <2>2
<1> QED
  BY <1>1, <1>2, <1>3

\* The same, when the hosts are left alone.
LEMMA FailQuiet ==
  ASSUME IInv, Fail \/ Crash, UNCHANGED <<decision, node, host>>
  PROVE  c' \in Control /\ status' \in Statuses /\ ControlInv' /\ PassInv'
<1>1. Involved' = Involved
  BY DEF Involved
<1> QED
  BY <1>1, FailKeeps

\* A step inside a loop that moves no participant on.
LEMMA SameLoop ==
  ASSUME IInv, UNCHANGED <<decision, node, host, late>>, c' \in Control,
         c'.forward = c.forward, c'.op = c.op, c'.todo = c.todo, c'.failed = c.failed,
         \/ c.at \in {"close", "acquiring"} /\ c'.at \in {"close", "acquiring"}
         \/ c.at \in {"seal", "sealing"} /\ c'.at \in {"seal", "sealing"}
         \/ c.at \in {"open", "releasing"} /\ c'.at \in {"open", "releasing"}
         \/ c.at = "loop" /\ c.op = "quiesce" /\ c.todo = {} /\ c'.at = "seal"
         \/ c.at = "loop" /\ c.op = "activate" /\ c'.at = "open"
  PROVE  ControlInv' /\ PassInv'
<1>1. Names' = Names
  BY QuietKeeps DEF Names
<1>2. ControlInv'
  BY <1>1 DEF IInv, ControlInv, InLoop, RecoveryOps, ForwardOps
<1>3. PassInv'
  BY <1>1 DEF IInv, ControlInv, PassInv, InLoop
<1> QED
  BY <1>2, <1>3

\* The types of the variables that carry no guarantee of their own.
InfoType == [Gates -> [pending : {"none", "acquire", "release"},
                       state : {"unknown", "closed", "open"},
                       seal : {"none", "pending", "sealed"}]]
FaultType == [failed : 0..MaxFaults, late : 0..MaxLate]

\* What every step has to show.
Preserved == IInv' /\ [Atomic!ANext]_(Atomic!aVars)

\* A quiet step is a stutter of the abstract update.
LEMMA QuietStep ==
  ASSUME IInv, UNCHANGED <<decision, node, host, late>>,
         c' \in Control, status' \in Statuses, info' \in InfoType,
         gate' \in [Gates -> GateRecord], faults' \in FaultType,
         ControlInv', PassInv'
  PROVE  Preserved
<1>1. TypeOK'
  BY DEF IInv, TypeOK, InfoType, FaultType
<1> QED
  BY <1>1, QuietKeeps DEF IInv, Preserved

\* The unchanged part of a step has its type.
LEMMA TypeFacts ==
  ASSUME IInv
  PROVE  /\ c \in Control /\ status \in Statuses /\ info \in InfoType
         /\ gate \in [Gates -> GateRecord] /\ faults \in FaultType
         /\ host \in [Participants -> HostRecord] /\ late \subseteq Requests
         /\ node \in [Participants -> [completed : SUBSET Operations,
                                       pending : Operations \cup {"none"}, previous : BOOLEAN]]
BY DEF IInv, TypeOK, InfoType, FaultType

\* Entering a loop of calls before the decision.
LEMMA LoopEntry ==
  ASSUME IInv, UNCHANGED <<decision, node, host, late>>, decision = "none",
         NEW op, NEW names, op \in IF c.forward THEN ForwardOps ELSE RecoveryOps,
         names \subseteq Names, Loop(op, names)
  PROVE  c' \in Control /\ status' \in Statuses /\ ControlInv'
         /\ Names' = Names /\ c'.at = "loop" /\ c'.op = op /\ c'.todo = names
         /\ c'.forward = c.forward /\ ~c'.failed
<1>1. /\ c' \in Control /\ c'.at = "loop" /\ c'.op = op /\ c'.todo = names
      /\ c'.forward = c.forward /\ ~c'.failed
  <2>1. names \subseteq Participants
    BY DEF Names, Involved
  <2>2. op \in Operations
    BY DEF ForwardOps, RecoveryOps, Operations
  <2> QED
    BY <2>1, <2>2, TypeFacts DEF Loop, Control
<1>2. status' \in Statuses
  BY TypeFacts DEF Loop, Statuses, ForwardOps
<1>3. Names' = Names
  BY <1>1, QuietKeeps DEF Names
<1>4. ControlInv'
  BY <1>1, <1>3 DEF IInv, ControlInv, InLoop
<1> QED
  BY <1>1, <1>2, <1>3, <1>4

\* Entering the activation: everyone left to activate is involved.
LEMMA ActivateEntry ==
  ASSUME TypeOK, Activate, Involved' = Involved, decision' # "none"
  PROVE  c' \in Control /\ status' \in Statuses /\ ControlInv' /\ PassInv'
<1>1. /\ c' \in Control /\ c'.at = "loop" /\ c'.op = "activate"
      /\ c'.todo \subseteq Involved /\ ~c'.forward
  BY DEF Activate, Idle, Control, Operations, Involved
<1>2. status' \in Statuses
  BY DEF Activate, Statuses
<1>3. ControlInv' /\ PassInv'
  BY <1>1 DEF ControlInv, PassInv, InLoop, Names
<1> QED
  BY <1>1, <1>2, <1>3

\* run: a new transaction, or the continuation of an unfinished one.
LEMMA RunStep == IInv /\ StartInv /\ Run => Preserved
<1> SUFFICES ASSUME IInv, StartInv, Run PROVE Preserved
  OBVIOUS
<1>0. Involved' = Involved /\ UNCHANGED <<decision, node, host, late, info, gate, faults>>
  BY QuietKeeps DEF Run
<1>1. CASE /\ status = "none" /\ status' = "preparing"
           /\ c' = [Idle EXCEPT !.at = "close", !.forward = TRUE, !.gates = Gates]
  <2>1. c' \in Control /\ c'.at = "close" /\ ~c'.failed /\ status' \in Statuses
    BY <1>1 DEF Idle, Control, Statuses
  <2>2. ControlInv' /\ PassInv'
    BY <1>0, <1>1, <2>1 DEF ControlInv, PassInv, InLoop, StartInv
  <2> QED
    BY <1>0, <2>1, <2>2, TypeFacts, QuietStep
<1>2. CASE decision # "none" /\ Activate
  BY <1>0, <1>2, ActivateEntry, TypeFacts, QuietStep DEF IInv
<1>3. CASE decision = "none" /\ Recover
  <2>1. c' \in Control /\ c'.at = "close" /\ ~c'.forward /\ status' \in Statuses
    BY <1>3 DEF Recover, Idle, Control, Statuses
  <2>2. ControlInv' /\ PassInv'
    BY <1>0, <1>3, <2>1 DEF ControlInv, PassInv, InLoop
  <2> QED
    BY <1>0, <2>1, <2>2, TypeFacts, QuietStep
<1> QED
  BY <1>1, <1>2, <1>3 DEF Run

\* _close_gates and the loops of calls.
LEMMA GatesClosedStep == IInv /\ GatesClosed => Preserved
<1> SUFFICES ASSUME IInv, GatesClosed PROVE Preserved
  OBVIOUS
<1> DEFINE names == IF c.forward THEN Participants ELSE {p \in Involved : ~node[p].previous}
<1>1. /\ decision = "none" /\ names \subseteq Names /\ Loop("prepare", names)
      /\ UNCHANGED <<decision, node, host, late, info, gate, faults>>
  BY DEF GatesClosed, IInv, TypeOK, ControlInv, Names
<1>2. c' \in Control /\ status' \in Statuses /\ ControlInv' /\ c'.at = "loop" /\ c'.op = "prepare"
  BY <1>1, LoopEntry DEF ForwardOps, RecoveryOps
<1>3. PassInv'
  BY <1>2 DEF PassInv, InLoop
<1> QED
  BY <1>1, <1>2, <1>3, TypeFacts, QuietStep

\* Behind the seal barrier nobody the pass is about admits work.
LEMMA SealBarrierStep == IInv /\ SealBarrier => Preserved
<1> SUFFICES ASSUME IInv, SealBarrier PROVE Preserved
  OBVIOUS
<1> DEFINE op == IF c.forward THEN "snapshot" ELSE "rollback"
<1>0. UNCHANGED <<decision, node, host, late, info, gate, faults>> /\ c.at = "seal"
  BY DEF SealBarrier
<1>1. CASE Loop(op, Names)
  <2>1. decision = "none" /\ \A p \in Names : ~host[p].admits
    BY <1>0 DEF IInv, TypeOK, ControlInv, PassInv
  <2>2. /\ c' \in Control /\ status' \in Statuses /\ ControlInv'
        /\ Names' = Names /\ c'.at = "loop" /\ c'.op = op /\ c'.todo = Names
        /\ c'.forward = c.forward /\ ~c'.failed
    BY <1>0, <1>1, <2>1, LoopEntry DEF ForwardOps, RecoveryOps
  <2>3. PassInv'
    BY <1>0, <2>1, <2>2 DEF PassInv, InLoop
  <2> QED
    BY <1>0, <2>2, <2>3, TypeFacts, QuietStep
<1>2. CASE Fail
  BY <1>0, <1>2, FailQuiet, TypeFacts, QuietStep
<1> QED
  BY <1>1, <1>2 DEF SealBarrier, Names

\* A finished loop establishes what the next operation relies on.
LEMMA NextOperationStep == IInv /\ NextOperation => Preserved
<1> SUFFICES ASSUME IInv, NextOperation PROVE Preserved
  OBVIOUS
<1>0. /\ UNCHANGED <<decision, node, host, late, info, gate, faults>>
      /\ c.at = "loop" /\ c.todo = {}
      /\ c.op \notin {"verify", "verify_rollback", "activate", "finalize"}
  BY DEF NextOperation
<1>1. /\ decision = "none"
      /\ c.op \in IF c.forward THEN ForwardOps ELSE RecoveryOps
  BY <1>0 DEF IInv, TypeOK, ControlInv, InLoop
<1>2. CASE c' = Idle /\ UNCHANGED status
  BY <1>0, <1>2, FailQuiet, TypeFacts, QuietStep DEF Crash
<1>3. CASE ~c.failed /\ c.op = "quiesce" /\ c' = [c EXCEPT !.at = "seal", !.gates = Gates] /\ UNCHANGED status
  <2>1. /\ c' \in Control /\ c'.at = "seal" /\ c'.forward = c.forward /\ c'.op = c.op
        /\ c'.todo = c.todo /\ c'.failed = c.failed
    BY <1>3, TypeFacts DEF Control
  <2> QED
    BY <1>0, <1>3, <2>1, SameLoop, TypeFacts, QuietStep
<1>4. CASE ~c.failed /\ c.op # "quiesce"
  <2>1. PICK op : /\ Loop(op, Names)
                  /\ c.op = "prepare" => op = "quiesce"
                  /\ c.op = "snapshot" => op = "apply"
                  /\ c.op \in {"apply", "rollback"} => op = "start"
                  /\ c.op = "start" => op = IF c.forward THEN "verify" ELSE "verify_rollback"
    BY <1>0, <1>1, <1>4 DEF NextOperation, Names
  <2>2. op \in IF c.forward THEN ForwardOps ELSE RecoveryOps
    BY <1>0, <1>1, <1>4, <2>1 DEF ForwardOps, RecoveryOps
  <2>3. /\ c' \in Control /\ status' \in Statuses /\ ControlInv'
        /\ Names' = Names /\ c'.at = "loop" /\ c'.op = op /\ c'.todo = Names
        /\ c'.forward = c.forward /\ ~c'.failed
    BY <1>0, <1>1, <2>1, <2>2, LoopEntry
  <2>4. PassInv'
    <3>1. op \notin {"prepare", "quiesce"} => \A p \in Names : ~host[p].admits
      BY <1>0, <1>1, <1>4, <2>1 DEF IInv, PassInv, InLoop, ForwardOps, RecoveryOps
    <3>2. ~c.forward /\ op \in {"start", "verify_rollback"} =>
            \A p \in Names : host[p].restored /\ host[p].installed = "old"
      BY <1>0, <1>1, <1>4, <2>1 DEF IInv, PassInv, InLoop, RecoveryOps
    <3>3. op = "verify_rollback" => \A p \in Names : host[p].running = "old"
      BY <1>0, <1>1, <1>4, <2>1 DEF IInv, PassInv, InLoop, ForwardOps, RecoveryOps
    <3> QED
      BY <1>0, <2>3, <3>1, <3>2, <3>3 DEF PassInv, InLoop
  <2> QED
    BY <1>0, <2>3, <2>4, TypeFacts, QuietStep
<1> QED
  BY <1>0, <1>1, <1>2, <1>3, <1>4 DEF NextOperation

\* A loop over the gates that goes on with the next one, or to its next call.
GateLoop ==
  /\ c' \in Control /\ c'.forward = c.forward /\ c'.op = c.op
  /\ c'.todo = c.todo /\ c'.failed = c.failed
  /\ \/ c.at \in {"close", "acquiring"} /\ c'.at \in {"close", "acquiring"}
     \/ c.at \in {"seal", "sealing"} /\ c'.at \in {"seal", "sealing"}
     \/ c.at \in {"open", "releasing"} /\ c'.at \in {"open", "releasing"}
     \/ c.at = "loop" /\ c.op = "activate" /\ c'.at = "open"

\* Such a step keeps the invariant.
LEMMA GateLoopStep ==
  ASSUME IInv, UNCHANGED <<decision, node, host, late, status>>, GateLoop,
         info' \in InfoType, gate' \in [Gates -> GateRecord], faults' \in FaultType
  PROVE  Preserved
BY SameLoop, TypeFacts, QuietStep DEF GateLoop

\* A failure that leaves the hosts alone.
LEMMA FailStep ==
  ASSUME IInv, UNCHANGED <<decision, node, host, late>>, Fail \/ Crash,
         info' \in InfoType, gate' \in [Gates -> GateRecord], faults' \in FaultType
  PROVE  Preserved
BY FailQuiet, QuietStep

\* Changes of the coordinator's gate records keep their type.
LEMMA InfoFacts ==
  ASSUME IInv, NEW g \in Gates
  PROVE  /\ [info EXCEPT ![g].pending = "acquire"] \in InfoType
         /\ [info EXCEPT ![g].pending = "release"] \in InfoType
         /\ [info EXCEPT ![g].pending = "none", ![g].state = "closed"] \in InfoType
         /\ [info EXCEPT ![g].seal = "pending"] \in InfoType
         /\ [info EXCEPT ![g].seal = "sealed"] \in InfoType
         /\ [info EXCEPT ![g] = [pending |-> "none", state |-> "open", seal |-> "none"]] \in InfoType
<1> DEFINE Rec == [pending : {"none", "acquire", "release"},
                  state : {"unknown", "closed", "open"},
                  seal : {"none", "pending", "sealed"}]
<1>1. info \in [Gates -> Rec] /\ InfoType = [Gates -> Rec]
  BY TypeFacts DEF InfoType
<1>2. [info EXCEPT ![g].pending = "acquire"] \in [Gates -> Rec]
  BY <1>1
<1>3. [info EXCEPT ![g].pending = "release"] \in [Gates -> Rec]
  BY <1>1
<1>4. [info EXCEPT ![g].pending = "none", ![g].state = "closed"] \in [Gates -> Rec]
  BY <1>1
<1>5. [info EXCEPT ![g].seal = "pending"] \in [Gates -> Rec]
  BY <1>1
<1>6. [info EXCEPT ![g].seal = "sealed"] \in [Gates -> Rec]
  BY <1>1
<1>7. [info EXCEPT ![g] = [pending |-> "none", state |-> "open", seal |-> "none"]]
        \in [Gates -> Rec]
  BY <1>1
<1> QED
  BY <1>1, <1>2, <1>3, <1>4, <1>5, <1>6, <1>7

\* A seal that is adopted keeps the type.
LEMMA AdoptType ==
  ASSUME IInv, NEW S, Adopt(S)
  PROVE  info' \in InfoType
<1> DEFINE Rec == [pending : {"none", "acquire", "release"},
                  state : {"unknown", "closed", "open"},
                  seal : {"none", "pending", "sealed"}]
           New(g) == IF g \in S /\ info[g].seal = "pending" /\ IsSealed(g)
                     THEN [info[g] EXCEPT !.seal = "sealed"] ELSE info[g]
<1>1. info \in [Gates -> Rec] /\ InfoType = [Gates -> Rec]
  BY TypeFacts DEF InfoType
<1>2. ASSUME NEW r \in Rec PROVE [r EXCEPT !.seal = "sealed"] \in Rec
  OBVIOUS
<1> HIDE DEF Rec
<1>3. ASSUME NEW g \in Gates PROVE New(g) \in Rec
  <2>1. info[g] \in Rec
    BY <1>1
  <2> QED
    BY <1>2, <2>1
<1>4. info' = [g \in Gates |-> New(g)]
  BY DEF Adopt
<1> HIDE DEF New
<1> QED
  BY <1>1, <1>3, <1>4

\* The record of a gate after a call keeps its type.
LEMMA GateFacts ==
  ASSUME IInv, NEW g \in Gates, NEW action \in GateActions
  PROVE  /\ [gate EXCEPT ![g] = change(gate[g], g \in Drain, action)] \in [Gates -> GateRecord]
         /\ GateInterrupted(gate[g], g \in Drain, action) \subseteq GateRecord
         /\ change(gate[g], g \in Drain, action) \in GateRecord
<1>1. gate[g] \in GateRecord /\ gate \in [Gates -> GateRecord]
  BY TypeFacts
<1>2. (g \in Drain) \in BOOLEAN
  OBVIOUS
<1>3. /\ change(gate[g], g \in Drain, action) \in GateRecord
      /\ GateInterrupted(gate[g], g \in Drain, action) \subseteq GateRecord
  BY <1>1, <1>2, GateType
<1> QED
  BY <1>1, <1>3

\* _close_gates, _seal_gates and the releases of _activate, gate by gate.
LEMMA GateStep ==
  ASSUME IInv, NEW g \in Gates,
         \/ CloseGate(g) \/ Acquired(g) \/ SealGate(g) \/ Sealed(g)
         \/ OpenGate(g) \/ Released(g)
  PROVE  Preserved
<1>t. "acquire" \in GateActions /\ "seal" \in GateActions /\ "release" \in GateActions
  BY DEF GateActions
<1>1. CASE CloseGate(g)
  <2>0. UNCHANGED <<decision, node, host, gate, late, faults>> /\ c.at = "close"
    BY <1>1 DEF CloseGate
  <2>1. CASE info' = [info EXCEPT ![g].pending = "acquire"]
             /\ c' = [c EXCEPT !.at = "acquiring"] /\ UNCHANGED status
    <3>1. GateLoop /\ info' \in InfoType
      BY <2>0, <2>1, InfoFacts, TypeFacts DEF Control, GateLoop
    <3> QED
      BY <2>0, <2>1, <3>1, TypeFacts, GateLoopStep
  <2>2. CASE c' = [c EXCEPT !.gates = @ \ {g}] /\ UNCHANGED <<status, info>>
    <3>1. GateLoop
      BY <2>0, <2>2, TypeFacts DEF Control, GateLoop
    <3> QED
      BY <2>0, <2>2, <3>1, TypeFacts, GateLoopStep
  <2>3. CASE Fail /\ UNCHANGED info
    BY <2>0, <2>3, FailStep, TypeFacts
  <2> QED
    BY <1>1, <2>1, <2>2, <2>3 DEF CloseGate
<1>2. CASE Acquired(g)
  <2>0. UNCHANGED <<decision, node, host, late, faults>> /\ c.at = "acquiring"
    BY <1>2 DEF Acquired
  <2>1. CASE Fail /\ info' = info /\ gate' = gate
    BY <2>0, <2>1, FailStep, TypeFacts
  <2>2. CASE /\ info' = [info EXCEPT ![g].pending = "none", ![g].state = "closed"]
             /\ gate' \in {gate, [gate EXCEPT ![g] = change(gate[g], g \in Drain, "acquire")]}
             /\ Fail \/ (c' = [c EXCEPT !.at = "close", !.gates = @ \ {g}] /\ UNCHANGED status)
    <3>1. info' \in InfoType /\ gate' \in [Gates -> GateRecord]
      <4>1. [gate EXCEPT ![g] = change(gate[g], g \in Drain, "acquire")] \in [Gates -> GateRecord]
        BY <1>t, GateFacts
      <4>2. info' \in InfoType
        BY <2>2, InfoFacts
      <4>3. gate \in [Gates -> GateRecord]
        BY TypeFacts
      <4> QED
        BY <2>2, <4>1, <4>2, <4>3
    <3>2. CASE Fail
      BY <2>0, <3>1, <3>2, FailStep, TypeFacts
    <3>3. CASE c' = [c EXCEPT !.at = "close", !.gates = @ \ {g}] /\ UNCHANGED status
      <4>1. GateLoop
        BY <2>0, <3>3, TypeFacts DEF Control, GateLoop
      <4> QED
        BY <2>0, <3>1, <3>3, <4>1, TypeFacts, GateLoopStep
    <3> QED
      BY <2>2, <3>2, <3>3
  <2> QED
    BY <1>2, <2>1, <2>2 DEF Acquired
<1>3. CASE SealGate(g)
  <2>0. UNCHANGED <<decision, node, host, gate, late, faults>> /\ c.at = "seal"
    BY <1>3 DEF SealGate
  <2>1. CASE info' = [info EXCEPT ![g].seal = "pending"]
             /\ c' = [c EXCEPT !.at = "sealing"] /\ UNCHANGED status
    <3>1. GateLoop /\ info' \in InfoType
      BY <2>0, <2>1, InfoFacts, TypeFacts DEF Control, GateLoop
    <3> QED
      BY <2>0, <2>1, <3>1, TypeFacts, GateLoopStep
  <2>2. CASE c' = [c EXCEPT !.gates = @ \ {g}] /\ UNCHANGED <<status, info>>
    <3>1. GateLoop
      BY <2>0, <2>2, TypeFacts DEF Control, GateLoop
    <3> QED
      BY <2>0, <2>2, <3>1, TypeFacts, GateLoopStep
  <2>3. CASE Fail /\ UNCHANGED info
    BY <2>0, <2>3, FailStep, TypeFacts
  <2> QED
    BY <1>3, <2>1, <2>2, <2>3 DEF SealGate
<1>4. CASE Sealed(g)
  <2>0. UNCHANGED <<decision, node, host, late, faults>> /\ c.at = "sealing"
    BY <1>4 DEF Sealed
  <2>1. CASE Fail /\ info' = info /\ gate' = gate
    BY <2>0, <2>1, FailStep, TypeFacts
  <2>2. CASE /\ info' = [info EXCEPT ![g].seal = "sealed"]
             /\ gate' \in {gate, [gate EXCEPT ![g] = change(gate[g], g \in Drain, "seal")]}
             /\ Fail \/ (c' = [c EXCEPT !.at = "seal", !.gates = @ \ {g}] /\ UNCHANGED status)
    <3>1. info' \in InfoType /\ gate' \in [Gates -> GateRecord]
      <4>1. [gate EXCEPT ![g] = change(gate[g], g \in Drain, "seal")] \in [Gates -> GateRecord]
        BY <1>t, GateFacts
      <4>2. info' \in InfoType
        BY <2>2, InfoFacts
      <4>3. gate \in [Gates -> GateRecord]
        BY TypeFacts
      <4> QED
        BY <2>2, <4>1, <4>2, <4>3
    <3>2. CASE Fail
      BY <2>0, <3>1, <3>2, FailStep, TypeFacts
    <3>3. CASE c' = [c EXCEPT !.at = "seal", !.gates = @ \ {g}] /\ UNCHANGED status
      <4>1. GateLoop
        BY <2>0, <3>3, TypeFacts DEF Control, GateLoop
      <4> QED
        BY <2>0, <3>1, <3>3, <4>1, TypeFacts, GateLoopStep
    <3> QED
      BY <2>2, <3>2, <3>3
  <2> QED
    BY <1>4, <2>1, <2>2 DEF Sealed
<1>5. CASE OpenGate(g)
  <2>1. GateLoop /\ info' \in InfoType
    BY <1>5, InfoFacts, TypeFacts DEF OpenGate, Control, GateLoop
  <2> QED
    BY <1>5, <2>1, TypeFacts, GateLoopStep DEF OpenGate
<1>6. CASE Released(g)
  <2>0. UNCHANGED <<decision, node, host, late, faults>> /\ c.at = "releasing"
    BY <1>6 DEF Released
  <2>1. CASE Fail /\ info' = info /\ gate' = gate
    BY <2>0, <2>1, FailStep, TypeFacts
  <2>2. CASE /\ info' = [info EXCEPT ![g] = [pending |-> "none", state |-> "open", seal |-> "none"]]
             /\ gate' \in {gate, [gate EXCEPT ![g] = change(gate[g], g \in Drain, "release")]}
             /\ Fail \/ (c' = [c EXCEPT !.at = "open", !.gates = @ \ {g}] /\ UNCHANGED status)
    <3>1. info' \in InfoType /\ gate' \in [Gates -> GateRecord]
      <4>1. [gate EXCEPT ![g] = change(gate[g], g \in Drain, "release")] \in [Gates -> GateRecord]
        BY <1>t, GateFacts
      <4>2. info' \in InfoType
        BY <2>2, InfoFacts
      <4>3. gate \in [Gates -> GateRecord]
        BY TypeFacts
      <4> QED
        BY <2>2, <4>1, <4>2, <4>3
    <3>2. CASE Fail
      BY <2>0, <3>1, <3>2, FailStep, TypeFacts
    <3>3. CASE c' = [c EXCEPT !.at = "open", !.gates = @ \ {g}] /\ UNCHANGED status
      <4>1. GateLoop
        BY <2>0, <3>3, TypeFacts DEF Control, GateLoop
      <4> QED
        BY <2>0, <3>1, <3>3, <4>1, TypeFacts, GateLoopStep
    <3> QED
      BY <2>2, <3>2, <3>3
  <2> QED
    BY <1>6, <2>1, <2>2 DEF Released
<1> QED
  BY <1>1, <1>2, <1>3, <1>4, <1>5, <1>6

\* The release of the gates and the finalization, which come after the decision.
LEMMA ClosingStep == IInv /\ (OpenGates \/ Finalize \/ Finish) => Preserved
<1> SUFFICES ASSUME IInv, OpenGates \/ Finalize \/ Finish PROVE Preserved
  OBVIOUS
<1>1. CASE OpenGates
  <2>1. GateLoop
    BY <1>1, TypeFacts DEF OpenGates, Control, GateLoop
  <2> QED
    BY <1>1, <2>1, TypeFacts, GateLoopStep DEF OpenGates, journal
<1>2. CASE Finalize
  <2> DEFINE names == {p \in Participants : /\ node[p].completed # {}
                                            /\ "finalize" \notin node[p].completed}
  <2>0. /\ UNCHANGED <<decision, node, host, late, info, gate, faults>> /\ c.at = "open"
        /\ c' = [c EXCEPT !.at = "loop", !.op = "finalize", !.todo = names]
        /\ status' \in Statuses
    BY <1>2 DEF Finalize, Statuses
  <2>1. decision # "none" /\ ~c.forward /\ names \subseteq Involved /\ Involved' = Involved
    BY <2>0, QuietKeeps DEF IInv, ControlInv, Involved
  <2>2. /\ c' \in Control /\ c'.at = "loop" /\ c'.op = "finalize" /\ ~c'.forward
        /\ c'.todo \subseteq Involved
    BY <2>0, <2>1, TypeFacts DEF Control, Operations, Involved
  <2>3. ControlInv' /\ PassInv'
    BY <2>0, <2>1, <2>2 DEF ControlInv, PassInv, InLoop, Names
  <2> QED
    BY <2>0, <2>2, <2>3, TypeFacts, QuietStep
<1>3. CASE Finish
  <2>0. UNCHANGED <<decision, node, host, late, info, gate, faults>> /\ c' = Idle
    BY <1>3 DEF Finish
  <2>1. c' \in Control /\ c'.at = "idle" /\ ~c'.forward
    BY <2>0 DEF Idle, Control
  <2>2. status' \in Statuses
    BY <1>3, TypeFacts DEF Finish, Statuses, Terminal
  <2>3. ControlInv' /\ PassInv'
    BY <2>1 DEF ControlInv, PassInv, InLoop
  <2> QED
    BY <2>0, <2>1, <2>2, <2>3, TypeFacts, QuietStep
<1> QED
  BY <1>1, <1>2, <1>3

\* The decision: every participant is out of service and was verified.
LEMMA DecisionStep == IInv /\ TakeDecision => Preserved
<1> SUFFICES ASSUME IInv, TakeDecision PROVE Preserved
  OBVIOUS
<1>0. /\ UNCHANGED <<node, info, host, gate, late, faults>>
      /\ c.at = "loop" /\ c.todo = {} /\ c.op \in {"verify", "verify_rollback"}
  BY DEF TakeDecision
<1>1. CASE c' = Idle /\ UNCHANGED <<status, decision>>
  BY <1>0, <1>1, FailStep, TypeFacts DEF Crash
<1>2. CASE ~c.failed /\ Activate /\ decision' = IF c.forward THEN "commit" ELSE "rollback"
  <2>1. /\ decision = "none"
        /\ c.forward <=> c.op = "verify"
        /\ \A p \in Names : ~host[p].admits
        /\ c.forward => late = {} /\ \A p \in Participants : host[p].running = "new"
        /\ ~c.forward => \A p \in Involved : /\ host[p].running = "old"
                                              /\ host[p].installed = "old" /\ host[p].restored
    BY <1>0 DEF IInv, TypeOK, Control, ControlInv, PassInv, InLoop, Names, ForwardOps, RecoveryOps
  <2>2. Involved' = Involved /\ Serves' = Serves
    BY <1>0 DEF Involved, Serves
  <2>3. c' \in Control /\ status' \in Statuses /\ ControlInv' /\ PassInv'
    BY <1>2, <2>2, ActivateEntry DEF IInv
  <2>4. TypeOK'
    BY <1>0, <1>2, <2>3 DEF IInv, TypeOK
  <2>5. RequestInv'
    BY <1>0, <1>2, <2>1, <2>2 DEF IInv, RequestInv
  <2>6. ServingInv'
    BY <1>0, <1>2, <2>1, <2>2 DEF IInv, ServingInv, Serving, Names, Involved
  <2>7. DecisionInv'
    BY <1>0, <1>2, <2>1, <2>2 DEF DecisionInv, Serving, Names
  <2>8. Atomic!Decide(decision')
    <3>1. decision' = "commit" => \A p \in Participants : Serves[p] = "down"
      BY <1>2, <2>1 DEF Serves, Names
    <3> QED
      BY <2>1, <2>2, <3>1 DEF Atomic!Decide
  <2>9. Atomic!ANext
    BY <1>2, <2>8 DEF Atomic!ANext
  <2> QED
    BY <2>3, <2>4, <2>5, <2>6, <2>7, <2>9 DEF IInv, Preserved
<1> QED
  BY <1>1, <1>2 DEF TakeDecision

\* _call saves its intent: from here on the participant is involved.
LEMMA CallMade ==
  ASSUME IInv, NEW p \in Participants, Call(p), c.op = "finalize" \/ GatesHold
  PROVE  Preserved
<1>0. /\ UNCHANGED <<status, decision, host, gate, late, faults>>
      /\ c.at = "loop" /\ IsNext(p)
      /\ node' = [node EXCEPT ![p].pending = c.op] /\ c' = [c EXCEPT !.at = "reply"]
  BY DEF Call
<1>1. /\ c' \in Control /\ c'.at = "reply" /\ c'.op = c.op /\ c'.todo = c.todo
      /\ c'.forward = c.forward /\ c'.failed = c.failed
  BY <1>0, TypeFacts DEF Control
<1>2. c.op \in Operations
  BY <1>0 DEF IInv, TypeOK, ControlInv, InLoop, ForwardOps, RecoveryOps, Operations
<1>3. /\ node' \in [Participants -> [completed : SUBSET Operations,
                                      pending : Operations \cup {"none"}, previous : BOOLEAN]]
      /\ node'[p].pending = c.op /\ node'[p].completed = node[p].completed
      /\ \A q \in Participants : q # p => node'[q] = node[q]
  BY <1>0, <1>2, TypeFacts
<1>4. Involved' = Involved \cup {p}
  BY <1>2, <1>3 DEF Involved, Operations
<1>5. info' \in InfoType
  BY AdoptType, TypeFacts DEF Call
<1>6. TypeOK'
  BY <1>0, <1>1, <1>3, <1>5, TypeFacts DEF IInv, TypeOK, InfoType
<1>n. ~c.forward => p \in Involved
  BY <1>0 DEF IInv, ControlInv, InLoop, Names, IsNext
<1>m. ~c.forward => Involved' = Involved
  BY <1>4, <1>n
<1>k. Names' = Names
  BY <1>1, <1>m DEF Names
<1>7. ControlInv'
  <2>1. \A q \in Participants : IsNext(q)' => q = p
    <3> SUFFICES ASSUME NEW q \in Participants, IsNext(q)' PROVE q = p
      OBVIOUS
    <3>1. IsNext(q)
      BY <1>1 DEF IsNext, Before
    <3> QED
      BY <1>0, <3>1, NextUnique DEF IInv
  <2> QED
    BY <1>0, <1>1, <1>3, <1>k, <2>1 DEF IInv, ControlInv, InLoop
<1>8. RequestInv'
  BY <1>0, <1>4 DEF IInv, RequestInv
<1>d. decision # "none" => Involved' = Involved
  BY <1>m DEF IInv, ControlInv
<1>9. ServingInv'
  BY <1>0, <1>d DEF IInv, ServingInv, Serving
<1>10. PassInv'
  BY <1>0, <1>1, <1>k DEF IInv, PassInv, InLoop
<1>11. DecisionInv'
  BY <1>0, <1>d DEF IInv, DecisionInv, Serving
<1>12. UNCHANGED Atomic!aVars
  BY <1>0 DEF Atomic!aVars, Serves
<1> QED
  BY <1>6, <1>7, <1>8, <1>9, <1>10, <1>11, <1>12 DEF IInv, Preserved

\* _call makes the call or is stopped by a gate that does not hold.
LEMMA CallStep ==
  ASSUME IInv, NEW p \in Participants, Call(p)
  PROVE  Preserved
<1>1. CASE c.op = "finalize" \/ GatesHold
  BY <1>1, CallMade
<1>2. CASE ~(c.op = "finalize" \/ GatesHold)
  <2>1. Fail /\ Adopt(CheckedGates) /\ UNCHANGED <<decision, node, host, gate, late, faults>>
    BY <1>2 DEF Call
  <2> QED
    BY <2>1, AdoptType, FailStep, TypeFacts
<1> QED
  BY <1>1, <1>2

\* A call that is under way has its intent in the journal.
LEMMA ReplyFacts ==
  ASSUME IInv, NEW p \in Participants, c.at = "reply", IsNext(p)
  PROVE  /\ c.op \in Operations /\ p \in c.todo /\ p \in Involved
         /\ node[p].pending = c.op
         /\ decision = "none" => c.op \notin {"activate", "finalize"}
         /\ decision # "none" => c.op \in {"activate", "finalize"}
<1>1. /\ c.op \in Operations
      /\ decision = "none" => c.op \notin {"activate", "finalize"}
      /\ decision # "none" => c.op \in {"activate", "finalize"}
  BY DEF IInv, ControlInv, InLoop, ForwardOps, RecoveryOps, Operations
<1>2. node[p].pending = c.op /\ p \in c.todo
  BY DEF IInv, ControlInv, IsNext
<1>3. p \in Involved
  BY <1>1, <1>2 DEF Involved, Operations
<1> QED
  BY <1>1, <1>2, <1>3

\* The participant answered: its loop goes on, or the failure is handled.
LEMMA ReplyStep ==
  ASSUME IInv, NEW p \in Participants, Reply(p)
  PROVE  Preserved
<1> DEFINE h == host[p]
           d == execute(host[p], c.op)
<1>0. /\ c.at = "reply" /\ IsNext(p)
      /\ host' = [host EXCEPT ![p] = d]
      /\ UNCHANGED <<decision, info, gate, late, faults>>
  BY DEF Reply
<1>1. /\ c.op \in Operations /\ p \in c.todo /\ p \in Involved
      /\ node[p].pending = c.op
      /\ decision = "none" => c.op \notin {"activate", "finalize"}
      /\ decision # "none" => c.op \in {"activate", "finalize"}
  BY <1>0, ReplyFacts
<1>2. d \in Outcomes(h, c.op) /\ h \in HostRecord
  BY TypeFacts DEF Outcomes
<1>a. ~h.apply_attempted => h.installed = "old"
  BY DEF IInv, ServingInv
<1> HIDE DEF d
<1>3. ASSUME Involved' = Involved
      PROVE  /\ host' \in [Participants -> HostRecord] /\ host'[p] = d
             /\ \A q \in Participants : q # p => host'[q] = host[q]
             /\ ServingInv' /\ DecisionInv' /\ RequestInv'
             /\ [Atomic!ANext]_(Atomic!aVars)
  <2>1. /\ host' \in [Participants -> HostRecord] /\ host'[p] = d
        /\ \A q \in Participants : q # p => host'[q] = host[q]
        /\ ServingInv' /\ DecisionInv'
        /\ [Atomic!ANext]_(Atomic!aVars)
    BY <1>0, <1>1, <1>2, <1>3, HostStep
  <2>2. RequestInv'
    BY <1>0, <1>1, <1>3, <2>1 DEF IInv, RequestInv
  <2> QED
    BY <2>1, <2>2
<1>4. CASE Fail /\ UNCHANGED node
  <2>1. Involved' = Involved
    BY <1>4 DEF Involved
  <2>2. /\ decision = "none" => \A q \in Involved : host'[q].admits => host[q].admits
        /\ c.op \in {"start", "verify_rollback"} =>
             \A q \in Involved :
               /\ host[q].restored => host'[q].restored
               /\ host[q].installed = "old" => host'[q].installed = "old"
               /\ c.op = "verify_rollback" /\ host[q].running = "old"
                    => host'[q].running = "old"
    <3>1. /\ decision = "none" /\ d.admits => h.admits
          /\ c.op \in {"start", "verify_rollback"} =>
               /\ h.restored => d.restored
               /\ d.installed = h.installed
               /\ c.op = "verify_rollback" => d.running = h.running
      BY <1>1, <1>2, OutcomeFacts
    <3> QED
      BY <1>3, <2>1, <3>1 DEF Involved
  <2>3. c' \in Control /\ status' \in Statuses /\ ControlInv' /\ PassInv'
    BY <1>0, <1>4, <2>1, <2>2, FailKeeps
  <2>4. TypeOK'
    BY <1>0, <1>3, <1>4, <2>1, <2>3 DEF IInv, TypeOK
  <2> QED
    BY <1>3, <2>1, <2>3, <2>4 DEF IInv, Preserved
<1>5. CASE /\ Succeeds(h, c.op)
           /\ node' = [node EXCEPT ![p] = [completed |-> @.completed \cup {c.op}, pending |-> "none",
                                           previous |-> @.previous \/ c.op = "prepare"]]
           /\ c' = [c EXCEPT !.at = "loop", !.todo = @ \ {p}]
           /\ UNCHANGED status
  <2>1. /\ node' \in [Participants -> [completed : SUBSET Operations,
                                       pending : Operations \cup {"none"}, previous : BOOLEAN]]
        /\ node'[p].completed = node[p].completed \cup {c.op}
        /\ \A q \in Participants : q # p => node'[q] = node[q]
    <3> DEFINE Rec == [completed : SUBSET Operations,
                       pending : Operations \cup {"none"}, previous : BOOLEAN]
    <3>1. node \in [Participants -> Rec] /\ node[p] \in Rec
      BY TypeFacts
    <3>2. [completed |-> node[p].completed \cup {c.op}, pending |-> "none",
           previous |-> node[p].previous \/ c.op = "prepare"] \in Rec
      BY <1>1, <3>1
    <3> QED
      BY <1>5, <3>1, <3>2
  <2>2. Involved' = Involved
    BY <1>1, <2>1 DEF Involved
  <2>3. /\ c' \in Control /\ c'.at = "loop" /\ c'.op = c.op /\ c'.todo = c.todo \ {p}
        /\ c'.forward = c.forward /\ c'.failed = c.failed
    BY <1>5, TypeFacts DEF Control
  <2>4. Names' = Names /\ Names \subseteq Participants
    BY <2>2, <2>3 DEF Names, Involved
  <2>5. TypeOK'
    BY <1>0, <1>3, <1>5, <2>1, <2>2, <2>3 DEF IInv, TypeOK
  <2>6. ControlInv'
    BY <1>0, <2>3, <2>4 DEF IInv, ControlInv, InLoop
  <2>7. PassInv'
    <3>0. InLoop /\ InLoop'
      BY <1>0, <2>3 DEF InLoop
    <3>1. /\ c.op # "activate" /\ d.admits => h.admits
          /\ c.op = "quiesce" => ~d.admits
          /\ c.op = "verify" => d.running = "new"
          /\ c.op = "rollback" => d.restored /\ d.installed = "old"
          /\ c.op \in {"start", "verify_rollback"} => d.installed = h.installed
          /\ h.restored => d.restored
          /\ c.op = "verify_rollback" => d.running = h.running
          /\ c.op = "start" /\ h.restored /\ h.installed = "old" => d.running = "old"
      <4>1. /\ c.op = "quiesce" => ~d.admits
            /\ c.op = "verify" => d.running = "new"
            /\ c.op = "rollback" => d.restored /\ d.installed = "old"
        BY <1>1, <1>2, <1>5, <1>a, SuccessFacts DEF d
      <4>2. c.op = "start" /\ h.restored /\ h.installed = "old" => d.running = "old"
        BY <1>1, <1>2, <1>5, ExecuteRestored DEF d
      <4>3. /\ c.op # "activate" /\ d.admits => h.admits
            /\ c.op \in {"start", "verify_rollback"} => d.installed = h.installed
            /\ h.restored => d.restored
            /\ c.op = "verify_rollback" => d.running = h.running
        BY <1>1, <1>2, OutcomeFacts
      <4> QED
        BY <4>1, <4>2, <4>3
    <3>2. /\ host'[p] = d
          /\ \A q \in Names : q # p => host'[q] = host[q]
      BY <1>3, <2>2, <2>4
    <3>3. decision' = decision
      BY <1>0
    <3> SUFFICES ASSUME decision = "none" PROVE PassInv'
      BY <3>3 DEF PassInv
    <3>4. c.op = "quiesce" => \A q \in Names \ c'.todo : ~host'[q].admits
      BY <2>3, <3>0, <3>1, <3>2 DEF IInv, PassInv
    <3>5. c.op \notin {"prepare", "quiesce"} => \A q \in Names : ~host'[q].admits
      BY <1>1, <3>0, <3>1, <3>2 DEF IInv, PassInv
    <3>6. c.op = "verify" => \A q \in Names \ c'.todo : host'[q].running = "new"
      BY <2>3, <3>0, <3>1, <3>2 DEF IInv, PassInv
    <3>7. c.op = "rollback" /\ ~c.failed =>
            \A q \in Names \ c'.todo : host'[q].restored /\ host'[q].installed = "old"
      BY <2>3, <3>0, <3>1, <3>2 DEF IInv, PassInv
    <3>8. ~c.forward /\ c.op \in {"start", "verify_rollback"} =>
            \A q \in Names : host'[q].restored /\ host'[q].installed = "old"
      BY <3>0, <3>1, <3>2 DEF IInv, PassInv
    <3>9. ~c.forward /\ c.op = "start" /\ ~c.failed =>
            \A q \in Names \ c'.todo : host'[q].running = "old"
      BY <2>3, <3>0, <3>1, <3>2 DEF IInv, PassInv
    <3>10. c.op = "verify_rollback" => \A q \in Names : host'[q].running = "old"
      BY <3>0, <3>1, <3>2 DEF IInv, PassInv
    <3> QED
      BY <2>3, <2>4, <3>4, <3>5, <3>6, <3>7, <3>8, <3>9, <3>10 DEF PassInv, InLoop
  <2> QED
    BY <1>3, <2>2, <2>5, <2>6, <2>7 DEF IInv, Preserved
<1> QED
  BY <1>4, <1>5 DEF Reply

\* A fault is counted within its bound.
LEMMA FaultFacts ==
  ASSUME IInv, NEW n \in 0..1, NEW l \in 0..1, Fault(n, l)
  PROVE  faults' \in FaultType /\ (Fail \/ Crash)
<1>1. faults \in FaultType
  BY TypeFacts
<1>2. /\ faults' = [failed |-> faults.failed + n, late |-> faults.late + l]
      /\ faults'.failed <= MaxFaults /\ faults'.late <= MaxLate
      /\ Fail \/ Crash
  BY DEF Fault
<1>3. faults.failed + n \in 0..MaxFaults /\ faults.late + l \in 0..MaxLate
  BY <1>1, <1>2, BoundAssumption DEF FaultType
<1> QED
  BY <1>2, <1>3 DEF FaultType

\* A call that fails, whatever it left behind on the host.
LEMMA CallFailsStep ==
  ASSUME IInv, NEW p \in Participants, CallFails(p)
  PROVE  Preserved
<1>0. /\ c.at = "reply" /\ IsNext(p)
      /\ UNCHANGED <<decision, node, info, gate, late>> /\ Fault(1, 0)
  BY DEF CallFails
<1>1. PICK d \in Outcomes(host[p], c.op) : host' = [host EXCEPT ![p] = d]
  BY DEF CallFails, Outcomes
<1>2. /\ c.op \in Operations /\ p \in Involved
      /\ decision = "none" => c.op \notin {"activate", "finalize"}
      /\ decision # "none" => c.op \in {"activate", "finalize"}
  BY <1>0, ReplyFacts
<1>3. faults' \in FaultType /\ (Fail \/ Crash)
  BY <1>0, FaultFacts
<1>4. Involved' = Involved
  BY <1>0 DEF Involved
<1>5. /\ host' \in [Participants -> HostRecord] /\ host'[p] = d
      /\ \A q \in Participants : q # p => host'[q] = host[q]
      /\ ServingInv' /\ DecisionInv'
      /\ [Atomic!ANext]_(Atomic!aVars)
  BY <1>0, <1>1, <1>2, <1>4, HostStep
<1>6. RequestInv'
  BY <1>0, <1>2, <1>4, <1>5 DEF IInv, RequestInv
<1>7. host[p] \in HostRecord
  BY TypeFacts
<1>8. /\ decision = "none" /\ d.admits => host[p].admits
      /\ c.op \in {"start", "verify_rollback"} =>
           /\ host[p].restored => d.restored
           /\ d.installed = host[p].installed
           /\ c.op = "verify_rollback" => d.running = host[p].running
  BY <1>1, <1>2, <1>7, OutcomeFacts
<1>9. /\ decision = "none" => \A q \in Involved : host'[q].admits => host[q].admits
      /\ c.op \in {"start", "verify_rollback"} =>
           \A q \in Involved :
             /\ host[q].restored => host'[q].restored
             /\ host[q].installed = "old" => host'[q].installed = "old"
             /\ c.op = "verify_rollback" /\ host[q].running = "old"
                  => host'[q].running = "old"
  BY <1>5, <1>8 DEF Involved
<1>10. c' \in Control /\ status' \in Statuses /\ ControlInv' /\ PassInv'
  BY <1>0, <1>3, <1>4, <1>9, FailKeeps
<1>11. TypeOK'
  BY <1>0, <1>3, <1>5, <1>10 DEF IInv, TypeOK, FaultType
<1> QED
  BY <1>5, <1>6, <1>10, <1>11 DEF IInv, Preserved

\* A request that is given up joins the late ones.
LEMMA OverdueStep ==
  ASSUME IInv, NEW r \in Requests, late' = late \cup {r},
         UNCHANGED <<decision, node, info, host, gate>>, Fault(0, 1),
         \A p \in Participants, op \in Operations : r = <<p, op>> =>
            /\ p \in Involved
            /\ decision = "none" => op \notin {"activate", "finalize"}
            /\ decision = "commit" => op \in {"activate", "finalize"}
  PROVE  Preserved
<1>1. faults' \in FaultType /\ (Fail \/ Crash)
  BY FaultFacts
<1>2. c' \in Control /\ status' \in Statuses /\ ControlInv' /\ PassInv'
  BY <1>1, FailQuiet
<1>3. Involved' = Involved /\ Serves' = Serves
  BY DEF Involved, Serves
<1>4. TypeOK'
  BY <1>1, <1>2 DEF IInv, TypeOK, FaultType
<1>5. RequestInv'
  BY <1>3 DEF IInv, RequestInv
<1>6. ServingInv' /\ DecisionInv' /\ UNCHANGED Atomic!aVars
  BY <1>3 DEF IInv, ServingInv, Serving, DecisionInv, Atomic!aVars
<1> QED
  BY <1>2, <1>4, <1>5, <1>6 DEF IInv, Preserved

\* A participant's call, or a gate's, is given up.
LEMMA CallOverdueStep ==
  ASSUME IInv, \/ \E p \in Participants : CallOverdue(p)
               \/ \E g \in Gates : GateCallOverdue(g)
  PROVE  Preserved
<1>d. Operations \cap GateActions = {}
  BY DEF Operations, GateActions
<1>1. ASSUME NEW p \in Participants, CallOverdue(p) PROVE Preserved
  <2>1. /\ c.op \in Operations /\ p \in Involved
        /\ decision = "none" => c.op \notin {"activate", "finalize"}
        /\ decision # "none" => c.op \in {"activate", "finalize"}
    BY <1>1, ReplyFacts DEF CallOverdue
  <2>2. <<p, c.op>> \in Requests
    BY <2>1 DEF Requests
  <2> QED
    BY <1>1, <2>1, <2>2, OverdueStep DEF CallOverdue
<1>2. ASSUME NEW g \in Gates, GateCallOverdue(g) PROVE Preserved
  <2>1. GateAction \in GateActions
    BY DEF GateAction, GateActions
  <2>2. /\ <<g, GateAction>> \in Requests
        /\ \A p \in Participants, op \in Operations : <<g, GateAction>> # <<p, op>>
    BY <1>d, <2>1 DEF Requests
  <2> QED
    BY <1>2, <2>2, OverdueStep DEF GateCallOverdue
<1> QED
  BY <1>1, <1>2

\* A gate call that fails, a check that fails, and a crash leave the hosts alone.
LEMMA EnvironmentStep ==
  ASSUME IInv, CheckFails \/ CoordinatorCrash \/ \E g \in Gates : GateCallFails(g)
  PROVE  Preserved
<1>1. CASE CheckFails
  BY <1>1, FaultFacts, FailStep, TypeFacts DEF CheckFails
<1>2. CASE CoordinatorCrash
  <2>1. faults' \in FaultType
    BY <1>2, TypeFacts, BoundAssumption DEF CoordinatorCrash, FaultType
  <2> QED
    BY <1>2, <2>1, FailStep, TypeFacts DEF CoordinatorCrash
<1>3. ASSUME NEW g \in Gates, GateCallFails(g) PROVE Preserved
  <2>1. PICK s \in GateEffects(g) : gate' = [gate EXCEPT ![g] = s]
    BY <1>3 DEF GateCallFails
  <2>2. GateAction \in GateActions
    BY DEF GateAction, GateActions
  <2>3. /\ GateInterrupted(gate[g], g \in Drain, GateAction) \subseteq GateRecord
        /\ change(gate[g], g \in Drain, GateAction) \in GateRecord
        /\ gate[g] \in GateRecord /\ gate \in [Gates -> GateRecord]
    BY <2>2, GateFacts, TypeFacts
  <2>4. s \in GateRecord
    BY <2>1, <2>3 DEF GateEffects
  <2>5. gate' \in [Gates -> GateRecord]
    BY <2>1, <2>3, <2>4
  <2> QED
    BY <1>3, <2>5, FaultFacts, FailStep, TypeFacts DEF GateCallFails
<1> QED
  BY <1>1, <1>2, <1>3

\* An overdue request is executed: it disturbs neither the pass nor the decision.
LEMMA ArrivesStep ==
  ASSUME IInv, NEW r \in late, Arrives(r)
  PROVE  Preserved
<1>0. late' = late \ {r} /\ UNCHANGED <<status, decision, node, info, c, faults>>
  BY DEF Arrives, journal
<1>1. ~c.forward /\ Involved' = Involved /\ Names' = Names /\ r \in Requests
  BY <1>0, TypeFacts DEF IInv, ControlInv, Involved, Names
<1>2. ControlInv'
  BY <1>0, <1>1 DEF IInv, ControlInv, InLoop, IsNext, Before
<1>3. CASE r[2] \in Operations
  <2>1. PICK p \in Participants, op \in Operations : r = <<p, op>>
    BY <1>1, <1>3 DEF Requests, Operations, GateActions
  <2> DEFINE d == execute(host[p], op)
  <2>2. host' = [host EXCEPT ![p] = d] /\ gate' = gate
    BY <1>3, <2>1 DEF Arrives
  <2>3. /\ p \in Involved
        /\ decision = "none" => op \notin {"activate", "finalize"}
        /\ decision = "commit" => op \in {"activate", "finalize"}
    BY <2>1 DEF IInv, RequestInv
  <2>4. d \in Outcomes(host[p], op) /\ host[p] \in HostRecord
    BY TypeFacts DEF Outcomes
  <2>5. /\ op # "activate" /\ d.admits => host[p].admits
        /\ host[p].restored => d.restored
        /\ host[p].restored /\ host[p].installed = "old" =>
             /\ d.installed = "old"
             /\ host[p].running = "old" => d.running = "old"
    BY <2>4, OutcomeFacts, ExecuteRestored
  <2>6. /\ host' \in [Participants -> HostRecord] /\ host'[p] = d
        /\ \A q \in Participants : q # p => host'[q] = host[q]
        /\ ServingInv' /\ DecisionInv'
        /\ [Atomic!ANext]_(Atomic!aVars)
    <3> HIDE DEF d
    <3> QED
      BY <1>0, <1>1, <2>2, <2>3, <2>4, HostStep DEF d
  <2> HIDE DEF d
  <2>7. RequestInv'
    BY <1>0, <1>1, <2>3, <2>6 DEF IInv, RequestInv
  <2>8. PassInv'
    <3> SUFFICES ASSUME decision = "none" PROVE PassInv'
      BY <1>0 DEF PassInv
    <3>1. \A q \in Involved :
            /\ host'[q].admits => host[q].admits
            /\ host[q].restored => host'[q].restored
            /\ host[q].restored /\ host[q].installed = "old" =>
                 /\ host'[q].installed = "old"
                 /\ host[q].running = "old" => host'[q].running = "old"
      BY <2>3, <2>5, <2>6 DEF Involved
    <3>2. Names = Involved /\ (InLoop => c.op # "verify") /\ InLoop' = InLoop
      BY <1>0, <1>1 DEF Names, IInv, ControlInv, InLoop, RecoveryOps
    <3>3. /\ InLoop /\ c.op = "start" =>
               \A q \in Involved : host[q].restored /\ host[q].installed = "old"
          /\ InLoop /\ c.op = "verify_rollback" =>
               \A q \in Involved : host[q].restored /\ host[q].installed = "old"
      BY <1>1, <3>2 DEF IInv, PassInv
    <3> QED
      BY <1>0, <1>1, <3>1, <3>2, <3>3 DEF IInv, PassInv
  <2>9. TypeOK'
    BY <1>0, <2>2, <2>6 DEF IInv, TypeOK
  <2> QED
    BY <1>2, <2>6, <2>7, <2>8, <2>9 DEF IInv, Preserved
<1>4. CASE r[2] \notin Operations
  <2>1. r[1] \in Gates /\ r[2] \in GateActions
    BY <1>1, <1>4 DEF Requests
  <2>2. host' = host /\ gate' \in [Gates -> GateRecord]
    BY <1>4, <2>1, GateFacts, TypeFacts DEF Arrives
  <2>3. Serves' = Serves
    BY <2>2 DEF Serves
  <2>4. TypeOK'
    BY <1>0, <2>2 DEF IInv, TypeOK
  <2>5. RequestInv' /\ ServingInv' /\ DecisionInv'
    BY <1>0, <1>1, <2>2 DEF IInv, RequestInv, ServingInv, Serving, DecisionInv
  <2>6. PassInv'
    BY <1>0, <1>1, <2>2 DEF IInv, PassInv, InLoop
  <2>7. UNCHANGED Atomic!aVars
    BY <1>0, <2>3 DEF Atomic!aVars
  <2> QED
    BY <1>2, <2>4, <2>5, <2>6, <2>7 DEF IInv, Preserved
<1> QED
  BY <1>3, <1>4

(* -------------------------------- theorems ----------------------------------- *)
\* Every step, and every stutter, keeps the invariant and is allowed by AtomicUpdate.
LEMMA StepPreserves == IInv /\ StartInv /\ [Next]_vars => Preserved
<1> SUFFICES ASSUME IInv, StartInv, [Next]_vars PROVE Preserved
  OBVIOUS
<1>1. CASE Run
  BY <1>1, RunStep
<1>2. CASE GatesClosed
  BY <1>2, GatesClosedStep
<1>3. CASE NextOperation
  BY <1>3, NextOperationStep
<1>4. CASE TakeDecision
  BY <1>4, DecisionStep
<1>5. CASE SealBarrier
  BY <1>5, SealBarrierStep
<1>6. CASE OpenGates \/ Finalize \/ Finish
  BY <1>6, ClosingStep
<1>7. CASE \E p \in Participants : Call(p) \/ Reply(p)
  BY <1>7, CallStep, ReplyStep
<1>8. CASE \E g \in Gates : \/ CloseGate(g) \/ Acquired(g) \/ SealGate(g)
                            \/ Sealed(g) \/ OpenGate(g) \/ Released(g)
  BY <1>8, GateStep
<1>9. CASE CheckFails \/ CoordinatorCrash \/ \E g \in Gates : GateCallFails(g)
  BY <1>9, EnvironmentStep
<1>10. CASE \E p \in Participants : CallFails(p)
  BY <1>10, CallFailsStep
<1>11. CASE \/ \E p \in Participants : CallOverdue(p)
            \/ \E g \in Gates : GateCallOverdue(g)
  BY <1>11, CallOverdueStep
<1>12. CASE \E r \in late : Arrives(r)
  BY <1>12, ArrivesStep
<1>13. CASE UNCHANGED vars
  <2>1. /\ UNCHANGED <<decision, node, host, late, c, status, info, gate, faults>>
    BY <1>13 DEF vars
  <2>2. Names' = Names
    BY <2>1 DEF Names, Involved
  <2>3. ControlInv' /\ PassInv'
    BY <2>1, <2>2 DEF IInv, ControlInv, PassInv, InLoop, IsNext, Before
  <2> QED
    BY <2>1, <2>3, TypeFacts, QuietStep
<1>14. CASE Next
  BY <1>14, <1>1, <1>2, <1>3, <1>4, <1>5, <1>6, <1>7, <1>8, <1>9, <1>10, <1>11, <1>12
     DEF Next, Coordinator, Environment
<1> QED
  BY <1>13, <1>14

\* A journal that exists is never unmade.
LEMMA StatusKept ==
  ASSUME IInv, Next, status # "none"
  PROVE  status' # "none"
<1>1. Fail \/ Crash => status' # "none"
  BY DEF Fail, Crash, Recover
<1>2. CASE Run
  BY <1>2 DEF Run, Activate, Recover
<1>3. CASE GatesClosed
  BY <1>3 DEF GatesClosed, Loop
<1>4. CASE NextOperation
  <2>1. /\ c.op \in IF c.forward THEN ForwardOps ELSE RecoveryOps
        /\ c.op \notin {"verify", "verify_rollback"}
    BY <1>4 DEF NextOperation, IInv, ControlInv, InLoop
  <2>2. CASE UNCHANGED status
    BY <2>2
  <2>3. CASE c.op # "quiesce"
    BY <1>4, <2>1, <2>3 DEF NextOperation, Loop, ForwardOps, RecoveryOps
  <2> QED
    BY <1>4, <2>2, <2>3 DEF NextOperation
<1>5. CASE TakeDecision
  BY <1>5 DEF TakeDecision, Activate
<1>6. CASE SealBarrier
  BY <1>1, <1>6 DEF SealBarrier, Loop
<1>7. CASE OpenGates \/ Finalize \/ Finish
  BY <1>7 DEF OpenGates, Finalize, Finish, journal
<1>8. CASE \E p \in Participants : Call(p) \/ Reply(p)
  BY <1>1, <1>8 DEF Call, Reply
<1>9. CASE \E g \in Gates : \/ CloseGate(g) \/ Acquired(g) \/ SealGate(g)
                            \/ Sealed(g) \/ OpenGate(g) \/ Released(g)
  BY <1>1, <1>9 DEF CloseGate, Acquired, SealGate, Sealed, OpenGate, Released
<1>10. CASE Environment
  BY <1>1, <1>10 DEF Environment, CheckFails, CoordinatorCrash, CallFails, CallOverdue,
                     GateCallFails, GateCallOverdue, Arrives, Fault, journal
<1> QED
  BY <1>2, <1>3, <1>4, <1>5, <1>6, <1>7, <1>8, <1>9, <1>10 DEF Next, Coordinator

\* The first step of all is run.
LEMMA StartStep == IInv /\ StartInv /\ [Next]_vars => StartInv'
<1> SUFFICES ASSUME IInv, StartInv, [Next]_vars PROVE StartInv'
  OBVIOUS
<1>1. CASE UNCHANGED vars
  BY <1>1 DEF vars, StartInv
<1>2. CASE Next /\ status # "none"
  BY <1>2, StatusKept DEF StartInv
<1>3. CASE Next /\ status = "none"
  <2>1. c.at = "idle" /\ late = {}
    BY <1>3 DEF StartInv
  <2>2. Run
    <3>1. ~Environment
      BY <2>1 DEF Environment, CheckFails, CoordinatorCrash, CallFails, CallOverdue,
                  GateCallFails, GateCallOverdue
    <3>2. Coordinator => Run
      BY <2>1 DEF Coordinator, GatesClosed, NextOperation, TakeDecision, SealBarrier,
                  OpenGates, Finalize, Finish, Call, Reply, CloseGate, Acquired,
                  SealGate, Sealed, OpenGate, Released
    <3> QED
      BY <1>3, <3>1, <3>2 DEF Next
  <2>3. status' # "none"
    BY <2>2 DEF Run, Activate, Recover
  <2> QED
    BY <2>3 DEF StartInv
<1> QED
  BY <1>1, <1>2, <1>3

\* The initial state satisfies the invariant.
LEMMA InitEstablishes == Init => IInv /\ StartInv /\ Atomic!AInit
<1> SUFFICES ASSUME Init PROVE IInv /\ StartInv /\ Atomic!AInit
  OBVIOUS
<1>1. NewHost \in HostRecord /\ NewGate \in GateRecord /\ Idle \in Control
  BY DEF NewHost, HostRecord, NewGate, GateRecord, Idle, Control, Operations, Versions
<1>2. TypeOK
  BY <1>1, BoundAssumption DEF Init, TypeOK, Statuses
<1>3. ControlInv
  BY DEF Init, ControlInv, Idle, InLoop
<1>4. Involved = {}
  BY DEF Init, Involved
<1>5. RequestInv
  BY DEF Init, RequestInv
<1>6. ServingInv
  BY <1>4 DEF Init, ServingInv, Serving, NewHost
<1>7. PassInv
  BY DEF Init, PassInv, Idle, InLoop
<1>8. DecisionInv
  BY DEF Init, DecisionInv
<1>9. StartInv
  BY DEF Init, StartInv, Idle
<1>10. Atomic!AInit
  BY DEF Init, Atomic!AInit, Serves, NewHost
<1> QED
  BY <1>2, <1>3, <1>5, <1>6, <1>7, <1>8, <1>9, <1>10 DEF IInv

\* The invariant holds in every reachable state.
THEOREM UpdateInvariant == Spec => [](IInv /\ StartInv)
<1>1. Init => IInv /\ StartInv
  BY InitEstablishes
<1>2. IInv /\ StartInv /\ [Next]_vars => (IInv /\ StartInv)'
  BY StepPreserves, StartStep DEF IInv, Preserved
<1> QED
  BY <1>1, <1>2, PTL DEF Spec

\* The journals, the control state and the records of the hosts and gates keep
\* their types, for any inventory and any number of faults.
THEOREM UpdateTypeOK == Spec => []TypeOK
<1>1. IInv => TypeOK
  BY DEF IInv
<1> QED
  BY <1>1, UpdateInvariant, PTL

\* The coordinated update is atomic for its users, for every inventory, every
\* quiesce and activation order, every mix of gates and any number of faults
\* and overdue calls: UpdateTransaction implements AtomicUpdate.
THEOREM UpdateIsAtomic == Spec => AtomicUpdateSpec
<1>1. Init => Atomic!AInit
  BY InitEstablishes
<1>2. IInv /\ StartInv /\ [Next]_vars => [Atomic!ANext]_(Atomic!aVars)
  BY StepPreserves DEF Preserved
<1> QED
  BY <1>1, <1>2, UpdateInvariant, PTL DEF Spec, AtomicUpdateSpec, Atomic!AtomicSpec

\* A step that replaces no data that may hold admitted writes.
Kept == \A p \in Participants :
          decision = "commit" \/ host[p].admission_decided =>
             /\ host'[p].installed = host[p].installed
             /\ host'[p].running = host[p].running

\* A request does not, whatever becomes of it.
LEMMA HostKept ==
  ASSUME IInv, NEW p \in Participants, NEW op \in Operations,
         NEW d \in Outcomes(host[p], op), host' = [host EXCEPT ![p] = d],
         decision = "commit" => op \in {"activate", "finalize"}
  PROVE  Kept
<1>1. host \in [Participants -> HostRecord] /\ host[p] \in HostRecord
  BY TypeFacts
<1>2. /\ host[p].admission_decided =>
           d.running = host[p].running /\ d.installed = host[p].installed
      /\ op \in {"activate", "finalize"} =>
           d.running = host[p].running /\ d.installed = host[p].installed
  BY <1>1, OutcomeFacts
<1> QED
  BY <1>1, <1>2 DEF Kept

\* No step does: the calls of a committed transaction only activate and finalize.
LEMMA StepKeeps == IInv /\ [Next]_vars => Kept
<1> SUFFICES ASSUME IInv, [Next]_vars PROVE Kept
  OBVIOUS
<1>1. host' = host => Kept
  BY DEF Kept
<1>2. ASSUME NEW p \in Participants, Reply(p) \/ CallFails(p) PROVE Kept
  <2>1. c.op \in Operations /\ (decision # "none" => c.op \in {"activate", "finalize"})
    BY <1>2, ReplyFacts DEF Reply, CallFails
  <2>2. PICK d \in Outcomes(host[p], c.op) : host' = [host EXCEPT ![p] = d]
    BY <1>2 DEF Reply, CallFails, Outcomes
  <2> QED
    BY <2>1, <2>2, HostKept
<1>3. ASSUME NEW r \in late, Arrives(r) PROVE Kept
  <2>1. CASE r[2] \notin Operations
    BY <1>1, <1>3, <2>1 DEF Arrives
  <2>2. CASE r[2] \in Operations
    <3>1. PICK p \in Participants, op \in Operations : r = <<p, op>>
      BY <2>2, TypeFacts DEF Requests, Operations, GateActions
    <3>2. host' = [host EXCEPT ![p] = execute(host[p], op)]
      BY <1>3, <2>2, <3>1 DEF Arrives
    <3>3. decision = "commit" => op \in {"activate", "finalize"}
      BY <3>1 DEF IInv, RequestInv
    <3>4. execute(host[p], op) \in Outcomes(host[p], op)
      BY DEF Outcomes
    <3> QED
      BY <3>2, <3>3, <3>4, HostKept
  <2> QED
    BY <2>1, <2>2
<1>4. CASE UNCHANGED vars
  BY <1>1, <1>4 DEF vars
<1>5. CASE Coordinator
  BY <1>1, <1>2, <1>5 DEF Coordinator, Run, GatesClosed, NextOperation, TakeDecision,
     SealBarrier, OpenGates, Finalize, Finish, Call, CloseGate, Acquired,
     SealGate, Sealed, OpenGate, Released
<1>6. CASE Environment
  BY <1>1, <1>2, <1>3, <1>6 DEF Environment, CheckFails, CoordinatorCrash, CallOverdue,
     GateCallFails, GateCallOverdue
<1> QED
  BY <1>4, <1>5, <1>6 DEF Next

\* Once the new version is committed, or a host has decided to admit work, its
\* data and what it runs are never replaced by an update request, whatever is
\* lost, repeated or late.
THEOREM UpdateKeepsAdmittedData == Spec => AdmittedDataKept
<1>1. IInv /\ StartInv /\ [Next]_vars =>
        [\A p \in Participants :
           decision = "commit" \/ host[p].admission_decided =>
              /\ host'[p].installed = host[p].installed
              /\ host'[p].running = host[p].running]_vars
  BY StepKeeps DEF Kept
<1> QED
  BY <1>1, UpdateInvariant, PTL DEF Spec, AdmittedDataKept

===============================================================================
