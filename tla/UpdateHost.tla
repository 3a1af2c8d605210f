------------------------------ MODULE UpdateHost ------------------------------
(* The host side of an update: the durable journal of one participant          *)
(* (LocalUpdateParticipant) and of one ingress gate                            *)
(* (DurableDockerIngressGate), as operators on the records the hosts keep.     *)
(* Every request runs under the host's exclusive lock, so a request is one     *)
(* step; a request that dies on the way leaves one of the records that         *)
(* Interrupted and GateInterrupted list.                                       *)
EXTENDS Naturals

(* ---------------------------- participant ---------------------------------- *)
\* The coordinator's operations, in update_transport.OPERATIONS.
Operations == {"prepare", "quiesce", "snapshot", "apply", "start", "verify",
               "activate", "rollback", "verify_rollback", "finalize"}
Versions == {"old", "new"}

\* The journal, and what the operator's runtime adapter did to the host: the
\* installed code and data, the version the running process reports, and
\* whether it admits work.
HostRecord == [phase : Operations \cup {"none"}, receipts : SUBSET Operations,
               apply_attempted : BOOLEAN, admission_decided : BOOLEAN,
               restored : BOOLEAN, finalized : BOOLEAN,
               installed : Versions \cup {"torn"}, running : Versions \cup {"torn"},
               admits : BOOLEAN]

NewHost == [phase |-> "none", receipts |-> {}, apply_attempted |-> FALSE,
            admission_decided |-> FALSE, restored |-> FALSE, finalized |-> FALSE,
            installed |-> "old", running |-> "old", admits |-> TRUE]

\* Mutant: a restored host that was verified cannot be quiesced again.
BugAllowed(op) ==
  CASE op = "quiesce" -> {"prepare", "quiesce", "snapshot", "apply", "start",
                          "verify", "rollback"}
    [] op = "snapshot" -> {"quiesce"}
    [] op = "apply" -> {"snapshot", "apply"}
    [] op = "rollback" -> {"quiesce", "rollback"}
    [] op = "start" -> {"apply", "rollback", "start"}
    [] op = "verify" -> {"start", "verify"}
    [] op = "verify_rollback" -> {"start", "verify_rollback"}
    [] op = "activate" -> {"verify", "verify_rollback", "activate"}
    [] op = "finalize" -> {"activate"}
    [] OTHER -> Operations \cup {"none"}

\* The phases in which the journal lets an operation begin.
Allowed(op) ==
  CASE op = "quiesce" -> {"prepare", "quiesce", "snapshot", "apply", "start",
                          "verify", "rollback", "verify_rollback"}
    [] op = "snapshot" -> {"quiesce"}
    [] op = "apply" -> {"snapshot", "apply"}
    [] op = "rollback" -> {"quiesce", "rollback"}
    [] op = "start" -> {"apply", "rollback", "start"}
    [] op = "verify" -> {"start", "verify"}
    [] op = "verify_rollback" -> {"start", "verify_rollback"}
    [] op = "activate" -> {"verify", "verify_rollback", "activate"}
    [] op = "finalize" -> {"activate"}
    [] OTHER -> Operations \cup {"none"}

\* A receipt that is returned again without touching anything.
Cached(h, op) == op \in {"prepare", "snapshot", "finalize"} /\ op \in h.receipts

Accepts(h, op) ==
  /\ ~h.finalized
  /\ h.admission_decided => op \in {"activate", "finalize"}
  /\ op = "prepare" \/ "prepare" \in h.receipts
  /\ h.phase \in Allowed(op)
  /\ op \in {"apply", "verify"} => ~h.restored
  /\ op = "verify_rollback" => h.restored

\* The intent the journal records before the runtime is called.
Intended(h, op) ==
  [h EXCEPT !.apply_attempted = @ \/ op = "apply",
            !.admission_decided = @ \/ op = "activate"]

\* A restore touches the installation only if an apply was attempted.
Restores(h, op) == op = "rollback" /\ h.apply_attempted

\* The contract of the runtime adapter (update_transaction.Participant).
Effect(h, op) ==
  [h EXCEPT !.installed = CASE op = "apply" -> "new"
                            [] Restores(h, op) -> "old"
                            [] OTHER -> @,
            !.running = IF op = "start" THEN h.installed ELSE @,
            !.admits = CASE op = "quiesce" -> FALSE
                         [] op = "activate" /\ "activate" \notin h.receipts -> TRUE
                         [] OTHER -> @]

\* verify and verify_rollback compare the live version with the expected one.
Verified(h, op) == /\ op = "verify" => h.running = "new"
                   /\ op = "verify_rollback" => h.running = "old"

\* The receipt the journal records after the runtime has answered.
Receipt(h, op) ==
  [h EXCEPT !.receipts = @ \cup {op}, !.phase = op,
            !.restored = @ \/ op = "rollback", !.finalized = @ \/ op = "finalize"]

Completed(h, op) == Receipt(Effect(Intended(h, op), op), op)

\* Whether the request is answered ok, and the record it leaves behind.
Succeeds(h, op) == Cached(h, op) \/ (Accepts(h, op) /\ Verified(h, op))

execute(h, op) ==
  IF Cached(h, op) \/ ~Accepts(h, op) THEN h
  ELSE IF Verified(h, op) THEN Completed(h, op) ELSE Intended(h, op)

\* An apply or a restore that stopped half way.
Torn(h) == [h EXCEPT !.installed = "torn"]

\* The runtime stopped half way, or finished and its receipt was not saved.
Interrupted(h, op) ==
  IF Cached(h, op) \/ ~Accepts(h, op) THEN {h}
  ELSE LET i == Intended(h, op)
       IN {i, Effect(i, op)} \cup
          IF op = "apply" \/ Restores(i, op) THEN {Torn(i)} ELSE {}

(* ------------------------------ ingress gate -------------------------------- *)
GateActions == {"acquire", "seal", "release"}
GateRecord == [phase : {"none", "closing", "draining", "closed", "sealing", "sealed",
                        "releasing", "released"},
               fence : BOOLEAN,          \* .treseko-update-fence is published
               draining : BOOLEAN,       \* .treseko-update-draining is published
               terminal : BOOLEAN]       \* the release tombstone exists

NewGate == [phase |-> "none", fence |-> FALSE, draining |-> FALSE, terminal |-> FALSE]

\* The proxy answers the probe with 503 while a marker is published.
Fenced(s) == s.fence \/ s.draining

\* drain: the gate is configured with callback_drain.
assert_sealed(s) == s.phase = "sealed" /\ s.fence /\ ~s.draining

assert_closed(s, drain) ==
  \/ assert_sealed(s)
  \/ /\ s.phase = (IF drain THEN "draining" ELSE "closed")
     /\ IF drain THEN s.draining ELSE s.fence

\* Mutant: neither the tombstone nor the released phase refuses an acquire.
BugGateAccepts(s, drain, action) ==
  CASE action = "acquire" ->
         /\ s.phase \in {"sealed", "sealing"} => s.fence
         /\ s.phase = "draining" => s.draining
    [] action = "seal" ->
         \/ assert_sealed(s)
         \/ s.phase \in {"closed", "draining", "sealing"}
    [] OTHER ->
         /\ s.phase # "none"
         /\ drain => s.phase \in {"sealed", "releasing"}

GateAccepts(s, drain, action) ==
  CASE action = "acquire" ->
         /\ ~s.terminal
         /\ s.phase \notin {"releasing", "released"}
         /\ s.phase \in {"sealed", "sealing"} => s.fence
         /\ s.phase = "draining" => s.draining
    [] action = "seal" ->
         \/ assert_sealed(s)
         \/ s.phase \in {"closed", "draining", "sealing"}
    [] OTHER ->
         /\ s.phase # "none"
         /\ drain => s.phase \in {"sealed", "releasing"}

\* A request that finds its work done returns before it writes anything.
Settled(s, action) == \/ action = "acquire" /\ s.phase \in {"sealed", "sealing", "draining"}
                      \/ action = "seal" /\ s.phase = "sealed"

\* The record after a request that ran to its end.
change(s, drain, action) ==
  CASE Settled(s, action) -> s
    [] action = "acquire" /\ ~Settled(s, action) ->
         IF drain THEN [s EXCEPT !.phase = "draining", !.draining = TRUE]
                  ELSE [s EXCEPT !.phase = "closed", !.fence = TRUE]
    [] action = "seal" /\ ~Settled(s, action) ->
         [s EXCEPT !.phase = "sealed", !.fence = TRUE, !.draining = FALSE]
    [] OTHER -> [s EXCEPT !.phase = "released", !.fence = FALSE, !.terminal = TRUE]

\* The records a request can leave behind when it dies on the way.
GateInterrupted(s, drain, action) ==
  IF ~GateAccepts(s, drain, action) \/ Settled(s, action) THEN {s}
  ELSE CASE action = "acquire" ->
              LET b == [s EXCEPT !.phase = IF drain THEN "draining" ELSE "closing"]
              IN {b, IF drain THEN [b EXCEPT !.draining = TRUE] ELSE [b EXCEPT !.fence = TRUE]}
         [] action = "seal" ->
              LET b == [s EXCEPT !.phase = "sealing"]
              IN {b, [b EXCEPT !.fence = TRUE],
                  [b EXCEPT !.fence = TRUE, !.draining = FALSE]}
         [] OTHER ->
              LET b == [s EXCEPT !.phase = "releasing"]
              IN {b, [b EXCEPT !.terminal = TRUE],
                  [b EXCEPT !.terminal = TRUE, !.fence = FALSE]}

===============================================================================
