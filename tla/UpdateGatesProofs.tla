--------------------------- MODULE UpdateGatesProofs ---------------------------
(* The ingress gates of an update, for any inventory, any mix of gates, any     *)
(* number of faults and any number of overdue calls: the gates are open only    *)
(* over participants that serve what is installed, every snapshot that can be   *)
(* restored is taken behind the global seal barrier, and a gate that a finished *)
(* transaction reopened is never closed again.                                  *)
EXTENDS UpdateTransactionProofs

(* --------------------------- inductive invariant ----------------------------- *)
\* Before the decision nobody asks a gate to open, so a gate that is fenced stays
\* fenced, and no participant is called before every gate is.
FenceInv ==
  decision = "none" =>
    /\ \A g \in Gates : <<g, "release">> \notin late
    /\ c.at \in {"loop", "reply", "seal", "sealing"} => \A g \in Gates : Fenced(gate[g])
    /\ c.at \in {"close", "acquiring"} => \A g \in Gates \ c.gates : Fenced(gate[g])
    /\ (\E g \in Gates : ~Fenced(gate[g])) => Involved = {}

\* Only a release leaves the tombstone, and nothing follows it.
TombstoneInv ==
  \A g \in Gates : gate[g].terminal => gate[g].phase \in {"releasing", "released"}

AllSealed == \A g \in Gates : info[g].seal = "sealed"
AllClosed == \A p \in Participants : ~host[p].admits

\* A seal on the journal is a seal on the gate until the decision; a request for
\* a snapshot was made behind the seals of all gates.
SealInv ==
  /\ c.at = "acquiring" => \A g \in Gates : IsNextGate(g) => info[g].seal = "none"
  /\ c.at \in {"seal", "sealing"} => \A g \in Gates \ c.gates : info[g].seal = "sealed"
  /\ decision = "none" =>
       /\ \A g \in Gates : info[g].seal = "sealed" => IsSealed(g)
       /\ InLoop /\ c.op \notin {"prepare", "quiesce"} => AllSealed
       /\ (\E p \in Participants : <<p, "snapshot">> \in late) => AllSealed /\ AllClosed

\* Something was asked of the gates, or they answer.
Opening == \/ \E g \in Gates : ~Fenced(gate[g]) \/ <<g, "release">> \in late
           \/ c.at \in {"open", "releasing"}
           \/ InLoop /\ c.op = "finalize"

\* A participant that was activated admits work, and the gates are opened when
\* all of them were.
AdmitInv ==
  /\ \A p \in Participants :
       "activate" \in node[p].completed \cup host[p].receipts =>
          decision # "none" /\ host[p].admits
  /\ decision # "none" =>
       /\ Opening => \A p \in Participants : host[p].admits
       /\ InLoop /\ c.op = "activate" => \A p \in Involved \ c.todo : host[p].admits

\* What is committed is installed everywhere.
InstalledInv ==
  /\ c.forward /\ InLoop /\ c.op = "apply" =>
       \A p \in Participants \ c.todo : host[p].installed = "new"
  /\ c.forward /\ InLoop /\ c.op \in {"start", "verify"} =>
       \A p \in Participants : host[p].installed = "new"
  /\ decision = "commit" => \A p \in Participants : host[p].installed = "new"

GateInv == FenceInv /\ TombstoneInv /\ SealInv /\ AdmitInv /\ InstalledInv

(* ------------------------- what a request does to a gate --------------------- *)
\* The records a request can leave behind: not begun, finished, or interrupted.
GateOutcomes(s, drain, action) ==
  {s} \cup GateInterrupted(s, drain, action) \cup
  IF GateAccepts(s, drain, action) THEN {change(s, drain, action)} ELSE {}

\* A gate that answers the closed or the sealed probe is fenced.
LEMMA ClosedIsFenced ==
  ASSUME NEW s \in GateRecord, NEW drain \in BOOLEAN, assert_closed(s, drain)
  PROVE  Fenced(s)
BY DEF assert_closed, assert_sealed, Fenced

\* The records an interrupted request can leave behind, field by field.
LEMMA GateInterruptedFields ==
  ASSUME NEW s \in GateRecord, NEW drain \in BOOLEAN, NEW action \in GateActions,
         NEW d \in GateInterrupted(s, drain, action)
  PROVE  /\ d \in GateRecord
         /\ \/ d = s
            \/ /\ GateAccepts(s, drain, action) /\ ~Settled(s, action)
               /\ \/ /\ action = "acquire" /\ d.terminal = s.terminal
                     /\ s.fence => d.fence
                     /\ s.draining => d.draining
                  \/ /\ action = "seal" /\ d.phase = "sealing" /\ d.terminal = s.terminal
                     /\ s.fence => d.fence
                     /\ s.draining => d.draining \/ d.fence
                  \/ /\ action = "release" /\ d.phase = "releasing" /\ d.draining = s.draining
                     /\ s.terminal => d.terminal
                     /\ d.fence => s.fence
<1>1. CASE ~GateAccepts(s, drain, action) \/ Settled(s, action)
  BY <1>1 DEF GateInterrupted
<1>2. CASE GateAccepts(s, drain, action) /\ ~Settled(s, action)
  <2>1. CASE action = "acquire"
    <3> DEFINE b == [s EXCEPT !.phase = IF drain THEN "draining" ELSE "closing"]
    <3>1. d \in {b, IF drain THEN [b EXCEPT !.draining = TRUE] ELSE [b EXCEPT !.fence = TRUE]}
      BY <1>2, <2>1 DEF GateInterrupted
    <3> QED
      BY <1>2, <2>1, <3>1 DEF GateRecord
  <2>2. CASE action = "seal"
    <3> DEFINE b == [s EXCEPT !.phase = "sealing"]
    <3>1. d \in {b, [b EXCEPT !.fence = TRUE], [b EXCEPT !.fence = TRUE, !.draining = FALSE]}
      BY <1>2, <2>2 DEF GateInterrupted
    <3> QED
      BY <1>2, <2>2, <3>1 DEF GateRecord
  <2>3. CASE action = "release"
    <3> DEFINE b == [s EXCEPT !.phase = "releasing"]
    <3>1. d \in {b, [b EXCEPT !.terminal = TRUE], [b EXCEPT !.terminal = TRUE, !.fence = FALSE]}
      BY <1>2, <2>3 DEF GateInterrupted
    <3> QED
      BY <1>2, <2>3, <3>1 DEF GateRecord
  <2> QED
    BY <2>1, <2>2, <2>3 DEF GateActions
<1> QED
  BY <1>1, <1>2

\* A finished request, field by field.
LEMMA ChangeFields ==
  ASSUME NEW s \in GateRecord, NEW drain \in BOOLEAN, NEW action \in GateActions
  PROVE  LET d == change(s, drain, action) IN
         /\ d \in GateRecord
         /\ \/ d = s /\ Settled(s, action)
            \/ /\ action = "acquire" /\ d.terminal = s.terminal
               /\ d.phase = IF drain THEN "draining" ELSE "closed"
               /\ d.fence <=> s.fence \/ ~drain
               /\ d.draining <=> s.draining \/ drain
            \/ /\ action = "seal" /\ d.terminal = s.terminal
               /\ d.phase = "sealed" /\ d.fence /\ ~d.draining
            \/ /\ action = "release" /\ d.terminal
               /\ d.phase = "released" /\ ~d.fence /\ d.draining = s.draining
<1>1. CASE Settled(s, action)
  BY <1>1 DEF change
<1>2. CASE ~Settled(s, action)
  BY <1>2 DEF change, GateActions, GateRecord
<1> QED
  BY <1>1, <1>2

\* What no request does to a gate, whatever becomes of it.
LEMMA GateOutcomeFacts ==
  ASSUME NEW s \in GateRecord, NEW drain \in BOOLEAN, NEW action \in GateActions,
         NEW d \in GateOutcomes(s, drain, action)
  PROVE  /\ d \in GateRecord
         /\ action # "release" /\ Fenced(s) => Fenced(d)
         /\ (s.terminal => s.phase \in {"releasing", "released"}) =>
              /\ d.terminal => d.phase \in {"releasing", "released"}
              /\ s.terminal /\ ~Fenced(s) => ~Fenced(d)
         /\ action = "seal" /\ assert_sealed(s) => assert_sealed(d)
<1>a. /\ action = "acquire" /\ GateAccepts(s, drain, action) =>
           ~s.terminal
      /\ action = "seal" /\ GateAccepts(s, drain, action) =>
           s.phase \in {"sealed", "closed", "draining", "sealing"}
      /\ action = "seal" /\ assert_sealed(s) => Settled(s, action)
  BY DEF GateAccepts, assert_sealed, Settled
<1>1. CASE d = s
  BY <1>1
<1>2. CASE d \in GateInterrupted(s, drain, action) /\ d # s
  <2>1. /\ d \in GateRecord
        /\ GateAccepts(s, drain, action)
        /\ \/ /\ action = "acquire" /\ d.terminal = s.terminal
              /\ s.fence => d.fence
              /\ s.draining => d.draining
           \/ /\ action = "seal" /\ d.phase = "sealing" /\ d.terminal = s.terminal
              /\ s.fence => d.fence
              /\ s.draining => d.draining \/ d.fence
              /\ ~assert_sealed(s)
           \/ /\ action = "release" /\ d.phase = "releasing" /\ d.draining = s.draining
              /\ s.terminal => d.terminal
              /\ d.fence => s.fence
    BY <1>2, <1>a, GateInterruptedFields
  <2> QED
    BY <2>1, <1>a DEF Fenced
<1>3. CASE GateAccepts(s, drain, action) /\ d = change(s, drain, action) /\ d # s
  <2>1. /\ d \in GateRecord
        /\ \/ /\ action = "acquire" /\ d.terminal = s.terminal
              /\ d.fence <=> s.fence \/ ~drain
              /\ d.draining <=> s.draining \/ drain
           \/ /\ action = "seal" /\ d.terminal = s.terminal
              /\ d.phase = "sealed" /\ d.fence /\ ~d.draining
           \/ /\ action = "release" /\ d.terminal
              /\ d.phase = "released" /\ ~d.fence /\ d.draining = s.draining
    BY <1>3, ChangeFields
  <2>2. action = "seal" => assert_sealed(d)
    BY <2>1 DEF assert_sealed
  <2> QED
    BY <1>3, <1>a, <2>1, <2>2 DEF Fenced
<1> QED
  BY <1>1, <1>2, <1>3 DEF GateOutcomes

\* A request that runs to its end closes, seals, and keeps a seal.
LEMMA ChangeFacts ==
  ASSUME NEW s \in GateRecord, NEW drain \in BOOLEAN
  PROVE  /\ GateAccepts(s, drain, "seal") => assert_sealed(change(s, drain, "seal"))
         /\ GateAccepts(s, drain, "acquire") =>
              /\ assert_sealed(s) => assert_sealed(change(s, drain, "acquire"))
              /\ ~drain /\ assert_closed(s, drain) =>
                   assert_closed(change(s, drain, "acquire"), drain)
         /\ GateAccepts(s, drain, "seal") => assert_closed(change(s, drain, "seal"), drain)
<1>1. "seal" \in GateActions /\ "acquire" \in GateActions
  BY DEF GateActions
<1>2. GateAccepts(s, drain, "seal") => assert_sealed(change(s, drain, "seal"))
  BY <1>1, ChangeFields DEF GateAccepts, assert_sealed, Settled
<1>3. assert_sealed(s) => assert_sealed(change(s, drain, "acquire"))
  BY DEF change, Settled, assert_sealed
<1>4. ~drain /\ assert_closed(s, drain) => assert_closed(change(s, drain, "acquire"), drain)
  BY <1>1, <1>3, ChangeFields DEF assert_closed
<1> QED
  BY <1>2, <1>3, <1>4 DEF assert_closed

(* ------------------------------ the steps of a gate -------------------------- *)
\* A request of action reaches gate g and leaves d behind: a call of the
\* coordinator, or a request that is late and runs to its end.
Moves(g, action, d) ==
  /\ gate' = [gate EXCEPT ![g] = d]
  /\ d \in GateOutcomes(gate[g], g \in Drain, action)
  /\ action = "release" => Opening /\ decision # "none"
  /\ \/ action = "release"
     \/ action = "seal" /\ g \in Sealable
     \/ action = "acquire" /\ c.at = "acquiring" /\ IsNextGate(g)
     \/ GateAccepts(gate[g], g \in Drain, action) /\ d = change(gate[g], g \in Drain, action)

\* Every step leaves the gates alone or is one request to one of them.
LEMMA GateMoves ==
  ASSUME IInv, FenceInv, [Next]_vars
  PROVE  \/ gate' = gate
         \/ \E g \in Gates, action \in GateActions, d \in GateRecord : Moves(g, action, d)
<1>d. /\ c.at = "releasing" => Opening /\ decision # "none"
      /\ \A g \in Gates : <<g, "release">> \in late => Opening /\ decision # "none"
  BY DEF IInv, ControlInv, FenceInv, Opening
<1>t. /\ gate \in [Gates -> GateRecord]
      /\ "acquire" \in GateActions /\ "seal" \in GateActions /\ "release" \in GateActions
  BY TypeFacts DEF GateActions
<1>f. ASSUME NEW g \in Gates, NEW action \in GateActions,
             NEW d \in GateOutcomes(gate[g], g \in Drain, action)
      PROVE  d \in GateRecord
  <2>1. (g \in Drain) \in BOOLEAN /\ gate[g] \in GateRecord
    BY <1>t
  <2> QED
    BY <2>1, GateOutcomeFacts
<1>1. ASSUME NEW g \in Gates, Acquired(g) \/ Sealed(g) \/ Released(g)
      PROVE  \/ gate' = gate
             \/ \E action \in GateActions, d \in GateRecord : Moves(g, action, d)
  <2> DEFINE new(action) == change(gate[g], g \in Drain, action)
  <2>1. CASE gate' = gate
    BY <2>1
  <2>2. ASSUME NEW action \in GateActions, gate' = [gate EXCEPT ![g] = new(action)],
               GateAccepts(gate[g], g \in Drain, action),
               action = "release" => c.at = "releasing"
        PROVE  \E d \in GateRecord : Moves(g, action, d)
    <3>1. new(action) \in GateOutcomes(gate[g], g \in Drain, action)
      BY <2>2 DEF GateOutcomes
    <3>2. new(action) \in GateRecord
      BY <1>f, <3>1
    <3>3. Moves(g, action, new(action))
      BY <1>d, <2>2, <3>1 DEF Moves
    <3> QED
      BY <3>2, <3>3
  <2>3. \/ gate' = gate
        \/ \E action \in GateActions : /\ gate' = [gate EXCEPT ![g] = new(action)]
                                       /\ GateAccepts(gate[g], g \in Drain, action)
                                       /\ action = "release" => c.at = "releasing"
    BY <1>1, <1>t DEF Acquired, Sealed, Released
  <2> QED
    BY <2>1, <2>2, <2>3
<1>2. ASSUME NEW g \in Gates, GateCallFails(g)
      PROVE  \/ gate' = gate
             \/ \E action \in GateActions, d \in GateRecord : Moves(g, action, d)
  <2>1. PICK d \in GateEffects(g) : gate' = [gate EXCEPT ![g] = d]
    BY <1>2 DEF GateCallFails
  <2>2. CASE c.at = "sealing" /\ g \notin Sealable
    BY <1>t, <2>1, <2>2 DEF GateEffects
  <2>3. CASE ~(c.at = "sealing" /\ g \notin Sealable)
    <3>1. GateAction \in GateActions /\ d \in GateOutcomes(gate[g], g \in Drain, GateAction)
      BY <2>1, <2>3 DEF GateEffects, GateOutcomes, GateAction, GateActions
    <3>2. /\ c.at \in {"acquiring", "sealing", "releasing"} /\ IsNextGate(g)
          /\ GateAction = "release" => c.at = "releasing"
          /\ GateAction = "acquire" => c.at = "acquiring"
          /\ GateAction = "seal" => c.at = "sealing"
      BY <1>2 DEF GateCallFails, GateAction
    <3>3. Moves(g, GateAction, d)
      BY <1>d, <2>1, <2>3, <3>1, <3>2 DEF Moves, GateActions
    <3> QED
      BY <1>f, <3>1, <3>3
  <2> QED
    BY <2>2, <2>3
<1>3. ASSUME NEW r \in late, Arrives(r)
      PROVE  \/ gate' = gate
             \/ \E g \in Gates, action \in GateActions, d \in GateRecord : Moves(g, action, d)
  <2>1. CASE r[2] \in Operations
    BY <1>3, <2>1 DEF Arrives
  <2>2. CASE r[2] \notin Operations
    <3>1. PICK g \in Gates, action \in GateActions : r = <<g, action>>
      BY <2>2, TypeFacts DEF Requests
    <3> DEFINE d == change(gate[g], g \in Drain, action)
    <3>2. CASE ~GateAccepts(gate[g], g \in Drain, action)
      BY <1>3, <2>2, <3>1, <3>2 DEF Arrives
    <3>3. CASE GateAccepts(gate[g], g \in Drain, action)
      <4>1. gate' = [gate EXCEPT ![g] = d]
        BY <1>3, <2>2, <3>1, <3>3 DEF Arrives
      <4>2. d \in GateOutcomes(gate[g], g \in Drain, action)
        BY <3>3 DEF GateOutcomes
      <4>3. action = "release" => Opening /\ decision # "none"
        BY <1>d, <3>1
      <4>4. Moves(g, action, d)
        BY <3>3, <4>1, <4>2, <4>3 DEF Moves
      <4> QED
        BY <1>f, <4>2, <4>4
    <3> QED
      BY <3>2, <3>3
  <2> QED
    BY <2>1, <2>2
<1>4. CASE UNCHANGED vars
  BY <1>4 DEF vars
<1>5. CASE Coordinator
  BY <1>1, <1>5 DEF Coordinator, Run, GatesClosed, NextOperation, TakeDecision,
     SealBarrier, OpenGates, Finalize, Finish, Call, Reply, CloseGate, SealGate, OpenGate
<1>6. CASE Environment
  BY <1>2, <1>3, <1>6 DEF Environment, CheckFails, CoordinatorCrash, CallFails, CallOverdue,
     GateCallOverdue
<1> QED
  BY <1>4, <1>5, <1>6 DEF Next

\* What every step keeps of the gates.
LEMMA GateKeeps ==
  ASSUME IInv, FenceInv, TombstoneInv, [Next]_vars
  PROVE  /\ TombstoneInv'
         /\ \A g \in Gates : /\ Fenced(gate[g]) => Fenced(gate'[g]) \/ (Opening /\ decision # "none")
                             /\ gate[g].terminal /\ ~Fenced(gate[g]) => ~Fenced(gate'[g])
                             /\ /\ decision = "none" /\ IsSealed(g)
                                /\ ~(c.at = "acquiring" /\ IsNextGate(g))
                                => IsSealed(g)'
<1>t. gate \in [Gates -> GateRecord]
  BY TypeFacts
<1>1. CASE gate' = gate
  BY <1>1 DEF TombstoneInv, IsSealed
<1>2. ASSUME NEW g \in Gates, NEW action \in GateActions, NEW d \in GateRecord,
             Moves(g, action, d)
      PROVE  /\ gate'[g] = d
             /\ \A q \in Gates : q # g => gate'[q] = gate[q]
             /\ Fenced(gate[g]) => Fenced(d) \/ (Opening /\ decision # "none")
             /\ d.terminal => d.phase \in {"releasing", "released"}
             /\ gate[g].terminal /\ ~Fenced(gate[g]) => ~Fenced(d)
             /\ /\ decision = "none" /\ IsSealed(g)
                /\ ~(c.at = "acquiring" /\ IsNextGate(g))
                => IsSealed(g)'
  <2>0. (g \in Drain) \in BOOLEAN /\ gate[g] \in GateRecord
    BY <1>t
  <2>1. /\ gate'[g] = d
        /\ \A q \in Gates : q # g => gate'[q] = gate[q]
    BY <1>t, <1>2 DEF Moves
  <2>2. /\ action # "release" /\ Fenced(gate[g]) => Fenced(d)
        /\ d.terminal => d.phase \in {"releasing", "released"}
        /\ gate[g].terminal /\ ~Fenced(gate[g]) => ~Fenced(d)
        /\ action = "seal" /\ assert_sealed(gate[g]) => assert_sealed(d)
    BY <1>2, <2>0, GateOutcomeFacts DEF Moves, TombstoneInv
  <2>3. ASSUME decision = "none", IsSealed(g), ~(c.at = "acquiring" /\ IsNextGate(g))
        PROVE  IsSealed(g)'
    <3>1. CASE action = "seal" /\ g \in Sealable
      BY <2>1, <2>2, <2>3, <3>1 DEF IsSealed
    <3>2. CASE /\ GateAccepts(gate[g], g \in Drain, action) /\ action \in {"acquire", "seal"}
               /\ d = change(gate[g], g \in Drain, action)
      <4>1. /\ assert_sealed(gate[g]) => assert_sealed(d)
            /\ g \notin Drain /\ assert_closed(gate[g], g \in Drain) => assert_closed(d, g \in Drain)
        BY <2>0, <3>2, ChangeFacts
      <4>2. g \in Drain => g \in Sealable
        BY InventoryAssumption
      <4> QED
        BY <2>1, <2>3, <4>1, <4>2 DEF IsSealed
    <3> QED
      BY <1>2, <2>3, <3>1, <3>2 DEF Moves, GateActions
  <2> QED
    BY <1>2, <2>1, <2>2, <2>3 DEF Moves
<1>3. ASSUME NEW g \in Gates, NEW action \in GateActions, NEW d \in GateRecord,
             Moves(g, action, d)
      PROVE  /\ TombstoneInv'
             /\ \A q \in Gates : /\ Fenced(gate[q]) => Fenced(gate'[q]) \/ (Opening /\ decision # "none")
                                 /\ gate[q].terminal /\ ~Fenced(gate[q]) => ~Fenced(gate'[q])
                                 /\ /\ decision = "none" /\ IsSealed(q)
                                    /\ ~(c.at = "acquiring" /\ IsNextGate(q))
                                    => IsSealed(q)'
  <2>1. ASSUME NEW q \in Gates, q # g
        PROVE  gate'[q] = gate[q] /\ (IsSealed(q) => IsSealed(q)')
    BY <1>2, <1>3, <2>1 DEF IsSealed
  <2> QED
    BY <1>2, <1>3, <2>1 DEF TombstoneInv
<1> QED
  BY <1>1, <1>3, GateMoves

(* ------------------------------ the steps of a host -------------------------- *)
\* What a request writes into the receipts.
LEMMA OutcomeReceipts ==
  ASSUME NEW h \in HostRecord, NEW op \in Operations, NEW d \in Outcomes(h, op)
  PROVE  /\ d.receipts \subseteq h.receipts \cup {op}
         /\ op = "activate" /\ "activate" \in d.receipts
            /\ ("activate" \in h.receipts => h.admits) => d.admits
<1> DEFINE i == Intended(h, op)
           f == Effect(i, op)
<1>i. i \in HostRecord /\ i.receipts = h.receipts /\ i.admits = h.admits
  BY IntendedFields
<1> HIDE DEF i
<1>f. /\ f \in HostRecord /\ f.receipts = i.receipts
      /\ op = "activate" /\ i.admits => f.admits
  BY <1>i, EffectFields
<1>a. op = "activate" /\ "activate" \notin h.receipts => f.admits
  BY <1>i DEF Effect, HostRecord
<1> HIDE DEF f
<1>t. Torn(i) \in HostRecord /\ Torn(i).receipts = i.receipts /\ Torn(i).admits = i.admits
  BY <1>i, TornFields
<1>c. /\ Completed(h, op).receipts = f.receipts \cup {op}
      /\ Completed(h, op).admits = f.admits
  BY <1>f, ReceiptFields DEF Completed, i, f
<1>1. CASE d = h
  BY <1>1
<1>2. CASE d = i
  BY <1>2, <1>i
<1>3. CASE d = f
  BY <1>3, <1>a, <1>f, <1>i
<1>4. CASE d = Completed(h, op)
  BY <1>4, <1>a, <1>c, <1>f, <1>i
<1>5. CASE d = Torn(i)
  BY <1>5, <1>i, <1>t
<1> QED
  BY <1>1, <1>2, <1>3, <1>4, <1>5, OutcomeCases DEF i, f

\* A successful apply installs the new version; start and verify leave it installed.
LEMMA InstallFacts ==
  ASSUME NEW h \in HostRecord, NEW op \in Operations, Succeeds(h, op)
  PROVE  /\ op = "apply" => execute(h, op).installed = "new"
         /\ op \in {"start", "verify"} => execute(h, op).installed = h.installed
<1> DEFINE i == Intended(h, op)
           f == Effect(i, op)
<1>1. CASE op = "apply"
  <2>1. i \in HostRecord
    BY IntendedFields
  <2> HIDE DEF i
  <2>2. f \in HostRecord /\ f.installed = "new"
    BY <1>1, <2>1, EffectFields
  <2> HIDE DEF f
  <2>3. Completed(h, op).installed = "new"
    BY <2>2, ReceiptFields DEF Completed, i, f
  <2> QED
    BY <1>1, <2>3 DEF execute, Succeeds, Cached
<1>2. CASE op \in {"start", "verify"}
  <2>1. execute(h, op) \in Outcomes(h, op)
    BY DEF Outcomes
  <2> QED
    BY <1>2, <2>1, OutcomeFacts
<1> QED
  BY <1>1, <1>2

\* A request for op reaches participant p and leaves d behind: the call that is
\* under way, or a request that is late.
HostMoves(p, op, d) ==
  /\ host' = [host EXCEPT ![p] = d]
  /\ d \in Outcomes(host[p], op)
  /\ decision = "none" => op \notin {"activate", "finalize"}
  /\ decision = "commit" => op \in {"activate", "finalize"}
  /\ \/ c.at = "reply" /\ c.op = op /\ p \in c.todo
     \/ <<p, op>> \in late

\* Every step leaves the hosts alone or is one request to one of them.
LEMMA HostCases ==
  ASSUME IInv, [Next]_vars
  PROVE  \/ host' = host
         \/ \E p \in Involved, op \in Operations, d \in HostRecord : HostMoves(p, op, d)
<1>t. host \in [Participants -> HostRecord]
  BY TypeFacts
<1>1. ASSUME NEW p \in Participants, Reply(p) \/ CallFails(p)
      PROVE  \E op \in Operations, d \in HostRecord : p \in Involved /\ HostMoves(p, op, d)
  <2>1. c.at = "reply" /\ IsNext(p)
    BY <1>1 DEF Reply, CallFails
  <2>2. /\ c.op \in Operations /\ p \in c.todo /\ p \in Involved
        /\ decision = "none" => c.op \notin {"activate", "finalize"}
        /\ decision # "none" => c.op \in {"activate", "finalize"}
    BY <2>1, ReplyFacts
  <2>3. PICK d \in Outcomes(host[p], c.op) : host' = [host EXCEPT ![p] = d]
    BY <1>1 DEF Reply, CallFails, Outcomes
  <2>4. d \in HostRecord
    BY <1>t, <2>2, OutcomeFacts
  <2>5. HostMoves(p, c.op, d)
    BY <2>1, <2>2, <2>3 DEF HostMoves
  <2> QED
    BY <2>2, <2>4, <2>5
<1>2. ASSUME NEW r \in late, Arrives(r)
      PROVE  \/ host' = host
             \/ \E p \in Involved, op \in Operations, d \in HostRecord : HostMoves(p, op, d)
  <2>1. CASE r[2] \notin Operations
    BY <1>2, <2>1 DEF Arrives
  <2>2. CASE r[2] \in Operations
    <3>1. PICK p \in Participants, op \in Operations : r = <<p, op>>
      BY <2>2, TypeFacts DEF Requests, Operations, GateActions
    <3>2. /\ p \in Involved
          /\ decision = "none" => op \notin {"activate", "finalize"}
          /\ decision = "commit" => op \in {"activate", "finalize"}
      BY <3>1 DEF IInv, RequestInv
    <3>3. host' = [host EXCEPT ![p] = execute(host[p], op)]
      BY <1>2, <2>2, <3>1 DEF Arrives
    <3>4. execute(host[p], op) \in Outcomes(host[p], op)
      BY DEF Outcomes
    <3>5. execute(host[p], op) \in HostRecord
      BY <1>t, <3>4, OutcomeFacts
    <3>6. HostMoves(p, op, execute(host[p], op))
      BY <3>1, <3>2, <3>3, <3>4 DEF HostMoves
    <3> QED
      BY <3>2, <3>5, <3>6
  <2> QED
    BY <2>1, <2>2
<1>4. CASE UNCHANGED vars
  BY <1>4 DEF vars
<1>5. CASE Coordinator
  BY <1>1, <1>5 DEF Coordinator, Run, GatesClosed, NextOperation, TakeDecision,
     SealBarrier, OpenGates, Finalize, Finish, Call, CloseGate, Acquired,
     SealGate, Sealed, OpenGate, Released
<1>6. CASE Environment
  BY <1>1, <1>2, <1>6 DEF Environment, CheckFails, CoordinatorCrash, CallOverdue,
     GateCallFails, GateCallOverdue
<1> QED
  BY <1>4, <1>5, <1>6 DEF Next

\* Nobody is admitted before the decision, and nobody withdrawn after it; a
\* receipt is written by the request it belongs to.
LEMMA HostKeeps ==
  ASSUME IInv, AdmitInv, [Next]_vars, NEW p \in Participants
  PROVE  /\ decision = "none" /\ host'[p].admits => host[p].admits
         /\ decision # "none" /\ host[p].admits => host'[p].admits
         /\ "activate" \in host'[p].receipts => decision # "none" /\ host'[p].admits
         /\ "snapshot" \in host'[p].receipts \ host[p].receipts =>
              /\ p \in Involved
              /\ \/ c.at = "reply" /\ c.op = "snapshot" /\ decision = "none"
                 \/ <<p, "snapshot">> \in late /\ decision # "commit"
<1>a. "activate" \in host[p].receipts => decision # "none" /\ host[p].admits
  BY DEF AdmitInv
<1>1. CASE host'[p] = host[p]
  BY <1>1, <1>a
<1>2. ASSUME NEW op \in Operations, NEW d \in HostRecord, HostMoves(p, op, d), p \in Involved
      PROVE  /\ decision = "none" /\ host'[p].admits => host[p].admits
             /\ decision # "none" /\ host[p].admits => host'[p].admits
             /\ "activate" \in host'[p].receipts => decision # "none" /\ host'[p].admits
             /\ "snapshot" \in host'[p].receipts \ host[p].receipts =>
                  \/ c.at = "reply" /\ c.op = "snapshot" /\ decision = "none"
                  \/ <<p, "snapshot">> \in late /\ decision # "commit"
  <2>0. host \in [Participants -> HostRecord] /\ host[p] \in HostRecord
    BY TypeFacts
  <2>1. /\ host'[p] = d /\ d \in Outcomes(host[p], op)
        /\ decision = "none" => op \notin {"activate", "finalize"}
        /\ decision = "commit" => op \in {"activate", "finalize"}
        /\ (c.at = "reply" /\ c.op = op) \/ <<p, op>> \in late
    BY <1>2, <2>0 DEF HostMoves
  <2>2. /\ d.receipts \subseteq host[p].receipts \cup {op}
        /\ op = "activate" /\ "activate" \in d.receipts
           /\ ("activate" \in host[p].receipts => host[p].admits) => d.admits
        /\ op # "activate" /\ d.admits => host[p].admits
        /\ host[p].admission_decided /\ host[p].admits => d.admits
    BY <2>0, <2>1, OutcomeFacts, OutcomeReceipts
  <2>3. decision # "none" /\ host[p].admits => host[p].admission_decided
    BY <1>2 DEF IInv, ServingInv, Serving
  <2>4. c.at = "reply" /\ decision # "none" => c.op # "snapshot"
    BY DEF IInv, ControlInv, InLoop
  <2> QED
    BY <1>a, <2>1, <2>2, <2>3, <2>4
<1>3. host' = host => host'[p] = host[p]
  OBVIOUS
<1>4. ASSUME NEW q \in Involved, NEW op \in Operations, NEW d \in HostRecord,
             HostMoves(q, op, d), q # p
      PROVE  host'[p] = host[p]
  BY <1>4, TypeFacts DEF HostMoves
<1> QED
  BY <1>1, <1>2, <1>3, <1>4, HostCases

(* --------------------------- the steps of the coordinator -------------------- *)
\* A decision is taken once, at the end of a verification.
LEMMA DecidedOnce ==
  ASSUME IInv, [Next]_vars
  PROVE  /\ decision' = decision \/ (decision = "none" /\ decision' # "none" /\ TakeDecision)
         /\ decision' = "none" => decision = "none"
<1>1. CASE UNCHANGED vars
  BY <1>1 DEF vars
<1>2. CASE TakeDecision
  <2>1. decision = "none"
    BY <1>2 DEF TakeDecision, IInv, ControlInv, InLoop
  <2> QED
    BY <1>2, <2>1 DEF TakeDecision
<1>3. CASE Coordinator /\ ~TakeDecision
  BY <1>3 DEF Coordinator, Run, GatesClosed, NextOperation, SealBarrier, OpenGates, Finalize,
     Finish, Call, Reply, CloseGate, Acquired, SealGate, Sealed, OpenGate, Released, journal
<1>4. CASE Environment
  BY <1>4 DEF Environment, CheckFails, CoordinatorCrash, CallFails, CallOverdue,
     GateCallFails, GateCallOverdue, Arrives, journal
<1> QED
  BY <1>1, <1>2, <1>3, <1>4 DEF Next

\* Where the entries of the loops put the coordinator.
LEMMA Entries ==
  ASSUME c \in Control
  PROVE  /\ c' = Idle => c'.at = "idle"
         /\ Recover => c'.at = "close"
         /\ c' = [Idle EXCEPT !.at = "close", !.forward = TRUE, !.gates = Gates] => c'.at = "close"
         /\ Activate => c'.at = "loop"
         /\ \A op, names : Loop(op, names) => c'.at = "loop"
<1>1. c' = Idle => c'.at = "idle"
  BY DEF Idle
<1>2. Recover => c'.at = "close"
  BY DEF Recover, Idle
<1>3. c' = [Idle EXCEPT !.at = "close", !.forward = TRUE, !.gates = Gates] => c'.at = "close"
  BY DEF Idle
<1>4. Activate => c'.at = "loop"
  BY DEF Activate, Idle
<1>5. \A op, names : Loop(op, names) => c'.at = "loop"
  BY DEF Loop, Control
<1> QED
  BY <1>1, <1>2, <1>3, <1>4, <1>5

\* Where a failed call leaves the gates that are still to be done.
LEMMA FailMoves ==
  ASSUME TypeOK, Fail \/ Crash
  PROVE  /\ ~c'.forward
         /\ \/ c'.at = "idle"
            \/ c'.at = "close" /\ c'.gates = Gates
            \/ /\ c'.at = "loop" /\ InLoop /\ ~c.forward /\ c'.op = c.op
               /\ c.op \in {"rollback", "start", "verify_rollback", "finalize"}
<1>1. CASE c' = Idle
  BY <1>1 DEF Idle
<1>2. CASE Recover
  BY <1>2 DEF Recover, Idle
<1>3. CASE /\ ~c.forward /\ c.at \in {"loop", "reply"}
           /\ c.op \in {"rollback", "start", "verify_rollback", "finalize"}
           /\ c' = [c EXCEPT !.at = "loop", !.failed = TRUE,
                             !.todo = @ \ {CHOOSE p \in c.todo : IsNext(p)}]
  BY <1>3 DEF TypeOK, Control, InLoop
<1>4. CASE Fail
  <2>1. CASE c.forward
    BY <1>1, <1>2, <1>4, <2>1, TypeFacts DEF Fail, TypeOK, Control
  <2>2. CASE /\ ~c.forward /\ c.at \in {"loop", "reply"}
             /\ c.op \in {"rollback", "start", "verify_rollback", "finalize"}
    BY <1>3, <1>4, <2>2 DEF Fail
  <2>3. CASE ~c.forward /\ ~(/\ c.at \in {"loop", "reply"}
                             /\ c.op \in {"rollback", "start", "verify_rollback", "finalize"})
    BY <1>1, <1>4, <2>3 DEF Fail
  <2> QED
    BY <2>1, <2>2, <2>3
<1> QED
  BY <1>1, <1>4 DEF Crash

\* A gate check that succeeds saw a fenced gate.
LEMMA CheckedIsFenced ==
  ASSUME IInv, NEW g \in Gates, GateHolds(g) \/ IsSealed(g)
  PROVE  Fenced(gate[g])
<1>1. gate[g] \in GateRecord /\ (g \in Drain) \in BOOLEAN
  BY TypeFacts
<1>2. assert_sealed(gate[g]) => assert_closed(gate[g], g \in Drain)
  BY DEF assert_closed
<1>3. assert_closed(gate[g], g \in Drain)
  BY <1>2 DEF GateHolds, IsSealed, IsClosed
<1> QED
  BY <1>1, <1>3, ClosedIsFenced

\* A gate is next by itself.
LEMMA NextGateUnique ==
  ASSUME NEW g \in Gates, NEW q \in Gates, IsNextGate(g), IsNextGate(q)
  PROVE  g = q
<1>1. g \in Nat /\ q \in Nat /\ g <= q /\ q <= g
  BY InventoryAssumption DEF IsNextGate
<1> QED
  BY <1>1

\* Before anyone is called: a gate is asked, is found or made closed, or the
\* loop is over; a new loop begins with all gates.
ClosingMoves ==
  \/ c' = c
  \/ c'.at = "idle"
  \/ c'.at = "close" /\ c'.gates = Gates
  \/ /\ c.at = "close" /\ c'.at = "acquiring" /\ c'.gates = c.gates
     /\ \E g \in Gates : IsNextGate(g) /\ info[g].seal = "none"
  \/ /\ c.at \in {"close", "acquiring"} /\ c'.at = "close"
     /\ \E g \in Gates : c'.gates = c.gates \ {g} /\ Fenced(gate'[g])
  \/ c.at = "close" /\ c.gates = {} /\ c'.at = "loop" /\ c'.op = "prepare"

\* Before the first call of a participant, a step closes one more gate or
\* starts the first loop.
LEMMA ClosingCases ==
  ASSUME IInv, [Next]_vars, decision = "none", c.at \notin {"loop", "reply", "seal", "sealing"}
  PROVE  UNCHANGED <<decision, node>> /\ ClosingMoves
<1>t. TypeOK /\ c \in Control
  BY DEF IInv, TypeOK
<1>a. c.at \in {"idle", "close", "acquiring"}
  BY <1>t DEF IInv, ControlInv, Control
<1>f. Fail \/ Crash => ClosingMoves
  BY <1>a, <1>t, FailMoves DEF ClosingMoves, InLoop
<1>1. CASE UNCHANGED vars
  BY <1>1 DEF vars, ClosingMoves
<1>2. CASE Run
  BY <1>2 DEF Run, Recover, Idle, ClosingMoves
<1>3. ASSUME NEW g \in Gates, CloseGate(g) PROVE UNCHANGED <<decision, node>> /\ ClosingMoves
  <2>1. CASE info[g].seal = "none"
    BY <1>3, <1>t, <2>1 DEF CloseGate, ClosingMoves, Control
  <2>2. CASE info[g].seal # "none" /\ GateHolds(g)
    <3>1. Fenced(gate'[g])
      BY <1>3, <2>2, CheckedIsFenced DEF CloseGate
    <3> QED
      BY <1>3, <1>t, <2>2, <3>1 DEF CloseGate, ClosingMoves, Control
  <2>3. CASE info[g].seal # "none" /\ ~GateHolds(g)
    BY <1>3, <1>f, <2>3 DEF CloseGate
  <2> QED
    BY <2>1, <2>2, <2>3
<1>4. ASSUME NEW g \in Gates, Acquired(g) PROVE UNCHANGED <<decision, node>> /\ ClosingMoves
  <2>1. CASE Fail
    BY <1>4, <1>f, <2>1 DEF Acquired
  <2>2. CASE ~Fail
    <3>1. /\ gate' = [gate EXCEPT ![g] = change(gate[g], g \in Drain, "acquire")]
          /\ assert_closed(gate'[g], g \in Drain)
          /\ c' = [c EXCEPT !.at = "close", !.gates = @ \ {g}]
      BY <1>4, <2>2 DEF Acquired
    <3>2. gate' \in [Gates -> GateRecord]
      BY <3>1, GateFacts DEF GateActions
    <3>3. Fenced(gate'[g])
      <4>1. gate'[g] \in GateRecord /\ (g \in Drain) \in BOOLEAN
        BY <3>2
      <4> QED
        BY <3>1, <4>1, ClosedIsFenced
    <3> QED
      BY <1>4, <1>t, <3>1, <3>3 DEF Acquired, ClosingMoves, Control
  <2> QED
    BY <2>1, <2>2
<1>5. CASE GatesClosed
  BY <1>5, <1>t DEF GatesClosed, Loop, ClosingMoves, Control
<1>6. CASE Environment
  BY <1>6, <1>a, <1>f DEF Environment, CheckFails, CoordinatorCrash, CallFails, CallOverdue,
     GateCallFails, GateCallOverdue, Arrives, Fault, journal, ClosingMoves
<1>7. CASE Coordinator
  BY <1>2, <1>3, <1>4, <1>5, <1>7, <1>a DEF Coordinator, NextOperation, TakeDecision,
     SealBarrier, OpenGates, Finalize, Finish, Call, Reply, SealGate, Sealed, OpenGate, Released
<1> QED
  BY <1>1, <1>6, <1>7 DEF Next

\* The gates stay fenced until the decision.
LEMMA FenceStep ==
  ASSUME IInv, FenceInv, TombstoneInv, [Next]_vars
  PROVE  FenceInv'
<1> SUFFICES ASSUME decision' = "none" PROVE FenceInv'
  BY DEF FenceInv
<1>1. decision = "none"
  BY DecidedOnce
<1>2. \A g \in Gates : Fenced(gate[g]) => Fenced(gate'[g])
  BY <1>1, GateKeeps
<1>3. \A g \in Gates : <<g, "release">> \notin late'
  <2>1. c.at # "releasing"
    BY <1>1 DEF IInv, ControlInv
  <2>2. GateAction # "release" \/ c.at \notin {"acquiring", "sealing", "releasing"}
    BY <2>1 DEF GateAction
  <2>3. ASSUME NEW p \in Participants, CallOverdue(p) PROVE c.op \in Operations
    BY <2>3, ReplyFacts DEF CallOverdue
  <2>4. late' \subseteq late
        \/ (\E p \in Participants : CallOverdue(p) /\ late' = late \cup {<<p, c.op>>})
        \/ \E g \in Gates : GateCallOverdue(g) /\ late' = late \cup {<<g, GateAction>>}
    <3>1. CASE UNCHANGED vars
      BY <3>1 DEF vars
    <3>2. CASE Coordinator
      BY <3>2 DEF Coordinator, Run, GatesClosed, NextOperation, TakeDecision, SealBarrier,
         OpenGates, Finalize, Finish, Call, Reply, CloseGate, Acquired, SealGate, Sealed,
         OpenGate, Released
    <3>3. CASE Environment
      BY <3>3 DEF Environment, CheckFails, CoordinatorCrash, CallFails, CallOverdue,
         GateCallFails, GateCallOverdue, Arrives
    <3> QED
      BY <3>1, <3>2, <3>3 DEF Next
  <2>5. "release" \notin Operations
    BY DEF Operations
  <2> DEFINE Asks(r) == \A g \in Gates : r # <<g, "release">>
  <2>6. ASSUME NEW p \in Participants, CallOverdue(p) PROVE Asks(<<p, c.op>>)
    BY <2>3, <2>5, <2>6
  <2>7. ASSUME NEW g \in Gates, GateCallOverdue(g) PROVE Asks(<<g, GateAction>>)
    BY <2>2, <2>7 DEF GateCallOverdue
  <2>8. late' \subseteq late \/ \E r : Asks(r) /\ late' = late \cup {r}
    BY <2>4, <2>6, <2>7
  <2>9. \A g \in Gates : <<g, "release">> \notin late
    BY <1>1 DEF FenceInv
  <2> SUFFICES ASSUME NEW g \in Gates, <<g, "release">> \in late' PROVE FALSE
    OBVIOUS
  <2>10. <<g, "release">> \notin late
    BY <2>9
  <2>11. PICK r : Asks(r) /\ late' = late \cup {r}
    BY <2>8, <2>10
  <2>12. r = <<g, "release">>
    BY <2>10, <2>11
  <2> QED
    BY <2>11, <2>12
<1>4. CASE c.at \in {"loop", "reply", "seal", "sealing"}
  BY <1>1, <1>2, <1>3, <1>4 DEF FenceInv
<1>5. CASE c.at \notin {"loop", "reply", "seal", "sealing"}
  <2>1. Involved' = Involved /\ ClosingMoves
    BY <1>1, <1>5, ClosingCases DEF Involved
  <2>2. c \in Control
    BY TypeFacts
  <2>3. c'.at \in {"loop", "reply", "seal", "sealing"} => \A g \in Gates : Fenced(gate'[g])
    BY <1>1, <1>2, <1>5, <2>1 DEF ClosingMoves, FenceInv
  <2>4. c'.at \in {"close", "acquiring"} => \A g \in Gates \ c'.gates : Fenced(gate'[g])
    BY <1>1, <1>2, <1>5, <2>1 DEF ClosingMoves, FenceInv
  <2> QED
    BY <1>1, <1>2, <1>3, <2>1, <2>3, <2>4 DEF FenceInv
<1> QED
  BY <1>4, <1>5

(* ------------------------------ the seal barrier ----------------------------- *)
\* Until the decision no seal leaves the journal, and one that enters it is on
\* the gate.
LEMMA InfoKeeps ==
  ASSUME IInv, [Next]_vars, decision = "none", NEW g \in Gates
  PROVE  /\ info[g].seal = "sealed" => info'[g].seal = "sealed"
         /\ info'[g].seal = "sealed" => info[g].seal = "sealed" \/ IsSealed(g)'
<1>t. /\ info \in InfoType /\ gate \in [Gates -> GateRecord]
      /\ info \in [Gates -> [pending : {"none", "acquire", "release"},
                             state : {"unknown", "closed", "open"},
                             seal : {"none", "pending", "sealed"}]]
  BY TypeFacts DEF InfoType
<1>a. c.at \notin {"open", "releasing"}
  BY DEF IInv, ControlInv
<1>1. CASE info'[g] = info[g]
  BY <1>1
<1>2. ASSUME NEW q \in Gates, CloseGate(q) \/ Acquired(q) PROVE info'[g].seal = info[g].seal
  BY <1>2, <1>t DEF CloseGate, Acquired
<1>3. ASSUME NEW q \in Gates, SealGate(q)
      PROVE  info[g].seal = "sealed" <=> info'[g].seal = "sealed"
  BY <1>3, <1>t DEF SealGate
<1>4. ASSUME NEW q \in Gates, Sealed(q)
      PROVE  /\ info[g].seal = "sealed" => info'[g].seal = "sealed"
             /\ info'[g].seal = "sealed" => info[g].seal = "sealed" \/ IsSealed(g)'
  <2>1. CASE info' = info
    BY <2>1
  <2>2. CASE /\ info' = [info EXCEPT ![q].seal = "sealed"]
             /\ IF q \in Sealable THEN GateAccepts(gate[q], q \in Drain, "seal") ELSE IsClosed(q)
             /\ gate' = IF q \in Sealable
                        THEN [gate EXCEPT ![q] = change(gate[q], q \in Drain, "seal")] ELSE gate
    <3>1. g # q => info'[g] = info[g]
      BY <1>t, <2>2
    <3>2. info'[q].seal = "sealed"
      BY <1>t, <2>2
    <3>3. IsSealed(q)'
      <4>0. gate[q] \in GateRecord /\ (q \in Drain) \in BOOLEAN
        BY <1>t
      <4>1. CASE q \in Sealable
        <5>1. gate'[q] = change(gate[q], q \in Drain, "seal")
          BY <1>t, <2>2, <4>1
        <5>2. assert_sealed(gate'[q])
          BY <2>2, <4>0, <4>1, <5>1, ChangeFacts
        <5> QED
          BY <4>1, <5>2 DEF IsSealed
      <4>2. CASE q \notin Sealable
        BY <2>2, <4>2 DEF IsSealed, IsClosed
      <4> QED
        BY <4>1, <4>2
    <3> QED
      BY <3>1, <3>2, <3>3
  <2> QED
    BY <1>4, <2>1, <2>2 DEF Sealed
<1>5. ASSUME NEW p \in Participants, Call(p)
      PROVE  /\ info[g].seal = "sealed" => info'[g].seal = "sealed"
             /\ info'[g].seal = "sealed" => info[g].seal = "sealed" \/ IsSealed(g)'
  <2>1. CASE info' = info
    BY <2>1
  <2>2. CASE Adopt(CheckedGates)
    <3>1. gate' = gate
      BY <1>5 DEF Call
    <3>2. IsSealed(g)' <=> IsSealed(g)
      BY <3>1 DEF IsSealed
    <3>3. \/ info'[g] = info[g]
          \/ info[g].seal = "pending" /\ IsSealed(g)
      BY <2>2 DEF Adopt
    <3> QED
      BY <3>2, <3>3
  <2> QED
    BY <1>5, <2>1, <2>2 DEF Call
<1>6. CASE UNCHANGED vars
  BY <1>6 DEF vars
<1>7. CASE Environment
  BY <1>7 DEF Environment, CheckFails, CoordinatorCrash, CallFails, CallOverdue,
     GateCallFails, GateCallOverdue, Arrives, journal
<1>8. CASE /\ Coordinator
           /\ ~\E q \in Gates : CloseGate(q) \/ Acquired(q) \/ SealGate(q) \/ Sealed(q)
           /\ ~\E p \in Participants : Call(p)
  BY <1>8, <1>a DEF Coordinator, Run, GatesClosed, NextOperation, TakeDecision, SealBarrier,
     OpenGates, Finalize, Finish, Reply, OpenGate, Released, journal
<1> QED
  BY <1>1, <1>2, <1>3, <1>4, <1>5, <1>6, <1>7, <1>8 DEF Next

\* Where the coordinator gets to the seal barrier, gate by gate.
LEMMA SealingCases ==
  ASSUME IInv, [Next]_vars, c'.at \in {"seal", "sealing"}
  PROVE  \/ c'.gates = Gates
         \/ /\ c.at \in {"seal", "sealing"} /\ info' = info
            /\ c'.gates = c.gates
         \/ \E g \in Gates : /\ c.at = "seal" /\ IsNextGate(g) /\ c'.gates = c.gates
                             /\ info' = [info EXCEPT ![g].seal = "pending"]
         \/ \E g \in Gates : /\ c.at \in {"seal", "sealing"} /\ c'.gates = c.gates \ {g}
                             /\ info' = info /\ info[g].seal = "sealed"
         \/ \E g \in Gates : /\ c.at \in {"seal", "sealing"} /\ c'.gates = c.gates \ {g}
                             /\ info' = [info EXCEPT ![g].seal = "sealed"]
<1>t. c \in Control
  BY TypeFacts
<1>f. ~(Fail \/ Crash)
  BY FailMoves DEF IInv
<1>s. /\ c' # Idle /\ ~Recover /\ ~Activate
      /\ c' # [Idle EXCEPT !.at = "close", !.forward = TRUE, !.gates = Gates]
      /\ \A op, names : ~Loop(op, names)
  BY <1>t, Entries
<1>1. CASE UNCHANGED vars
  BY <1>1 DEF vars
<1>2. CASE NextOperation
  <2>1. CASE c.failed \/ c.op # "quiesce"
    BY <1>2, <2>1, <1>s DEF NextOperation
  <2>2. CASE ~c.failed /\ c.op = "quiesce"
    BY <1>2, <2>2, <1>t DEF NextOperation, Control
  <2> QED
    BY <2>1, <2>2
<1>3. ASSUME NEW g \in Gates, SealGate(g) \/ Sealed(g)
      PROVE  \/ /\ c.at = "seal" /\ IsNextGate(g) /\ c'.gates = c.gates
                /\ info' = [info EXCEPT ![g].seal = "pending"]
             \/ /\ c.at \in {"seal", "sealing"} /\ c'.gates = c.gates \ {g}
                /\ info' = info /\ info[g].seal = "sealed"
             \/ /\ c.at \in {"seal", "sealing"} /\ c'.gates = c.gates \ {g}
                /\ info' = [info EXCEPT ![g].seal = "sealed"]
  BY <1>3, <1>f, <1>t DEF SealGate, Sealed, Control
<1>4. CASE Environment
  BY <1>4, <1>f DEF Environment, CheckFails, CoordinatorCrash, CallFails, CallOverdue,
     GateCallFails, GateCallOverdue, Arrives, Fault, journal
<1>5. ~Run /\ ~TakeDecision /\ ~Finish
  BY <1>s DEF Run, TakeDecision, Finish
<1>8. ~GatesClosed /\ ~OpenGates /\ ~Finalize
  BY <1>s, <1>t DEF GatesClosed, OpenGates, Finalize, Control
<1>9. ~SealBarrier
  BY <1>f, <1>s DEF SealBarrier
<1>6. ~\E p \in Participants : Call(p) \/ Reply(p)
  BY <1>f, <1>t DEF Call, Reply, Control
<1>7. ~\E g \in Gates : CloseGate(g) \/ Acquired(g) \/ OpenGate(g) \/ Released(g)
  BY <1>f, <1>t DEF CloseGate, Acquired, OpenGate, Released, Control
<1> QED
  BY <1>1, <1>2, <1>3, <1>4, <1>5, <1>6, <1>7, <1>8, <1>9 DEF Next, Coordinator

\* Where the loops of calls come from: the same loop, with the same participants
\* left or one less, or the entry of the next one.
SameLoopOf == /\ InLoop /\ c'.op = c.op /\ c'.forward = c.forward
              /\ \/ c' = c
                 \/ c'.todo = c.todo
                 \/ \E p \in Participants : c'.todo = c.todo \ {p} /\ Reply(p) /\ Succeeds(host[p], c.op)
                 \/ c.op \in {"rollback", "start", "verify_rollback", "finalize"} /\ ~c.forward
NextLoopOf == /\ InLoop /\ c.todo = {} /\ c'.forward = c.forward
              /\ <<c.op, c'.op>> \in {<<"prepare", "quiesce">>, <<"snapshot", "apply">>,
                                      <<"apply", "start">>, <<"rollback", "start">>,
                                      <<"start", "verify">>, <<"start", "verify_rollback">>}
              /\ c'.todo = Names

\* Every way into a position of a loop: along it, from the loop before it, or
\* from the barrier, the activations or the finalization.
LEMMA LoopCases ==
  ASSUME IInv, [Next]_vars, InLoop'
  PROVE  \/ SameLoopOf
         \/ NextLoopOf /\ UNCHANGED <<host, info>>
         \/ c'.op = "prepare"
         \/ SealBarrier /\ c'.op \in {"snapshot", "rollback"}
         \/ Activate /\ UNCHANGED <<node, host>> /\ decision' # "none"
         \/ Finalize /\ c'.op = "finalize" /\ decision' # "none"
<1>t. c \in Control
  BY TypeFacts
<1>f. Fail \/ Crash => SameLoopOf
  <2>1. Fail \/ Crash =>
          /\ c'.at = "loop" /\ InLoop /\ ~c.forward /\ c'.op = c.op /\ ~c'.forward
          /\ c.op \in {"rollback", "start", "verify_rollback", "finalize"}
    BY FailMoves DEF IInv, InLoop
  <2>2. Fail \/ Crash => c' \in Control
    BY FailCases DEF IInv
  <2> QED
    BY <1>t, <2>1, <2>2 DEF SameLoopOf, Control
<1>i. c' # Idle /\ ~Recover /\ c' # [Idle EXCEPT !.at = "close", !.forward = TRUE, !.gates = Gates]
  BY <1>t, Entries DEF InLoop
<1>l. ASSUME NEW op, NEW names, Loop(op, names)
      PROVE  c'.op = op /\ c'.todo = names /\ c'.forward = c.forward
  BY <1>l, <1>t DEF Loop, Control
<1>1. CASE c' = c
  BY <1>1 DEF SameLoopOf, InLoop
<1>2. CASE Run
  BY <1>2, <1>i DEF Run
<1>3. CASE GatesClosed
  BY <1>3, <1>l DEF GatesClosed
<1>4. CASE NextOperation
  <2>1. /\ c.at = "loop" /\ c.todo = {} /\ UNCHANGED <<host, info>>
        /\ c.op \notin {"quiesce", "verify", "verify_rollback", "activate", "finalize"}
        /\ Loop(CASE c.op = "prepare" -> "quiesce"
                  [] c.op = "snapshot" -> "apply"
                  [] c.op = "apply" -> "start"
                  [] c.op = "rollback" -> "start"
                  [] c.op = "start" -> IF c.forward THEN "verify" ELSE "verify_rollback",
                Names)
    <3>1. CASE c.op = "quiesce"
      BY <1>4, <1>i, <1>t, <3>1 DEF NextOperation, InLoop, Control
    <3> QED
      BY <1>4, <1>i, <3>1 DEF NextOperation, Names
  <2>2. c.op \in {"prepare", "snapshot", "apply", "rollback", "start"}
    BY <2>1 DEF IInv, ControlInv, InLoop, ForwardOps, RecoveryOps
  <2> QED
    BY <1>l, <2>1, <2>2 DEF NextLoopOf, InLoop
<1>5. CASE TakeDecision
  BY <1>5, <1>i DEF TakeDecision
<1>6. CASE SealBarrier
  BY <1>6, <1>f, <1>l DEF SealBarrier
<1>7. ~OpenGates /\ ~Finish
  <2>1. ~Finish
    BY <1>i DEF Finish
  <2>2. OpenGates => c'.at = "open"
    BY <1>t DEF OpenGates, Control
  <2> QED
    BY <2>1, <2>2 DEF InLoop
<1>8. CASE Finalize
  <2>1. c'.op = "finalize" /\ c.at = "open" /\ decision' = decision
    BY <1>8, <1>t DEF Finalize, Control
  <2> QED
    BY <1>8, <2>1 DEF IInv, ControlInv
<1>9. ASSUME NEW p \in Participants, Call(p) PROVE SameLoopOf
  BY <1>9, <1>f, <1>t DEF Call, SameLoopOf, InLoop, Control
<1>10. ASSUME NEW p \in Participants, Reply(p) PROVE SameLoopOf
  BY <1>10, <1>f, <1>t DEF Reply, SameLoopOf, InLoop, Control
<1>11. ASSUME NEW g \in Gates, \/ CloseGate(g) \/ Acquired(g) \/ SealGate(g) \/ Sealed(g)
                               \/ OpenGate(g) \/ Released(g)
       PROVE  SameLoopOf
  BY <1>11, <1>f, <1>t DEF CloseGate, Acquired, SealGate, Sealed, OpenGate, Released, InLoop, Control
<1>12. CASE Environment
  BY <1>1, <1>12, <1>f DEF Environment, CheckFails, CoordinatorCrash, CallFails, CallOverdue,
     GateCallFails, GateCallOverdue, Arrives, Fault, journal
<1>13. CASE UNCHANGED vars
  BY <1>1, <1>13 DEF vars
<1> QED
  BY <1>2, <1>3, <1>4, <1>5, <1>6, <1>7, <1>8, <1>9, <1>10, <1>11, <1>12, <1>13
     DEF Next, Coordinator

\* A gate that is being acquired was not sealed.
LEMMA AcquiringCases ==
  ASSUME IInv, [Next]_vars, c'.at = "acquiring"
  PROVE  \/ c' = c /\ info' = info
         \/ \E g \in Gates : CloseGate(g) /\ info[g].seal = "none" /\ c'.gates = c.gates
<1>t. c \in Control
  BY TypeFacts
<1>f. ~(Fail \/ Crash)
  BY FailMoves DEF IInv
<1>s. /\ c' # Idle /\ ~Recover /\ ~Activate
      /\ c' # [Idle EXCEPT !.at = "close", !.forward = TRUE, !.gates = Gates]
      /\ \A op, names : ~Loop(op, names)
  BY <1>t, Entries
<1>1. CASE UNCHANGED vars
  BY <1>1 DEF vars
<1>2. CASE Environment
  BY <1>2, <1>f DEF Environment, CheckFails, CoordinatorCrash, CallFails, CallOverdue,
     GateCallFails, GateCallOverdue, Arrives, Fault, journal
<1>3. ~Run /\ ~TakeDecision /\ ~Finish /\ ~GatesClosed /\ ~SealBarrier
  BY <1>f, <1>s DEF Run, TakeDecision, Finish, GatesClosed, SealBarrier
<1>4. ~NextOperation
  BY <1>s, <1>t DEF NextOperation, Control
<1>5. ~OpenGates /\ ~Finalize
  BY <1>t DEF OpenGates, Finalize, Control
<1>6. ~\E p \in Participants : Call(p) \/ Reply(p)
  BY <1>f, <1>t DEF Call, Reply, Control
<1>7. ~\E g \in Gates : Acquired(g) \/ SealGate(g) \/ Sealed(g) \/ OpenGate(g) \/ Released(g)
  BY <1>f, <1>t DEF Acquired, SealGate, Sealed, OpenGate, Released, Control
<1>8. ASSUME NEW g \in Gates, CloseGate(g) PROVE info[g].seal = "none" /\ c'.gates = c.gates
  BY <1>8, <1>f, <1>t DEF CloseGate, Control
<1> QED
  BY <1>1, <1>2, <1>3, <1>4, <1>5, <1>6, <1>7, <1>8 DEF Next, Coordinator

\* The seals, and what rests on them, until the decision.
LEMMA SealStep ==
  ASSUME IInv, FenceInv, TombstoneInv, SealInv, AdmitInv, [Next]_vars
  PROVE  SealInv'
<1>k. AllSealed /\ decision = "none" => AllSealed'
  BY InfoKeeps DEF AllSealed
<1>d. decision' = "none" => decision = "none"
  BY DecidedOnce
<1>i. /\ info \in [Gates -> [pending : {"none", "acquire", "release"},
                             state : {"unknown", "closed", "open"},
                             seal : {"none", "pending", "sealed"}]]
      /\ c \in Control
  BY TypeFacts DEF InfoType
<1>1. c'.at = "acquiring" => \A g \in Gates : IsNextGate(g)' => info'[g].seal = "none"
  <2> SUFFICES ASSUME c'.at = "acquiring", NEW g \in Gates, IsNextGate(g)'
               PROVE  info'[g].seal = "none"
    OBVIOUS
  <2>1. CASE c' = c /\ info' = info
    BY <2>1 DEF SealInv, IsNextGate
  <2>2. ASSUME NEW q \in Gates, CloseGate(q), info[q].seal = "none", c'.gates = c.gates
        PROVE  info'[g].seal = "none"
    <3>1. IsNextGate(q) /\ IsNextGate(g)
      BY <2>2 DEF CloseGate, IsNextGate
    <3>2. g = q
      BY <3>1, NextGateUnique
    <3> QED
      BY <1>i, <2>2, <3>2 DEF CloseGate
  <2> QED
    BY <2>1, <2>2, AcquiringCases
<1>2. c'.at \in {"seal", "sealing"} => \A g \in Gates \ c'.gates : info'[g].seal = "sealed"
  <2> SUFFICES ASSUME c'.at \in {"seal", "sealing"}, NEW g \in Gates \ c'.gates
               PROVE  info'[g].seal = "sealed"
    OBVIOUS
  <2>1. CASE c.at \in {"seal", "sealing"} /\ info' = info /\ c'.gates = c.gates
    BY <2>1 DEF SealInv
  <2>2. ASSUME NEW q \in Gates, c.at = "seal", IsNextGate(q), c'.gates = c.gates,
               info' = [info EXCEPT ![q].seal = "pending"]
        PROVE  info'[g].seal = "sealed"
    <3>1. q # g
      BY <2>2 DEF IsNextGate
    <3> QED
      BY <1>i, <2>2, <3>1 DEF SealInv
  <2>3. ASSUME NEW q \in Gates, c.at \in {"seal", "sealing"}, c'.gates = c.gates \ {q},
               \/ info' = info /\ info[q].seal = "sealed"
               \/ info' = [info EXCEPT ![q].seal = "sealed"]
        PROVE  info'[g].seal = "sealed"
    BY <1>i, <2>3 DEF SealInv
  <2>4. c'.gates # Gates
    OBVIOUS
  <2> QED
    BY <2>1, <2>2, <2>3, <2>4, SealingCases
<1>3. decision' = "none" => \A g \in Gates : info'[g].seal = "sealed" => IsSealed(g)'
  <2> SUFFICES ASSUME decision = "none", NEW g \in Gates, info'[g].seal = "sealed"
               PROVE  IsSealed(g)'
    BY <1>d
  <2>1. CASE info[g].seal = "sealed"
    <3>1. IsSealed(g) /\ ~(c.at = "acquiring" /\ IsNextGate(g))
      BY <2>1 DEF SealInv
    <3> QED
      BY <3>1, GateKeeps
  <2> QED
    BY <2>1, InfoKeeps
<1>4. decision' = "none" /\ InLoop' /\ c'.op \notin {"prepare", "quiesce"} => AllSealed'
  <2> SUFFICES ASSUME decision' = "none", decision = "none", InLoop',
                      c'.op \notin {"prepare", "quiesce"}
               PROVE  AllSealed'
    BY <1>d
  <2>1. CASE SameLoopOf
    BY <1>k, <2>1 DEF SealInv, SameLoopOf
  <2>2. CASE NextLoopOf
    <3>1. InLoop /\ c.op \notin {"prepare", "quiesce"}
      BY <2>2 DEF NextLoopOf
    <3> QED
      BY <1>k, <3>1 DEF SealInv
  <2>3. CASE SealBarrier
    <3>1. c.at = "seal" /\ c.gates = {}
      BY <2>3 DEF SealBarrier
    <3>2. AllSealed
      BY <3>1 DEF SealInv, AllSealed
    <3> QED
      BY <1>k, <3>2
  <2> QED
    BY <2>1, <2>2, <2>3, LoopCases
<1>5. decision' = "none" /\ (\E p \in Participants : <<p, "snapshot">> \in late') =>
        AllSealed' /\ AllClosed'
  <2> SUFFICES ASSUME decision = "none", NEW p \in Participants, <<p, "snapshot">> \in late'
               PROVE  AllSealed' /\ AllClosed'
    BY <1>d
  <2>1. AllClosed => AllClosed'
    BY HostKeeps DEF AllClosed
  <2>2. CASE <<p, "snapshot">> \in late
    BY <1>k, <2>1, <2>2 DEF SealInv
  <2>3. CASE c.at = "reply" /\ c.op = "snapshot"
    <3>1. c.forward /\ InLoop
      BY <2>3 DEF IInv, ControlInv, InLoop, RecoveryOps
    <3>2. AllSealed
      BY <2>3, <3>1 DEF SealInv
    <3>3. AllClosed
      BY <2>3, <3>1 DEF IInv, PassInv, Names, AllClosed
    <3> QED
      BY <1>k, <2>1, <3>2, <3>3
  <2>4. <<p, "snapshot">> \in late \/ (c.at = "reply" /\ c.op = "snapshot")
    <3>1. CASE UNCHANGED vars
      BY <3>1 DEF vars
    <3>2. CASE Coordinator
      BY <3>2 DEF Coordinator, Run, GatesClosed, NextOperation, TakeDecision, SealBarrier,
         OpenGates, Finalize, Finish, Call, Reply, CloseGate, Acquired, SealGate, Sealed,
         OpenGate, Released
    <3>3. ASSUME NEW q \in Participants, CallOverdue(q)
          PROVE  <<p, "snapshot">> \in late \/ (c.at = "reply" /\ c.op = "snapshot")
      BY <3>3 DEF CallOverdue
    <3>4. ASSUME NEW g \in Gates, GateCallOverdue(g) PROVE <<p, "snapshot">> \in late
      BY <3>4 DEF GateCallOverdue, GateAction
    <3>5. CASE Environment
      BY <3>3, <3>4, <3>5 DEF Environment, CheckFails, CoordinatorCrash, CallFails,
         GateCallFails, Arrives
    <3> QED
      BY <3>1, <3>2, <3>5 DEF Next
  <2> QED
    BY <2>2, <2>3, <2>4
<1> QED
  BY <1>1, <1>2, <1>3, <1>4, <1>5 DEF SealInv

\* What a snapshot that can be restored finds.
LEMMA SnapshotStep ==
  ASSUME IInv, SealInv, AdmitInv, [Next]_vars, NEW p \in Participants,
         "snapshot" \in host'[p].receipts \ host[p].receipts, ~host[p].restored
  PROVE  AllClosed /\ \A g \in Gates : IsSealed(g)
<1>1. /\ p \in Involved
      /\ \/ c.at = "reply" /\ c.op = "snapshot" /\ decision = "none"
         \/ <<p, "snapshot">> \in late /\ decision # "commit"
  BY HostKeeps
<1>2. decision = "none"
  BY <1>1 DEF IInv, TypeOK, DecisionInv
<1>3. AllSealed /\ AllClosed
  <2>1. CASE c.at = "reply" /\ c.op = "snapshot"
    <3>1. c.forward /\ InLoop
      BY <1>2, <2>1 DEF IInv, ControlInv, InLoop, RecoveryOps
    <3>2. AllSealed
      BY <1>2, <2>1, <3>1 DEF SealInv
    <3>3. AllClosed
      BY <1>2, <2>1, <3>1 DEF IInv, PassInv, Names, AllClosed
    <3> QED
      BY <3>2, <3>3
  <2>2. CASE <<p, "snapshot">> \in late
    BY <1>2, <2>2 DEF SealInv
  <2> QED
    BY <1>1, <2>1, <2>2
<1> QED
  BY <1>2, <1>3 DEF SealInv, AllSealed

(* -------------------------------- the opening -------------------------------- *)
\* What a step adds to the journal of a participant.
LEMMA NodeCases ==
  ASSUME IInv, [Next]_vars, NEW p \in Participants
  PROVE  \/ node'[p] = node[p]
         \/ node'[p].completed = node[p].completed /\ Call(p)
         \/ /\ node'[p].completed = node[p].completed \cup {c.op}
            /\ Reply(p) /\ Succeeds(host[p], c.op)
<1>t. node \in [Participants -> [completed : SUBSET Operations,
                                 pending : Operations \cup {"none"}, previous : BOOLEAN]]
  BY TypeFacts
<1>1. ASSUME NEW q \in Participants, Call(q)
      PROVE  node'[p] = node[p] \/ (node'[p].completed = node[p].completed /\ q = p)
  BY <1>1, <1>t DEF Call
<1>2. ASSUME NEW q \in Participants, Reply(q)
      PROVE  \/ node'[p] = node[p]
             \/ q = p /\ node'[p].completed = node[p].completed \cup {c.op}
                /\ Succeeds(host[p], c.op)
  BY <1>2, <1>t DEF Reply
<1>3. CASE UNCHANGED vars
  BY <1>3 DEF vars
<1>4. CASE Coordinator /\ ~\E q \in Participants : Call(q) \/ Reply(q)
  BY <1>4 DEF Coordinator, Run, GatesClosed, NextOperation, TakeDecision, SealBarrier,
     OpenGates, Finalize, Finish, CloseGate, Acquired, SealGate, Sealed, OpenGate, Released,
     journal
<1>5. CASE Environment
  BY <1>5 DEF Environment, CheckFails, CoordinatorCrash, CallFails, CallOverdue,
     GateCallFails, GateCallOverdue, Arrives, journal
<1> QED
  BY <1>1, <1>2, <1>3, <1>4, <1>5 DEF Next

\* Nobody becomes involved after the decision.
LEMMA InvolvedKept ==
  ASSUME IInv, [Next]_vars, decision # "none"
  PROVE  Involved' \subseteq Involved
<1> SUFFICES ASSUME NEW p \in Involved', p \notin Involved PROVE FALSE
  OBVIOUS
<1>1. p \in Participants
  BY DEF Involved
<1>2. node'[p] # node[p]
  BY <1>1 DEF Involved
<1>3. CASE Call(p)
  <2>1. p \in c.todo /\ InLoop
    BY <1>3 DEF Call, IsNext, InLoop
  <2> QED
    BY <2>1 DEF IInv, ControlInv, Names
<1>4. CASE Reply(p)
  BY <1>1, <1>4, ReplyFacts DEF Reply
<1> QED
  BY <1>1, <1>2, <1>3, <1>4, NodeCases

\* A participant that answered its activation has the receipt.
LEMMA ActivatedFacts ==
  ASSUME IInv, NEW p \in Participants, Reply(p), Succeeds(host[p], c.op), c.op = "activate"
  PROVE  "activate" \in host'[p].receipts
<1> DEFINE h == host[p]
           f == Effect(Intended(h, "activate"), "activate")
<1>1. h \in HostRecord /\ host \in [Participants -> HostRecord] /\ "activate" \in Operations
  BY TypeFacts DEF Operations
<1>2. Intended(h, "activate") \in HostRecord
  BY <1>1, IntendedFields
<1>3. f \in HostRecord
  BY <1>1, <1>2, EffectFields
<1> HIDE DEF f
<1>4. Receipt(f, "activate").receipts = f.receipts \cup {"activate"}
  BY <1>1, <1>3, ReceiptFields
<1>5. execute(h, c.op) = Completed(h, "activate")
  BY DEF execute, Succeeds, Cached
<1>6. "activate" \in execute(h, c.op).receipts
  BY <1>4, <1>5 DEF Completed, f
<1> QED
  BY <1>1, <1>6 DEF Reply

\* The coordinator comes to the opening from the last activation.
LEMMA OpenCases ==
  ASSUME IInv, [Next]_vars, c'.at \in {"open", "releasing"}
  PROVE  c.at \in {"open", "releasing"} \/ OpenGates
<1>t. c \in Control
  BY TypeFacts
<1>f. ~(Fail \/ Crash)
  BY FailMoves DEF IInv
<1>s. /\ c' # Idle /\ ~Recover /\ ~Activate
      /\ c' # [Idle EXCEPT !.at = "close", !.forward = TRUE, !.gates = Gates]
      /\ \A op, names : ~Loop(op, names)
  BY <1>t, Entries
<1>1. CASE UNCHANGED vars
  BY <1>1 DEF vars
<1>2. CASE Environment
  BY <1>2, <1>f DEF Environment, CheckFails, CoordinatorCrash, CallFails, CallOverdue,
     GateCallFails, GateCallOverdue, Arrives, Fault, journal
<1>3. ~Run /\ ~TakeDecision /\ ~Finish /\ ~GatesClosed /\ ~SealBarrier
  BY <1>f, <1>s DEF Run, TakeDecision, Finish, GatesClosed, SealBarrier
<1>4. ~NextOperation
  BY <1>s, <1>t DEF NextOperation, Control
<1>5. ~Finalize
  BY <1>t DEF Finalize, Control
<1>6. ~\E p \in Participants : Call(p) \/ Reply(p)
  BY <1>f, <1>t DEF Call, Reply, Control
<1>7. ~\E g \in Gates : CloseGate(g) \/ Acquired(g) \/ SealGate(g) \/ Sealed(g)
  BY <1>f, <1>t DEF CloseGate, Acquired, SealGate, Sealed, Control
<1>8. ASSUME NEW g \in Gates, OpenGate(g) \/ Released(g) PROVE c.at \in {"open", "releasing"}
  BY <1>8 DEF OpenGate, Released
<1> QED
  BY <1>1, <1>2, <1>3, <1>4, <1>5, <1>6, <1>7, <1>8 DEF Next, Coordinator

\* Who is left out of an activation was activated before.
LEMMA ActivateLeaves ==
  ASSUME Activate, NEW p \in Involved, p \notin c'.todo
  PROVE  "activate" \in node[p].completed /\ c'.op = "activate" /\ c'.at = "loop"
BY DEF Activate, Idle

\* Everyone admits work before the gates are asked to open, and from then on.
LEMMA AdmitStep ==
  ASSUME IInv, FenceInv, TombstoneInv, AdmitInv, [Next]_vars
  PROVE  AdmitInv'
<1>t. c \in Control /\ decision \in {"none", "commit", "rollback"}
  BY DEF IInv, TypeOK
<1>d. decision' = "none" => decision = "none"
  BY DecidedOnce
<1>1. ASSUME NEW p \in Participants, "activate" \in node'[p].completed \cup host'[p].receipts
      PROVE  decision' # "none" /\ host'[p].admits
  <2>1. CASE "activate" \in host'[p].receipts
    BY <1>d, <2>1, HostKeeps
  <2>2. CASE "activate" \in node[p].completed
    BY <1>d, <2>2, HostKeeps DEF AdmitInv
  <2>3. CASE Reply(p) /\ Succeeds(host[p], c.op) /\ c.op = "activate"
    BY <2>1, <2>3, ActivatedFacts
  <2> QED
    BY <1>1, <2>1, <2>2, <2>3, NodeCases
<1>2. CASE decision = "none" /\ decision' # "none"
  <2>1. TakeDecision /\ Activate /\ c.at = "loop" /\ UNCHANGED <<node, host, gate, late>>
    BY <1>2, DecidedOnce DEF TakeDecision
  <2>2. \A p \in Involved : p \in c'.todo
    BY <1>2, <2>1, ActivateLeaves DEF AdmitInv, Involved
  <2>3. Involved' = Involved
    BY <2>1 DEF Involved
  <2>4. c'.at = "loop" /\ c'.op = "activate"
    BY <2>1 DEF Activate, Idle
  <2>5. \A g \in Gates : Fenced(gate'[g]) /\ <<g, "release">> \notin late'
    BY <1>2, <2>1 DEF FenceInv
  <2>6. ~Opening'
    BY <2>4, <2>5 DEF Opening
  <2> QED
    BY <1>1, <2>2, <2>3, <2>6 DEF AdmitInv
<1>3. CASE decision # "none"
  <2>k. \A p \in Participants : host[p].admits => host'[p].admits
    BY <1>3, HostKeeps
  <2>i. Involved' \subseteq Involved
    BY <1>3, InvolvedKept
  <2>1. ASSUME InLoop', c'.op = "activate", NEW p \in Involved' \ c'.todo
        PROVE  host'[p].admits
    <3>0. p \in Participants
      BY DEF Involved
    <3>1. CASE SameLoopOf
      <4>0. InLoop /\ c.op = "activate"
        BY <2>1, <3>1 DEF SameLoopOf
      <4>1. CASE p \notin c.todo
        BY <1>3, <2>i, <2>k, <2>1, <3>0, <4>0, <4>1 DEF AdmitInv
      <4>2. CASE p \in c.todo
        <5>1. PICK q \in Participants : c'.todo = c.todo \ {q} /\ Reply(q) /\ Succeeds(host[q], c.op)
          BY <2>1, <3>1, <4>0, <4>2 DEF SameLoopOf
        <5>2. q = p
          BY <2>1, <4>2, <5>1
        <5> QED
          BY <4>0, <5>1, <5>2, ActivatedFacts, HostKeeps
      <4> QED
        BY <4>1, <4>2
    <3>2. CASE Activate
      BY <2>i, <2>k, <2>1, <3>0, <3>2, ActivateLeaves DEF AdmitInv
    <3> QED
      BY <2>1, <3>1, <3>2, LoopCases DEF NextLoopOf
  <2>2. Opening' => Opening \/ OpenGates
    <3>1. ASSUME NEW g \in Gates, ~Fenced(gate'[g]) PROVE Opening
      BY <3>1, GateKeeps DEF Opening
    <3>2. ASSUME NEW g \in Gates, <<g, "release">> \in late' PROVE Opening
      <4>1. CASE <<g, "release">> \in late
        BY <4>1 DEF Opening
      <4>2. CASE \E q \in Gates : GateCallOverdue(q) /\ <<g, "release">> = <<q, GateAction>>
        BY <4>2 DEF GateCallOverdue, GateAction, Opening
      <4>3. CASE \E p \in Participants : CallOverdue(p) /\ <<g, "release">> = <<p, c.op>>
        BY <4>3, ReplyFacts DEF CallOverdue, Operations
      <4>4. CASE UNCHANGED vars
        BY <3>2, <4>1, <4>4 DEF vars
      <4>5. CASE Coordinator
        BY <3>2, <4>1, <4>5 DEF Coordinator, Run, GatesClosed, NextOperation, TakeDecision,
           SealBarrier, OpenGates, Finalize, Finish, Call, Reply, CloseGate, Acquired, SealGate,
           Sealed, OpenGate, Released
      <4>6. CASE Environment
        BY <3>2, <4>1, <4>2, <4>3, <4>6 DEF Environment, CheckFails, CoordinatorCrash, CallFails,
           CallOverdue, GateCallFails, GateCallOverdue, Arrives
      <4> QED
        BY <4>4, <4>5, <4>6 DEF Next
    <3>3. c'.at \in {"open", "releasing"} => Opening \/ OpenGates
      BY OpenCases DEF Opening
    <3>4. InLoop' /\ c'.op = "finalize" => Opening
      BY LoopCases DEF SameLoopOf, NextLoopOf, Activate, Idle, Finalize, Opening
    <3> QED
      BY <3>1, <3>2, <3>3, <3>4 DEF Opening
  <2>3. OpenGates => \A p \in Participants : host[p].admits
    <3> SUFFICES ASSUME OpenGates, NEW p \in Participants PROVE host[p].admits
      OBVIOUS
    <3>1. c.at = "loop" /\ c.op = "activate" /\ c.todo = {}
      BY DEF OpenGates
    <3>2. CASE p \in Involved
      BY <1>3, <3>1, <3>2 DEF AdmitInv, InLoop
    <3>3. CASE p \notin Involved
      BY <3>3 DEF IInv, RequestInv, NewHost
    <3> QED
      BY <3>2, <3>3
  <2>4. Opening' => \A p \in Participants : host'[p].admits
    BY <1>3, <2>k, <2>2, <2>3 DEF AdmitInv
  <2> QED
    BY <1>1, <2>1, <2>4 DEF AdmitInv
<1>4. CASE decision' = "none"
  BY <1>1, <1>4 DEF AdmitInv
<1> QED
  BY <1>2, <1>3, <1>4

(* ------------------------------ what is committed ---------------------------- *)
\* The first pass installs the new version everywhere before it can be committed,
\* and what was committed stays installed.
LEMMA InstalledStep ==
  ASSUME IInv, InstalledInv, [Next]_vars
  PROVE  InstalledInv'
<1>t. host \in [Participants -> HostRecord]
  BY TypeFacts
<1>1. ASSUME c'.forward, InLoop', c'.op \in {"apply", "start", "verify"}
      PROVE  \/ /\ InLoop /\ c.forward /\ c'.op = c.op
                /\ \/ c'.todo = c.todo
                   \/ \E p \in Participants : /\ c'.todo = c.todo \ {p}
                                              /\ Reply(p) /\ Succeeds(host[p], c.op)
             \/ /\ InLoop /\ c.forward /\ c.todo = {} /\ host' = host
                /\ \/ c'.op = "apply" /\ c'.todo = Participants
                   \/ c'.op = "start" /\ c.op = "apply"
                   \/ c'.op = "verify" /\ c.op = "start"
  <2>1. CASE SameLoopOf
    BY <1>1, <2>1 DEF SameLoopOf
  <2>2. CASE NextLoopOf /\ host' = host
    <3>1. InLoop /\ c.todo = {} /\ c.forward /\ c'.todo = Participants
      BY <1>1, <2>2 DEF NextLoopOf, Names
    <3>2. decision = "none" /\ c.op # "rollback"
      BY <3>1 DEF IInv, ControlInv, ForwardOps
    <3> QED
      BY <1>1, <2>2, <3>1, <3>2 DEF NextLoopOf
  <2>3. CASE Activate
    BY <1>1, <2>3 DEF Activate, Idle
  <2> QED
    BY <1>1, <2>1, <2>2, <2>3, LoopCases
<1>2. ASSUME InLoop, c.forward, NEW p \in Participants
      PROVE  \/ host'[p] = host[p]
             \/ /\ p \in c.todo
                /\ c.op \in {"start", "verify"} => host'[p].installed = host[p].installed
  <2>1. \A q \in Participants, op \in Operations : <<q, op>> \notin late
    BY <1>2 DEF IInv, ControlInv
  <2>2. ASSUME NEW q \in Involved, NEW op \in Operations, NEW d \in HostRecord,
               HostMoves(q, op, d), host'[p] # host[p]
        PROVE  p \in c.todo /\ (c.op \in {"start", "verify"} => host'[p].installed = host[p].installed)
    <3>1. q \in Participants
      BY DEF Involved
    <3>2. q = p /\ host'[p] = d /\ d \in Outcomes(host[p], op) /\ c.op = op /\ p \in c.todo
      BY <1>t, <2>1, <2>2, <3>1 DEF HostMoves
    <3>3. op \in {"start", "verify"} => d.installed = host[p].installed
      BY <1>t, <3>2, OutcomeFacts
    <3> QED
      BY <3>2, <3>3
  <2> QED
    BY <2>2, HostCases
<1>3. ASSUME NEW p \in Participants, Reply(p), Succeeds(host[p], c.op), c.op = "apply"
      PROVE  host'[p].installed = "new"
  <2>1. host'[p] = execute(host[p], c.op) /\ c.op \in Operations
    BY <1>t, <1>3 DEF Reply, Operations
  <2> QED
    BY <1>t, <1>3, <2>1, InstallFacts
<1>4. ASSUME c'.forward, InLoop', c'.op = "apply", NEW p \in Participants \ c'.todo
      PROVE  host'[p].installed = "new"
  <2>1. InLoop /\ c.forward /\ c.op = "apply"
    BY <1>1, <1>4
  <2>2. CASE p \notin c.todo
    BY <1>2, <2>1, <2>2 DEF InstalledInv
  <2>3. CASE p \in c.todo
    <3>1. Reply(p) /\ Succeeds(host[p], c.op)
      BY <1>1, <1>4, <2>1, <2>3
    <3> QED
      BY <1>3, <2>1, <3>1
  <2> QED
    BY <2>2, <2>3
<1>5. ASSUME c'.forward, InLoop', c'.op \in {"start", "verify"}, NEW p \in Participants
      PROVE  host'[p].installed = "new"
  <2>1. CASE InLoop /\ c.forward /\ c'.op = c.op
    BY <1>2, <1>5, <2>1 DEF InstalledInv
  <2>2. CASE InLoop /\ c.forward /\ c.todo = {} /\ host' = host /\ c.op \in {"apply", "start"}
    BY <2>2 DEF InstalledInv
  <2> QED
    BY <1>1, <1>5, <2>1, <2>2
<1>6. ASSUME decision' = "commit", NEW p \in Participants PROVE host'[p].installed = "new"
  <2>1. CASE decision = "commit"
    BY <2>1, StepKeeps DEF Kept, InstalledInv
  <2>2. CASE TakeDecision /\ decision = "none"
    <3>1. c.forward /\ c.at = "loop" /\ c.op \in {"verify", "verify_rollback"} /\ host' = host
      BY <1>6, <2>2 DEF TakeDecision
    <3>2. c.op = "verify" /\ InLoop
      BY <3>1, <2>2 DEF IInv, ControlInv, InLoop, ForwardOps
    <3> QED
      BY <3>1, <3>2 DEF InstalledInv
  <2> QED
    BY <1>6, <2>1, <2>2, DecidedOnce
<1> QED
  BY <1>4, <1>5, <1>6 DEF InstalledInv

(* -------------------------------- theorems ----------------------------------- *)
\* At the start the gates are open, nothing is under way and nothing decided.
LEMMA GateInvInit == Init => GateInv
<1> SUFFICES ASSUME Init PROVE GateInv
  OBVIOUS
<1>1. Involved = {}
  BY DEF Init, Involved
<1>2. FenceInv
  BY <1>1 DEF Init, FenceInv, Idle
<1>3. TombstoneInv
  BY DEF Init, TombstoneInv, NewGate
<1>4. SealInv
  BY DEF Init, SealInv, Idle, InLoop
<1>5. AdmitInv
  BY DEF Init, AdmitInv, NewHost
<1>6. InstalledInv
  BY DEF Init, InstalledInv, Idle, InLoop
<1> QED
  BY <1>2, <1>3, <1>4, <1>5, <1>6 DEF GateInv

\* The gates, the seals and the admissions keep their invariant, for any inventory
\* and any faults.
THEOREM GatesInvariant == Spec => []GateInv
<1>1. Init => GateInv
  BY GateInvInit
<1>2. IInv /\ GateInv /\ [Next]_vars => GateInv'
  BY FenceStep, GateKeeps, SealStep, AdmitStep, InstalledStep DEF GateInv
<1> QED
  BY <1>1, <1>2, UpdateInvariant, PTL DEF Spec

\* Public ingress is open only while every participant admits work and runs what
\* is installed (_close_gates before the first call, _activate after the last
\* activation), for every inventory, every mix of gates and any faults.
THEOREM OpenGatesServe == Spec => []OpenMeansServing
<1>1. IInv /\ GateInv => OpenMeansServing
  <2> SUFFICES ASSUME IInv, GateInv, NEW g \in Gates, ~Fenced(gate[g]), NEW p \in Participants
               PROVE  host[p].admits /\ host[p].running = host[p].installed
    BY DEF OpenMeansServing
  <2>1. p \notin Involved => host[p] = NewHost
    BY DEF IInv, RequestInv
  <2>2. CASE decision = "none"
    <3>1. p \notin Involved
      BY <2>2 DEF GateInv, FenceInv
    <3> QED
      BY <2>1, <3>1 DEF NewHost
  <2>3. CASE decision # "none"
    <3>1. host[p].admits
      BY <2>3 DEF GateInv, AdmitInv, Opening
    <3>2. CASE decision = "commit"
      BY <3>1, <3>2 DEF IInv, DecisionInv, GateInv, InstalledInv
    <3>3. CASE decision = "rollback" /\ p \in Involved
      BY <3>1, <3>3 DEF IInv, DecisionInv
    <3>4. CASE p \notin Involved
      BY <2>1, <3>4 DEF NewHost
    <3>5. decision \in {"none", "commit", "rollback"}
      BY DEF IInv, TypeOK
    <3> QED
      BY <2>3, <3>2, <3>3, <3>4, <3>5
  <2> QED
    BY <2>2, <2>3
<1> QED
  BY <1>1, UpdateInvariant, GatesInvariant, PTL

\* A snapshot that can still be restored is pinned while nobody admits work and
\* every gate is sealed (_seal_gates between quiesce and snapshot), even when its
\* request is late, for every inventory, every mix of gates and any faults.
THEOREM SnapshotsAreBehindTheBarrier == Spec => SnapshotBarrier
<1>1. IInv /\ GateInv /\ [Next]_vars =>
        [\A p \in Participants :
           /\ "snapshot" \in host'[p].receipts \ host[p].receipts
           /\ ~host[p].restored
           => /\ \A q \in Participants : ~host[q].admits
              /\ \A g \in Gates : IsSealed(g)]_vars
  BY SnapshotStep DEF GateInv, AllClosed
<1> QED
  BY <1>1, UpdateInvariant, GatesInvariant, PTL DEF Spec, SnapshotBarrier

\* A gate that a finished transaction reopened is not closed again by any of its
\* requests, an acquire that arrives late included (the release tombstone of
\* the gate), for every inventory, every mix of gates and any faults.
THEOREM GatesReopenForGood == Spec => ReopenedForGood
<1>1. IInv /\ GateInv /\ [Next]_vars =>
        [\A g \in Gates : gate[g].terminal /\ ~Fenced(gate[g]) => ~Fenced(gate'[g])]_vars
  BY GateKeeps DEF GateInv
<1> QED
  BY <1>1, UpdateInvariant, GatesInvariant, PTL DEF Spec, ReopenedForGood

===============================================================================
