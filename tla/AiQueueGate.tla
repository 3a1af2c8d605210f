----------------------------- MODULE AiQueueGate ------------------------------
(***************************************************************************)
(* AIQueueLocalGate: the update host's gate on the AI scheduler.  A        *)
(* journal outside the database records how far the gate got; the pause    *)
(* itself is one row of app_settings, written under the advisory lock the  *)
(* scheduler claims under.  A call of the gate is several steps and the    *)
(* host may die between any two of them; the caller then repeats the call. *)
(***************************************************************************)
CONSTANTS Transactions,   \* update transactions of this installation
          NoTransaction

ASSUME GateAssumption == NoTransaction \notin Transactions

VARIABLES paused,       \* owner of the row PAUSE_KEY, or NoTransaction
          journal,      \* ai-queue-gate.json: [phase, transaction]
          tombstones,   \* transactions with a released-tombstone file
          call          \* step of the call that runs under .ai-queue-gate.lock

gateVars == <<paused, journal, tombstones, call>>

NoJournal == [phase |-> "absent", transaction |-> NoTransaction]
NoCall == [step |-> "none", transaction |-> NoTransaction]

GateTypeOK ==
  /\ paused \in Transactions \cup {NoTransaction}
  /\ journal \in [phase: {"acquiring", "closed", "releasing", "released"},
                  transaction: Transactions] \cup {NoJournal}
  /\ tombstones \subseteq Transactions
  /\ call \in [step: {"pause", "drain", "unpause", "confirm", "bury", "seal"},
               transaction: Transactions] \cup {NoCall}

GateInit ==
  /\ paused = NoTransaction
  /\ journal = NoJournal
  /\ tombstones = {}
  /\ call = NoCall

At(step) == call # NoCall /\ call.step = step
Goto(step) == call' = [call EXCEPT !.step = step]

(* acquire, up to the database: a released transaction may not reacquire, and
   a gate held by another transaction refuses. *)
AcquireBegin(x) ==
  /\ call = NoCall
  /\ x \notin tombstones
  /\ \/ /\ \/ journal = NoJournal
           \/ journal.phase = "released" /\ journal.transaction # x
        /\ journal' = [phase |-> "acquiring", transaction |-> x]
     \/ /\ journal.transaction = x
        /\ journal.phase \in {"acquiring", "closed"}
        /\ UNCHANGED journal
  /\ call' = [step |-> "pause", transaction |-> x]
  /\ UNCHANGED <<paused, tombstones>>

(* _set_pause(paused=True) under the advisory lock; another owner's row fails
   the call (CallFails). *)
AcquirePause ==
  /\ At("pause")
  /\ paused \in {NoTransaction, call.transaction}
  /\ paused' = call.transaction
  /\ Goto("drain")
  /\ UNCHANGED <<journal, tombstones>>

(* The wait of acquire sees its own marker and no work left, and the journal
   is written. *)
AcquireClose(idle) ==
  /\ At("drain")
  /\ paused = call.transaction
  /\ idle
  /\ journal' = [journal EXCEPT !.phase = "closed"]
  /\ call' = NoCall
  /\ UNCHANGED <<paused, tombstones>>

(* The work did not drain in time, the marker is not this transaction's, or a
   statement failed; or the host died.  The next call starts from the journal. *)
CallFails ==
  /\ call # NoCall
  /\ call' = NoCall
  /\ UNCHANGED <<paused, journal, tombstones>>

(* Mutant: a repeated release takes the pause row for deleted. *)
BugReleaseBegin(x, idle) ==
  /\ call = NoCall
  /\ journal # NoJournal /\ journal.transaction = x
  /\ \/ /\ journal.phase = "closed" /\ paused = x /\ idle
        /\ call' = [step |-> "unpause", transaction |-> x]
     \/ /\ journal.phase = "releasing"
        /\ call' = [step |-> "bury", transaction |-> x]
  /\ journal' = [journal EXCEPT !.phase = "releasing"]
  /\ UNCHANGED <<paused, tombstones>>

(* release, up to the database: a closed gate is asserted once more, a release
   that was interrupted goes on. *)
ReleaseBegin(x, idle) ==
  /\ call = NoCall
  /\ journal # NoJournal /\ journal.transaction = x
  /\ \/ journal.phase = "closed" /\ paused = x /\ idle
     \/ journal.phase = "releasing"
  /\ journal' = [journal EXCEPT !.phase = "releasing"]
  /\ call' = [step |-> "unpause", transaction |-> x]
  /\ UNCHANGED <<paused, tombstones>>

(* _set_pause(paused=False) under the advisory lock. *)
ReleaseUnpause ==
  /\ At("unpause")
  /\ paused \in {NoTransaction, call.transaction}
  /\ paused' = NoTransaction
  /\ Goto("confirm")
  /\ UNCHANGED <<journal, tombstones>>

(* The row is read back; if it is still there the call fails. *)
ReleaseConfirm ==
  /\ At("confirm")
  /\ paused = NoTransaction
  /\ Goto("bury")
  /\ UNCHANGED <<paused, journal, tombstones>>

ReleaseBury ==
  /\ At("bury")
  /\ tombstones' = tombstones \cup {call.transaction}
  /\ Goto("seal")
  /\ UNCHANGED <<paused, journal>>

ReleaseSeal ==
  /\ At("seal")
  /\ journal' = [journal EXCEPT !.phase = "released"]
  /\ call' = NoCall
  /\ UNCHANGED <<paused, tombstones>>

===============================================================================
