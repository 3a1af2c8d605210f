----------------------------- MODULE AtomicUpdate -----------------------------
(* What a coordinated update promises to the users of an installation: the     *)
(* participants are taken out of service one by one, one decision is taken     *)
(* for all of them, and each comes back at most once, with the version that    *)
(* was decided.  No two participants ever serve different versions.            *)
CONSTANT Participants

VARIABLES decided,      \* "none", "commit" or "rollback"
          serves        \* per participant: the version it serves, or "down"

aVars == <<decided, serves>>

VersionOf(d) == IF d = "commit" THEN "new" ELSE "old"

AInit == /\ decided = "none"
         /\ serves = [p \in Participants |-> "old"]

Withdraw(p) == /\ decided = "none"
               /\ serves' = [serves EXCEPT ![p] = "down"]
               /\ UNCHANGED decided

\* The new version is chosen only while nobody serves the old one.
Decide(d) == /\ decided = "none"
             /\ d = "commit" => \A p \in Participants : serves[p] = "down"
             /\ decided' = d
             /\ UNCHANGED serves

Admit(p) == /\ decided # "none"
            /\ serves[p] = "down"
            /\ serves' = [serves EXCEPT ![p] = VersionOf(decided)]
            /\ UNCHANGED decided

ANext == \/ \E p \in Participants : Withdraw(p) \/ Admit(p)
         \/ \E d \in {"commit", "rollback"} : Decide(d)

AtomicSpec == AInit /\ [][ANext]_aVars

===============================================================================
