-------------------------- MODULE MCUpdateTransaction --------------------------
(* Small instances of UpdateTransaction for TLC.  Participant 2 is quiesced    *)
(* first and participant 1 is activated first, as in the shipped inventories   *)
(* where consumers stop before, and start after, what they depend on.          *)
EXTENDS UpdateTransaction

MCQuiesceRank == [p \in Participants |-> 10 - p]
MCActivateRank == [p \in Participants |-> p]

================================================================================
