------------------------- MODULE MCAutomationDispatch -------------------------
(* Small instances of AutomationDispatch for TLC. *)
EXTENDS AutomationDispatch, TLC

CONSTANTS r1, r2, h1, h2

MCSupports == Runners \X Jobs
MCSymmetry == Permutations(Runners) \cup Permutations(Handlers)

===============================================================================
