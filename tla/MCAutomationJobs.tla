--------------------------- MODULE MCAutomationJobs ---------------------------
(* Small instances of AutomationJobs for TLC. *)
EXTENDS AutomationJobs, TLC

CONSTANTS r1, r2, h1, h2

MCSupports == Runners \X Jobs
MCSymmetry == Permutations(Runners) \cup Permutations(Handlers)

===============================================================================
