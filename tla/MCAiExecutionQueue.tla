------------------------- MODULE MCAiExecutionQueue -------------------------
(* Small instances of AiExecutionQueue for TLC. *)
EXTENDS AiExecutionQueue, TLC

CONSTANTS e1, e2, p1

MCSymmetry == Permutations(Executions)

===============================================================================
