------------------------ MODULE MCExecutionSecurity ------------------------
(* Three executions are enough for a parent with two children, a grandchild,  *)
(* or two unrelated trees.                                                    *)
EXTENDS ExecutionSecurity, TLC

MCObserved == {internal, restricted}
MCOutcome == {"completed", "failed"}

Symmetry == Permutations(Execution) \cup Permutations(Plugin)
              \cup Permutations(Subject)
=============================================================================
