------------------------ MODULE MCGovernedExecution ------------------------
(* Instances of GovernedExecution for TLC. *)
EXTENDS GovernedExecution, TLC

\* Workers and handlers are interchangeable; sound for invariants and actions.
Symmetry == Permutations(Workers) \cup Permutations(Handlers)
=============================================================================
