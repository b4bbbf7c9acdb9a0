----------------------------- MODULE MCProcedures -----------------------------
(* Procedures on small instances: two workflows of the same two actions, of *)
(* which one is about one song only.                                        *)
EXTENDS Procedures, TLC

SmallSteps == [p \in Procs |-> <<"open", "play">>]

Symmetry == Permutations(Threads) \cup Permutations(Judges)

=============================================================================
