-------------------------- MODULE MCA2ACoordinator --------------------------
(* A small instance of A2ACoordinator for TLC.                              *)
EXTENDS A2ACoordinator

\* No action and no property tells the symbols apart.
SymbolsAlike == Permutations(Symbols)

\* Half of what an order pays, or nothing known.
HalfOrUnknown == {[s \in Symbols |-> p] : p \in {1, NoPrice}}

\* An agent's answer of two signals for the pipeline, of one for the coordinator.
TwoAndOne == [r \in Runners |-> IF r = Pipeline THEN 2 ELSE 1]
=============================================================================
