--------------------------- MODULE MCAgentExchange ---------------------------
(* Small instances of AgentExchange for TLC.                                *)
EXTENDS AgentExchange, TLC

CONSTANTS a1, a2, c1, c2, s1, s2

\* The callers are interchangeable, and so are the symbols.
Interchangeable == Permutations(Callers) \cup Permutations(Symbols)
=============================================================================
