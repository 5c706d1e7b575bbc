--------------------------- MODULE MCBootSettings ---------------------------
(* A small instance of BootSettings for TLC.                                *)
EXTENDS BootSettings, TLC

\* No action and no property tells two servers, two requests or two limits apart.
Alike == Permutations(Servers) \cup Permutations(Puts) \cup Permutations(Limits)
=============================================================================
