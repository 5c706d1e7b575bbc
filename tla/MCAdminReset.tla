---------------------------- MODULE MCAdminReset ----------------------------
(* A small instance of AdminReset for TLC.                                  *)
EXTENDS AdminReset

CONSTANTS a1, a2, c1, c2, s1
=============================================================================
