-------------------------- MODULE MC_QueryAction --------------------------
(* One action with four getResult callers, which can block on, pass and   *)
(* release the semaphore in every order relative to invoke.                *)
EXTENDS QueryAction, TLC

CONSTANTS g1, g2, g3, g4

MCReaders == {g1, g2, g3, g4}
=============================================================================
