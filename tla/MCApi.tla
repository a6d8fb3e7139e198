------------------------------- MODULE MCApi -------------------------------
(***************************************************************************)
(* A small instance of Api for TLC: two requests with every operation, or  *)
(* one of them beside the client that pages through the users.             *)
(***************************************************************************)
EXTENDS Api, TLC

CONSTANTS r1, r2, w

TwoClients == {{r1, r2}, {r1, w}, {r2, w}}
Symmetry == Permutations({r1, r2})
=============================================================================
