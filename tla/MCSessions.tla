----------------------------- MODULE MCSessions -----------------------------
(* Small instances of Sessions for TLC. *)
EXTENDS Sessions, TLC

\* Requests, session ids and tokens are only ever compared for equality.
Symmetry == Permutations(Request) \cup Permutations(SessionId)
                \cup Permutations(Token)
=============================================================================
