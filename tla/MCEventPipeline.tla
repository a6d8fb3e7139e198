--------------------------- MODULE MCEventPipeline ---------------------------
EXTENDS EventPipeline, TLC

\* Registrations, addresses and workers are interchangeable.
Symmetry == Permutations(Reg) \cup Permutations(Email) \cup Permutations(Worker)
=============================================================================
