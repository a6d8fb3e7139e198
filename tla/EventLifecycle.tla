--------------------------- MODULE EventLifecycle ---------------------------
(***************************************************************************)
(* What the outbox, the relay, the queue and the worker promise together   *)
(* about one domain event.  It is recorded; its effect, here the welcome   *)
(* mail, is attempted at least once; then it is handled, and nothing is    *)
(* attempted for it again.  Until it is handled it is never lost: it is in *)
(* the outbox, on its way, or parked where an operator finds it.           *)
(***************************************************************************)
EXTENDS Naturals

CONSTANT Event

VARIABLES
    stage,      \* "none", "recorded" or "handled"
    attempts,   \* how often the effect of the event took place
    kept        \* the events something still stands for

lifecycleVars == <<stage, attempts, kept>>

Init ==
    /\ stage = [e \in Event |-> "none"]
    /\ attempts = [e \in Event |-> 0]
    /\ kept = {}

Record(e) ==
    /\ stage[e] = "none"
    /\ stage' = [stage EXCEPT ![e] = "recorded"]
    /\ kept' = kept \cup {e}
    /\ UNCHANGED attempts

Attempt(e) ==
    /\ stage[e] = "recorded"
    /\ attempts' = [attempts EXCEPT ![e] = @ + 1]
    /\ UNCHANGED <<stage, kept>>

Handle(e) ==
    /\ stage[e] = "recorded" /\ attempts[e] > 0
    /\ stage' = [stage EXCEPT ![e] = "handled"]
    /\ UNCHANGED <<attempts, kept>>

\* Only handled events are forgotten.
Forget ==
    /\ \E E \in SUBSET {e \in kept : stage[e] = "handled"} : kept' = kept \ E
    /\ UNCHANGED <<stage, attempts>>

Next == Forget \/ \E e \in Event : Record(e) \/ Attempt(e) \/ Handle(e)

Spec == Init /\ [][Next]_lifecycleVars
=============================================================================
