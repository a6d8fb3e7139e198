---------------------------- MODULE RefreshChain ----------------------------
(***************************************************************************)
(* What the sessions of the API promise about refresh tokens, without      *)
(* requests, statements or users.  A session is opened with a token of its *)
(* own; exchanging its current token spends that token and puts a token    *)
(* never seen before in its place; an ended session stays ended.  At any   *)
(* time a session can be exchanged with exactly one token, and a token     *)
(* that was spent is worth nothing ever after.                             *)
(***************************************************************************)
EXTENDS Naturals

CONSTANTS SessionId, Token, NoToken

VARIABLES
    state,      \* "unopened", "open" or "ended", per session
    current,    \* the token a session can be exchanged with
    spent       \* the tokens that were exchanged

chainVars == <<state, current, spent>>

Opened == {s \in SessionId : state[s] # "unopened"}
Seen == spent \cup {current[s] : s \in Opened}

Init ==
    /\ state \in [SessionId -> {"unopened", "open"}]
    /\ current \in [SessionId -> Token \cup {NoToken}]
    /\ \A s \in Opened : current[s] \in Token
    /\ \A s1, s2 \in Opened : s1 # s2 => current[s1] # current[s2]
    /\ spent = {}

Open(s, t) ==
    /\ state[s] = "unopened" /\ t \notin Seen
    /\ state' = [state EXCEPT ![s] = "open"]
    /\ current' = [current EXCEPT ![s] = t]
    /\ UNCHANGED spent

Exchange(s, t) ==
    /\ state[s] = "open" /\ t \notin Seen
    /\ spent' = spent \cup {current[s]}
    /\ current' = [current EXCEPT ![s] = t]
    /\ UNCHANGED state

End(ending) ==
    /\ \A s \in ending : state[s] = "open"
    /\ state' = [s \in SessionId |-> IF s \in ending THEN "ended" ELSE state[s]]
    /\ UNCHANGED <<current, spent>>

Next ==
    \/ \E s \in SessionId, t \in Token : Open(s, t) \/ Exchange(s, t)
    \/ \E ending \in SUBSET SessionId : End(ending)

Spec == Init /\ [][Next]_chainVars
=============================================================================
