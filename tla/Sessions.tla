------------------------------- MODULE Sessions -------------------------------
(***************************************************************************)
(* What refresh tokens promise: a login opens a session, exchanges of its  *)
(* token keep it as it is, and a session that ended never comes back.      *)
(***************************************************************************)
CONSTANT Ids
VARIABLE session

States == {"none", "live", "ended"}

Init == session = [s \in Ids |-> "none"]

Open(s) == /\ session[s] = "none"
           /\ session' = [session EXCEPT ![s] = "live"]

\* A logout ends one session, a password change all sessions of a user.
Finish(S) == /\ \A s \in S : session[s] = "live"
             /\ session' = [s \in Ids |-> IF s \in S THEN "ended" ELSE session[s]]

Next == \/ \E s \in Ids : Open(s)
        \/ \E S \in SUBSET Ids : Finish(S)

Spec == Init /\ [][Next]_session
=============================================================================
