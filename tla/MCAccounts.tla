----------------------------- MODULE MCAccounts -----------------------------
(***************************************************************************)
(* An instance of Accounts for TLC: two users, who may swap what they have *)
(* and lose it to a newcomer, and who share an order and its chat.         *)
(***************************************************************************)
EXTENDS Accounts, TLC

CONSTANTS u1, u2, e1, e2, e3, n1, n2, n3, p1

Rows == u1 :> [email |-> e1, phone |-> Null, username |-> n1, admin |-> FALSE] @@
        u2 :> [email |-> e2, phone |-> p1, username |-> n2, admin |-> FALSE]

Registrations == {[op |-> "register", id |-> NoId,
                   ask |-> [email |-> e, username |-> n, phone |-> IF e = e3 THEN p1 ELSE Null,
                            admin |-> FALSE]] : e \in {e1, e3}, n \in {n1, n3}}

\* What a user asks for: what the other one has, what nobody has, or nothing.
Other(u) == IF u = u1 THEN [email |-> e2, username |-> n2] ELSE [email |-> e1, username |-> n1]

Changes == {[op |-> "update", id |-> u, ask |-> a] : u \in Users,
              a \in {[phone |-> p] : p \in {p1, Null}} \cup {[email |-> Null]}
                    \cup {[username |-> n] : n \in {n1, n2, n3}}}
           \cup {[op |-> "update", id |-> u, ask |-> a] : u \in Users,
                   a \in {[email |-> e, username |-> n3] : e \in {e1, e2, e3}}}
           \cup {[op |-> "update", id |-> u, ask |-> Other(u)] : u \in Users}

Others == {[op |-> "promote", id |-> NoId, ask |-> [email |-> e, username |-> n3, admin |-> TRUE]] : e \in {e1, e3}}
          \cup {[op |-> "set_admin", id |-> u1, ask |-> [admin |-> TRUE]]}
          \cup {[op |-> "delete", id |-> u, ask |-> <<>>] : u \in {u1, u2}}

SmallMenu == Registrations \cup Changes \cup Others

Shared == [u \in Users |-> Things]

Symmetry == Permutations(Requests) \cup Permutations(Things)
=============================================================================
