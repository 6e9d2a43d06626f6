------------------------------ MODULE Accounts ------------------------------
(***************************************************************************)
(* The identities of users: registration, profiles, administrators and     *)
(* deletion (api/v1/users/services.py, api/v1/users/routers.py,            *)
(* scripts/create_admin.py), on the unique indexes of the table user.      *)
(*                                                                         *)
(* A request is a READ COMMITTED transaction.  It looks whether an         *)
(* identity is taken, and writes later; what others commit or write in     *)
(* between is left to the unique indexes.  PostgreSQL puts a new version   *)
(* of a row into one index after another, in the order in which they were  *)
(* created, and waits wherever it meets the uncommitted version of another *)
(* transaction.  Which index refuses it is known to the code only from the *)
(* text of the error.                                                      *)
(*                                                                         *)
(* The deletion of a user takes orders, proposals, chats and messages with *)
(* it.  Of these the rows matter for which another deletion may wait.      *)
(***************************************************************************)
EXTENDS Integers

CONSTANTS Requests,
          Users,       \* who is registered at first
          Emails, Names, Phones,
          Null,
          Spelled,     \* the values that have "username" in them
          FirstRow,    \* the rows of Users at first
          Menu,        \* bound: what the requests ask for
          Things,      \* rows of the other tables
          Related,     \* those of them that the deletion of a user deletes or changes
          NoRow, NoId, Nothing

\* A new row has the name of the request that inserts it.
Ids == Users \cup Requests

Column == {"email", "phone", "username", "admin"}

Row == [email : Emails, phone : Phones \cup {Null}, username : Names, admin : BOOLEAN]

Values == [email |-> Emails \cup {Null}, phone |-> Phones \cup {Null},
           username |-> Names \cup {Null}, admin |-> BOOLEAN]

\* What a request asks for: the columns it names with their values.
Ask == {ask \in UNION {[cs -> UNION {Values[c] : c \in Column}] : cs \in SUBSET Column} :
          \A c \in DOMAIN ask : ask[c] \in Values[c]}

Op == {"register", "update", "promote", "set_admin", "delete"}

ASSUME NamesAssumption == /\ Requests \cap Users = {} /\ NoId \notin Ids
                          /\ NoRow \notin Row /\ Null \notin Emails
                          /\ Spelled \cap Phones = {}   \* they are digits

ASSUME RelatedAssumption == Related \in [Users -> SUBSET Things] /\ Nothing \notin Things

ASSUME RowsAssumption ==
  /\ FirstRow \in [Users -> Row]
  /\ \A i, j \in Users : i # j =>
       /\ FirstRow[i].email # FirstRow[j].email
       /\ FirstRow[i].username # FirstRow[j].username
       /\ FirstRow[i].phone = FirstRow[j].phone => FirstRow[i].phone = Null

\* A new user needs an email and a username; the others are about somebody.  set_admin
\* gives or takes the rights and nothing else.
ASSUME MenuAssumption ==
  /\ Menu \subseteq [op : Op, id : Users \cup {NoId}, ask : Ask]
  /\ \A m \in Menu : IF m.op \in {"register", "promote"}
                      THEN {"email", "username"} \subseteq DOMAIN m.ask /\ m.ask["email"] # Null
                      ELSE /\ m.id \in Users
                           /\ m.op = "delete" => m.ask = <<>>
                           /\ m.op = "set_admin" => DOMAIN m.ask = {"admin"}

VARIABLES user,    \* the table, as committed
          req,     \* the requests
          clash    \* history: the identities a request asks for that somebody else has had
                   \* since it began

vars == <<user, req, clash>>

-----------------------------------------------------------------------------

\* A deletion is at a row of another table; left are those that it has not taken yet.
Req == [pc : {"idle", "load", "email", "phone", "cascade", "write", "index", "trigger", "commit",
              "done"},
        op : Op \cup {"none"}, id : Ids \cup {NoId}, ask : Ask, seen : Row \cup {NoRow},
        todo : SUBSET Column, left : SUBSET Things, at : Things \cup {Nothing},
        answer : {"none", "ok", "email", "phone", "username", "missing", "error", "victim"}]

Idle == [pc |-> "idle", op |-> "none", id |-> NoId, ask |-> <<>>, seen |-> NoRow, todo |-> {},
         left |-> {}, at |-> Nothing, answer |-> "none"]

TypeOK == /\ user \in [Ids -> Row \cup {NoRow}]
          /\ req \in [Requests -> Req]
          /\ clash \in [Requests -> SUBSET {"email", "phone", "username"}]

Init == /\ user = [i \in Ids |-> IF i \in Users THEN FirstRow[i] ELSE NoRow]
        /\ req = [r \in Requests |-> Idle]
        /\ clash = [r \in Requests |-> {}]

-----------------------------------------------------------------------------
(***************************************************************************)
(* The indexes                                                             *)
(***************************************************************************)

\* Unique indexes in the order of the migration that created them.
Indexes == <<"email", "phone", "username">>
Unique == {"email", "phone", "username"}

\* The columns that a flush writes: all of a new row, of an old one those whose value is
\* not the one that was read.
Changed(q) == {c \in DOMAIN q.ask : q.seen = NoRow \/ q.ask[c] # q.seen[c]}

\* Mutant of Indexed: the unique index of usernames is missing.
IndexedButName(q) == {c \in Changed(q) \cap {"email", "phone"} : q.ask[c] # Null}

\* The identities a write has to bring into an index.
Indexed(q) == {c \in Changed(q) \cap Unique : q.ask[c] # Null}

Wrote(q) == q.pc \in {"index", "trigger", "commit"} /\ (q.op = "delete" \/ Changed(q) # {})

\* Another request that has put the same value into the index of c, or that is rewriting
\* the row which has it.
Blockers(r, c) ==
  {s \in Requests \ {r} :
     /\ Wrote(req[s])
     /\ \/ c \in Indexed(req[s]) \ req[s].todo /\ req[s].ask[c] = req[r].ask[c]
        \/ user[req[s].id] # NoRow /\ user[req[s].id][c] = req[r].ask[c]}

First(todo) == CHOOSE c \in todo : \A d \in todo :
                 \E i, j \in 1 .. 3 : Indexes[i] = c /\ Indexes[j] = d /\ i <= j

\* Mutant of NextIndex: the script writes the username before the email.
NextIndexScript(q) == IF q.op = "promote" /\ "username" \in q.todo THEN "username" ELSE First(q.todo)

NextIndex(q) == First(q.todo)

\* The rows of other tables that a deletion has taken.
Held(q) == {t \in Things : /\ q.op = "delete" /\ q.pc \in {"cascade", "write", "trigger", "commit"}
                           /\ user[q.id] # NoRow   \* or they have gone with the user
                           /\ t \in Related[q.id] \ q.left}

\* Whom a request waits for: for the row of a user, at an index, for another row.
WaitsFor(r) ==
  CASE req[r].pc = "write" -> {s \in Requests \ {r} : Wrote(req[s]) /\ req[s].id = req[r].id}
    [] req[r].pc = "index" -> Blockers(r, NextIndex(req[r]))
    [] req[r].pc \in {"cascade", "trigger"} ->
         {s \in Requests \ {r} : user[req[r].id] # NoRow /\ req[r].at \in Held(req[s])}
    [] OTHER -> {}

Reached(S) == UNION {WaitsFor(s) : s \in S}

Waiting == {r \in Requests : WaitsFor(r) # {}}

\* The requests that wait, in the end, for themselves: whatever has all they wait for, and
\* all that waits for, has them.
OnCycle == {r \in Waiting :
              \A S \in SUBSET Requests : WaitsFor(r) \subseteq S /\ Reached(S) \subseteq S => r \in S}

-----------------------------------------------------------------------------
(***************************************************************************)
(* Requests                                                                *)
(***************************************************************************)

Taken(table, id, c, v) == \E i \in Ids \ {id} : table[i] # NoRow /\ table[i][c] = v

\* The identities that q asks for and somebody else has.
Clashes(table, q) == {c \in DOMAIN q.ask \cap Unique : q.ask[c] # Null /\ Taken(table, q.id, c, q.ask[c])}

Step(r, q, table) ==
  /\ user' = table
  /\ req' = [req EXCEPT ![r] = q]
  /\ clash' = [s \in Requests |-> IF req'[s].pc = "idle" \/ req[s].pc = "done" THEN clash[s]
                                  ELSE clash[s] \cup Clashes(table, req'[s])]

Go(r, q) == Step(r, q, user)

\* A request that asks for m, about the row i that it has read.
Begun(m, i, ask, row) == [Idle EXCEPT !.op = m.op, !.id = i, !.ask = ask, !.seen = row]

End(q, answer) == [q EXCEPT !.pc = "done", !.answer = answer, !.todo = {}, !.left = {}, !.at = Nothing]

\* What is left to look at before the flush: the phone number, if a new one is given.
AfterEmail(q) ==
  IF /\ q.op \in {"register", "update"}
     /\ "phone" \in Changed(q)
     /\ q.ask["phone"] # Null
  THEN [q EXCEPT !.pc = "phone"]
  ELSE [q EXCEPT !.pc = "write"]

\* What a deletion takes next.  session.delete has loaded the orders, proposals, chats and
\* messages of the user and the flush deletes them before the user, by table and key; what
\* was inserted since then is left to the foreign keys, after the user; and the deletion of
\* a proposal or a chat goes on by foreign keys to the order that accepted the one and to the
\* messages of the other.  So two deletions need not agree on an order, and it is left open.
Before(q) == {[q EXCEPT !.pc = "cascade", !.at = t] : t \in q.left}
             \cup {[q EXCEPT !.pc = "write", !.at = Nothing]}

After(q) == IF q.left = {} THEN {[q EXCEPT !.pc = "commit", !.at = Nothing]}
            ELSE {[q EXCEPT !.pc = "trigger", !.at = t] : t \in q.left}

Taking(q) == [q EXCEPT !.left = @ \ {q.at}]

\* The first SELECT.  A registration looks for its email.  The other requests load the row
\* they are about, a profile change in get_current_active_user, and it is this copy that
\* the session compares the new values with.
Read(r) ==
  \E m \in Menu :
    LET found == {i \in Ids : user[i] # NoRow /\ user[i].email = m.ask["email"]}
        new == Begun(m, r, m.ask, NoRow)
        old == Begun(m, m.id, m.ask, user[m.id])
    IN /\ req[r].pc = "idle"
       /\ \/ /\ m.op = "register"
             /\ Go(r, IF found # {} THEN End(new, "email") ELSE AfterEmail(new))
          \/ /\ m.op = "promote" /\ found = {}
             /\ Go(r, [new EXCEPT !.pc = "write"])
          \/ /\ m.op = "promote"
             /\ \E i \in found :
                  Go(r, [Begun(m, i, [admin |-> TRUE], user[i]) EXCEPT !.pc = "write"])
          \/ /\ m.op \in {"update", "set_admin", "delete"} /\ user[m.id] = NoRow
             /\ Go(r, End(old, "missing"))
          \/ /\ m.op \in {"update", "set_admin"} /\ user[m.id] # NoRow
             /\ Go(r, [old EXCEPT !.pc = IF m.op = "update" THEN "load" ELSE "write"])
          \/ /\ m.op = "delete" /\ user[m.id] # NoRow
             /\ \E next \in Before([old EXCEPT !.left = Related[m.id]]) : Go(r, next)

\* update_user selects the user once more, which does not refresh the copy.
Load(r) ==
  LET q == req[r]
  IN /\ q.pc = "load"
     /\ Go(r, IF user[q.id] = NoRow THEN End(q, "missing")
              ELSE IF "email" \in Changed(q) THEN [q EXCEPT !.pc = "email"]
              ELSE AfterEmail(q))

\* update_user: is the new email that of another user?
CheckEmail(r) ==
  LET q == req[r]
  IN /\ q.pc = "email"
     /\ Go(r, IF q.ask["email"] # Null /\ Taken(user, q.id, "email", q.ask["email"])
              THEN End(q, "email") ELSE AfterEmail(q))

\* create_user and update_user: is the phone number?
CheckPhone(r) ==
  LET q == req[r]
  IN /\ q.pc = "phone"
     /\ Go(r, IF Taken(user, q.id, "phone", q.ask["phone"])
              THEN End(q, "phone") ELSE [q EXCEPT !.pc = "write"])

\* Mutant of Refused: the branches for the username and the email are swapped.
RefusedEmailFirst(q, c) ==
  IF q.op = "promote" THEN "error"
  ELSE IF c \in {"email", "username"} THEN "email"
  ELSE "phone"

\* What becomes of an IntegrityError over column c, from the text, which has the names of
\* the column and of the index, and values: of the column if it is a duplicate, of the row
\* if the column must not be null.  The script has no branch for it.
Refused(q, c) ==
  LET told == IF q.ask[c] = Null THEN {v \in {q.seen.username} : "username" \notin DOMAIN q.ask}
                                      \cup {q.ask[d] : d \in DOMAIN q.ask}
              ELSE {q.ask[c]}
  IN IF q.op = "promote" THEN "error"
     ELSE IF c = "username" \/ told \cap Spelled # {} THEN "username"
     ELSE c

\* What follows on a flush whose row is gone: a DELETE and a commit without a change do
\* not notice, an UPDATE and a refresh do.  (A deletion that would clear the accepted
\* proposal of an order that went with the user does, too: Fail.)
Gone(q) == IF q.op = "delete" \/ (q.op = "promote" /\ Changed(q) = {})
           THEN [q EXCEPT !.pc = "commit"]
           ELSE End(q, "error")

\* A row of another table, before that of the user.
Cascade(r) == /\ req[r].pc = "cascade"
              /\ WaitsFor(r) = {}
              /\ \E next \in Before(Taking(req[r])) : Go(r, next)

\* One after it.
Trigger(r) == /\ req[r].pc = "trigger"
              /\ WaitsFor(r) = {}
              /\ \E next \in After(Taking(req[r])) : Go(r, next)

\* The flush: a null where none may be is found before the row is locked.
Write(r) ==
  LET q == req[r]
      nulls == {c \in Changed(q) \cap {"email", "username"} : q.ask[c] = Null}
  IN /\ q.pc = "write"
     /\ IF q.seen # NoRow /\ user[q.id] = NoRow THEN Go(r, Gone(q))
        ELSE IF q.op # "delete" /\ Changed(q) = {} THEN Go(r, [q EXCEPT !.pc = "commit"])
        ELSE IF nulls # {} THEN Go(r, End(q, Refused(q, First(nulls))))
        ELSE /\ WaitsFor(r) = {}
             /\ IF q.op = "delete" THEN \E next \in After(q) : Go(r, next)
                ELSE Go(r, IF Indexed(q) = {} THEN [q EXCEPT !.pc = "commit"]
                           ELSE [q EXCEPT !.pc = "index", !.todo = Indexed(q)])

\* The next index.
Enter(r) ==
  LET q == req[r]
      c == NextIndex(q)
      left == q.todo \ {c}
  IN /\ q.pc = "index"
     /\ WaitsFor(r) = {}
     /\ Go(r, IF Taken(user, q.id, c, q.ask[c]) THEN End(q, Refused(q, c))
              ELSE [q EXCEPT !.todo = left, !.pc = IF left = {} THEN "commit" ELSE "index"])

Default == [email |-> Null, phone |-> Null, username |-> Null, admin |-> FALSE]

\* Mutant of Written: all columns of the row that was read are written back.
WrittenWhole(q) == [c \in Column |-> IF c \in DOMAIN q.ask THEN q.ask[c]
                                     ELSE IF q.seen = NoRow THEN Default[c] ELSE q.seen[c]]

\* The row after the commit.
Written(q) == [c \in Column |-> IF c \in Changed(q) THEN q.ask[c]
                                ELSE IF q.seen = NoRow THEN Default[c] ELSE user[q.id][c]]

Commit(r) ==
  LET q == req[r]
  IN /\ q.pc = "commit"
     /\ Step(r, End(q, "ok"),
             IF q.op = "delete" THEN [user EXCEPT ![q.id] = NoRow]
             ELSE IF Changed(q) = {} THEN user
             ELSE [user EXCEPT ![q.id] = Written(q)])

\* The request is given up, or its connection is lost: a rollback.
Fail(r) == /\ req[r].pc \notin {"idle", "done"}
           /\ Go(r, End(req[r], "error"))

\* PostgreSQL ends one of those that wait for each other.
Victim(r) == /\ r \in OnCycle
             /\ Go(r, End(req[r], "victim"))

Finished == (\A r \in Requests : req[r].pc = "done") /\ UNCHANGED vars

Next == \/ \E r \in Requests : \/ Read(r) \/ Load(r) \/ CheckEmail(r) \/ CheckPhone(r) \/ Cascade(r)
                               \/ Write(r) \/ Trigger(r) \/ Enter(r) \/ Commit(r) \/ Fail(r) \/ Victim(r)
        \/ Finished

Spec == Init /\ [][Next]_vars

-----------------------------------------------------------------------------
(***************************************************************************)
(* Properties                                                              *)
(***************************************************************************)

\* No two users share an email, a phone number or a username.
IdentitiesUnique == \A i, j \in Ids : \A c \in Unique :
                      /\ i # j /\ user[i] # NoRow /\ user[j] # NoRow
                      /\ user[i][c] = user[j][c] /\ user[i][c] # Null
                      => FALSE

\* The text of an error names another column: a value spells "username", or is null.
Misleading(q) ==
  \/ q.answer = "username" /\ "email" \in DOMAIN q.ask /\ q.ask["email"] \in Spelled
  \/ \E c \in DOMAIN q.ask \cap {"email", "username"} : q.ask[c] = Null

\* A refusal names an identity that somebody else has had while the request ran, except
\* where the text of the error misleads the code.
RefusalIsTrue ==
  \A r \in Requests : req[r].answer \in Unique /\ ~Misleading(req[r])
                     => req[r].answer \in clash[r]

\* A deadlock with anybody in it but deletions has in it somebody who changes the identity
\* of a registered user: registrations, promotions and grants of rights among themselves
\* always take the indexes in one order, and no deletion waits for one of them that waits.
\* Deletions alone may well deadlock.
DeadlockNeedsChange ==
  (\E r \in OnCycle : req[r].op # "delete") =>
     \E r \in OnCycle : req[r].op = "update" /\ req[r].pc = "index"

\* A commit changes no column that its request did not ask to change, whatever others have
\* committed to the row since it was read.
NoLostChange ==
  [][\A i \in Ids : user[i] # NoRow /\ user'[i] # NoRow
       => \A c \in Column : user'[i][c] # user[i][c]
            => \E r \in Requests : /\ req[r].pc = "commit" /\ req'[r].answer = "ok"
                                   /\ req[r].id = i /\ c \in DOMAIN req[r].ask]_vars
=============================================================================
