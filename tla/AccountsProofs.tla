--------------------------- MODULE AccountsProofs ---------------------------
(***************************************************************************)
(* Proofs about Accounts, for any number of users and requests, and any    *)
(* menu of what they ask for.                                              *)
(***************************************************************************)
EXTENDS Accounts, TLAPS

Live(q) == q.pc \notin {"idle", "done"}

\* The identities a request has brought into their indexes.
Entered(q) == {c \in Indexed(q) \ q.todo : Wrote(q)}

\* What a request knows by itself, wherever it is.
Good(r, q) ==
  /\ q.pc # "index" => q.todo = {}
  /\ q.pc = "index" => q.todo # {} /\ q.todo \subseteq Indexed(q)
  /\ Live(q) => q.id \in Ids /\ q.op # "none"
  /\ Live(q) /\ q.seen = NoRow =>
       q.id = r /\ q.op # "delete" /\ {"email", "username"} \subseteq DOMAIN q.ask
  /\ Live(q) /\ q.op = "delete" => DOMAIN q.ask = {} /\ q.id \in Users
  /\ q.pc \in {"cascade", "trigger"} => q.op = "delete"
  /\ q.pc = "email" => "email" \in DOMAIN q.ask
  /\ q.pc = "phone" => "phone" \in DOMAIN q.ask /\ q.ask["phone"] # Null
  /\ q.pc \in {"index", "commit"} /\ q.op # "delete" =>
       \A c \in Changed(q) \cap {"email", "username"} : q.ask[c] # Null

\* A row that is being changed is there.
RowThere(r) == LET q == req[r]
               IN Wrote(q) /\ q.seen # NoRow /\ q.op # "delete" => user[q.id] # NoRow

\* Two requests do not write one row, unless it is gone and both delete it.
Alone(r, s) == /\ r # s /\ Wrote(req[r]) /\ Wrote(req[s]) /\ req[r].id = req[s].id
               => \A x \in {r, s} : req[x].op = "delete" \/ req[x].seen = NoRow

\* What a request has in an index, nobody else has in the table ...
NotTaken(r) == \A c \in Entered(req[r]) : ~Taken(user, req[r].id, c, req[r].ask[c])

\* ... and no other request in the index.
NotBoth(r, s) == r # s => \A c \in Entered(req[r]) \cap Entered(req[s]) :
                            req[r].ask[c] # req[s].ask[c]

\* The row a request inserts is not there before it ends.
Unborn(r) == req[r].pc # "done" => user[r] = NoRow

\* The inductive invariant.
IInv == /\ TypeOK
        /\ \A r \in Requests : Good(r, req[r]) /\ RowThere(r) /\ NotTaken(r) /\ Unborn(r)
        /\ \A r, s \in Requests : Alone(r, s) /\ NotBoth(r, s)
        /\ IdentitiesUnique

-----------------------------------------------------------------------------
(***************************************************************************)
(* Data                                                                    *)
(***************************************************************************)

\* Some column comes before all the others.
LEMMA SomeIsFirst ==
  ASSUME NEW S \in SUBSET Unique, S # {}
  PROVE \E c \in S : \A d \in S : \E i, j \in 1 .. 3 : Indexes[i] = c /\ Indexes[j] = d /\ i <= j
<1> DEFINE P(c) == \A d \in S : \E i, j \in 1 .. 3 : Indexes[i] = c /\ Indexes[j] = d /\ i <= j
<1>1. /\ 1 \in 1 .. 3 /\ 2 \in 1 .. 3 /\ 3 \in 1 .. 3
      /\ Indexes[1] = "email" /\ Indexes[2] = "phone" /\ Indexes[3] = "username"
  BY DEF Indexes
<1>2. \A d \in S : d = "email" \/ d = "phone" \/ d = "username"
  BY DEF Unique
<1>3. CASE "email" \in S
  <2>1. P("email")
    BY <1>1, <1>2
  <2> QED BY <1>3, <2>1
<1>4. CASE "email" \notin S /\ "phone" \in S
  <2>1. P("phone")
    BY <1>1, <1>2, <1>4
  <2> QED BY <1>4, <2>1
<1>5. CASE "email" \notin S /\ "phone" \notin S
  <2>1. "username" \in S
    BY <1>2, <1>5
  <2>2. P("username")
    BY <1>1, <1>2, <1>5
  <2> QED BY <2>1, <2>2
<1> QED BY <1>3, <1>4, <1>5

\* The first of some columns is one of them.
LEMMA FirstIsOne == ASSUME NEW S \in SUBSET Unique, S # {} PROVE First(S) \in S
  BY SomeIsFirst DEF First

\* What a request asks for a column is a value of the column.
LEMMA AskTyped == ASSUME NEW ask \in Ask PROVE /\ DOMAIN ask \subseteq Column
                                               /\ \A c \in DOMAIN ask : ask[c] \in Values[c]
  BY DEF Ask

\* Asking for rights alone, or for nothing.
LEMMA SmallAsks == [admin |-> TRUE] \in Ask /\ <<>> \in Ask
<1> DEFINE All == UNION {Values[c] : c \in Column}
<1>1. [admin |-> TRUE] \in Ask
  <2>1. Values["admin"] = BOOLEAN
    BY DEF Values
  <2>2. [admin |-> TRUE] \in [admin : BOOLEAN]
    OBVIOUS
  <2>3. [admin |-> TRUE] \in [{"admin"} -> BOOLEAN]
    BY <2>2
  <2>4. BOOLEAN \subseteq All
    BY <2>1 DEF Column
  <2>5. [admin |-> TRUE] \in [{"admin"} -> All]
    BY <2>3, <2>4
  <2>6. {"admin"} \in SUBSET Column
    BY DEF Column
  <2>7. \A c \in DOMAIN [admin |-> TRUE] : [admin |-> TRUE][c] \in Values[c]
    BY <2>1, <2>3
  <2> QED BY <2>5, <2>6, <2>7 DEF Ask
<1>2. <<>> \in [{} -> All] /\ {} \in SUBSET Column /\ DOMAIN <<>> = {}
  OBVIOUS
<1>3. <<>> \in Ask
  BY <1>2 DEF Ask
<1> QED BY <1>1, <1>3

LEMMA ChangedAsked == ASSUME NEW q \in Req PROVE /\ Changed(q) \subseteq DOMAIN q.ask
                                                 /\ Indexed(q) \subseteq Changed(q) \cap Unique
                                                 /\ DOMAIN q.ask \subseteq Column
                                                 /\ \A c \in DOMAIN q.ask : q.ask[c] \in Values[c]
<1>1. q.ask \in Ask
  BY DEF Req
<1> QED BY <1>1, AskTyped DEF Changed, Indexed

\* A request whose end is known.
LEMMA EndIs ==
  ASSUME NEW r \in Requests, NEW q \in Req,
         NEW a \in {"none", "ok", "email", "phone", "username", "missing", "error", "victim"}
  PROVE /\ End(q, a) \in Req /\ Good(r, End(q, a))
        /\ End(q, a).pc = "done" /\ End(q, a).answer = a /\ End(q, a).ask = q.ask
        /\ End(q, a).id = q.id
<1>1. End(q, a) \in Req
  BY DEF End, Req
<1>2. /\ End(q, a).pc = "done" /\ End(q, a).answer = a /\ End(q, a).ask = q.ask
      /\ End(q, a).id = q.id /\ End(q, a).todo = {}
  BY DEF End, Req
<1> QED BY <1>1, <1>2 DEF Good, Live

\* A refusal is one of the answers.
LEMMA RefusedIs ==
  ASSUME NEW q, NEW c \in Unique
  PROVE Refused(q, c) \in {"email", "phone", "username", "error"}
  BY DEF Refused, Unique

\* The row that is committed is a row.
LEMMA WrittenIs ==
  ASSUME NEW r \in Requests, NEW q \in Req, Good(r, q), q.pc = "commit", q.op # "delete",
         user \in [Ids -> Row \cup {NoRow}], q.seen # NoRow => user[q.id] # NoRow
  PROVE Written(q) \in Row
<1>1. \A c \in Changed(q) : c \in Column /\ q.ask[c] \in Values[c]
  BY ChangedAsked
<1>2. q.id \in Ids
  BY DEF Good, Live
<1>3. \A c \in Changed(q) \cap {"email", "username"} : q.ask[c] # Null
  BY DEF Good
<1>4. q.seen = NoRow => {"email", "username"} \subseteq Changed(q)
  BY DEF Good, Live, Changed
<1>5. Written(q) = [email |-> Written(q)["email"], phone |-> Written(q)["phone"],
                    username |-> Written(q)["username"], admin |-> Written(q)["admin"]]
  BY DEF Written, Column
<1>6. Written(q)["email"] \in Emails
  <2>1. CASE "email" \in Changed(q)
    BY <2>1, <1>1, <1>3 DEF Written, Column, Values
  <2>2. CASE "email" \notin Changed(q)
    BY <2>2, <1>2, <1>4 DEF Written, Column, Row
  <2> QED BY <2>1, <2>2
<1>7. Written(q)["username"] \in Names
  <2>1. CASE "username" \in Changed(q)
    BY <2>1, <1>1, <1>3 DEF Written, Column, Values
  <2>2. CASE "username" \notin Changed(q)
    BY <2>2, <1>2, <1>4 DEF Written, Column, Row
  <2> QED BY <2>1, <2>2
<1>8. Written(q)["phone"] \in Phones \cup {Null}
  <2>1. CASE "phone" \in Changed(q)
    BY <2>1, <1>1 DEF Written, Column, Values
  <2>2. CASE "phone" \notin Changed(q)
    BY <2>2, <1>2 DEF Written, Column, Row, Default
  <2> QED BY <2>1, <2>2
<1>9. Written(q)["admin"] \in BOOLEAN
  <2>1. CASE "admin" \in Changed(q)
    BY <2>1, <1>1 DEF Written, Column, Values
  <2>2. CASE "admin" \notin Changed(q)
    BY <2>2, <1>2 DEF Written, Column, Row, Default
  <2> QED BY <2>1, <2>2
<1> QED BY <1>5, <1>6, <1>7, <1>8, <1>9 DEF Row

-----------------------------------------------------------------------------
(***************************************************************************)
(* What each action does to the request that takes it                      *)
(***************************************************************************)

\* A step is a step of one request.
LEMMA StepIs ==
  ASSUME TypeOK, NEW r \in Requests, NEW q \in Req, NEW table, Step(r, q, table)
  PROVE /\ user' = table /\ req' \in [Requests -> Req] /\ req'[r] = q
        /\ \A s \in Requests \ {r} : req'[s] = req[s]
        /\ clash' \in [Requests -> SUBSET {"email", "phone", "username"}]
<1>1. \A t, u : Clashes(t, u) \subseteq {"email", "phone", "username"}
  BY DEF Clashes, Unique
<1>2. clash' \in [Requests -> SUBSET {"email", "phone", "username"}]
  BY <1>1 DEF Step, TypeOK
<1> QED BY <1>2 DEF Step, TypeOK

\* What holds of a live request before its flush, whatever its next statement is.
Base(r, q) == /\ q.todo = {} /\ q.id \in Ids /\ q.op # "none"
              /\ q.op = "delete" => DOMAIN q.ask = {} /\ q.id \in Users
              /\ q.seen = NoRow =>
                   q.id = r /\ q.op # "delete" /\ {"email", "username"} \subseteq DOMAIN q.ask

LEMMA PcIs ==
  ASSUME NEW r \in Requests, NEW q \in Req, Base(r, q), NEW p \in {"load", "email", "phone", "write"},
         p = "email" => "email" \in DOMAIN q.ask,
         p = "phone" => "phone" \in DOMAIN q.ask /\ q.ask["phone"] # Null
  PROVE /\ [q EXCEPT !.pc = p] \in Req /\ Good(r, [q EXCEPT !.pc = p])
        /\ [q EXCEPT !.pc = p].pc = p
        /\ ~Wrote([q EXCEPT !.pc = p])
<1>1. /\ [q EXCEPT !.pc = p] \in Req
      /\ [q EXCEPT !.pc = p].pc = p /\ [q EXCEPT !.pc = p].todo = q.todo
      /\ [q EXCEPT !.pc = p].id = q.id /\ [q EXCEPT !.pc = p].op = q.op
      /\ [q EXCEPT !.pc = p].ask = q.ask /\ [q EXCEPT !.pc = p].seen = q.seen
  BY DEF Req
<1> QED BY <1>1 DEF Base, Good, Wrote

\* Whoever has begun goes on with what he asked for and what he read.
Same(q, next) == next.op = q.op /\ next.ask = q.ask /\ next.seen = q.seen

\* A deletion goes on to another row, and nothing else of it changes.
LEMMA TakingIs ==
  ASSUME NEW q \in Req
  PROVE /\ Taking(q) \in Req /\ Same(q, Taking(q)) /\ Taking(q).id = q.id
        /\ Taking(q).todo = q.todo /\ Taking(q).answer = q.answer /\ Taking(q).pc = q.pc
  BY DEF Taking, Same, Req

LEMMA BeforeIs ==
  ASSUME NEW q \in Req, NEW next \in Before(q)
  PROVE /\ next \in Req /\ Same(q, next) /\ next.id = q.id
        /\ next.todo = q.todo /\ next.answer = q.answer
        /\ next.pc \in {"cascade", "write"}
<1>1. ASSUME NEW p \in {"cascade", "write"}, NEW t \in Things \cup {Nothing},
             next = [q EXCEPT !.pc = p, !.at = t]
      PROVE /\ next \in Req /\ Same(q, next) /\ next.id = q.id
            /\ next.todo = q.todo /\ next.answer = q.answer /\ next.pc = p
  BY <1>1 DEF Same, Req
<1>2. q.left \subseteq Things
  BY DEF Req
<1>3. CASE \E t \in q.left : next = [q EXCEPT !.pc = "cascade", !.at = t]
  BY <1>1, <1>2, <1>3
<1>4. CASE next = [q EXCEPT !.pc = "write", !.at = Nothing]
  BY <1>1, <1>4
<1> QED BY <1>3, <1>4 DEF Before

LEMMA AfterIs ==
  ASSUME NEW q \in Req, NEW next \in After(q)
  PROVE /\ next \in Req /\ Same(q, next) /\ next.id = q.id
        /\ next.todo = q.todo /\ next.answer = q.answer
        /\ next.pc \in {"trigger", "commit"}
<1>1. ASSUME NEW p \in {"trigger", "commit"}, NEW t \in Things \cup {Nothing},
             next = [q EXCEPT !.pc = p, !.at = t]
      PROVE /\ next \in Req /\ Same(q, next) /\ next.id = q.id
            /\ next.todo = q.todo /\ next.answer = q.answer /\ next.pc = p
  BY <1>1 DEF Same, Req
<1>2. q.left \subseteq Things
  BY DEF Req
<1>3. CASE \E t \in q.left : next = [q EXCEPT !.pc = "trigger", !.at = t]
  BY <1>1, <1>2, <1>3
<1>4. CASE next = [q EXCEPT !.pc = "commit", !.at = Nothing]
  BY <1>1, <1>4
<1> QED BY <1>3, <1>4 DEF After

\* Where a deletion that has begun may go.
Onward(q) == After(q) \cup Before(Taking(q)) \cup After(Taking(q))

LEMMA OnwardIs ==
  ASSUME NEW q \in Req, NEW next \in Onward(q)
  PROVE /\ next \in Req /\ Same(q, next) /\ next.answer = q.answer
        /\ next.pc \in {"cascade", "write", "trigger", "commit"}
<1>1. Taking(q) \in Req /\ Same(q, Taking(q)) /\ Taking(q).answer = q.answer
  BY TakingIs
<1>2. CASE next \in After(q)
  BY <1>2, AfterIs
<1>3. ASSUME NEW n \in Req, Same(n, next), next.answer = n.answer, Same(q, n), n.answer = q.answer
      PROVE Same(q, next) /\ next.answer = q.answer
  BY <1>3 DEF Same
<1> HIDE DEF Onward
<1>4. CASE next \in Before(Taking(q)) \/ next \in After(Taking(q))
  <2>1. /\ next \in Req /\ Same(Taking(q), next) /\ next.answer = Taking(q).answer
        /\ next.pc \in {"cascade", "write", "trigger", "commit"}
    BY <1>1, <1>4, BeforeIs, AfterIs
  <2> QED BY <1>1, <1>3, <2>1
<1> QED BY <1>2, <1>4 DEF Onward

LEMMA AfterEmailIs ==
  ASSUME NEW r \in Requests, NEW q \in Req, Base(r, q)
  PROVE AfterEmail(q) \in Req /\ Good(r, AfterEmail(q)) /\ ~Wrote(AfterEmail(q))
<1>1. "phone" \in Changed(q) => "phone" \in DOMAIN q.ask
  BY DEF Changed
<1>2. CASE /\ q.op \in {"register", "update"} /\ "phone" \in Changed(q) /\ q.ask["phone"] # Null
  <2>1. AfterEmail(q) = [q EXCEPT !.pc = "phone"]
    BY <1>2 DEF AfterEmail
  <2>2. "phone" \in DOMAIN q.ask /\ q.ask["phone"] # Null
    BY <1>1, <1>2
  <2>3. /\ [q EXCEPT !.pc = "phone"] \in Req /\ Good(r, [q EXCEPT !.pc = "phone"])
        /\ ~Wrote([q EXCEPT !.pc = "phone"])
    BY <2>2, PcIs
  <2> QED BY <2>1, <2>3
<1>3. CASE ~(/\ q.op \in {"register", "update"} /\ "phone" \in Changed(q) /\ q.ask["phone"] # Null)
  <2>1. AfterEmail(q) = [q EXCEPT !.pc = "write"]
    BY <1>3 DEF AfterEmail
  <2> QED BY <2>1, PcIs
<1> QED BY <1>2, <1>3

\* A request that has just begun.
LEMMA BegunIs ==
  ASSUME NEW r \in Requests, NEW m \in Menu, NEW i \in Ids, NEW ask \in Ask, NEW row \in Row \cup {NoRow}
  PROVE LET q == Begun(m, i, ask, row)
        IN /\ q \in Req /\ q.pc = "idle" /\ q.ask = ask /\ q.id = i /\ q.op = m.op
           /\ row # NoRow /\ (m.op = "delete" => ask = <<>> /\ i \in Users) => Base(r, q)
           /\ i = r /\ m.op # "delete" /\ {"email", "username"} \subseteq DOMAIN ask => Base(r, q)
<1> DEFINE q == Begun(m, i, ask, row)
<1>1. m.op \in Op /\ m.op # "none"
  BY MenuAssumption DEF Op
<1>2. q \in Req
  BY <1>1 DEF Begun, Idle, Req
<1>3. /\ q.pc = "idle" /\ q.ask = ask /\ q.id = i /\ q.op = m.op /\ q.seen = row /\ q.todo = {}
  BY DEF Begun, Idle
<1>4. DOMAIN <<>> = {}
  OBVIOUS
<1> QED BY <1>1, <1>2, <1>3, <1>4 DEF Base

\* The table stays, and the request has written nothing yet, or has ended.
Quiet(r) == /\ user' = user /\ req[r].pc # "done"
            /\ req'[r] \in Req /\ Good(r, req'[r]) /\ ~Wrote(req'[r])

\* The request locks a row that nobody else holds, unless it deletes what is gone.
Begins(r) ==
  /\ user' = user /\ req[r].pc # "done"
  /\ req'[r] \in Req /\ Good(r, req'[r]) /\ Entered(req'[r]) = {}
  /\ req'[r].seen # NoRow /\ req'[r].op # "delete" => user[req'[r].id] # NoRow
  /\ \A s \in Requests \ {r} : Wrote(req[s]) => \/ req[s].id # req'[r].id
                                                \/ req'[r].op = "delete" /\ user[req'[r].id] = NoRow

\* The request brings an identity into an index where it is nobody else's, or has none.
Enters(r) ==
  /\ user' = user /\ req[r].pc # "done" /\ Wrote(req[r])
  /\ req'[r] \in Req /\ Good(r, req'[r])
  /\ req'[r].op = req[r].op /\ req'[r].id = req[r].id
  /\ req'[r].ask = req[r].ask /\ req'[r].seen = req[r].seen
  /\ \/ Entered(req'[r]) = {}
     \/ \E c \in Unique :
          /\ Entered(req'[r]) \subseteq Entered(req[r]) \cup {c}
          /\ ~Taken(user, req[r].id, c, req[r].ask[c])
          /\ \A s \in Requests \ {r} : c \in Entered(req[s]) => req[s].ask[c] # req[r].ask[c]

\* Ending without a commit is quiet.
LEMMA EndQuiet ==
  ASSUME TypeOK, NEW r \in Requests, req[r].pc # "done", NEW q \in Req,
         NEW a \in {"none", "ok", "email", "phone", "username", "missing", "error", "victim"},
         Go(r, End(q, a))
  PROVE Quiet(r)
<1>1. End(q, a) \in Req /\ Good(r, End(q, a)) /\ End(q, a).pc = "done"
  BY EndIs
<1>2. user' = user /\ req'[r] = End(q, a)
  BY <1>1, StepIs DEF Go
<1> QED BY <1>1, <1>2 DEF Quiet, Wrote

LEMMA AfterEmailQuiet ==
  ASSUME TypeOK, NEW r \in Requests, req[r].pc # "done", NEW q \in Req, Base(r, q),
         Go(r, AfterEmail(q))
  PROVE Quiet(r)
<1>1. AfterEmail(q) \in Req /\ Good(r, AfterEmail(q)) /\ ~Wrote(AfterEmail(q))
  BY AfterEmailIs
<1>2. user' = user /\ req'[r] = AfterEmail(q)
  BY <1>1, StepIs DEF Go
<1> QED BY <1>1, <1>2 DEF Quiet

LEMMA PcQuiet ==
  ASSUME TypeOK, NEW r \in Requests, req[r].pc # "done", NEW q \in Req, Base(r, q),
         NEW p \in {"load", "email", "phone", "write"},
         p = "email" => "email" \in DOMAIN q.ask,
         p = "phone" => "phone" \in DOMAIN q.ask /\ q.ask["phone"] # Null,
         Go(r, [q EXCEPT !.pc = p])
  PROVE Quiet(r)
<1>1. [q EXCEPT !.pc = p] \in Req /\ Good(r, [q EXCEPT !.pc = p]) /\ ~Wrote([q EXCEPT !.pc = p])
  BY PcIs
<1>2. user' = user /\ req'[r] = [q EXCEPT !.pc = p]
  BY <1>1, StepIs DEF Go
<1> QED BY <1>1, <1>2 DEF Quiet

LEMMA BeforeQuiet ==
  ASSUME TypeOK, NEW r \in Requests, req[r].pc # "done", NEW q \in Req, Base(r, q), q.op = "delete",
         NEW next \in Before(q), Go(r, next)
  PROVE Quiet(r)
<1>1. /\ next \in Req /\ Same(q, next) /\ next.id = q.id /\ next.todo = q.todo
      /\ next.pc \in {"cascade", "write"}
  BY BeforeIs
<1>2. Good(r, next) /\ ~Wrote(next)
  BY <1>1 DEF Base, Good, Same, Wrote
<1>3. user' = user /\ req'[r] = next
  BY <1>1, StepIs DEF Go
<1> QED BY <1>1, <1>2, <1>3 DEF Quiet

LEMMA ReadQuiet == ASSUME TypeOK, NEW r \in Requests, Read(r) PROVE Quiet(r)
<1>1. PICK m \in Menu :
        LET found == {i \in Ids : user[i] # NoRow /\ user[i].email = m.ask["email"]}
            new == Begun(m, r, m.ask, NoRow)
            old == Begun(m, m.id, m.ask, user[m.id])
        IN /\ req[r].pc = "idle"
           /\ \/ /\ m.op = "register"
                 /\ Go(r, IF found # {} THEN End(new, "email") ELSE AfterEmail(new))
              \/ /\ m.op = "promote" /\ found = {}
                 /\ Go(r, [new EXCEPT !.pc = "write"])
              \/ /\ m.op = "promote"
                 /\ \E i \in found :
                      Go(r, [Begun(m, i, [admin |-> TRUE], user[i]) EXCEPT !.pc = "write"])
              \/ /\ m.op \in {"update", "set_admin", "delete"} /\ user[m.id] = NoRow
                 /\ Go(r, End(old, "missing"))
              \/ /\ m.op \in {"update", "set_admin"} /\ user[m.id] # NoRow
                 /\ Go(r, [old EXCEPT !.pc = IF m.op = "update" THEN "load" ELSE "write"])
              \/ /\ m.op = "delete" /\ user[m.id] # NoRow
                 /\ \E next \in Before([old EXCEPT !.left = Related[m.id]]) : Go(r, next)
  BY DEF Read
<1> DEFINE found == {i \in Ids : user[i] # NoRow /\ user[i].email = m.ask["email"]}
           new == Begun(m, r, m.ask, NoRow)
           old == Begun(m, m.id, m.ask, user[m.id])
<1>2. req[r].pc # "done" /\ m.op \in Op /\ m.ask \in Ask /\ r \in Ids
  BY <1>1, MenuAssumption DEF Ids
<1>3. m.op \in {"register", "promote"} => new \in Req /\ Base(r, new)
  BY <1>2, BegunIs, MenuAssumption
<1>4. ASSUME m.op = "register", Go(r, IF found # {} THEN End(new, "email") ELSE AfterEmail(new))
      PROVE Quiet(r)
  <2> HIDE DEF new, found
  <2> QED BY <1>2, <1>3, <1>4, EndQuiet, AfterEmailQuiet
<1>5. ASSUME m.op = "promote", Go(r, [new EXCEPT !.pc = "write"]) PROVE Quiet(r)
  <2> HIDE DEF new
  <2> QED BY <1>2, <1>3, <1>5, PcQuiet
<1>6. ASSUME m.op = "promote", NEW i \in found,
             Go(r, [Begun(m, i, [admin |-> TRUE], user[i]) EXCEPT !.pc = "write"])
      PROVE Quiet(r)
  <2> DEFINE ask == [admin |-> TRUE]
             one == Begun(m, i, ask, user[i])
  <2>1. ask \in Ask
    BY SmallAsks
  <2> HIDE DEF ask
  <2>2. i \in Ids /\ user[i] # NoRow /\ user[i] \in Row \cup {NoRow}
    BY DEF TypeOK
  <2>3. one \in Req /\ Base(r, one)
    BY <1>6, <2>1, <2>2, BegunIs
  <2>4. Go(r, [one EXCEPT !.pc = "write"])
    BY <1>6 DEF ask
  <2> HIDE DEF one
  <2> QED BY <1>2, <2>3, <2>4, PcQuiet
<1>7. m.op \in {"update", "set_admin", "delete"} =>
        /\ m.id \in Users /\ m.id \in Ids /\ user[m.id] \in Row \cup {NoRow}
        /\ m.op = "delete" => m.ask = <<>>
  BY MenuAssumption DEF TypeOK, Ids
<1>8. m.op \in {"update", "set_admin", "delete"} =>
        old \in Req /\ old.op = m.op /\ (user[m.id] # NoRow => Base(r, old))
  BY <1>2, <1>7, BegunIs
<1>9. CASE m.op \in {"update", "set_admin", "delete"} /\ Go(r, End(old, "missing"))
  <2> HIDE DEF old
  <2> QED BY <1>2, <1>8, <1>9, EndQuiet
<1>10. ASSUME m.op \in {"update", "set_admin"}, user[m.id] # NoRow,
              Go(r, [old EXCEPT !.pc = IF m.op = "update" THEN "load" ELSE "write"])
       PROVE Quiet(r)
  <2> DEFINE p == IF m.op = "update" THEN "load" ELSE "write"
  <2>1. p \in {"load", "write"} /\ p # "email" /\ p # "phone" /\ Go(r, [old EXCEPT !.pc = p])
    BY <1>10
  <2> HIDE DEF old, p
  <2> QED BY <1>2, <1>8, <1>10, <2>1, PcQuiet
<1>11. ASSUME m.op = "delete", user[m.id] # NoRow,
              NEW next \in Before([old EXCEPT !.left = Related[m.id]]), Go(r, next)
       PROVE Quiet(r)
  <2> DEFINE all == [old EXCEPT !.left = Related[m.id]]
  <2>1. Related[m.id] \in SUBSET Things
    BY <1>7, <1>11, RelatedAssumption
  <2>2. old \in Req /\ Base(r, old) /\ old.op = "delete"
    BY <1>8, <1>11
  <2>3. next \in Before(all)
    BY <1>11
  <2> HIDE DEF old
  <2>4. all \in Req /\ all.op = "delete" /\ Base(r, all)
    BY <2>1, <2>2 DEF Req, Base
  <2> HIDE DEF all
  <2> QED BY <1>2, <1>11, <2>3, <2>4, BeforeQuiet
<1> QED BY <1>1, <1>4, <1>5, <1>6, <1>9, <1>10, <1>11

\* What a live request knows, it knew from the beginning.
LEMMA BaseKept ==
  ASSUME NEW r \in Requests, NEW q \in Req, Good(r, q),
         q.pc \in {"load", "email", "phone", "cascade", "write"}
  PROVE Base(r, q)
  BY DEF Good, Base, Live

LEMMA LoadQuiet ==
  ASSUME TypeOK, NEW r \in Requests, Good(r, req[r]), Load(r) PROVE Quiet(r)
<1> DEFINE q == req[r]
<1>1. q \in Req /\ q.pc = "load" /\ q.pc # "done"
  BY DEF Load, TypeOK
<1>2. Base(r, q)
  BY <1>1, BaseKept
<1>3. CASE user[q.id] = NoRow
  <2>1. Go(r, End(q, "missing"))
    BY <1>3 DEF Load
  <2> QED BY <1>1, <2>1, EndQuiet
<1>4. CASE user[q.id] # NoRow /\ "email" \in Changed(q)
  <2>1. Go(r, [q EXCEPT !.pc = "email"]) /\ "email" \in DOMAIN q.ask
    BY <1>4 DEF Load, Changed
  <2> HIDE DEF q
  <2> QED BY <1>1, <1>2, <2>1, PcQuiet DEF q
<1>5. CASE user[q.id] # NoRow /\ "email" \notin Changed(q)
  <2>1. Go(r, AfterEmail(q))
    BY <1>5 DEF Load
  <2> QED BY <1>1, <1>2, <2>1, AfterEmailQuiet
<1> QED BY <1>3, <1>4, <1>5

LEMMA CheckEmailQuiet ==
  ASSUME TypeOK, NEW r \in Requests, Good(r, req[r]), CheckEmail(r) PROVE Quiet(r)
<1> DEFINE q == req[r]
<1>1. q \in Req /\ q.pc = "email" /\ q.pc # "done"
  BY DEF CheckEmail, TypeOK
<1>2. Base(r, q)
  BY <1>1, BaseKept
<1>3. Go(r, End(q, "email")) \/ Go(r, AfterEmail(q))
  BY DEF CheckEmail
<1> QED BY <1>1, <1>2, <1>3, EndQuiet, AfterEmailQuiet

LEMMA CheckPhoneQuiet ==
  ASSUME TypeOK, NEW r \in Requests, Good(r, req[r]), CheckPhone(r) PROVE Quiet(r)
<1> DEFINE q == req[r]
<1>1. q \in Req /\ q.pc = "phone" /\ q.pc # "done"
  BY DEF CheckPhone, TypeOK
<1>2. Base(r, q)
  BY <1>1, BaseKept
<1>3. Go(r, End(q, "phone")) \/ Go(r, [q EXCEPT !.pc = "write"])
  BY DEF CheckPhone
<1> HIDE DEF q
<1> QED BY <1>1, <1>2, <1>3, EndQuiet, PcQuiet DEF q

LEMMA CascadeQuiet ==
  ASSUME TypeOK, NEW r \in Requests, Good(r, req[r]), Cascade(r) PROVE Quiet(r)
<1> DEFINE q == req[r]
<1>1. q \in Req /\ q.pc = "cascade" /\ q.pc # "done" /\ q.op = "delete"
  BY DEF Cascade, TypeOK, Good
<1>2. Base(r, q)
  BY <1>1, BaseKept
<1>3. /\ Taking(q) \in Req /\ Same(q, Taking(q)) /\ Taking(q).id = q.id /\ Taking(q).todo = q.todo
  BY <1>1, TakingIs
<1>4. PICK next \in Before(Taking(q)) : Go(r, next)
  BY DEF Cascade
<1> HIDE DEF q
<1>5. Taking(q).op = "delete" /\ Base(r, Taking(q))
  BY <1>1, <1>2, <1>3 DEF Base, Same
<1> QED BY <1>1, <1>3, <1>4, <1>5, BeforeQuiet DEF q

LEMMA FailQuiet ==
  ASSUME TypeOK, NEW r \in Requests, Fail(r) PROVE Quiet(r)
<1>1. req[r] \in Req /\ req[r].pc # "done" /\ Go(r, End(req[r], "error"))
  BY DEF Fail, TypeOK
<1> QED BY <1>1, EndQuiet

LEMMA VictimQuiet ==
  ASSUME TypeOK, NEW r \in Requests, Victim(r), req[r].pc # "done" PROVE Quiet(r)
<1>1. req[r] \in Req /\ Go(r, End(req[r], "victim"))
  BY DEF Victim, TypeOK
<1> QED BY <1>1, EndQuiet

\* A request goes on to the commit, or to its indexes, with what it knew.
Writing(q, left, p) == [q EXCEPT !.todo = left, !.pc = p]

LEMMA WritingIs ==
  ASSUME NEW r \in Requests, NEW q \in Req, Good(r, q), q.pc \in {"write", "index"},
         q.op # "delete" => \A c \in Changed(q) \cap {"email", "username"} : q.ask[c] # Null,
         NEW left \in SUBSET Indexed(q),
         NEW p \in {"index", "commit"}, p = "index" <=> left # {}
  PROVE LET next == Writing(q, left, p)
        IN /\ next \in Req /\ Good(r, next)
           /\ next.pc = p /\ next.todo = left /\ next.op = q.op /\ next.id = q.id
           /\ next.ask = q.ask /\ next.seen = q.seen
           /\ Changed(next) = Changed(q) /\ Indexed(next) = Indexed(q)
<1> DEFINE next == Writing(q, left, p)
<1>1. left \subseteq Column
  BY DEF Indexed, Unique, Column
<1>2. next \in Req
  BY <1>1 DEF Req, Writing
<1>3. /\ next.pc = p /\ next.todo = left /\ next.op = q.op /\ next.id = q.id
      /\ next.ask = q.ask /\ next.seen = q.seen
  BY DEF Req, Writing
<1>4. Changed(next) = Changed(q) /\ Indexed(next) = Indexed(q)
  BY <1>3 DEF Changed, Indexed
<1>5. Good(r, next)
  <2> HIDE DEF next
  <2> QED BY <1>3, <1>4 DEF Good, Live
<1> QED BY <1>2, <1>3, <1>4, <1>5

\* A deletion that has its row goes on and has nothing in an index.
Goes(r, q, next) == /\ next \in Req /\ Good(r, next) /\ Entered(next) = {} /\ next.op = "delete"
                    /\ Same(q, next) /\ next.id = q.id

LEMMA AfterGoes ==
  ASSUME NEW r \in Requests, NEW q \in Req, q.op = "delete", DOMAIN q.ask = {}, q.id \in Ids,
         q.id \in Users, q.seen # NoRow, q.todo = {}, NEW next \in After(q)
  PROVE Goes(r, q, next)
<1>1. /\ next \in Req /\ Same(q, next) /\ next.id = q.id /\ next.todo = q.todo
      /\ next.pc \in {"trigger", "commit"}
  BY AfterIs
<1>2. Good(r, next)
  BY <1>1 DEF Good, Same
<1>3. Indexed(next) = {}
  BY <1>1 DEF Indexed, Changed, Same
<1> QED BY <1>1, <1>2, <1>3 DEF Goes, Entered, Same

LEMMA TriggerEnters ==
  ASSUME TypeOK, NEW r \in Requests, Good(r, req[r]), Trigger(r) PROVE Enters(r)
<1> DEFINE q == req[r]
<1>1. /\ q \in Req /\ q.pc = "trigger" /\ q.pc # "done" /\ q.op = "delete" /\ q.todo = {}
      /\ DOMAIN q.ask = {} /\ q.id \in Ids /\ q.id \in Users /\ q.seen # NoRow
  BY DEF Trigger, TypeOK, Good, Live
<1>2. /\ Taking(q) \in Req /\ Same(q, Taking(q)) /\ Taking(q).id = q.id /\ Taking(q).todo = q.todo
  BY <1>1, TakingIs
<1>3. PICK next \in After(Taking(q)) : Go(r, next)
  BY DEF Trigger
<1>4. Wrote(q)
  BY <1>1 DEF Wrote
<1> HIDE DEF q
<1>5. Goes(r, Taking(q), next)
  BY <1>1, <1>2, <1>3, AfterGoes DEF Same
<1>6. user' = user /\ req'[r] = next
  BY <1>3, <1>5, StepIs DEF Go, Goes
<1>7. next.op = q.op /\ next.id = q.id /\ next.ask = q.ask /\ next.seen = q.seen
  BY <1>2, <1>5 DEF Goes, Same
<1> QED BY <1>1, <1>4, <1>5, <1>6, <1>7 DEF Enters, Goes, q

\* The flush ends the request or locks the row.
LEMMA WriteBegins ==
  ASSUME TypeOK, NEW r \in Requests, Good(r, req[r]), Write(r) PROVE Quiet(r) \/ Begins(r)
<1> DEFINE q == req[r]
           nulls == {c \in Changed(q) \cap {"email", "username"} : q.ask[c] = Null}
<1>1. q \in Req /\ q.pc = "write" /\ q.pc # "done" /\ q.todo = {}
  BY DEF Write, TypeOK, Good
<1>2. [q EXCEPT !.pc = "commit"] = Writing(q, {}, "commit")
  BY <1>1 DEF Req, Writing
<1>3. \A s \in Requests \ {r} : WaitsFor(r) = {} /\ Wrote(req[s]) => req[s].id # q.id
  BY <1>1 DEF WaitsFor
<1>4. CASE q.seen # NoRow /\ user[q.id] = NoRow
  <2>1. Go(r, Gone(q))
    BY <1>4 DEF Write
  <2>2. CASE q.op = "delete" \/ (q.op = "promote" /\ Changed(q) = {})
    <3> DEFINE next == Writing(q, {}, "commit")
    <3>1. Go(r, next)
      BY <1>2, <2>1, <2>2 DEF Gone
    <3>2. /\ next \in Req /\ Good(r, next)
          /\ next.todo = {} /\ next.op = q.op /\ next.id = q.id /\ next.ask = q.ask
          /\ Changed(next) = Changed(q) /\ Indexed(next) = Indexed(q)
      BY <1>1, <2>2, WritingIs
    <3> HIDE DEF next
    <3>5. user' = user /\ req'[r] = next
      BY <3>1, <3>2, StepIs DEF Go
    <3>3. CASE q.op # "delete"
      <4>1. ~Wrote(next)
        BY <2>2, <3>2, <3>3 DEF Wrote
      <4> QED BY <1>1, <3>2, <3>5, <4>1 DEF Quiet
    <3>4. CASE q.op = "delete"
      <4>1. Indexed(q) = {}
        BY <1>1, <3>4, ChangedAsked DEF Good, Live
      <4>2. Entered(next) = {}
        BY <3>2, <4>1 DEF Entered
      <4> QED BY <1>1, <1>4, <3>2, <3>4, <3>5, <4>2 DEF Begins
    <3> QED BY <3>3, <3>4
  <2>3. CASE ~(q.op = "delete" \/ (q.op = "promote" /\ Changed(q) = {}))
    <3>1. Go(r, End(q, "error"))
      BY <2>1, <2>3 DEF Gone
    <3> QED BY <1>1, <3>1, EndQuiet
  <2> QED BY <2>2, <2>3
<1>5. CASE ~(q.seen # NoRow /\ user[q.id] = NoRow) /\ q.op # "delete" /\ Changed(q) = {}
  <2> DEFINE next == Writing(q, {}, "commit")
  <2>1. Go(r, next)
    BY <1>2, <1>5 DEF Write
  <2>2. next \in Req /\ Good(r, next) /\ next.op = q.op /\ Changed(next) = Changed(q)
    BY <1>1, <1>5, WritingIs
  <2> HIDE DEF next
  <2>3. user' = user /\ req'[r] = next
    BY <2>1, <2>2, StepIs DEF Go
  <2> QED BY <1>1, <1>5, <2>2, <2>3 DEF Quiet, Wrote
<1>6. CASE nulls # {} /\ Go(r, End(q, Refused(q, First(nulls))))
  <2>1. nulls \in SUBSET Unique
    BY DEF Unique
  <2>2. Refused(q, First(nulls)) \in {"email", "phone", "username", "error"}
    BY <1>6, <2>1, FirstIsOne, RefusedIs
  <2> QED BY <1>1, <1>6, <2>2, EndQuiet
<1>7. CASE /\ ~(q.seen # NoRow /\ user[q.id] = NoRow) /\ nulls = {} /\ WaitsFor(r) = {}
           /\ q.op # "delete"
           /\ Go(r, IF Indexed(q) = {} THEN [q EXCEPT !.pc = "commit"]
                    ELSE [q EXCEPT !.pc = "index", !.todo = Indexed(q)])
  <2> DEFINE p == IF Indexed(q) = {} THEN "commit" ELSE "index"
             next == Writing(q, Indexed(q), p)
  <2>1. Go(r, next)
    <3>1. CASE Indexed(q) = {}
      BY <1>2, <1>7, <3>1
    <3>2. CASE Indexed(q) # {}
      <4>1. [q EXCEPT !.pc = "index", !.todo = Indexed(q)] = next
        BY <1>1, <3>2 DEF Req, Writing
      <4> QED BY <1>7, <3>2, <4>1
    <3> QED BY <3>1, <3>2
  <2>2. \A c \in Changed(q) \cap {"email", "username"} : q.ask[c] # Null
    BY <1>7
  <2>3. p \in {"index", "commit"} /\ (p = "index" <=> Indexed(q) # {})
    OBVIOUS
  <2> HIDE DEF p
  <2>4. /\ next \in Req /\ Good(r, next)
        /\ next.todo = Indexed(q) /\ next.op = q.op /\ next.id = q.id /\ next.seen = q.seen
        /\ Indexed(next) = Indexed(q)
    BY <1>1, <2>2, <2>3, WritingIs
  <2> HIDE DEF next
  <2>5. Entered(next) = {}
    BY <2>4 DEF Entered
  <2>6. user' = user /\ req'[r] = next
    BY <2>1, <2>4, StepIs DEF Go
  <2> QED BY <1>1, <1>3, <1>7, <2>4, <2>5, <2>6 DEF Begins
<1>8. CASE WaitsFor(r) = {} /\ q.op = "delete" /\ \E next \in After(q) : Go(r, next)
  <2>1. PICK next \in After(q) : Go(r, next)
    BY <1>8
  <2>2. DOMAIN q.ask = {} /\ q.id \in Ids /\ q.id \in Users /\ q.seen # NoRow
    BY <1>1, <1>8 DEF Good, Live
  <2>3. Goes(r, q, next)
    BY <1>1, <1>8, <2>1, <2>2, AfterGoes
  <2> HIDE DEF q
  <2>4. q.op = "delete" /\ q.pc # "done"
    BY <1>1, <1>8
  <2>5. \A s \in Requests \ {r} : Wrote(req[s]) => req[s].id # q.id
    BY <1>3, <1>8
  <2> HIDE DEF q
  <2>6. user' = user /\ req'[r] = next
    BY <2>1, <2>3, StepIs DEF Go, Goes
  <2>7. /\ req'[r] \in Req /\ Good(r, req'[r]) /\ Entered(req'[r]) = {}
        /\ req'[r].op = "delete" /\ req'[r].id = q.id
    BY <2>3, <2>6 DEF Goes
  <2> QED BY <2>4, <2>5, <2>6, <2>7 DEF Begins, q
<1> QED BY <1>4, <1>5, <1>6, <1>7, <1>8 DEF Write

\* The next index refuses the request or lets it in.
LEMMA EnterEnters ==
  ASSUME TypeOK, NEW r \in Requests, Good(r, req[r]), Enter(r) PROVE Quiet(r) \/ Enters(r)
<1> DEFINE q == req[r]
           c == NextIndex(q)
           left == q.todo \ {c}
           p == IF left = {} THEN "commit" ELSE "index"
           next == Writing(q, left, p)
<1>1. /\ q \in Req /\ q.pc = "index" /\ q.pc # "done"
      /\ q.todo # {} /\ q.todo \subseteq Indexed(q) /\ q.todo \subseteq Unique
  BY DEF Enter, TypeOK, Good, Indexed
<1>2. c \in q.todo
  BY <1>1, FirstIsOne DEF NextIndex
<1>3. Blockers(r, c) = {}
  BY <1>1 DEF Enter, WaitsFor
<1>4. CASE Taken(user, q.id, c, q.ask[c])
  <2>1. Go(r, End(q, Refused(q, c)))
    BY <1>4 DEF Enter
  <2>2. Refused(q, c) \in {"email", "phone", "username", "error"}
    BY <1>1, <1>2, RefusedIs
  <2> QED BY <1>1, <2>1, <2>2, EndQuiet
<1>5. CASE ~Taken(user, q.id, c, q.ask[c])
  <2>1. Go(r, next)
    BY <1>5 DEF Enter, Writing
  <2>2. q.op # "delete" => \A d \in Changed(q) \cap {"email", "username"} : q.ask[d] # Null
    BY <1>1 DEF Good
  <2>3. left \in SUBSET Indexed(q) /\ p \in {"index", "commit"} /\ (p = "index" <=> left # {})
    BY <1>1
  <2>4. /\ next \in Req /\ Good(r, next)
        /\ next.todo = left /\ next.op = q.op /\ next.id = q.id /\ next.seen = q.seen
        /\ next.ask = q.ask /\ Indexed(next) = Indexed(q)
    <3> HIDE DEF left, p
    <3> QED BY <1>1, <2>2, <2>3, WritingIs
  <2> HIDE DEF next
  <2>8. user' = user /\ req'[r] = next
    BY <2>1, <2>4, StepIs DEF Go
  <2>5. Wrote(q)
    BY <1>1 DEF Wrote, Indexed
  <2>6. Entered(next) \subseteq Entered(q) \cup {c}
    BY <2>4, <2>5 DEF Entered
  <2>7. \A s \in Requests \ {r} : c \in Entered(req[s]) => req[s].ask[c] # q.ask[c]
    BY <1>3 DEF Blockers, Entered
  <2> QED BY <1>1, <1>2, <1>5, <2>4, <2>5, <2>6, <2>7, <2>8 DEF Enters
<1> QED BY <1>4, <1>5

\* The row is changed, and the locks are given back.
LEMMA CommitIs ==
  ASSUME TypeOK, NEW r \in Requests, Good(r, req[r]), RowThere(r), Commit(r)
  PROVE LET q == req[r]
        IN /\ q \in Req /\ q.pc = "commit" /\ q.id \in Ids
           /\ req'[r] = End(q, "ok") /\ req'[r] \in Req /\ Good(r, req'[r]) /\ req'[r].pc = "done"
           /\ user' \in [Ids -> Row \cup {NoRow}]
           /\ \A i \in Ids \ {q.id} : user'[i] = user[i]
           /\ q.op = "delete" => user'[q.id] = NoRow
           /\ q.op # "delete" /\ Changed(q) = {} => user' = user
           /\ q.op # "delete" /\ Changed(q) # {} => user'[q.id] = Written(q) /\ Written(q) \in Row
<1> DEFINE q == req[r]
           table == IF q.op = "delete" THEN [user EXCEPT ![q.id] = NoRow]
                    ELSE IF Changed(q) = {} THEN user
                    ELSE [user EXCEPT ![q.id] = Written(q)]
<1>1. q \in Req /\ q.pc = "commit" /\ q.id \in Ids
  BY DEF Commit, TypeOK, Good, Live
<1>2. Step(r, End(q, "ok"), table)
  BY DEF Commit
<1>3. End(q, "ok") \in Req /\ Good(r, End(q, "ok")) /\ End(q, "ok").pc = "done"
  BY <1>1, EndIs
<1>4. user' = table /\ req'[r] = End(q, "ok")
  <2> HIDE DEF q, table
  <2> QED BY <1>2, <1>3, StepIs
<1>5. q.op # "delete" /\ Changed(q) # {} => Written(q) \in Row
  <2> SUFFICES ASSUME q.op # "delete", Changed(q) # {} PROVE Written(q) \in Row
    OBVIOUS
  <2>1. Wrote(q)
    BY <1>1 DEF Wrote
  <2>2. q.seen # NoRow => user[q.id] # NoRow
    BY <2>1 DEF RowThere
  <2> HIDE DEF q
  <2> QED BY <1>1, <2>2, WrittenIs DEF TypeOK, q
<1>6. user \in [Ids -> Row \cup {NoRow}]
  BY DEF TypeOK
<1>7. /\ user' \in [Ids -> Row \cup {NoRow}]
      /\ \A i \in Ids \ {q.id} : user'[i] = user[i]
      /\ q.op = "delete" => user'[q.id] = NoRow
      /\ q.op # "delete" /\ Changed(q) = {} => user' = user
      /\ q.op # "delete" /\ Changed(q) # {} => user'[q.id] = Written(q)
  <2> HIDE DEF q
  <2> QED BY <1>1, <1>4, <1>5, <1>6
<1> QED BY <1>1, <1>3, <1>4, <1>5, <1>7

\* What Next may be, and who moves.
Act(r) == \/ Read(r) \/ Load(r) \/ CheckEmail(r) \/ CheckPhone(r) \/ Cascade(r) \/ Write(r)
          \/ Trigger(r) \/ Enter(r) \/ Commit(r) \/ Fail(r) \/ Victim(r)

\* One request moves; the others stay as they are.
LEMMA ActMoves ==
  ASSUME IInv, NEW r \in Requests, Act(r)
  PROVE /\ Quiet(r) \/ Begins(r) \/ Enters(r) \/ Commit(r)
        /\ req'[r] \in Req /\ Good(r, req'[r])
        /\ req' = [req EXCEPT ![r] = req'[r]]
        /\ TypeOK'
<1>1. TypeOK /\ Good(r, req[r]) /\ RowThere(r)
  BY DEF IInv
<1>2. Victim(r) => req[r].pc # "done"
  BY DEF Victim, OnCycle, Waiting, WaitsFor
<1>3. Quiet(r) \/ Begins(r) \/ Enters(r) \/ Commit(r)
  BY <1>1, <1>2, ReadQuiet, LoadQuiet, CheckEmailQuiet, CheckPhoneQuiet, CascadeQuiet, WriteBegins,
     TriggerEnters, EnterEnters, FailQuiet, VictimQuiet DEF Act
<1>4. req'[r] \in Req /\ Good(r, req'[r]) /\ user' \in [Ids -> Row \cup {NoRow}]
  <2>1. CASE Commit(r)
    BY <1>1, <2>1, CommitIs
  <2>2. CASE Quiet(r) \/ Begins(r) \/ Enters(r)
    BY <1>1, <2>2 DEF Quiet, Begins, Enters, TypeOK
  <2> QED BY <1>3, <2>1, <2>2
<1>5. \E q, table : Step(r, q, table)
  BY DEF Act, Read, Load, CheckEmail, CheckPhone, Cascade, Write, Trigger, Enter, Commit, Fail,
         Victim, Go
<1>6. PICK q, table : Step(r, q, table)
  BY <1>5
<1>7. req' = [req EXCEPT ![r] = q] /\ req'[r] = q
  BY <1>1, <1>6 DEF Step, TypeOK
<1>8. TypeOK'
  BY <1>1, <1>4, <1>6, <1>7, StepIs DEF TypeOK
<1> QED BY <1>3, <1>4, <1>7, <1>8

\* A stutter changes nothing.
LEMMA NextIs == ASSUME [Next]_vars PROVE (\E r \in Requests : Act(r)) \/ UNCHANGED vars
  BY DEF Next, Act, Finished

-----------------------------------------------------------------------------
(***************************************************************************)
(* The invariant                                                           *)
(***************************************************************************)

LEMMA InvInit == Init => IInv
<1> SUFFICES ASSUME Init PROVE IInv
  OBVIOUS
<1>1. Idle \in Req
  BY SmallAsks DEF Idle, Req
<1>2. TypeOK
  BY <1>1, RowsAssumption DEF Init, TypeOK, Ids
<1>3. \A r \in Requests : req[r] = Idle
  BY DEF Init
<1>4. ASSUME NEW r \in Requests PROVE Good(r, req[r]) /\ ~Wrote(req[r]) /\ Entered(req[r]) = {}
  BY <1>3 DEF Idle, Good, Live, Wrote, Entered
<1>5. \A r \in Requests : user[r] = NoRow
  BY NamesAssumption DEF Init, Ids
<1>6. IdentitiesUnique
  <2> SUFFICES ASSUME NEW i \in Ids, NEW j \in Ids, NEW c \in Unique,
                      i # j, user[i] # NoRow, user[j] # NoRow,
                      user[i][c] = user[j][c], user[i][c] # Null
               PROVE FALSE
    BY DEF IdentitiesUnique
  <2>1. i \in Users /\ j \in Users /\ user[i] = FirstRow[i] /\ user[j] = FirstRow[j]
    BY DEF Init
  <2> QED BY <2>1, RowsAssumption DEF Unique
<1> QED BY <1>2, <1>4, <1>5, <1>6 DEF IInv, RowThere, NotTaken, Unborn, Alone, NotBoth

\* Who has not moved: what depends on himself alone is kept.
LEMMA StillKept ==
  ASSUME IInv, NEW r \in Requests, Act(r), NEW s \in Requests, s # r
  PROVE req'[s] = req[s]
  BY ActMoves DEF IInv, TypeOK

\* Before a commit the table stays, and with it what is said of the others.
LEMMA TableKept ==
  ASSUME IInv, NEW r \in Requests, Act(r), user' = user, NEW s \in Requests, s # r
  PROVE RowThere(s)' /\ NotTaken(s)' /\ Unborn(s)'
  BY StillKept DEF IInv, RowThere, NotTaken, Unborn, Taken

\* Two others have nothing to do with it.
LEMMA PairsKept ==
  ASSUME IInv, NEW r \in Requests, Act(r), NEW s \in Requests \ {r}, NEW t \in Requests \ {r}
  PROVE Alone(s, t)' /\ NotBoth(s, t)'
  BY StillKept DEF IInv, Alone, NotBoth

\* A request that holds nothing is in nobody's way.
LEMMA NoneHeld ==
  ASSUME NEW r \in Requests, ~Wrote(req'[r]), NEW s \in Requests
  PROVE /\ RowThere(r)' /\ NotTaken(r)'
        /\ Alone(r, s)' /\ Alone(s, r)' /\ NotBoth(r, s)' /\ NotBoth(s, r)'
  BY DEF RowThere, NotTaken, Alone, NotBoth, Entered

\* What the step of r has to keep, for r and between r and each other one.
Kept(r) == /\ RowThere(r)' /\ NotTaken(r)' /\ Unborn(r)'
           /\ \A s \in Requests : /\ Alone(r, s)' /\ Alone(s, r)' /\ NotBoth(r, s)' /\ NotBoth(s, r)'
                                  /\ s # r => RowThere(s)' /\ NotTaken(s)' /\ Unborn(s)'
           /\ IdentitiesUnique'

LEMMA QuietKeeps == ASSUME IInv, NEW r \in Requests, Act(r), Quiet(r) PROVE Kept(r)
<1>1. user' = user /\ ~Wrote(req'[r]) /\ req[r].pc # "done"
  BY DEF Quiet
<1>2. Unborn(r)'
  BY <1>1 DEF IInv, Unborn
<1>3. IdentitiesUnique'
  BY <1>1 DEF IInv, IdentitiesUnique
<1> QED BY <1>1, <1>2, <1>3, NoneHeld, TableKept DEF Kept

LEMMA BeginsKeeps == ASSUME IInv, NEW r \in Requests, Act(r), Begins(r) PROVE Kept(r)
<1>1. /\ user' = user /\ req[r].pc # "done" /\ Entered(req'[r]) = {}
  BY DEF Begins
<1>2. Unborn(r)' /\ RowThere(r)' /\ NotTaken(r)' /\ IdentitiesUnique'
  BY <1>1 DEF IInv, Unborn, RowThere, NotTaken, Begins, IdentitiesUnique
<1>3. ASSUME NEW s \in Requests \ {r} PROVE Alone(r, s)' /\ Alone(s, r)'
  <2>1. req'[s] = req[s]
    BY <1>3, StillKept
  <2>2. SUFFICES ASSUME Wrote(req[s]), req[s].id = req'[r].id
                 PROVE /\ req'[r].op = "delete" \/ req'[r].seen = NoRow
                       /\ req[s].op = "delete" \/ req[s].seen = NoRow
    BY <2>1 DEF Alone
  <2>3. req'[r].op = "delete" /\ user[req[s].id] = NoRow
    BY <2>2 DEF Begins
  <2> QED BY <2>2, <2>3 DEF IInv, RowThere
<1>4. Alone(r, r)' /\ NotBoth(r, r)'
  BY DEF Alone, NotBoth
<1>5. \A s \in Requests : NotBoth(r, s)' /\ NotBoth(s, r)'
  BY <1>1 DEF NotBoth
<1> QED BY <1>1, <1>2, <1>3, <1>4, <1>5, TableKept DEF Kept

LEMMA EntersKeeps == ASSUME IInv, NEW r \in Requests, Act(r), Enters(r) PROVE Kept(r)
<1> DEFINE q == req[r]
<1>1. /\ user' = user /\ q.pc # "done" /\ Wrote(q)
      /\ req'[r].op = q.op /\ req'[r].id = q.id /\ req'[r].ask = q.ask /\ req'[r].seen = q.seen
  BY DEF Enters
<1>2. \/ Entered(req'[r]) = {}
      \/ \E c \in Unique :
           /\ Entered(req'[r]) \subseteq Entered(q) \cup {c}
           /\ ~Taken(user, q.id, c, q.ask[c])
           /\ \A s \in Requests \ {r} : c \in Entered(req[s]) => req[s].ask[c] # q.ask[c]
  BY DEF Enters
<1>3. /\ RowThere(r) /\ NotTaken(r) /\ Unborn(r) /\ IdentitiesUnique
      /\ \A s \in Requests : Alone(r, s) /\ Alone(s, r) /\ NotBoth(r, s) /\ NotBoth(s, r)
  BY DEF IInv
<1>4. Unborn(r)' /\ RowThere(r)' /\ IdentitiesUnique'
  BY <1>1, <1>3 DEF Unborn, RowThere, IdentitiesUnique
<1>5. NotTaken(r)'
  BY <1>1, <1>2, <1>3 DEF NotTaken, Taken
<1>6. ASSUME NEW s \in Requests \ {r}
      PROVE Alone(r, s)' /\ Alone(s, r)' /\ NotBoth(r, s)' /\ NotBoth(s, r)'
  <2>1. req'[s] = req[s]
    BY <1>6, StillKept
  <2>2. Alone(r, s)' /\ Alone(s, r)'
    BY <1>1, <1>3, <2>1 DEF Alone
  <2>3. NotBoth(r, s)' /\ NotBoth(s, r)'
    BY <1>1, <1>2, <1>3, <2>1 DEF NotBoth
  <2> QED BY <2>2, <2>3
<1>7. Alone(r, r)' /\ NotBoth(r, r)'
  BY DEF Alone, NotBoth
<1> QED BY <1>1, <1>4, <1>5, <1>6, <1>7, TableKept DEF Kept

\* What a commit puts into a column that is an identity is either in its index already, or
\* it was in the row before, or it is nothing.
LEMMA WrittenFrom ==
  ASSUME IInv, NEW r \in Requests, Commit(r), req[r].op # "delete", Changed(req[r]) # {},
         NEW c \in Unique
  PROVE \/ c \in Entered(req[r]) /\ Written(req[r])[c] = req[r].ask[c]
        \/ Written(req[r])[c] = Null
        \/ user[req[r].id] # NoRow /\ Written(req[r])[c] = user[req[r].id][c]
<1> DEFINE q == req[r]
<1>1. /\ q \in Req /\ q.pc = "commit" /\ q.todo = {} /\ Wrote(q)
      /\ Good(r, q) /\ RowThere(r) /\ c \in Column
  BY DEF Commit, IInv, TypeOK, Good, Wrote, Unique, Column
<1>2. CASE c \in Changed(q)
  <2>1. Written(q)[c] = q.ask[c]
    BY <1>1, <1>2 DEF Written
  <2>2. q.ask[c] # Null => c \in Entered(q)
    BY <1>1, <1>2 DEF Entered, Indexed
  <2> QED BY <2>1, <2>2
<1>3. CASE c \notin Changed(q) /\ q.seen = NoRow
  <2>1. {"email", "username"} \subseteq Changed(q)
    BY <1>1, <1>3 DEF Good, Live, Changed
  <2>2. c = "phone"
    BY <1>3, <2>1 DEF Unique
  <2> QED BY <1>1, <1>3, <2>2 DEF Written, Default
<1>4. CASE c \notin Changed(q) /\ q.seen # NoRow
  <2>1. user[q.id] # NoRow
    BY <1>1, <1>4 DEF RowThere
  <2> QED BY <1>1, <1>4, <2>1 DEF Written
<1> QED BY <1>2, <1>3, <1>4

LEMMA CommitKeeps == ASSUME IInv, NEW r \in Requests, Act(r), Commit(r) PROVE Kept(r)
<1> DEFINE q == req[r]
<1>1. /\ TypeOK /\ IdentitiesUnique
      /\ \A s \in Requests : RowThere(s) /\ NotTaken(s) /\ Unborn(s) /\ Good(s, req[s])
      /\ \A s, t \in Requests : Alone(s, t) /\ NotBoth(s, t)
  BY DEF IInv
<1>2. /\ q \in Req /\ q.pc = "commit" /\ q.id \in Ids
      /\ req'[r].pc = "done"
      /\ user' \in [Ids -> Row \cup {NoRow}]
      /\ \A i \in Ids \ {q.id} : user'[i] = user[i]
      /\ q.op = "delete" => user'[q.id] = NoRow
      /\ q.op # "delete" /\ Changed(q) = {} => user' = user
      /\ q.op # "delete" /\ Changed(q) # {} => user'[q.id] = Written(q) /\ Written(q) \in Row
  BY <1>1, CommitIs
<1>3. ~Wrote(req'[r]) /\ Unborn(r)'
  BY <1>2 DEF Wrote, Unborn
<1>4. q.op = "delete" \/ Changed(q) # {} => Wrote(q)
  BY <1>2 DEF Wrote
<1>5. q.seen = NoRow => q.id = r
  BY <1>1, <1>2 DEF Good, Live
<1>6. \A s \in Requests \ {r} : req'[s] = req[s]
  BY StillKept
<1>7. ASSUME NEW s \in Requests \ {r} PROVE RowThere(s)'
  <2> SUFFICES ASSUME Wrote(req[s]), req[s].seen # NoRow, req[s].op # "delete"
               PROVE user'[req[s].id] # NoRow
    BY <1>6 DEF RowThere
  <2>1. user[req[s].id] # NoRow /\ req[s].id \in Ids
    BY <1>1 DEF RowThere, Good, Live, Wrote
  <2>2. CASE req[s].id = q.id
    <3>1. q.op # "delete"
      BY <1>1, <1>4, <2>2 DEF Alone
    <3> QED BY <1>2, <2>1, <2>2, <3>1, NamesAssumption
  <2>3. CASE req[s].id # q.id
    BY <1>2, <2>1, <2>3
  <2> QED BY <2>2, <2>3
<1>8. ASSUME NEW s \in Requests \ {r} PROVE Unborn(s)'
  <2> SUFFICES ASSUME req[s].pc # "done" PROVE user'[s] = NoRow
    BY <1>6 DEF Unborn
  <2>1. user[s] = NoRow /\ s \in Ids
    BY <1>1 DEF Unborn, Ids
  <2>2. CASE s = q.id /\ q.op # "delete" /\ Changed(q) # {}
    <3>1. q.seen # NoRow /\ Wrote(q)
      BY <1>4, <1>5, <2>2
    <3> QED BY <1>1, <2>1, <2>2, <3>1 DEF RowThere
  <2> QED BY <1>2, <2>1, <2>2
<1>9. ASSUME NEW i \in Ids, NEW j \in Ids, i # j, user'[i] # NoRow, user'[j] # NoRow,
             NEW c \in Unique, user'[i][c] = user'[j][c], user'[i][c] # Null, i = q.id
      PROVE FALSE
  <2>1. user'[j] = user[j]
    BY <1>2, <1>9
  <2>2. CASE q.op # "delete" /\ Changed(q) # {}
    <3>1. user'[i] = Written(q)
      BY <1>2, <1>9, <2>2
    <3>2. CASE c \in Entered(q) /\ Written(q)[c] = q.ask[c]
      <4>1. ~Taken(user, q.id, c, q.ask[c])
        BY <1>1, <3>2 DEF NotTaken
      <4> QED BY <1>9, <2>1, <3>1, <3>2, <4>1 DEF Taken
    <3>3. CASE user[q.id] # NoRow /\ Written(q)[c] = user[q.id][c]
      BY <1>1, <1>9, <2>1, <3>1, <3>3 DEF IdentitiesUnique
    <3> QED BY <1>9, <2>2, <3>1, <3>2, <3>3, WrittenFrom
  <2>3. CASE q.op # "delete" /\ Changed(q) = {}
    BY <1>1, <1>2, <1>9, <2>3 DEF IdentitiesUnique
  <2> QED BY <1>2, <1>9, <2>2, <2>3
<1>10. IdentitiesUnique'
  <2> SUFFICES ASSUME NEW i \in Ids, NEW j \in Ids, NEW c \in Unique,
                      i # j, user'[i] # NoRow, user'[j] # NoRow,
                      user'[i][c] = user'[j][c], user'[i][c] # Null
               PROVE FALSE
    BY DEF IdentitiesUnique
  <2>1. CASE i = q.id
    BY <1>9, <2>1
  <2>2. CASE j = q.id
    BY <1>9, <2>2
  <2>3. CASE i # q.id /\ j # q.id
    BY <1>1, <1>2, <2>3 DEF IdentitiesUnique
  <2> QED BY <2>1, <2>2, <2>3
<1>11. ASSUME NEW s \in Requests \ {r} PROVE NotTaken(s)'
  <2> SUFFICES ASSUME NEW c \in Entered(req[s]), NEW j \in Ids, j # req[s].id,
                      user'[j] # NoRow, user'[j][c] = req[s].ask[c]
               PROVE FALSE
    BY <1>6 DEF NotTaken, Taken
  <2>1. /\ ~Taken(user, req[s].id, c, req[s].ask[c])
        /\ c \in Unique /\ req[s].ask[c] # Null
    BY <1>1 DEF NotTaken, Entered, Indexed
  <2>2. CASE j = q.id /\ q.op # "delete" /\ Changed(q) # {}
    <3>1. user'[j] = Written(q)
      BY <1>2, <2>2
    <3>2. CASE c \in Entered(q) /\ Written(q)[c] = q.ask[c]
      BY <1>1, <3>1, <3>2 DEF NotBoth
    <3>3. CASE user[q.id] # NoRow /\ Written(q)[c] = user[q.id][c]
      BY <2>1, <2>2, <3>1, <3>3 DEF Taken
    <3> QED BY <2>1, <2>2, <3>1, <3>2, <3>3, WrittenFrom
  <2>3. CASE user'[j] = user[j]
    BY <2>1, <2>3 DEF Taken
  <2> QED BY <1>2, <2>2, <2>3
<1> QED BY <1>3, <1>7, <1>8, <1>10, <1>11, NoneHeld DEF Kept

LEMMA InvStep == IInv /\ [Next]_vars => IInv'
<1> SUFFICES ASSUME IInv, [Next]_vars PROVE IInv'
  OBVIOUS
<1>1. CASE UNCHANGED vars
  BY <1>1 DEF vars, IInv, TypeOK, RowThere, NotTaken, Unborn, Alone, NotBoth, IdentitiesUnique,
     Entered, Taken
<1>2. ASSUME NEW r \in Requests, Act(r) PROVE IInv'
  <2>1. Kept(r)
    BY <1>2, ActMoves, QuietKeeps, BeginsKeeps, EntersKeeps, CommitKeeps
  <2>2. TypeOK' /\ \A s \in Requests : Good(s, req[s])'
    BY <1>2, ActMoves, StillKept DEF IInv
  <2>3. \A s, t \in Requests : Alone(s, t)' /\ NotBoth(s, t)'
    BY <1>2, <2>1, PairsKept DEF Kept
  <2> QED BY <2>1, <2>2, <2>3 DEF IInv, Kept
<1> QED BY <1>1, <1>2, NextIs

\* What each request has locked, brought into an index and read stays in accord with the table.
THEOREM Invariance == Spec => []IInv
  BY InvInit, InvStep, PTL DEF Spec

\* The table and the requests keep their types.
THEOREM TypeCorrect == Spec => []TypeOK
<1>1. IInv => TypeOK
  BY DEF IInv
<1> QED BY <1>1, Invariance, PTL

\* However many registrations and changes race, no two users share an identity.
THEOREM IdentitiesAreUnique == Spec => []IdentitiesUnique
<1>1. IInv => IdentitiesUnique
  BY DEF IInv
<1> QED BY <1>1, Invariance, PTL

-----------------------------------------------------------------------------
(***************************************************************************)
(* Changes                                                                 *)
(***************************************************************************)

\* A commit writes what was asked for and nothing else.
LEMMA CommitChanges ==
  ASSUME IInv, NEW r \in Requests, Commit(r),
         NEW i \in Ids, user[i] # NoRow, user'[i] # NoRow, NEW c \in Column, user'[i][c] # user[i][c]
  PROVE /\ req[r].pc = "commit" /\ req'[r].answer = "ok"
        /\ req[r].id = i /\ c \in DOMAIN req[r].ask
<1> DEFINE q == req[r]
<1>1. TypeOK /\ Good(r, q) /\ RowThere(r) /\ Unborn(r)
  BY DEF IInv
<1>2. /\ q \in Req /\ q.pc = "commit" /\ req'[r] = End(q, "ok")
      /\ \A j \in Ids \ {q.id} : user'[j] = user[j]
      /\ q.op = "delete" => user'[q.id] = NoRow
      /\ q.op # "delete" /\ Changed(q) = {} => user' = user
      /\ q.op # "delete" /\ Changed(q) # {} => user'[q.id] = Written(q)
  BY <1>1, CommitIs
<1>3. req'[r].answer = "ok"
  BY <1>2, EndIs
<1>4. q.id = i
  BY <1>2
<1>5. user'[i] = Written(q)
  BY <1>2, <1>4
<1>6. q.seen # NoRow
  BY <1>1, <1>2, <1>4 DEF Good, Live, Unborn
<1>7. c \in Changed(q)
  BY <1>5, <1>6, <1>4 DEF Written
<1> QED BY <1>2, <1>3, <1>4, <1>7, ChangedAsked

\* Whatever was committed to a row since a request read it, its commit changes only the
\* columns it asked to change.
THEOREM NoChangeIsLost == Spec => NoLostChange
<1> DEFINE Asked == \A i \in Ids : user[i] # NoRow /\ user'[i] # NoRow
              => \A c \in Column : user'[i][c] # user[i][c]
                   => \E r \in Requests : /\ req[r].pc = "commit" /\ req'[r].answer = "ok"
                                          /\ req[r].id = i /\ c \in DOMAIN req[r].ask
<1>1. IInv /\ [Next]_vars => [Asked]_vars
  <2> SUFFICES ASSUME IInv, [Next]_vars,
                      NEW i \in Ids, user[i] # NoRow, user'[i] # NoRow,
                      NEW c \in Column, user'[i][c] # user[i][c]
               PROVE \E r \in Requests : /\ req[r].pc = "commit" /\ req'[r].answer = "ok"
                                         /\ req[r].id = i /\ c \in DOMAIN req[r].ask
    OBVIOUS
  <2>1. user' # user
    OBVIOUS
  <2>2. PICK r \in Requests : Act(r)
    BY <2>1, NextIs DEF vars
  <2>3. Commit(r)
    BY <2>1, <2>2, ActMoves DEF Quiet, Begins, Enters
  <2> QED BY <2>3, CommitChanges
<1> QED BY <1>1, Invariance, PTL DEF Spec, NoLostChange

-----------------------------------------------------------------------------
(***************************************************************************)
(* Refusals                                                                *)
(***************************************************************************)

\* Nobody is answered before the end.
Unanswered(r) == req[r].pc # "done" => req[r].answer = "none"

\* A step that answers nobody, or not with an identity, or with a true one, or with one
\* that the text of the error made up.
Honest(r) == /\ req'[r].pc # "done" => req'[r].answer = "none"
             /\ \/ req'[r].answer \notin Unique
                \/ Misleading(req'[r])
                \/ user' = user /\ req'[r].answer \in Clashes(user, req'[r])

\* It is enough that the request is told something else, or told of an identity taken.
LEMMA EndHonest ==
  ASSUME TypeOK, NEW r \in Requests, NEW q \in Req,
         NEW a \in {"ok", "email", "phone", "username", "missing", "error", "victim"},
         Go(r, End(q, a)),
         \/ a \notin Unique
         \/ Misleading(End(q, a))
         \/ a \in DOMAIN q.ask /\ q.ask[a] # Null /\ Taken(user, q.id, a, q.ask[a])
  PROVE Honest(r)
<1>1. /\ End(q, a) \in Req /\ End(q, a).pc = "done" /\ End(q, a).answer = a
      /\ End(q, a).ask = q.ask /\ End(q, a).id = q.id
  BY EndIs
<1>2. user' = user /\ req'[r] = End(q, a)
  BY <1>1, StepIs DEF Go
<1> QED BY <1>1, <1>2 DEF Honest, Clashes

\* So is one that goes on.
LEMMA GoesHonest ==
  ASSUME TypeOK, NEW r \in Requests, NEW q \in Req, q.answer = "none", NEW next \in Req,
         next.answer = q.answer, Go(r, next)
  PROVE Honest(r)
<1>1. req'[r] = next
  BY StepIs DEF Go
<1> QED BY <1>1 DEF Honest, Unique

\* Going on means to change the place and what is left to do.
LEMMA GoesOn ==
  ASSUME NEW q \in Req,
         NEW p \in {"idle", "load", "email", "phone", "write", "index", "commit", "done"}
  PROVE /\ [q EXCEPT !.pc = p] \in Req /\ [q EXCEPT !.pc = p].answer = q.answer
        /\ AfterEmail(q) \in Req /\ AfterEmail(q).answer = q.answer
  BY DEF Req, AfterEmail

LEMMA WritingGoesOn ==
  ASSUME NEW q \in Req, NEW left \in SUBSET Column, NEW p \in {"index", "commit"}
  PROVE Writing(q, left, p) \in Req /\ Writing(q, left, p).answer = q.answer
  BY DEF Req, Writing

LEMMA ReadHonest == ASSUME IInv, NEW r \in Requests, Unanswered(r), Read(r) PROVE Honest(r)
<1>1. PICK m \in Menu :
        LET found == {i \in Ids : user[i] # NoRow /\ user[i].email = m.ask["email"]}
            new == Begun(m, r, m.ask, NoRow)
            old == Begun(m, m.id, m.ask, user[m.id])
        IN /\ req[r].pc = "idle"
           /\ \/ /\ m.op = "register"
                 /\ Go(r, IF found # {} THEN End(new, "email") ELSE AfterEmail(new))
              \/ /\ m.op = "promote" /\ found = {}
                 /\ Go(r, [new EXCEPT !.pc = "write"])
              \/ /\ m.op = "promote"
                 /\ \E i \in found :
                      Go(r, [Begun(m, i, [admin |-> TRUE], user[i]) EXCEPT !.pc = "write"])
              \/ /\ m.op \in {"update", "set_admin", "delete"} /\ user[m.id] = NoRow
                 /\ Go(r, End(old, "missing"))
              \/ /\ m.op \in {"update", "set_admin"} /\ user[m.id] # NoRow
                 /\ Go(r, [old EXCEPT !.pc = IF m.op = "update" THEN "load" ELSE "write"])
              \/ /\ m.op = "delete" /\ user[m.id] # NoRow
                 /\ \E next \in Before([old EXCEPT !.left = Related[m.id]]) : Go(r, next)
  BY DEF Read
<1> DEFINE found == {i \in Ids : user[i] # NoRow /\ user[i].email = m.ask["email"]}
           new == Begun(m, r, m.ask, NoRow)
           old == Begun(m, m.id, m.ask, user[m.id])
<1>2. /\ TypeOK /\ m.op \in Op /\ m.ask \in Ask /\ r \in Ids /\ user[r] = NoRow
  BY <1>1, MenuAssumption DEF Ids, IInv, Unborn
<1>3. \A i \in Ids, ask \in Ask, row \in Row \cup {NoRow} :
        Begun(m, i, ask, row) \in Req /\ Begun(m, i, ask, row).answer = "none"
  BY <1>2 DEF Begun, Idle, Req
<1>4. ASSUME m.op = "register", found # {}, Go(r, End(new, "email")) PROVE Honest(r)
  <2>1. new \in Req /\ new.ask = m.ask /\ new.id = r
    BY <1>2, BegunIs
  <2>2. "email" \in DOMAIN m.ask /\ m.ask["email"] # Null
    BY <1>4, MenuAssumption
  <2>3. Taken(user, r, "email", m.ask["email"])
    BY <1>2, <1>4 DEF Taken
  <2> HIDE DEF new
  <2> QED BY <1>2, <1>4, <2>1, <2>2, <2>3, EndHonest
<1>5. ASSUME Go(r, AfterEmail(new)) PROVE Honest(r)
  <2>1. new \in Req /\ new.answer = "none"
    BY <1>2, <1>3
  <2> HIDE DEF new
  <2>2. AfterEmail(new) \in Req /\ AfterEmail(new).answer = new.answer
    BY <2>1, GoesOn
  <2> QED BY <1>2, <1>5, <2>1, <2>2, GoesHonest
<1>6. ASSUME NEW q \in Req, q.answer = "none", NEW p \in {"load", "write"}, Go(r, [q EXCEPT !.pc = p])
      PROVE Honest(r)
  <2>1. [q EXCEPT !.pc = p] \in Req /\ [q EXCEPT !.pc = p].answer = q.answer
    BY <1>6, GoesOn
  <2> QED BY <1>2, <1>6, <2>1, GoesHonest
<1>7. ASSUME Go(r, [new EXCEPT !.pc = "write"]) PROVE Honest(r)
  <2>1. new \in Req /\ new.answer = "none"
    BY <1>2, <1>3
  <2> HIDE DEF new
  <2> QED BY <1>6, <1>7, <2>1
<1>8. ASSUME NEW i \in found, Go(r, [Begun(m, i, [admin |-> TRUE], user[i]) EXCEPT !.pc = "write"])
      PROVE Honest(r)
  <2> DEFINE ask == [admin |-> TRUE]
  <2>1. ask \in Ask /\ Go(r, [Begun(m, i, ask, user[i]) EXCEPT !.pc = "write"])
    BY <1>8, SmallAsks
  <2> HIDE DEF ask
  <2>2. Begun(m, i, ask, user[i]) \in Req /\ Begun(m, i, ask, user[i]).answer = "none"
    BY <1>2, <1>3, <2>1 DEF TypeOK
  <2> QED BY <1>6, <2>1, <2>2
<1>9. m.op \in {"update", "set_admin", "delete"} => old \in Req /\ old.answer = "none"
  <2>1. m.op \in {"update", "set_admin", "delete"} => m.id \in Ids /\ user[m.id] \in Row \cup {NoRow}
    BY <1>2, MenuAssumption DEF TypeOK, Ids
  <2> QED BY <1>2, <1>3, <2>1
<1>10. CASE m.op \in {"update", "set_admin", "delete"} /\ Go(r, End(old, "missing"))
  <2> HIDE DEF old
  <2> QED BY <1>2, <1>9, <1>10, EndHonest DEF Unique
<1>11. ASSUME m.op \in {"update", "set_admin"},
              Go(r, [old EXCEPT !.pc = IF m.op = "update" THEN "load" ELSE "write"])
       PROVE Honest(r)
  <2> DEFINE p == IF m.op = "update" THEN "load" ELSE "write"
  <2>1. p \in {"load", "write"} /\ Go(r, [old EXCEPT !.pc = p])
    BY <1>11
  <2> HIDE DEF old, p
  <2> QED BY <1>6, <1>9, <1>11, <2>1
<1>12. ASSUME m.op = "delete", NEW next \in Before([old EXCEPT !.left = Related[m.id]]), Go(r, next)
       PROVE Honest(r)
  <2> DEFINE all == [old EXCEPT !.left = Related[m.id]]
  <2>1. Related[m.id] \in SUBSET Things
    BY <1>12, MenuAssumption, RelatedAssumption
  <2>2. old \in Req /\ old.answer = "none"
    BY <1>9, <1>12
  <2>3. next \in Before(all)
    BY <1>12
  <2> HIDE DEF old
  <2>4. all \in Req /\ all.answer = "none"
    BY <2>1, <2>2 DEF Req
  <2> HIDE DEF all
  <2>5. next \in Req /\ next.answer = all.answer
    BY <2>3, <2>4, BeforeIs
  <2> QED BY <1>2, <1>12, <2>4, <2>5, GoesHonest
<1> QED BY <1>1, <1>4, <1>5, <1>7, <1>8, <1>10, <1>11, <1>12

\* Load, CheckEmail and CheckPhone refuse only what is taken.
LEMMA ChecksHonest ==
  ASSUME IInv, NEW r \in Requests, Unanswered(r), Load(r) \/ CheckEmail(r) \/ CheckPhone(r)
  PROVE Honest(r)
<1> DEFINE q == req[r]
<1>1. TypeOK /\ q \in Req /\ Good(r, q) /\ q.pc \in {"load", "email", "phone"} /\ q.answer = "none"
  BY DEF IInv, TypeOK, Load, CheckEmail, CheckPhone, Unanswered
<1>2. ASSUME NEW p \in {"email", "write"}, Go(r, [q EXCEPT !.pc = p]) PROVE Honest(r)
  <2>1. [q EXCEPT !.pc = p] \in Req /\ [q EXCEPT !.pc = p].answer = q.answer
    BY <1>1, GoesOn
  <2> HIDE DEF q
  <2> QED BY <1>1, <1>2, <2>1, GoesHonest
<1>3. ASSUME Go(r, AfterEmail(q)) PROVE Honest(r)
  <2>1. AfterEmail(q) \in Req /\ AfterEmail(q).answer = q.answer
    BY <1>1, GoesOn
  <2> HIDE DEF q
  <2> QED BY <1>1, <1>3, <2>1, GoesHonest
<1>4. ASSUME Go(r, End(q, "missing")) PROVE Honest(r)
  BY <1>1, <1>4, EndHonest DEF Unique
<1>5. CASE Load(r)
  BY <1>2, <1>3, <1>4, <1>5 DEF Load
<1>6. CASE CheckEmail(r)
  <2>1. "email" \in DOMAIN q.ask
    BY <1>1, <1>6 DEF CheckEmail, Good
  <2>2. CASE q.ask["email"] # Null /\ Taken(user, q.id, "email", q.ask["email"])
    <3>1. Go(r, End(q, "email"))
      BY <1>6, <2>2 DEF CheckEmail
    <3> QED BY <1>1, <2>1, <2>2, <3>1, EndHonest
  <2> QED BY <1>3, <1>6, <2>2 DEF CheckEmail
<1>7. CASE CheckPhone(r)
  <2>1. "phone" \in DOMAIN q.ask /\ q.ask["phone"] # Null
    BY <1>1, <1>7 DEF CheckPhone, Good
  <2>2. CASE Taken(user, q.id, "phone", q.ask["phone"])
    <3>1. Go(r, End(q, "phone"))
      BY <1>7, <2>2 DEF CheckPhone
    <3> QED BY <1>1, <2>1, <2>2, <3>1, EndHonest
  <2> QED BY <1>2, <1>7, <2>2 DEF CheckPhone
<1> QED BY <1>5, <1>6, <1>7

\* A deletion that goes on answers nobody.
LEMMA OnwardHonest ==
  ASSUME TypeOK, NEW r \in Requests, req[r].answer = "none", \E next \in Onward(req[r]) : Go(r, next)
  PROVE Honest(r)
<1>1. PICK next \in Onward(req[r]) : Go(r, next)
  OBVIOUS
<1>2. req[r] \in Req
  BY DEF TypeOK
<1>3. next \in Req /\ next.answer = req[r].answer
  BY <1>2, OnwardIs
<1> QED BY <1>1, <1>2, <1>3, GoesHonest

\* The flush refuses only a null, whose text misleads.
LEMMA WriteHonest == ASSUME IInv, NEW r \in Requests, Unanswered(r), Write(r) PROVE Honest(r)
<1> DEFINE q == req[r]
           nulls == {c \in Changed(q) \cap {"email", "username"} : q.ask[c] = Null}
<1>1. TypeOK /\ q \in Req /\ q.answer = "none"
  BY DEF IInv, TypeOK, Write, Unanswered
<1>2. ASSUME Go(r, [q EXCEPT !.pc = "commit"]) PROVE Honest(r)
  <2>1. [q EXCEPT !.pc = "commit"] \in Req /\ [q EXCEPT !.pc = "commit"].answer = q.answer
    BY <1>1, GoesOn
  <2> HIDE DEF q
  <2> QED BY <1>1, <1>2, <2>1, GoesHonest
<1>3. ASSUME Go(r, End(q, "error")) PROVE Honest(r)
  BY <1>1, <1>3, EndHonest DEF Unique
<1>4. ASSUME Go(r, Gone(q)) PROVE Honest(r)
  BY <1>2, <1>3, <1>4 DEF Gone
<1>5. ASSUME nulls # {}, Go(r, End(q, Refused(q, First(nulls)))) PROVE Honest(r)
  <2> DEFINE c == First(nulls)
             a == Refused(q, c)
  <2>1. nulls \in SUBSET Unique
    BY DEF Unique
  <2>2. c \in nulls /\ c \in Unique
    BY <1>5, <2>1, FirstIsOne
  <2>3. a \in {"email", "phone", "username", "error"}
    BY <2>2, RefusedIs
  <2>4. c \in DOMAIN q.ask /\ c \in {"email", "username"} /\ q.ask[c] = Null
    BY <1>1, <2>2, ChangedAsked
  <2> HIDE DEF a, c
  <2>5. End(q, a).ask = q.ask
    BY <1>1, <2>3, EndIs
  <2>6. Misleading(End(q, a))
    BY <2>4, <2>5 DEF Misleading
  <2>7. Go(r, End(q, a))
    BY <1>5 DEF a, c
  <2> QED BY <1>1, <2>3, <2>6, <2>7, EndHonest
<1>6. ASSUME Go(r, [q EXCEPT !.pc = "index", !.todo = Indexed(q)]) PROVE Honest(r)
  <2>1. [q EXCEPT !.pc = "index", !.todo = Indexed(q)] = Writing(q, Indexed(q), "index")
    BY <1>1 DEF Writing, Req
  <2>2. Indexed(q) \in SUBSET Column
    BY DEF Indexed, Unique, Column
  <2>3. Writing(q, Indexed(q), "index") \in Req /\ Writing(q, Indexed(q), "index").answer = q.answer
    BY <1>1, <2>2, WritingGoesOn
  <2>4. Go(r, Writing(q, Indexed(q), "index"))
    BY <1>6, <2>1
  <2> HIDE DEF q
  <2> QED BY <1>1, <2>3, <2>4, GoesHonest
<1>7. CASE \E next \in After(q) : Go(r, next)
  BY <1>1, <1>7, OnwardHonest DEF Onward
<1> QED BY <1>2, <1>4, <1>5, <1>6, <1>7 DEF Write

\* An index refuses only what is taken; if it is told as a username without being one, the
\* email spells it, for a phone number does not.
LEMMA EnterHonest == ASSUME IInv, NEW r \in Requests, Unanswered(r), Enter(r) PROVE Honest(r)
<1> DEFINE q == req[r]
           c == NextIndex(q)
           left == q.todo \ {c}
           p == IF left = {} THEN "commit" ELSE "index"
           a == Refused(q, c)
<1>1. /\ TypeOK /\ q \in Req /\ q.answer = "none"
      /\ q.todo # {} /\ q.todo \subseteq Indexed(q) /\ q.todo \subseteq Unique
  BY DEF IInv, TypeOK, Enter, Unanswered, Good, Indexed
<1>2. /\ c \in q.todo /\ c \in Unique /\ c \in DOMAIN q.ask
      /\ q.ask[c] # Null /\ q.ask[c] \in Values[c]
  <2>1. c \in q.todo
    BY <1>1, FirstIsOne DEF NextIndex
  <2> QED BY <1>1, <2>1, ChangedAsked DEF Indexed
<1>3. CASE Taken(user, q.id, c, q.ask[c])
  <2>1. Go(r, End(q, a))
    BY <1>3 DEF Enter
  <2>2. a \in {"email", "phone", "username", "error"}
    BY <1>2, RefusedIs
  <2>3. a = "error" \/ a = c \/ (a = "username" /\ q.ask[c] \in Spelled)
    BY <1>2 DEF Refused
  <2>4. ASSUME a = "username", a # c, q.ask[c] \in Spelled PROVE Misleading(End(q, a))
    <3>1. c # "phone"
      BY <1>2, <2>4, NamesAssumption DEF Values
    <3>2. c = "email"
      BY <1>2, <2>4, <3>1 DEF Unique
    <3> HIDE DEF a, c
    <3>3. End(q, a).ask = q.ask /\ End(q, a).answer = a
      BY <1>1, <2>2, EndIs
    <3> QED BY <1>2, <2>4, <3>2, <3>3 DEF Misleading
  <2> HIDE DEF a, c
  <2> QED BY <1>1, <1>2, <1>3, <2>1, <2>2, <2>3, <2>4, EndHonest DEF Unique
<1>4. CASE ~Taken(user, q.id, c, q.ask[c])
  <2>1. Go(r, Writing(q, left, p))
    BY <1>4 DEF Enter, Writing
  <2>2. left \in SUBSET Column /\ p \in {"index", "commit"}
    BY <1>1 DEF Unique, Column
  <2> HIDE DEF left, p, q
  <2>3. Writing(q, left, p) \in Req /\ Writing(q, left, p).answer = q.answer
    BY <1>1, <2>2, WritingGoesOn
  <2> QED BY <1>1, <2>1, <2>3, GoesHonest
<1> QED BY <1>3, <1>4

LEMMA ActHonest == ASSUME IInv, NEW r \in Requests, Unanswered(r), Act(r) PROVE Honest(r)
<1>1. TypeOK /\ req[r] \in Req
  BY DEF IInv, TypeOK
<1>2. CASE Commit(r)
  <2>1. Good(r, req[r]) /\ RowThere(r)
    BY DEF IInv
  <2>2. req'[r] = End(req[r], "ok")
    BY <1>1, <1>2, <2>1, CommitIs
  <2>3. req'[r].pc = "done" /\ req'[r].answer = "ok"
    BY <1>1, <2>2, EndIs
  <2> QED BY <2>3 DEF Honest, Unique
<1>3. CASE Fail(r) \/ Victim(r)
  <2>1. Go(r, End(req[r], "error")) \/ Go(r, End(req[r], "victim"))
    BY <1>3 DEF Fail, Victim
  <2> QED BY <1>1, <2>1, EndHonest DEF Unique
<1>4. CASE Cascade(r) \/ Trigger(r)
  <2>1. req[r].answer = "none" /\ \E next \in Onward(req[r]) : Go(r, next)
    BY <1>4 DEF Cascade, Trigger, Onward, Unanswered
  <2> QED BY <1>1, <2>1, OnwardHonest
<1> QED BY <1>2, <1>3, <1>4, ReadHonest, ChecksHonest, WriteHonest, EnterHonest DEF Act

\* What the table says now is remembered.
LEMMA ClashKept ==
  ASSUME IInv, NEW r \in Requests, Act(r)
  PROVE /\ \A s \in Requests : clash[s] \subseteq clash'[s]
        /\ req'[r].pc # "idle" /\ req[r].pc # "done" => Clashes(user', req'[r]) \subseteq clash'[r]
<1>1. PICK q, table : Step(r, q, table)
  BY DEF Act, Read, Load, CheckEmail, CheckPhone, Cascade, Write, Trigger, Enter, Commit, Fail,
         Victim, Go
<1> QED BY <1>1 DEF Step

Answered == RefusalIsTrue /\ \A r \in Requests : Unanswered(r)

LEMMA AnsweredStep == IInv /\ Answered /\ [Next]_vars => Answered'
<1> SUFFICES ASSUME IInv, Answered, [Next]_vars PROVE Answered'
  OBVIOUS
<1>1. CASE UNCHANGED vars
  BY <1>1 DEF vars, Answered, RefusalIsTrue, Unanswered
<1>2. ASSUME NEW r \in Requests, Act(r) PROVE Answered'
  <2>1. Honest(r)
    BY <1>2, ActHonest DEF Answered
  <2>2. \A s \in Requests \ {r} : req'[s] = req[s]
    BY <1>2, StillKept
  <2>3. req[r].pc # "done"
    BY <1>2 DEF Act, Read, Load, CheckEmail, CheckPhone, Cascade, Write, Trigger, Enter, Commit,
       Fail, Victim,
       OnCycle, Waiting, WaitsFor
  <2>4. ASSUME req'[r].answer \in Unique, ~Misleading(req'[r]) PROVE req'[r].answer \in clash'[r]
    <3>1. user' = user /\ req'[r].answer \in Clashes(user, req'[r])
      BY <2>1, <2>4 DEF Honest
    <3>2. req'[r].pc # "idle"
      BY <2>1, <2>4 DEF Honest, Unique
    <3> QED BY <1>2, <2>3, <3>1, <3>2, ClashKept
  <2>5. ASSUME NEW s \in Requests, req'[s].answer \in Unique, ~Misleading(req'[s])
        PROVE req'[s].answer \in clash'[s]
    BY <1>2, <2>2, <2>4, <2>5, ClashKept DEF Answered, RefusalIsTrue
  <2>6. \A s \in Requests : Unanswered(s)'
    BY <2>1, <2>2 DEF Answered, Unanswered, Honest
  <2> QED BY <2>5, <2>6 DEF Answered, RefusalIsTrue
<1> QED BY <1>1, <1>2, NextIs

\* However requests race, one that is refused for an identity is refused because somebody
\* else has had it since the request began.
THEOREM RefusalsAreTrue == Spec => []RefusalIsTrue
<1>1. Init => Answered
  BY DEF Init, Answered, RefusalIsTrue, Unanswered, Idle, Unique
<1>2. Answered => RefusalIsTrue
  BY DEF Answered
<1> QED BY <1>1, <1>2, AnsweredStep, Invariance, PTL DEF Spec

-----------------------------------------------------------------------------
(***************************************************************************)
(* Deadlocks                                                               *)
(***************************************************************************)

\* Where an index comes in the order in which all rows go through them.
Place == [email |-> 1, phone |-> 2, username |-> 3]

\* Only a change of one's profile brings an old row into an index.
Kind(q) == Live(q) /\ q.op # "update" => q.seen = NoRow \/ DOMAIN q.ask \subseteq {"admin"}

\* The indexes a request has passed come before those it has not.
InOrder(q) == q.pc = "index" => \A c \in Indexed(q) \ q.todo, d \in q.todo : Place[c] < Place[d]

Orderly == \A r \in Requests : Kind(req[r]) /\ InOrder(req[r])

LEMMA FirstIsLeast ==
  ASSUME NEW S \in SUBSET Unique, S # {}, NEW d \in S, d # First(S)
  PROVE Place[First(S)] < Place[d]
<1>1. /\ Indexes[1] = "email" /\ Indexes[2] = "phone" /\ Indexes[3] = "username"
      /\ Place["email"] = 1 /\ Place["phone"] = 2 /\ Place["username"] = 3
  BY DEF Indexes, Place
<1>2. First(S) \in {"email", "phone", "username"} /\ d \in {"email", "phone", "username"}
  BY FirstIsOne DEF Unique
<1>3. \E i, j \in 1 .. 3 : Indexes[i] = First(S) /\ Indexes[j] = d /\ i <= j
  BY SomeIsFirst DEF First
<1>4. PICK i \in 1 .. 3, j \in 1 .. 3 : Indexes[i] = First(S) /\ Indexes[j] = d /\ i <= j
  BY <1>3
<1>5. Place[Indexes[i]] = i /\ Place[Indexes[j]] = j
  BY <1>1
<1>6. i # j
  BY <1>4
<1> QED BY <1>4, <1>5, <1>6

LEMMA SameKind ==
  ASSUME NEW q, NEW next, Kind(q), Live(q), Same(q, next) PROVE Kind(next)
  BY DEF Kind, Same

\* Who has ended is of every kind.
LEMMA EndKind ==
  ASSUME NEW r \in Requests, NEW q \in Req,
         NEW a \in {"none", "ok", "email", "phone", "username", "missing", "error", "victim"}
  PROVE Kind(End(q, a))
<1>1. End(q, a).pc = "done"
  BY EndIs
<1> QED BY <1>1 DEF Kind, Live

LEMMA PcSame ==
  ASSUME NEW q \in Req, NEW p PROVE Same(q, [q EXCEPT !.pc = p]) /\ Same(q, AfterEmail(q))
  BY DEF Same, Req, AfterEmail

LEMMA BegunKind ==
  ASSUME NEW m \in Menu, NEW i \in Ids, NEW ask \in Ask, NEW row \in Row \cup {NoRow},
         row = NoRow \/ m.op = "update" \/ DOMAIN ask \subseteq {"admin"}, NEW p
  PROVE /\ Kind([Begun(m, i, ask, row) EXCEPT !.pc = p])
        /\ Kind(AfterEmail(Begun(m, i, ask, row)))
        /\ \A next : Same(Begun(m, i, ask, row), next) => Kind(next)
<1> DEFINE q == Begun(m, i, ask, row)
<1>1. q \in Req /\ q.op = m.op /\ q.ask = ask /\ q.seen = row
  <2>1. m.op \in Op
    BY MenuAssumption
  <2>2. q \in Req
    BY <2>1 DEF Begun, Idle, Req
  <2> QED BY <2>2 DEF Begun, Idle
<1> HIDE DEF q
<1>2. Same(q, [q EXCEPT !.pc = p]) /\ Same(q, AfterEmail(q))
  BY <1>1, PcSame
<1>3. ASSUME NEW next, Same(q, next) PROVE Kind(next)
  BY <1>1, <1>3 DEF Same, Kind
<1>4. Kind([q EXCEPT !.pc = p]) /\ Kind(AfterEmail(q))
  BY <1>2, <1>3
<1> QED BY <1>3, <1>4 DEF q

LEMMA ReadKind == ASSUME TypeOK, NEW r \in Requests, Read(r) PROVE Kind(req'[r])
<1>1. PICK m \in Menu :
        LET found == {i \in Ids : user[i] # NoRow /\ user[i].email = m.ask["email"]}
            new == Begun(m, r, m.ask, NoRow)
            old == Begun(m, m.id, m.ask, user[m.id])
        IN /\ req[r].pc = "idle"
           /\ \/ /\ m.op = "register"
                 /\ Go(r, IF found # {} THEN End(new, "email") ELSE AfterEmail(new))
              \/ /\ m.op = "promote" /\ found = {}
                 /\ Go(r, [new EXCEPT !.pc = "write"])
              \/ /\ m.op = "promote"
                 /\ \E i \in found :
                      Go(r, [Begun(m, i, [admin |-> TRUE], user[i]) EXCEPT !.pc = "write"])
              \/ /\ m.op \in {"update", "set_admin", "delete"} /\ user[m.id] = NoRow
                 /\ Go(r, End(old, "missing"))
              \/ /\ m.op \in {"update", "set_admin"} /\ user[m.id] # NoRow
                 /\ Go(r, [old EXCEPT !.pc = IF m.op = "update" THEN "load" ELSE "write"])
              \/ /\ m.op = "delete" /\ user[m.id] # NoRow
                 /\ \E next \in Before([old EXCEPT !.left = Related[m.id]]) : Go(r, next)
  BY DEF Read
<1> DEFINE found == {i \in Ids : user[i] # NoRow /\ user[i].email = m.ask["email"]}
           new == Begun(m, r, m.ask, NoRow)
           old == Begun(m, m.id, m.ask, user[m.id])
           p == IF m.op = "update" THEN "load" ELSE "write"
<1>2. /\ m.op \in Op /\ m.ask \in Ask /\ r \in Ids
      /\ \A q : Go(r, q) => req'[r] = q
  BY MenuAssumption DEF Ids, Go, Step, TypeOK
<1>3. ASSUME NEW i \in Ids, NEW ask \in Ask, NEW row \in Row \cup {NoRow} PROVE Begun(m, i, ask, row) \in Req
  BY <1>2 DEF Begun, Idle, Req
<1>4. Kind([new EXCEPT !.pc = "write"]) /\ Kind(AfterEmail(new)) /\ Kind(End(new, "email"))
  <2>1. Kind([new EXCEPT !.pc = "write"]) /\ Kind(AfterEmail(new))
    BY <1>2, BegunKind
  <2>2. new \in Req
    BY <1>2, <1>3
  <2> HIDE DEF new
  <2> QED BY <2>1, <2>2, EndKind
<1>5. ASSUME NEW i \in found PROVE Kind([Begun(m, i, [admin |-> TRUE], user[i]) EXCEPT !.pc = "write"])
  <2> DEFINE ask == [admin |-> TRUE]
  <2>1. ask \in Ask /\ DOMAIN ask = {"admin"}
    BY SmallAsks
  <2>2. i \in Ids /\ user[i] \in Row \cup {NoRow}
    BY DEF TypeOK
  <2> HIDE DEF ask
  <2>3. Kind([Begun(m, i, ask, user[i]) EXCEPT !.pc = "write"])
    BY <2>1, <2>2, BegunKind
  <2> QED BY <2>3 DEF ask
<1>6. ASSUME m.op \in {"update", "set_admin", "delete"}
      PROVE /\ Kind(End(old, "missing")) /\ Kind([old EXCEPT !.pc = p])
            /\ old \in Req /\ \A next : Same(old, next) => Kind(next)
  <2>1. m.id \in Ids /\ user[m.id] \in Row \cup {NoRow}
    BY <1>6, MenuAssumption DEF TypeOK, Ids
  <2>2. m.op = "update" \/ DOMAIN m.ask \subseteq {"admin"}
    <3>1. DOMAIN <<>> = {}
      OBVIOUS
    <3> QED BY <1>6, <3>1, MenuAssumption
  <2>3. Kind([old EXCEPT !.pc = p]) /\ \A next : Same(old, next) => Kind(next)
    BY <1>2, <2>1, <2>2, BegunKind
  <2>4. old \in Req
    BY <1>2, <1>3, <2>1
  <2> HIDE DEF old
  <2> QED BY <2>3, <2>4, EndKind
<1>7. CASE m.op = "register" /\ Go(r, IF found # {} THEN End(new, "email") ELSE AfterEmail(new))
  <2> HIDE DEF new, found
  <2> QED BY <1>2, <1>4, <1>7
<1>8. CASE Go(r, [new EXCEPT !.pc = "write"])
  BY <1>2, <1>4, <1>8
<1>9. CASE \E i \in found : Go(r, [Begun(m, i, [admin |-> TRUE], user[i]) EXCEPT !.pc = "write"])
  BY <1>2, <1>5, <1>9
<1>10. CASE m.op \in {"update", "set_admin", "delete"} /\ Go(r, End(old, "missing"))
  <2> HIDE DEF old
  <2> QED BY <1>2, <1>6, <1>10
<1>11. CASE m.op \in {"update", "set_admin"} /\ Go(r, [old EXCEPT !.pc = p])
  <2> HIDE DEF old, p
  <2> QED BY <1>2, <1>6, <1>11
<1>12. ASSUME m.op = "delete", NEW next \in Before([old EXCEPT !.left = Related[m.id]]), Go(r, next)
       PROVE Kind(req'[r])
  <2> DEFINE all == [old EXCEPT !.left = Related[m.id]]
  <2>1. Related[m.id] \in SUBSET Things
    BY <1>12, MenuAssumption, RelatedAssumption
  <2>2. next \in Before(all) /\ old \in Req /\ \A n : Same(old, n) => Kind(n)
    BY <1>6, <1>12
  <2> HIDE DEF old
  <2>3. all \in Req /\ Same(old, all)
    BY <2>1, <2>2 DEF Req, Same
  <2> HIDE DEF all
  <2>4. Same(all, next)
    BY <2>2, <2>3, BeforeIs
  <2>5. Same(old, next)
    BY <2>3, <2>4 DEF Same
  <2> QED BY <1>2, <1>12, <2>2, <2>5
<1> QED BY <1>1, <1>7, <1>8, <1>9, <1>10, <1>11, <1>12

\* The kind of a request does not change.
LEMMA ActKind == ASSUME IInv, NEW r \in Requests, Kind(req[r]), Act(r) PROVE Kind(req'[r])
<1> DEFINE q == req[r]
<1>1. TypeOK /\ q \in Req /\ \A n : Go(r, n) => req'[r] = n
  BY DEF IInv, TypeOK, Go, Step
<1>2. ASSUME Live(q), NEW p, Go(r, [q EXCEPT !.pc = p]) \/ Go(r, AfterEmail(q)) PROVE Kind(req'[r])
  <2>1. Same(q, [q EXCEPT !.pc = p]) /\ Same(q, AfterEmail(q))
    BY <1>1, PcSame
  <2> HIDE DEF q
  <2>2. Kind([q EXCEPT !.pc = p]) /\ Kind(AfterEmail(q))
    BY <1>2, <2>1, SameKind DEF q
  <2> QED BY <1>1, <1>2, <2>2
<1>3. ASSUME NEW a \in {"none", "ok", "email", "phone", "username", "missing", "error", "victim"},
             Go(r, End(q, a))
      PROVE Kind(req'[r])
  BY <1>1, <1>3, EndKind
<1>4. ASSUME Live(q), NEW left, NEW p, Go(r, Writing(q, left, p)) PROVE Kind(req'[r])
  <2>1. Same(q, Writing(q, left, p))
    BY <1>1 DEF Same, Writing, Req
  <2>2. Kind(Writing(q, left, p))
    BY <1>4, <2>1, SameKind
  <2> QED BY <1>1, <1>4, <2>2
<1>12. ASSUME Live(q), NEW next \in Onward(q), Go(r, next) PROVE Kind(req'[r])
  <2>1. Same(q, next)
    BY <1>1, OnwardIs
  <2>2. Kind(next)
    BY <1>12, <2>1, SameKind
  <2> QED BY <1>1, <1>12, <2>2
<1>5. CASE Read(r)
  BY <1>1, <1>5, ReadKind
<1>6. CASE Load(r)
  <2>1. Live(q)
    BY <1>6 DEF Load, Live
  <2>2. Go(r, End(q, "missing")) \/ Go(r, [q EXCEPT !.pc = "email"]) \/ Go(r, AfterEmail(q))
    BY <1>6 DEF Load
  <2> HIDE DEF q
  <2> QED BY <1>2, <1>3, <2>1, <2>2
<1>7. CASE CheckEmail(r) \/ CheckPhone(r)
  <2>1. Live(q)
    BY <1>7 DEF CheckEmail, CheckPhone, Live
  <2>2. \/ Go(r, End(q, "email")) \/ Go(r, AfterEmail(q))
        \/ Go(r, End(q, "phone")) \/ Go(r, [q EXCEPT !.pc = "write"])
    BY <1>7 DEF CheckEmail, CheckPhone
  <2> HIDE DEF q
  <2> QED BY <1>2, <1>3, <2>1, <2>2
<1>8. CASE Write(r)
  <2> DEFINE nulls == {c \in Changed(q) \cap {"email", "username"} : q.ask[c] = Null}
  <2>1. Live(q)
    BY <1>8 DEF Write, Live
  <2>2. nulls # {} => Refused(q, First(nulls)) \in {"email", "phone", "username", "error"}
    <3>1. nulls \in SUBSET Unique
      BY DEF Unique
    <3> QED BY <3>1, FirstIsOne, RefusedIs
  <2>3. \/ Go(r, [q EXCEPT !.pc = "commit"]) \/ Go(r, End(q, "error"))
        \/ nulls # {} /\ Go(r, End(q, Refused(q, First(nulls))))
        \/ Go(r, [q EXCEPT !.pc = "index", !.todo = Indexed(q)])
        \/ \E next \in After(q) : Go(r, next)
    BY <1>8 DEF Write, Gone
  <2>4. [q EXCEPT !.pc = "index", !.todo = Indexed(q)] = Writing(q, Indexed(q), "index")
    BY <1>1 DEF Writing, Req
  <2>5. ASSUME NEW next \in After(q), Go(r, next) PROVE Kind(req'[r])
    BY <1>12, <2>1, <2>5 DEF Onward
  <2> HIDE DEF q, nulls
  <2> QED BY <1>2, <1>3, <1>4, <2>1, <2>2, <2>3, <2>4, <2>5
<1>9. CASE Enter(r)
  <2> DEFINE c == NextIndex(q)
             left == q.todo \ {c}
             p == IF left = {} THEN "commit" ELSE "index"
  <2>1. Live(q) /\ q.todo # {} /\ q.todo \subseteq Unique
    BY <1>9 DEF Enter, Live, IInv, Good, Indexed
  <2>2. c \in Unique
    BY <2>1, FirstIsOne DEF NextIndex
  <2>3. Refused(q, c) \in {"email", "phone", "username", "error"}
    BY <2>2, RefusedIs
  <2>4. Go(r, End(q, Refused(q, c))) \/ Go(r, Writing(q, left, p))
    BY <1>9 DEF Enter, Writing
  <2> HIDE DEF q, c, left, p
  <2> QED BY <1>3, <1>4, <2>1, <2>3, <2>4
<1>10. CASE Commit(r)
  <2>1. req'[r] = End(q, "ok")
    BY <1>1, <1>10, CommitIs DEF IInv
  <2> QED BY <1>1, <2>1, EndKind
<1>11. CASE Fail(r) \/ Victim(r)
  <2>1. Go(r, End(q, "error")) \/ Go(r, End(q, "victim"))
    BY <1>11 DEF Fail, Victim
  <2> QED BY <1>3, <2>1
<1>13. CASE Cascade(r) \/ Trigger(r)
  <2>1. Live(q)
    BY <1>13 DEF Cascade, Trigger, Live
  <2>2. \E next \in Onward(q) : Go(r, next)
    BY <1>13 DEF Cascade, Trigger, Onward
  <2> HIDE DEF q
  <2> QED BY <1>12, <2>1, <2>2
<1> QED BY <1>5, <1>6, <1>7, <1>8, <1>9, <1>10, <1>11, <1>13 DEF Act

\* A request that enters an index enters the first of those it has left.
LEMMA EnterInOrder ==
  ASSUME IInv, NEW r \in Requests, InOrder(req[r]), Enter(r) PROVE InOrder(req'[r])
<1> DEFINE q == req[r]
           c == NextIndex(q)
           left == q.todo \ {c}
           p == IF left = {} THEN "commit" ELSE "index"
<1>1. /\ TypeOK /\ q \in Req /\ q.pc = "index"
      /\ q.todo # {} /\ q.todo \subseteq Indexed(q) /\ q.todo \in SUBSET Unique
      /\ \A n : Go(r, n) => req'[r] = n
  BY DEF IInv, TypeOK, Enter, Good, Indexed, Go, Step
<1>2. c \in q.todo /\ \A d \in left : Place[c] < Place[d]
  BY <1>1, FirstIsOne, FirstIsLeast DEF NextIndex
<1>3. CASE Taken(user, q.id, c, q.ask[c])
  <2>1. Go(r, End(q, Refused(q, c)))
    BY <1>3 DEF Enter
  <2>2. Refused(q, c) \in {"email", "phone", "username", "error"}
    BY <1>1, <1>2, RefusedIs
  <2>3. End(q, Refused(q, c)).pc = "done"
    BY <1>1, <2>2, EndIs
  <2>4. req'[r].pc = "done"
    BY <1>1, <2>1, <2>3
  <2> QED BY <2>4 DEF InOrder
<1>4. CASE ~Taken(user, q.id, c, q.ask[c])
  <2> DEFINE next == Writing(q, left, p)
  <2>1. req'[r] = next
    BY <1>1, <1>4 DEF Enter, Writing
  <2>2. next.todo = left /\ next.ask = q.ask /\ next.seen = q.seen
    BY <1>1 DEF Writing, Req
  <2> HIDE DEF next
  <2>3. Indexed(next) = Indexed(q)
    BY <2>2 DEF Indexed, Changed
  <2>4. ASSUME NEW b \in Indexed(q) \ left, NEW d \in left PROVE Place[b] < Place[d]
    <3>1. CASE b = c
      BY <1>2, <2>4, <3>1
    <3>2. CASE b # c
      <4>1. b \in Indexed(q) \ q.todo /\ d \in q.todo
        BY <2>4, <3>2
      <4> QED BY <1>1, <4>1 DEF InOrder
    <3> QED BY <3>1, <3>2
  <2>5. InOrder(next)
    BY <2>2, <2>3, <2>4 DEF InOrder
  <2> QED BY <2>1, <2>5
<1> QED BY <1>3, <1>4

\* Who is only about to take the first index has passed none.
LEMMA ActInOrder ==
  ASSUME IInv, NEW r \in Requests, InOrder(req[r]), Act(r) PROVE InOrder(req'[r])
<1>1. TypeOK /\ Good(r, req[r]) /\ RowThere(r) /\ Good(r, req'[r])
  BY ActMoves DEF IInv
<1>2. CASE Enter(r)
  BY <1>2, EnterInOrder
<1>3. CASE ~Enter(r)
  <2>1. Victim(r) => req[r].pc # "done"
    BY DEF Victim, OnCycle, Waiting, WaitsFor
  <2>2. Quiet(r) \/ Begins(r) \/ Trigger(r) \/ Commit(r)
    BY <1>1, <1>3, <2>1, ReadQuiet, LoadQuiet, CheckEmailQuiet, CheckPhoneQuiet, CascadeQuiet,
       WriteBegins, FailQuiet, VictimQuiet DEF Act
  <2>3. SUFFICES ASSUME req'[r].pc = "index" PROVE Indexed(req'[r]) \subseteq req'[r].todo
    BY DEF InOrder
  <2>4. Wrote(req'[r])
    BY <1>1, <2>3 DEF Good, Wrote, Indexed
  <2>5. Begins(r)
    <3>1. ASSUME Commit(r) PROVE req'[r].pc = "done"
      BY <1>1, <3>1, CommitIs
    <3>2. ASSUME Trigger(r) PROVE req'[r].pc # "index"
      <4>1. PICK next \in Onward(req[r]) : Go(r, next)
        BY <3>2 DEF Trigger, Onward
      <4>2. req[r] \in Req
        BY <1>1 DEF TypeOK
      <4>3. next.pc # "index" /\ next \in Req
        BY <4>2, OnwardIs
      <4>4. req'[r] = next
        BY <1>1, <4>1, <4>3, StepIs DEF Go
      <4> QED BY <4>3, <4>4
    <3> QED BY <2>2, <2>3, <2>4, <3>1, <3>2 DEF Quiet
  <2> QED BY <2>4, <2>5 DEF Begins, Entered
<1> QED BY <1>2, <1>3

LEMMA OrderlyStep == IInv /\ Orderly /\ [Next]_vars => Orderly'
<1> SUFFICES ASSUME IInv, Orderly, [Next]_vars PROVE Orderly'
  OBVIOUS
<1>1. CASE UNCHANGED vars
  BY <1>1 DEF vars, Orderly
<1>2. ASSUME NEW r \in Requests, Act(r) PROVE Orderly'
  <2>1. Kind(req'[r]) /\ InOrder(req'[r])
    BY <1>2, ActKind, ActInOrder DEF Orderly
  <2>2. \A s \in Requests \ {r} : req'[s] = req[s]
    BY <1>2, StillKept
  <2> QED BY <2>1, <2>2 DEF Orderly
<1> QED BY <1>1, <1>2, NextIs

\* Whom x waits for in the end.
Leads(x, y) == \A S \in SUBSET Requests : WaitsFor(x) \subseteq S /\ Reached(S) \subseteq S => y \in S

LEMMA WaitsLead == ASSUME NEW x, NEW y \in WaitsFor(x) PROVE y \in Requests /\ Leads(x, y)
  BY DEF WaitsFor, Blockers, Leads

LEMMA LeadsOn == ASSUME NEW x, NEW y, NEW z, Leads(x, y), Leads(y, z) PROVE Leads(x, z)
<1> SUFFICES ASSUME NEW S \in SUBSET Requests, WaitsFor(x) \subseteq S, Reached(S) \subseteq S
             PROVE z \in S
  BY DEF Leads
<1>1. y \in S
  BY DEF Leads
<1>2. WaitsFor(y) \subseteq S
  BY <1>1 DEF Reached
<1> QED BY <1>2 DEF Leads

\* Who waits in the end for somebody waits first for somebody.
LEMMA LeadsFirst ==
  ASSUME NEW x, NEW y \in Requests, Leads(x, y) PROVE \E z \in WaitsFor(x) : y = z \/ Leads(z, y)
<1> DEFINE S == {u \in Requests : \E z \in WaitsFor(x) : u = z \/ Leads(z, u)}
<1>1. WaitsFor(x) \subseteq S
  BY WaitsLead
<1>2. Reached(S) \subseteq S
  <2> SUFFICES ASSUME NEW u \in S, NEW v \in WaitsFor(u) PROVE v \in S
    BY DEF Reached
  <2>1. PICK z \in WaitsFor(x) : u = z \/ Leads(z, u)
    OBVIOUS
  <2>2. v \in Requests /\ Leads(u, v)
    BY WaitsLead
  <2>3. Leads(z, v)
    BY <2>1, <2>2, LeadsOn
  <2> QED BY <2>2, <2>3
<1>3. S \in SUBSET Requests
  OBVIOUS
<1>4. y \in S
  BY <1>1, <1>2, <1>3 DEF Leads
<1> QED BY <1>4

LEMMA CycleIs == ASSUME NEW r \in OnCycle PROVE r \in Requests /\ WaitsFor(r) # {} /\ Leads(r, r)
  BY DEF OnCycle, Waiting, Leads

\* Whoever is between two of a circle is in the circle.
LEMMA CycleHas ==
  ASSUME NEW r \in OnCycle, NEW s \in Requests, Leads(r, s), Leads(s, r) PROVE s \in OnCycle
<1>1. Leads(s, s)
  BY LeadsOn
<1>2. WaitsFor(s) # {}
  <2>1. WaitsFor(s) = {} => Reached({}) \subseteq {} /\ r \in {}
    BY DEF Leads, Reached
  <2> QED BY <2>1
<1> QED BY <1>1, <1>2 DEF OnCycle, Waiting, Leads

\* Who waits for himself waits for somebody who does, too, and for him.
LEMMA CycleGoesOn ==
  ASSUME NEW r \in OnCycle PROVE \E s \in OnCycle : s \in WaitsFor(r) /\ Leads(r, s) /\ Leads(s, r)
<1>1. r \in Requests /\ Leads(r, r)
  BY CycleIs
<1>2. PICK s \in WaitsFor(r) : r = s \/ Leads(s, r)
  BY <1>1, LeadsFirst
<1>3. s \in Requests /\ Leads(r, s) /\ Leads(s, r)
  BY <1>1, <1>2, WaitsLead
<1> QED BY <1>3, CycleHas

\* Whoever waits for himself and deletes nobody is at an index: nobody waits for one who has
\* written nothing, unless it is a deletion.
LEMMA CycleAtIndex ==
  ASSUME NEW r \in OnCycle, Good(r, req[r]), req[r].op # "delete" PROVE req[r].pc = "index"
<1> DEFINE S == {s \in Requests : Wrote(req[s]) \/ req[s].op = "delete"}
<1>1. r \in Requests /\ WaitsFor(r) # {} /\ Leads(r, r)
  BY CycleIs
<1>2. \A x : WaitsFor(x) \subseteq S
  BY DEF WaitsFor, Blockers, Held
<1>3. Reached(S) \subseteq S
  BY <1>2 DEF Reached
<1>4. S \in SUBSET Requests
  OBVIOUS
<1>5. r \in S
  BY <1>1, <1>2, <1>3, <1>4 DEF Leads
<1>6. req[r].pc \in {"index", "commit"}
  BY <1>5 DEF Wrote, Good
<1> QED BY <1>1, <1>6 DEF WaitsFor

\* If nobody in a deadlock changes a profile, whoever is at an index inserts a row.
Newcomer(r) == /\ req[r].pc = "index" /\ req[r].id = r /\ user[r] = NoRow
               /\ req[r].todo # {} /\ req[r].todo \in SUBSET Unique
               /\ NextIndex(req[r]) \in req[r].todo

LEMMA CycleInserts ==
  ASSUME IInv, Orderly, NEW r \in OnCycle, req[r].op # "delete",
         ~(req[r].op = "update" /\ req[r].pc = "index")
  PROVE Newcomer(r)
<1>1. /\ r \in Requests /\ Good(r, req[r]) /\ Unborn(r) /\ Kind(req[r]) /\ req[r] \in Req
  BY CycleIs DEF IInv, TypeOK, Orderly
<1>2. req[r].pc = "index" /\ req[r].op # "update"
  BY <1>1, CycleAtIndex
<1>3. req[r].todo # {} /\ req[r].todo \subseteq Indexed(req[r])
  BY <1>1, <1>2 DEF Good
<1>4. Indexed(req[r]) \subseteq DOMAIN req[r].ask \cap Unique
  BY <1>1, ChangedAsked
<1>5. req[r].seen = NoRow
  <2>1. ~(DOMAIN req[r].ask \subseteq {"admin"})
    BY <1>3, <1>4 DEF Unique
  <2> QED BY <1>1, <1>2, <2>1 DEF Kind, Live
<1>6. req[r].id = r /\ user[r] = NoRow
  BY <1>1, <1>2, <1>5 DEF Good, Live, Unborn
<1>7. req[r].todo \in SUBSET Unique
  BY <1>3, <1>4
<1>8. NextIndex(req[r]) \in req[r].todo
  BY <1>3, <1>7, FirstIsOne DEF NextIndex
<1> QED BY <1>2, <1>3, <1>6, <1>7, <1>8 DEF Newcomer

\* A deletion waits for deletions and for those who write its row, never for a newcomer.
LEMMA DeletionsWait ==
  ASSUME IInv, NEW d \in Requests, req[d].op = "delete", NEW s \in WaitsFor(d), Newcomer(s)
  PROVE req[s].op = "delete"
<1>1. Good(d, req[d]) /\ req[d] \in Req /\ s \in Requests /\ req[d].pc \notin {"idle", "done"}
  BY WaitsLead DEF IInv, TypeOK, WaitsFor
<1>2. DOMAIN req[d].ask = {} /\ req[d].id \in Users
  BY <1>1 DEF Good, Live
<1>3. CASE req[d].pc = "write"
  BY <1>1, <1>2, <1>3, NamesAssumption DEF WaitsFor, Newcomer
<1>4. CASE req[d].pc = "index"
  <2>1. Indexed(req[d]) = {}
    BY <1>1, <1>2, ChangedAsked
  <2> QED BY <1>1, <1>4, <2>1 DEF Good
<1>5. CASE req[d].pc \in {"cascade", "trigger"}
  BY <1>5 DEF WaitsFor, Held
<1> QED BY <1>3, <1>4, <1>5 DEF WaitsFor

\* A newcomer on a circle waits for newcomers: behind a deletion there are only deletions.
LEMMA NoDeletionNext ==
  ASSUME IInv, \A x \in OnCycle : req[x].op # "delete" => Newcomer(x),
         NEW r \in OnCycle, req[r].op # "delete",
         NEW s \in Requests, Leads(r, s), Leads(s, r)
  PROVE req[s].op # "delete"
<1> SUFFICES ASSUME req[s].op = "delete" PROVE FALSE
  OBVIOUS
<1> DEFINE S == {y \in Requests : Leads(r, y) /\ (req[y].op = "delete" \/ ~Leads(y, r))}
<1>1. ASSUME NEW y \in S, NEW z \in WaitsFor(y) PROVE z \in S
  <2>1. z \in Requests /\ Leads(y, z) /\ Leads(r, z)
    BY WaitsLead, LeadsOn
  <2>2. SUFFICES ASSUME Leads(z, r) PROVE req[z].op = "delete"
    BY <2>1
  <2>3. Leads(y, r)
    BY <2>1, <2>2, LeadsOn
  <2>4. req[y].op = "delete" /\ z \in OnCycle
    BY <2>1, <2>2, <2>3, CycleHas
  <2> QED BY <2>4, DeletionsWait
<1>2. s \in S /\ S \in SUBSET Requests
  OBVIOUS
<1>3. WaitsFor(s) \subseteq S /\ Reached(S) \subseteq S
  BY <1>1, <1>2 DEF Reached
<1>4. r \in S
  <2> HIDE DEF S
  <2> QED BY <1>2, <1>3 DEF Leads
<1> QED BY <1>4, CycleIs

\* A deadlock of newcomers alone would have to go through the indexes in rising order for
\* ever, and there are three.
LEMMA DeadlockHasChange == ASSUME IInv, Orderly PROVE DeadlockNeedsChange
<1> DEFINE C == {r \in OnCycle : req[r].op # "delete"}
<1> SUFFICES ASSUME C # {}, \A r \in OnCycle : ~(req[r].op = "update" /\ req[r].pc = "index")
             PROVE FALSE
  BY DEF DeadlockNeedsChange
<1> DEFINE Next0(r) == NextIndex(req[r])
<1>1. \A r \in OnCycle : req[r].op # "delete" => Newcomer(r)
  BY CycleInserts
<1>2. ASSUME NEW r \in C PROVE \E s \in C : Place[Next0(r)] < Place[Next0(s)]
  <2>1. PICK s \in OnCycle : s \in WaitsFor(r) /\ Leads(r, s) /\ Leads(s, r)
    BY CycleGoesOn
  <2>2. s \in Requests /\ req[s].op # "delete"
    BY <1>1, <2>1, CycleIs, NoDeletionNext
  <2>3. Newcomer(r) /\ Newcomer(s)
    BY <1>1, <2>2
  <2>4. s \in Blockers(r, Next0(r))
    BY <2>1, <2>3 DEF WaitsFor, Newcomer
  <2>5. Next0(r) \in Indexed(req[s]) \ req[s].todo
    BY <2>3, <2>4 DEF Blockers, Newcomer
  <2>6. Next0(s) \in req[s].todo /\ req[s].pc = "index" /\ InOrder(req[s])
    BY <2>2, <2>3 DEF Orderly, Newcomer
  <2> QED BY <2>2, <2>5, <2>6 DEF InOrder
<1>3. \A r \in C : Place[Next0(r)] \in 1 .. 3
  <2>1. Place["email"] = 1 /\ Place["phone"] = 2 /\ Place["username"] = 3
    BY DEF Place
  <2>2. \A c \in Unique : Place[c] \in 1 .. 3
    BY <2>1 DEF Unique
  <2> QED BY <1>1, <2>2 DEF Newcomer
<1> HIDE DEF Next0, C
<1>4. \A r \in C : Place[Next0(r)] # 3
  BY <1>2, <1>3
<1>5. \A r \in C : Place[Next0(r)] # 2
  BY <1>2, <1>3, <1>4
<1>6. \A r \in C : Place[Next0(r)] # 1
  BY <1>2, <1>3, <1>4, <1>5
<1> QED BY <1>3, <1>4, <1>5, <1>6

\* However many requests there are, registrations, promotions and grants of rights never end up
\* waiting for each other, nor for deletions: a deadlock with anybody in it but deletions has
\* in it somebody who changes his profile.
THEOREM DeadlocksNeedChanges == Spec => []DeadlockNeedsChange
<1>1. Init => Orderly
  <2> SUFFICES ASSUME Init, NEW r \in Requests PROVE Kind(req[r]) /\ InOrder(req[r])
    BY DEF Orderly
  <2>1. req[r].pc = "idle"
    BY DEF Init, Idle
  <2> QED BY <2>1 DEF Kind, InOrder, Live
<1>2. IInv /\ Orderly => DeadlockNeedsChange
  BY DeadlockHasChange
<1> QED BY <1>1, <1>2, OrderlyStep, Invariance, PTL DEF Spec
=============================================================================
