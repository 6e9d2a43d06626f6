--------------------------- MODULE OrderLifecycle ---------------------------
(***************************************************************************)
(* Orders, proposals and their chats under concurrent HTTP requests.       *)
(*                                                                         *)
(* A request is one database transaction: session_getter commits it after  *)
(* the handler returns and rolls it back when the handler raises.  The     *)
(* transactions of several workers interleave at SQL statements, at the    *)
(* isolation level of the engine (READ COMMITTED): a statement sees what   *)
(* is committed when it runs, and a row that a transaction locked cannot   *)
(* be changed by another one until the first ends.  So the rows written by *)
(* a transaction are exactly the ones it holds, and its writes are applied *)
(* at its Commit action; a rollback only gives the rows back.              *)
(*                                                                         *)
(* Every value of req[r].pc names the SQL statement the request is at.     *)
(***************************************************************************)
EXTENDS Integers, FiniteSets

CONSTANTS Requests,      \* slots for requests in flight (uvicorn workers, coroutines)
          Users, Orders,
          NProposals,    \* bound: how many proposals are ever created
          Customer,      \* the customer_id of every order
          Admins,        \* users with is_admin
          MaxPerDay,     \* settings.max_proposals_per_day
          Endpoints,     \* the operations the clients of an instance call,
                         \* and "age" when proposals get older than a day
          Nobody, NoOrder

Proposals == 1 .. NProposals
NoProposal == 0

ASSUME NumbersAssumption == NProposals \in Nat /\ MaxPerDay \in Nat
ASSUME CustomerAssumption == Customer \in [Orders -> Users] /\ Admins \subseteq Users
ASSUME NobodyAssumption == Nobody \notin Requests \cup Users /\ NoOrder \notin Orders

VARIABLES order,      \* table "order"
          proposal,   \* table order_proposal
          chat,       \* table chat; chat[p] is the chat created with proposal p
          req,        \* the requests in flight
          owner,      \* which request locks a row (FOR UPDATE, UPDATE, DELETE)
          sharers     \* which requests hold FOR KEY SHARE on an order (FK check)

vars == <<order, proposal, chat, req, owner, sharers>>

-----------------------------------------------------------------------------
(***************************************************************************)
(* Tables and rows                                                         *)
(***************************************************************************)

OrderStatus == {"OPEN", "ASSIGNED", "CLOSED"}
ProposalStatus == {"PENDING", "ACCEPTED", "REJECTED"}

\* "terms" stands for the columns a PATCH may change.
Terms == {"posted", "edited"}

OrderRow == [status : OrderStatus \cup {"unborn", "deleted"},
             accepted : Proposals \cup {NoProposal},
             terms : Terms]

\* order and executor are kept after the row is deleted, because the chat row
\* has columns with the same values; recent is created_at >= now - 1 day.
ProposalRow == [status : ProposalStatus \cup {"unborn", "deleted"},
                order : Orders \cup {NoOrder},
                executor : Users \cup {Nobody},
                recent : BOOLEAN,
                terms : Terms]

\* linked is chat.proposal_id IS NOT NULL; the id it then holds is p.
ChatRow == [status : {"unborn", "active", "closed", "deleted"}, linked : BOOLEAN]

OrderExists(o) == o \in Orders /\ order[o].status \in OrderStatus
ProposalExists(p) == p \in Proposals /\ proposal[p].status \in ProposalStatus
ChatExists(p) == p \in Proposals /\ chat[p].status \in {"active", "closed"}

ProposalsOf(o) == {p \in Proposals : ProposalExists(p) /\ proposal[p].order = o}
ChatsOf(o) == {p \in Proposals : ChatExists(p) /\ proposal[p].order = o}

\* What can be locked.  The last kind is pg_advisory_xact_lock(executor_id).
OrderLock(o) == <<"order", o>>
ProposalLock(p) == <<"proposal", p>>
ChatLock(p) == <<"chat", p>>
ExecutorLock(u) == <<"executor", u>>

Rows == {OrderLock(o) : o \in Orders} \cup {ProposalLock(p) : p \in Proposals}
        \cup {ChatLock(p) : p \in Proposals} \cup {ExecutorLock(u) : u \in Users}

Operations == {"create_proposal", "accept_proposal", "close_order", "delete_order",
               "update_order", "update_proposal", "delete_proposal", "close_chat"}

Statements == {"idle", "read_order", "read_proposal", "read_chat", "lock_order",
               "check_duplicate", "lock_executor", "check_limit", "insert",
               "reject_pending", "close_chats", "unlink", "delete_chats",
               "delete_proposals", "delete_order", "cascade", "write_chat",
               "write_order", "write_proposal", "delete_proposal", "set_null",
               "commit"}

\* The statements each handler runs, in the order of the code.
Program(op) ==
  CASE op = "create_proposal" -> {"read_order", "check_duplicate", "lock_executor",
                                  "check_limit", "insert", "commit"}
    [] op = "accept_proposal" -> {"lock_order", "read_proposal", "reject_pending",
                                  "close_chats", "write_proposal", "commit"}
    [] op = "close_order" -> {"lock_order", "close_chats", "reject_pending", "commit"}
    [] op = "delete_order" -> {"read_order", "unlink", "delete_chats", "delete_proposals",
                               "delete_order", "cascade", "commit"}
    [] op = "update_order" -> {"read_order", "write_order", "commit"}
    [] op = "update_proposal" -> {"read_proposal", "read_order", "write_proposal", "commit"}
    [] op = "delete_proposal" -> {"read_proposal", "read_chat", "write_chat",
                                  "delete_proposal", "set_null", "commit"}
    [] op = "close_chat" -> {"read_chat", "read_proposal", "write_chat",
                             "delete_proposal", "set_null", "commit"}
    [] OTHER -> {"idle"}

Request == [op : Operations \cup {"idle"}, pc : Statements,
            user : Users \cup {Nobody}, order : Orders \cup {NoOrder},
            prop : Proposals \cup {NoProposal}]

Idle == [op |-> "idle", pc |-> "idle", user |-> Nobody, order |-> NoOrder,
         prop |-> NoProposal]

TypeOK == /\ order \in [Orders -> OrderRow]
          /\ proposal \in [Proposals -> ProposalRow]
          /\ chat \in [Proposals -> ChatRow]
          /\ req \in [Requests -> Request]
          /\ owner \in [Rows -> Requests \cup {Nobody}]
          /\ sharers \in [Orders -> SUBSET Requests]

Init == /\ order = [o \in Orders |->
                      [status |-> "unborn", accepted |-> NoProposal, terms |-> "posted"]]
        /\ proposal = [p \in Proposals |->
                         [status |-> "unborn", order |-> NoOrder, executor |-> Nobody,
                          recent |-> FALSE, terms |-> "posted"]]
        /\ chat = [p \in Proposals |-> [status |-> "unborn", linked |-> FALSE]]
        /\ req = [r \in Requests |-> Idle]
        /\ owner = [w \in Rows |-> Nobody]
        /\ sharers = [o \in Orders |-> {}]

-----------------------------------------------------------------------------
(***************************************************************************)
(* Row locks                                                               *)
(***************************************************************************)

Holds(r, w) == owner[w] = r

\* The rows the statement of r must lock.  A bulk UPDATE meets its rows in no
\* particular order; a row that stops matching while the statement waits for
\* it is skipped.
Targets(r) ==
  LET o == req[r].order
      p == req[r].prop
  IN CASE req[r].pc \in {"lock_order", "insert", "unlink", "write_order", "delete_order"} ->
            {OrderLock(x) : x \in {x \in Orders : x = o /\ OrderExists(x)}}
       [] req[r].pc = "lock_executor" -> {ExecutorLock(req[r].user)}
       [] req[r].pc = "reject_pending" ->
            {ProposalLock(q) : q \in {q \in ProposalsOf(o) \ {p} :
                                        proposal[q].status = "PENDING"}}
       [] req[r].pc = "close_chats" ->
            {ChatLock(q) : q \in {q \in ChatsOf(o) :
                                    chat[q].status = "active" /\ (chat[q].linked => q # p)}}
       [] req[r].pc = "delete_chats" -> {ChatLock(q) : q \in ChatsOf(o)}
       [] req[r].pc = "delete_proposals" -> {ProposalLock(q) : q \in ProposalsOf(o)}
       [] req[r].pc = "cascade" -> {ChatLock(q) : q \in ChatsOf(o)}
                                   \cup {ProposalLock(q) : q \in ProposalsOf(o)}
       [] req[r].pc = "write_chat" ->
            {ChatLock(q) : q \in {q \in Proposals : q = p /\ ChatExists(q)}}
       [] req[r].pc \in {"write_proposal", "delete_proposal"} ->
            {ProposalLock(q) : q \in {q \in Proposals : q = p /\ ProposalExists(q)}}
       [] req[r].pc = "set_null" ->
            \* ON DELETE SET NULL of order.accepted_proposal_id
            {OrderLock(x) : x \in {x \in Orders : /\ OrderExists(x)
                                                  /\ order[x].accepted = p
                                                  /\ Holds(r, ProposalLock(p))}}
       [] OTHER -> {}

\* An INSERT that references an order takes FOR KEY SHARE on it.
Sharing(r) == req[r].pc = "insert"

Needs(r) == IF Sharing(r) THEN {w \in Targets(r) : r \notin sharers[req[r].order]}
                          ELSE {w \in Targets(r) : ~Holds(r, w)}

\* UPDATE of plain columns (FOR NO KEY UPDATE) tolerates FOR KEY SHARE;
\* FOR UPDATE, DELETE and an UPDATE of a unique column do not.
NoKey(r) == req[r].op = "update_order"

Blockers(r, w) ==
  {s \in Requests \ {r} :
     \/ Holds(s, w) /\ ~(Sharing(r) /\ NoKey(s))
     \/ \E o \in Orders : /\ w = OrderLock(o)
                          /\ s \in sharers[o]
                          /\ ~Sharing(r)
                          /\ ~NoKey(r)}

\* The statement of r acquires one of its rows.
LockRow(r) ==
  \E w \in Needs(r) :
    /\ Blockers(r, w) = {}
    /\ IF Sharing(r)
       THEN /\ sharers' = [sharers EXCEPT ![req[r].order] = @ \cup {r}]
            /\ UNCHANGED owner
       ELSE /\ owner' = [owner EXCEPT ![w] = r]
            /\ UNCHANGED sharers
    /\ UNCHANGED <<order, proposal, chat, req>>

\* The statement pc of a request op has all its rows and returns.
Done(r, op, pc) == req[r].op = op /\ req[r].pc = pc /\ Needs(r) = {}

GoTo(r, pc) == /\ req' = [req EXCEPT ![r].pc = pc]
               /\ UNCHANGED <<order, proposal, chat, owner, sharers>>

\* End of the transaction: the locks are given back and the slot is free.
End(r) == /\ req' = [req EXCEPT ![r] = Idle]
          /\ owner' = [w \in Rows |-> IF Holds(r, w) THEN Nobody ELSE owner[w]]
          /\ sharers' = [o \in Orders |-> sharers[o] \ {r}]

\* Mutant of Rollback: a session that fails is not rolled back.
RollbackKeepsLocks(r) == /\ req' = [req EXCEPT ![r] = Idle]
                         /\ UNCHANGED <<owner, sharers, order, proposal, chat>>

\* The handler raised: nothing it wrote remains.
Rollback(r) == End(r) /\ UNCHANGED <<order, proposal, chat>>

\* The next statement if the checks of the handler pass, else an error.
Check(r, ok, pc) == IF ok THEN GoTo(r, pc) ELSE Rollback(r)

-----------------------------------------------------------------------------
(***************************************************************************)
(* Clients and time                                                        *)
(***************************************************************************)

\* POST /orders/: one INSERT that nothing can conflict with.
CreateOrder(o) ==
  /\ order[o].status = "unborn"
  /\ order' = [order EXCEPT ![o].status = "OPEN"]
  /\ UNCHANGED <<proposal, chat, req, owner, sharers>>

Unborn == {p \in Proposals : proposal[p].status = "unborn"}
Creating == {r \in Requests : req[r].op = "create_proposal"}

Arrive(r, op, pc, u, o, p) ==
  /\ op \in Endpoints
  /\ req[r] = Idle
  /\ req' = [req EXCEPT ![r] = [op |-> op, pc |-> pc, user |-> u, order |-> o, prop |-> p]]
  /\ UNCHANGED <<order, proposal, chat, owner, sharers>>

\* A request about an order, or about a proposal (or its chat), that a user
\* has seen.  NProposals bounds how many proposals are created.
ArriveOrderRequest(r) ==
  \E u \in Users, o \in Orders :
    /\ order[o].status # "unborn"
    /\ \/ /\ Cardinality(Creating) < Cardinality(Unborn)
          /\ Arrive(r, "create_proposal", "read_order", u, o, NoProposal)
       \/ Arrive(r, "close_order", "lock_order", u, o, NoProposal)
       \/ Arrive(r, "delete_order", "read_order", u, o, NoProposal)
       \/ Arrive(r, "update_order", "read_order", u, o, NoProposal)
       \/ \E p \in Proposals \ Unborn :
            Arrive(r, "accept_proposal", "lock_order", u, o, p)

ArriveProposalRequest(r) ==
  \E u \in Users, p \in Proposals \ Unborn :
    \/ Arrive(r, "update_proposal", "read_proposal", u, NoOrder, p)
    \/ Arrive(r, "delete_proposal", "read_proposal", u, NoOrder, p)
    \/ Arrive(r, "close_chat", "read_chat", u, NoOrder, p)

\* A day passes since a proposal was created; the oldest of an executor first.  Days after
\* which no proposal can follow are left out (bound).
Age(p) ==
  /\ "age" \in Endpoints
  /\ Unborn # {}
  /\ proposal[p].recent
  /\ \A q \in Proposals : /\ proposal[q].executor = proposal[p].executor
                          /\ q < p
                          => ~proposal[q].recent
  /\ proposal' = [proposal EXCEPT ![p].recent = FALSE]
  /\ UNCHANGED <<order, chat, req, owner, sharers>>

\* The owner of the order, or an administrator.
MayManage(u, o) == u = Customer[o] \/ u \in Admins
\* The author of the proposal, or an administrator.
MayEdit(u, p) == u = proposal[p].executor \/ u \in Admins

-----------------------------------------------------------------------------
(***************************************************************************)
(* POST /orders/{id}/proposals                                             *)
(***************************************************************************)

Recent(u) == {p \in Proposals : /\ ProposalExists(p)
                                /\ proposal[p].executor = u
                                /\ proposal[p].recent}

\* uq_order_proposal_order_executor
Duplicate(o, u) == \E p \in ProposalsOf(o) : proposal[p].executor = u

CreateReadOrder(r) ==
  /\ Done(r, "create_proposal", "read_order")
  /\ Check(r, /\ order[req[r].order].status = "OPEN"
              /\ Customer[req[r].order] # req[r].user, "check_duplicate")

CreateCheckDuplicate(r) ==
  /\ Done(r, "create_proposal", "check_duplicate")
  /\ Check(r, ~Duplicate(req[r].order, req[r].user), "lock_executor")

\* Mutant of CreateLockExecutor: no pg_advisory_xact_lock.
CreateWithoutLock(r) ==
  /\ req[r].op = "create_proposal" /\ req[r].pc = "lock_executor"
  /\ GoTo(r, "check_limit")

CreateLockExecutor(r) ==
  /\ Done(r, "create_proposal", "lock_executor")
  /\ GoTo(r, "check_limit")

CreateCheckLimit(r) ==
  /\ Done(r, "create_proposal", "check_limit")
  /\ Check(r, Cardinality(Recent(req[r].user)) < MaxPerDay, "insert")

\* Mutant of CreateInsert: no unique constraint on order and executor.
CreateAnother(r) ==
  /\ Done(r, "create_proposal", "insert")
  /\ Check(r, OrderExists(req[r].order), "commit")

\* The INSERT fails on the foreign key or on the unique constraint; there is
\* no second look at the status of the order.
CreateInsert(r) ==
  /\ Done(r, "create_proposal", "insert")
  /\ Check(r, OrderExists(req[r].order) /\ ~Duplicate(req[r].order, req[r].user), "commit")

\* The proposal and its chat appear together.
CreateCommit(r) ==
  /\ Done(r, "create_proposal", "commit")
  /\ \E p \in Unborn :
       /\ \A q \in Unborn : p <= q
       /\ proposal' = [proposal EXCEPT ![p] =
                         [status |-> "PENDING", order |-> req[r].order,
                          executor |-> req[r].user, recent |-> TRUE, terms |-> "posted"]]
       /\ chat' = [chat EXCEPT ![p] = [status |-> "active", linked |-> TRUE]]
  /\ UNCHANGED order
  /\ End(r)

CreateProposal(r) == \/ CreateReadOrder(r) \/ CreateCheckDuplicate(r)
                     \/ CreateLockExecutor(r) \/ CreateCheckLimit(r)
                     \/ CreateInsert(r) \/ CreateCommit(r)

-----------------------------------------------------------------------------
(***************************************************************************)
(* POST /orders/{id}/proposals/{proposal_id}/accept                        *)
(***************************************************************************)

\* Mutant of AcceptLockOrder: SELECT without FOR UPDATE.
AcceptWithoutLock(r) ==
  /\ req[r].op = "accept_proposal" /\ req[r].pc = "lock_order"
  /\ Check(r, /\ order[req[r].order].status = "OPEN"
              /\ MayManage(req[r].user, req[r].order), "read_proposal")

\* Mutant of AcceptLockOrder: the status of the order is not looked at.
AcceptAnyOrder(r) ==
  /\ Done(r, "accept_proposal", "lock_order")
  /\ Check(r, /\ OrderExists(req[r].order)
              /\ MayManage(req[r].user, req[r].order), "read_proposal")

\* The row is read as it is once it is locked.
AcceptLockOrder(r) ==
  /\ Done(r, "accept_proposal", "lock_order")
  /\ Check(r, /\ order[req[r].order].status = "OPEN"
              /\ MayManage(req[r].user, req[r].order), "read_proposal")

AcceptReadProposal(r) ==
  /\ Done(r, "accept_proposal", "read_proposal")
  /\ Check(r, /\ req[r].prop \in ProposalsOf(req[r].order)
              /\ proposal[req[r].prop].status = "PENDING", "reject_pending")

AcceptRejectOthers(r) ==
  /\ Done(r, "accept_proposal", "reject_pending")
  /\ GoTo(r, "close_chats")

AcceptCloseOtherChats(r) ==
  /\ Done(r, "accept_proposal", "close_chats")
  /\ GoTo(r, "write_proposal")

\* The flush fails on the foreign key accepted_proposal_id when the proposal
\* has been withdrawn meanwhile.
AcceptFlush(r) ==
  /\ Done(r, "accept_proposal", "write_proposal")
  /\ Check(r, ProposalExists(req[r].prop), "commit")

\* The proposals and chats a deciding transaction holds, p excepted, are the
\* ones its bulk UPDATEs rejected and closed.
RejectHeld(r, p, q) ==
  IF Holds(r, ProposalLock(q)) /\ q # p THEN [proposal[q] EXCEPT !.status = "REJECTED"]
                                        ELSE proposal[q]
CloseHeld(r, q) ==
  IF Holds(r, ChatLock(q)) THEN [chat[q] EXCEPT !.status = "closed"] ELSE chat[q]

\* Mutant of AcceptCommit: the chat of the chosen executor is closed too.
AcceptClosesAllChats(r) ==
  LET o == req[r].order
      p == req[r].prop
  IN /\ Done(r, "accept_proposal", "commit")
     /\ order' = [order EXCEPT ![o].status = "ASSIGNED", ![o].accepted = p]
     /\ proposal' = [q \in Proposals |->
                       IF q = p THEN [proposal[q] EXCEPT !.status = "ACCEPTED"]
                                ELSE RejectHeld(r, p, q)]
     /\ chat' = [q \in Proposals |-> IF q \in ChatsOf(o)
                                     THEN [chat[q] EXCEPT !.status = "closed"] ELSE chat[q]]
     /\ End(r)

AcceptCommit(r) ==
  LET o == req[r].order
      p == req[r].prop
  IN /\ Done(r, "accept_proposal", "commit")
     /\ order' = [order EXCEPT ![o].status = "ASSIGNED", ![o].accepted = p]
     /\ proposal' = [q \in Proposals |->
                       IF q = p THEN [proposal[q] EXCEPT !.status = "ACCEPTED"]
                                ELSE RejectHeld(r, p, q)]
     /\ chat' = [q \in Proposals |-> CloseHeld(r, q)]
     /\ End(r)

AcceptProposal(r) == \/ AcceptLockOrder(r) \/ AcceptReadProposal(r)
                     \/ AcceptRejectOthers(r) \/ AcceptCloseOtherChats(r)
                     \/ AcceptFlush(r) \/ AcceptCommit(r)

-----------------------------------------------------------------------------
(***************************************************************************)
(* POST /orders/{id}/close                                                 *)
(***************************************************************************)

\* Mutant of CloseLockOrder: SELECT without FOR UPDATE.
CloseWithoutLock(r) ==
  /\ req[r].op = "close_order" /\ req[r].pc = "lock_order"
  /\ Check(r, /\ order[req[r].order].status \in {"OPEN", "ASSIGNED"}
              /\ MayManage(req[r].user, req[r].order), "close_chats")

CloseLockOrder(r) ==
  /\ Done(r, "close_order", "lock_order")
  /\ Check(r, /\ order[req[r].order].status \in {"OPEN", "ASSIGNED"}
              /\ MayManage(req[r].user, req[r].order), "close_chats")

CloseOrderChats(r) ==
  /\ Done(r, "close_order", "close_chats")
  /\ GoTo(r, "reject_pending")

CloseRejectPending(r) ==
  /\ Done(r, "close_order", "reject_pending")
  /\ GoTo(r, "commit")

\* Mutant of CloseCommit: every proposal is rejected, decided or not.
CloseRejectsAll(r) ==
  LET o == req[r].order
  IN /\ Done(r, "close_order", "commit")
     /\ order' = [order EXCEPT ![o].status = "CLOSED", ![o].accepted = NoProposal]
     /\ proposal' = [q \in Proposals |-> IF q \in ProposalsOf(o)
                                         THEN [proposal[q] EXCEPT !.status = "REJECTED"]
                                         ELSE proposal[q]]
     /\ chat' = [q \in Proposals |-> CloseHeld(r, q)]
     /\ End(r)

\* Mutant of CloseCommit: the status of the order is not set.
CloseKeepsStatus(r) ==
  /\ Done(r, "close_order", "commit")
  /\ proposal' = [q \in Proposals |-> RejectHeld(r, NoProposal, q)]
  /\ chat' = [q \in Proposals |-> CloseHeld(r, q)]
  /\ UNCHANGED order
  /\ End(r)

CloseCommit(r) ==
  /\ Done(r, "close_order", "commit")
  /\ order' = [order EXCEPT ![req[r].order].status = "CLOSED"]
  /\ proposal' = [q \in Proposals |-> RejectHeld(r, NoProposal, q)]
  /\ chat' = [q \in Proposals |-> CloseHeld(r, q)]
  /\ End(r)

CloseOrder(r) == CloseLockOrder(r) \/ CloseOrderChats(r) \/ CloseRejectPending(r) \/ CloseCommit(r)

-----------------------------------------------------------------------------
(***************************************************************************)
(* PATCH /orders/{id} and DELETE /orders/{id}: the order is read unlocked. *)
(***************************************************************************)

UpdateOrderRead(r) ==
  /\ Done(r, "update_order", "read_order")
  /\ Check(r, /\ order[req[r].order].status = "OPEN"
              /\ MayManage(req[r].user, req[r].order), "write_order")

\* UPDATE of a row that is gone: StaleDataError.
UpdateOrderWrite(r) ==
  /\ Done(r, "update_order", "write_order")
  /\ Check(r, OrderExists(req[r].order), "commit")

UpdateOrderCommit(r) ==
  /\ Done(r, "update_order", "commit")
  /\ order' = [order EXCEPT ![req[r].order].terms = "edited"]
  /\ UNCHANGED <<proposal, chat>>
  /\ End(r)

UpdateOrder(r) == UpdateOrderRead(r) \/ UpdateOrderWrite(r) \/ UpdateOrderCommit(r)

\* With post_update the reference to an accepted proposal is cleared first.
DeleteOrderRead(r) ==
  LET o == req[r].order
  IN /\ Done(r, "delete_order", "read_order")
     /\ Check(r, /\ OrderExists(o)
                 /\ order[o].status # "ASSIGNED"
                 /\ MayManage(req[r].user, o),
              IF order[o].accepted = NoProposal THEN "delete_chats" ELSE "unlink")

DeleteOrderUnlink(r) ==
  /\ Done(r, "delete_order", "unlink")
  /\ Check(r, OrderExists(req[r].order), "delete_chats")

DeleteOrderChats(r) ==
  /\ Done(r, "delete_order", "delete_chats")
  /\ GoTo(r, "delete_proposals")

DeleteOrderProposals(r) ==
  /\ Done(r, "delete_order", "delete_proposals")
  /\ GoTo(r, "delete_order")

DeleteOrderRow(r) ==
  /\ Done(r, "delete_order", "delete_order")
  /\ GoTo(r, "cascade")

\* ON DELETE CASCADE takes what was created after the session loaded the order.
DeleteOrderCascade(r) ==
  /\ Done(r, "delete_order", "cascade")
  /\ GoTo(r, "commit")

DeleteOrderCommit(r) ==
  LET o == req[r].order
  IN /\ Done(r, "delete_order", "commit")
     /\ order' = IF OrderExists(o)
                 THEN [order EXCEPT ![o].status = "deleted", ![o].accepted = NoProposal]
                 ELSE order
     /\ proposal' = [q \in Proposals |->
                       IF Holds(r, ProposalLock(q))
                       THEN [proposal[q] EXCEPT !.status = "deleted"] ELSE proposal[q]]
     /\ chat' = [q \in Proposals |->
                   IF Holds(r, ChatLock(q))
                   THEN [status |-> "deleted", linked |-> FALSE] ELSE chat[q]]
     /\ End(r)

DeleteOrder(r) == \/ DeleteOrderRead(r) \/ DeleteOrderUnlink(r)
                  \/ DeleteOrderChats(r) \/ DeleteOrderProposals(r)
                  \/ DeleteOrderRow(r) \/ DeleteOrderCascade(r)
                  \/ DeleteOrderCommit(r)

-----------------------------------------------------------------------------
(***************************************************************************)
(* PATCH and DELETE /orders/proposals/{id}, POST /chats/{id}/close         *)
(***************************************************************************)

\* selectinload reads the order in a statement of its own.
UpdateProposalRead(r) ==
  /\ Done(r, "update_proposal", "read_proposal")
  /\ Check(r, /\ ProposalExists(req[r].prop)
              /\ MayEdit(req[r].user, req[r].prop)
              /\ proposal[req[r].prop].status = "PENDING", "read_order")

UpdateProposalReadOrder(r) ==
  /\ Done(r, "update_proposal", "read_order")
  /\ Check(r, order[proposal[req[r].prop].order].status = "OPEN", "write_proposal")

UpdateProposalWrite(r) ==
  /\ Done(r, "update_proposal", "write_proposal")
  /\ Check(r, ProposalExists(req[r].prop), "commit")

\* Mutant of UpdateProposalCommit: the edited proposal is pending again.
UpdateResetsStatus(r) ==
  /\ Done(r, "update_proposal", "commit")
  /\ proposal' = [proposal EXCEPT ![req[r].prop].terms = "edited",
                                  ![req[r].prop].status = "PENDING"]
  /\ UNCHANGED <<order, chat>>
  /\ End(r)

UpdateProposalCommit(r) ==
  /\ Done(r, "update_proposal", "commit")
  /\ proposal' = [proposal EXCEPT ![req[r].prop].terms = "edited"]
  /\ UNCHANGED <<order, chat>>
  /\ End(r)

UpdateProposal(r) == \/ UpdateProposalRead(r) \/ UpdateProposalReadOrder(r)
                     \/ UpdateProposalWrite(r) \/ UpdateProposalCommit(r)

DeleteProposalRead(r) ==
  /\ Done(r, "delete_proposal", "read_proposal")
  /\ Check(r, /\ ProposalExists(req[r].prop)
              /\ MayEdit(req[r].user, req[r].prop)
              /\ proposal[req[r].prop].status = "PENDING", "read_chat")

\* Without a linked chat there is none to close.
DeleteProposalReadChat(r) ==
  /\ Done(r, "delete_proposal", "read_chat")
  /\ GoTo(r, IF ChatExists(req[r].prop) /\ chat[req[r].prop].linked
             THEN "write_chat" ELSE "delete_proposal")

CloseChatRead(r) ==
  LET p == req[r].prop
  IN /\ Done(r, "close_chat", "read_chat")
     /\ Check(r, /\ chat[p].status = "active"
                 /\ req[r].user \in {Customer[proposal[p].order], proposal[p].executor},
              IF chat[p].linked THEN "read_proposal" ELSE "write_chat")

CloseChatReadProposal(r) ==
  /\ Done(r, "close_chat", "read_proposal")
  /\ Check(r, proposal[req[r].prop].status # "ACCEPTED", "write_chat")

\* The flush of both withdrawals: UPDATE chat (StaleDataError when it is gone),
\* DELETE proposal (nothing happens when it is gone), ON DELETE SET NULL.
WithdrawWriteChat(r, op) ==
  /\ Done(r, op, "write_chat")
  /\ Check(r, ChatExists(req[r].prop), "delete_proposal")

WithdrawDeleteProposal(r, op) ==
  /\ Done(r, op, "delete_proposal")
  /\ GoTo(r, "set_null")

WithdrawSetNull(r, op) ==
  /\ Done(r, op, "set_null")
  /\ GoTo(r, "commit")

\* Mutant of WithdrawCommit: the foreign key has no ON DELETE SET NULL.
WithdrawKeepsReference(r, op) ==
  LET p == req[r].prop
  IN /\ Done(r, op, "commit")
     /\ chat' = IF Holds(r, ChatLock(p))
                THEN [chat EXCEPT ![p] = [status |-> "closed", linked |-> FALSE]] ELSE chat
     /\ proposal' = IF Holds(r, ProposalLock(p))
                    THEN [proposal EXCEPT ![p].status = "deleted"] ELSE proposal
     /\ UNCHANGED order
     /\ End(r)

\* Mutant of WithdrawCommit: the chat stays open.
WithdrawKeepsChat(r, op) ==
  LET p == req[r].prop
  IN /\ Done(r, op, "commit")
     /\ chat' = [chat EXCEPT ![p].linked = FALSE]
     /\ proposal' = [proposal EXCEPT ![p].status = "deleted"]
     /\ order' = [o \in Orders |-> IF order[o].accepted = p
                                   THEN [order[o] EXCEPT !.accepted = NoProposal] ELSE order[o]]
     /\ End(r)

WithdrawCommit(r, op) ==
  LET p == req[r].prop
  IN /\ Done(r, op, "commit")
     /\ chat' = IF Holds(r, ChatLock(p))
                THEN [chat EXCEPT ![p] = [status |-> "closed", linked |-> FALSE]] ELSE chat
     /\ proposal' = IF Holds(r, ProposalLock(p))
                    THEN [proposal EXCEPT ![p].status = "deleted"] ELSE proposal
     /\ order' = [o \in Orders |->
                    IF Holds(r, ProposalLock(p)) /\ order[o].accepted = p
                    THEN [order[o] EXCEPT !.accepted = NoProposal] ELSE order[o]]
     /\ End(r)

Withdraw(r, op) == \/ WithdrawWriteChat(r, op) \/ WithdrawDeleteProposal(r, op)
                   \/ WithdrawSetNull(r, op) \/ WithdrawCommit(r, op)

DeleteProposal(r) == \/ DeleteProposalRead(r) \/ DeleteProposalReadChat(r)
                     \/ Withdraw(r, "delete_proposal")

CloseChat(r) == CloseChatRead(r) \/ CloseChatReadProposal(r) \/ Withdraw(r, "close_chat")

-----------------------------------------------------------------------------
(***************************************************************************)
(* Failures of a transaction                                               *)
(***************************************************************************)

\* r waits for s: every row its statement still needs is locked by another.
WaitsFor(r, s) == /\ Needs(r) # {}
                  /\ \A w \in Needs(r) : Blockers(r, w) # {}
                  /\ \E w \in Needs(r) : s \in Blockers(r, w)

\* Every member waits for a member and is waited for by one.
Deadlocked(D) == /\ D # {}
                 /\ \A r \in D : \E s \in D : WaitsFor(r, s)
                 /\ \A s \in D : \E r \in D : WaitsFor(r, s)

\* PostgreSQL finds the deadlock and aborts one of its transactions.
DeadlockAbort(r) ==
  /\ \E D \in SUBSET Requests : r \in D /\ Deadlocked(D)
  /\ Rollback(r)

\* The worker or its connection dies before COMMIT.
Crash(r) == req[r] # Idle /\ Rollback(r)

-----------------------------------------------------------------------------
Handle(r) == \/ CreateProposal(r) \/ AcceptProposal(r) \/ CloseOrder(r)
             \/ UpdateOrder(r) \/ DeleteOrder(r) \/ UpdateProposal(r)
             \/ DeleteProposal(r) \/ CloseChat(r)

\* What moves a request that has arrived.
Progress(r) == LockRow(r) \/ Handle(r) \/ DeadlockAbort(r)

Next == \/ \E o \in Orders : CreateOrder(o)
        \/ \E p \in Proposals : Age(p)
        \/ \E r \in Requests : \/ ArriveOrderRequest(r) \/ ArriveProposalRequest(r)
                               \/ Progress(r) \/ Crash(r)

Spec == Init /\ [][Next]_vars

\* A statement that can run again and again runs: the event loop polls every
\* coroutine and PostgreSQL queues the transactions that wait for a row.
FairSpec == Spec /\ \A r \in Requests : SF_vars(Progress(r))

-----------------------------------------------------------------------------
(***************************************************************************)
(* Safety                                                                  *)
(***************************************************************************)

\* At most one proposal of an order is ever accepted, however many accept
\* requests race (accept_proposal locks the order, tests/test_concurrency.py).
OneExecutor ==
  \A p, q \in Proposals :
    /\ proposal[p].status = "ACCEPTED"
    /\ proposal[q].status = "ACCEPTED"
    /\ proposal[p].order = proposal[q].order
    => p = q

\* order.accepted_proposal_id and the verdicts in order_proposal tell the same
\* story: the order names a proposal exactly when that proposal is its accepted
\* one, and only once the order has left OPEN.
VerdictAgrees ==
  /\ \A o \in Orders : order[o].accepted # NoProposal =>
       /\ order[o].status \in {"ASSIGNED", "CLOSED"}
       /\ proposal[order[o].accepted].status = "ACCEPTED"
       /\ proposal[order[o].accepted].order = o
  /\ \A p \in Proposals : proposal[p].status = "ACCEPTED" =>
       order[proposal[p].order].accepted = p

\* While an order is open nothing has been decided about its proposals.
OpenUndecided ==
  \A p \in Proposals :
    /\ ProposalExists(p)
    /\ order[proposal[p].order].status = "OPEN"
    => proposal[p].status = "PENDING"

\* A proposal keeps the chat that was created with it, and the chat of a
\* proposal that is gone is closed (delete_proposal, close_chat).
ChatFollowsProposal ==
  \A p \in Proposals : /\ ProposalExists(p) => ChatExists(p) /\ chat[p].linked
                       /\ ~ProposalExists(p) => chat[p].status # "active"

\* The chosen executor can talk to the customer until the order is closed.
ChosenChatOpen ==
  \A o \in Orders :
    order[o].status = "ASSIGNED" /\ order[o].accepted # NoProposal
    => chat[order[o].accepted].status = "active"

\* One proposal of an executor per order.
OneProposalPerExecutor ==
  \A p, q \in Proposals :
    /\ ProposalExists(p) /\ ProposalExists(q)
    /\ proposal[p].order = proposal[q].order
    /\ proposal[p].executor = proposal[q].executor
    => p = q

\* No more than MaxPerDay proposals of a day, even for parallel requests.
DailyLimit == \A u \in Users : Cardinality(Recent(u)) <= MaxPerDay

\* Deadlocks need a request that deletes: choosing, closing, creating and
\* editing never wait for each other in a circle.
Removals == {"delete_order", "delete_proposal", "close_chat"}
DeadlockNeedsRemoval ==
  \A D \in SUBSET Requests : Deadlocked(D) => \E r \in D : req[r].op \in Removals

-----------------------------------------------------------------------------
(***************************************************************************)
(* What a step may do                                                      *)
(***************************************************************************)

Forward(o) ==
  /\ <<order[o].status, order'[o].status>> \in
       {<<s, s>> : s \in OrderStatus \cup {"unborn", "deleted"}}
       \cup {<<"unborn", "OPEN">>, <<"OPEN", "ASSIGNED">>}
       \cup ({"OPEN", "ASSIGNED"} \X {"CLOSED"})
       \cup (OrderStatus \X {"deleted"})
  /\ order'[o].accepted \notin {order[o].accepted, NoProposal} =>
       order[o].status = "OPEN" /\ order'[o].status = "ASSIGNED"

\* An order only moves on: open, assigned, closed, and away; an executor is
\* chosen when it becomes assigned and at no other time.
OrderMovesOn == [][\A o \in Orders : Forward(o)]_vars

Settles(o) ==
  order[o].status = "OPEN" /\ order'[o].status \in {"ASSIGNED", "CLOSED"} =>
    \A p \in Proposals :
      proposal'[p].order = o =>
        /\ proposal'[p].status # "PENDING"
        /\ chat'[p].status = "active" => p = order'[o].accepted

\* The step that takes an order out of OPEN leaves no proposal of it
\* undecided and no chat open but the one of the chosen executor.
DecisionIsComplete == [][\A o \in Orders : Settles(o)]_vars

Final(p) ==
  proposal[p].status \in {"ACCEPTED", "REJECTED"} =>
    proposal'[p].status \in {proposal[p].status, "deleted"}

\* A verdict is final: an accepted or rejected proposal can only disappear.
VerdictIsFinal == [][\A p \in Proposals : Final(p)]_vars

-----------------------------------------------------------------------------
(***************************************************************************)
(* Liveness                                                                *)
(***************************************************************************)

\* Every request gets an answer: lock waits end, deadlocks are broken.
EveryRequestEnds == \A r \in Requests : req[r] # Idle ~> req[r] = Idle

-----------------------------------------------------------------------------
(***************************************************************************)
(* What the documentation says and the transactions do not keep            *)
(***************************************************************************)

\* README: an accepted proposal can be neither edited nor withdrawn.
AcceptedLeftAlone ==
  [][\A p \in Proposals :
       proposal[p].status = "ACCEPTED" =>
         \/ proposal'[p].status = "ACCEPTED" /\ proposal'[p].terms = proposal[p].terms
         \/ order'[proposal[p].order].status = "deleted"]_vars

-----------------------------------------------------------------------------
(***************************************************************************)
(* What the locks guarantee to a request r that is at the statement pc.    *)
(* With TypeOK and the verdicts these parts make the inductive invariant   *)
(* of OrderLifecycleProofs.                                                *)
(***************************************************************************)

\* A request has the parameters and is at a statement of its endpoint; a free
\* slot holds nothing.
SlotInv(r, pc) ==
  /\ pc \in Program(req[r].op)
  /\ req[r].op = "idle" => /\ req[r] = Idle
                           /\ \A w \in Rows : ~Holds(r, w)
  /\ req[r].op \in {"create_proposal", "close_order", "update_order", "delete_order"} =>
       req[r].order \in Orders /\ req[r].prop = NoProposal
  /\ req[r].op = "accept_proposal" => req[r].order \in Orders /\ req[r].prop \in Proposals
  /\ req[r].op \in {"delete_proposal", "close_chat", "update_proposal"} =>
       req[r].prop \in Proposals

\* FOR KEY SHARE is taken by the INSERT of a proposal, which fails without its
\* order, and lasts until its COMMIT.
ShareInv(r, pc) ==
  /\ \A o \in Orders : r \in sharers[o] =>
       /\ req[r].op = "create_proposal" /\ pc \in {"insert", "commit"}
       /\ req[r].order = o
       /\ OrderExists(o)
  /\ req[r].op = "create_proposal" =>
       /\ pc = "commit" => r \in sharers[req[r].order]
       /\ \A o \in Orders : ~Holds(r, OrderLock(o))

\* The handler has locked its order and passed the checks on it.
Deciding(r, pc) == req[r].op \in {"accept_proposal", "close_order"} /\ pc # "lock_order"

\* A deciding transaction owns the order, so its status stands still.
DecideInv(r, pc) ==
  Deciding(r, pc) =>
    /\ Holds(r, OrderLock(req[r].order))
    /\ order[req[r].order].status \in
         IF req[r].op = "accept_proposal" THEN {"OPEN"} ELSE {"OPEN", "ASSIGNED"}

\* The proposal to accept was pending, and can only have been withdrawn since.
ChosenInv(r, pc) ==
  req[r].op = "accept_proposal" =>
    /\ pc \in {"reject_pending", "close_chats", "write_proposal", "commit"} =>
         /\ proposal[req[r].prop].order = req[r].order
         /\ proposal[req[r].prop].status \in {"PENDING", "deleted"}
    /\ pc = "commit" => /\ Holds(r, ProposalLock(req[r].prop))
                        /\ proposal[req[r].prop].status = "PENDING"

\* Once its bulk UPDATE has returned, a deciding transaction holds every
\* proposal that is still undecided, and every chat that is still open.
BulkInv(r, pc) ==
  /\ \/ req[r].op = "accept_proposal" /\ pc \in {"close_chats", "write_proposal", "commit"}
     \/ req[r].op = "close_order" /\ pc = "commit"
     => \A q \in ProposalsOf(req[r].order) \ {req[r].prop} :
          proposal[q].status = "PENDING" => Holds(r, ProposalLock(q))
  /\ \/ req[r].op = "accept_proposal" /\ pc \in {"write_proposal", "commit"}
     \/ req[r].op = "close_order" /\ pc \in {"reject_pending", "commit"}
     => \A q \in ChatsOf(req[r].order) \ {req[r].prop} :
          chat[q].status = "active" => Holds(r, ChatLock(q))

\* The proposals a transaction holds are rows of its own request.
HeldInv(r, pc) ==
  \A q \in Proposals : Holds(r, ProposalLock(q)) =>
    /\ req[r].op \in {"accept_proposal", "close_order"} =>
         /\ Deciding(r, pc)
         /\ proposal[q].order = req[r].order
         /\ proposal[q].status = "PENDING"
    /\ req[r].op = "delete_order" => proposal[q].order = req[r].order
    /\ req[r].op \in {"delete_proposal", "close_chat"} => q = req[r].prop

\* delete_order reaches its COMMIT with the order and all proposals in hand.
DeleteInv(r, pc) ==
  req[r].op = "delete_order" =>
    /\ order[req[r].order].status # "unborn"
    /\ pc \in {"cascade", "commit"} /\ OrderExists(req[r].order) =>
         Holds(r, OrderLock(req[r].order))
    /\ pc = "commit" => \A q \in ProposalsOf(req[r].order) : Holds(r, ProposalLock(q))

RequestInv(r, pc) == /\ SlotInv(r, pc) /\ ShareInv(r, pc) /\ DecideInv(r, pc)
                     /\ ChosenInv(r, pc) /\ BulkInv(r, pc) /\ HeldInv(r, pc)
                     /\ DeleteInv(r, pc)

\* FOR KEY SHARE and FOR UPDATE exclude each other.
ShareExcludes ==
  \A o \in Orders, r, s \in Requests :
    s \in sharers[o] /\ Holds(r, OrderLock(o)) => NoKey(r)

\* A proposal needs its order.
ForeignKeyInv ==
  \A p \in Proposals : /\ ProposalExists(p) => OrderExists(proposal[p].order)
                       /\ proposal[p].status = "unborn" => proposal[p].order = NoOrder

IInv == /\ TypeOK /\ ForeignKeyInv /\ VerdictAgrees /\ OpenUndecided
        /\ ShareExcludes
        /\ \A r \in Requests : RequestInv(r, req[r].pc)
=============================================================================
