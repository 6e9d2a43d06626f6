------------------------ MODULE OrderLifecycleProofs ------------------------
(***************************************************************************)
(* What OrderLifecycle keeps for any number of users, orders, proposals    *)
(* and concurrent requests.                                                *)
(***************************************************************************)
EXTENDS OrderLifecycle, TLAPS

\* All the assumptions on the constants.
USE NumbersAssumption, CustomerAssumption, NobodyAssumption

(***************************************************************************)
(* Type correctness.  Steps that end a transaction or move to the next     *)
(* statement write no table, so each kind needs one argument.              *)
(***************************************************************************)

LEMMA IdleIsRequest == Idle \in Request
  BY DEF Idle, Request, Statements, Operations

LEMMA TypeEnd == ASSUME TypeOK, NEW r \in Requests, End(r)
                 PROVE  /\ req' \in [Requests -> Request]
                        /\ owner' \in [Rows -> Requests \cup {Nobody}]
                        /\ sharers' \in [Orders -> SUBSET Requests]
  BY IdleIsRequest DEF TypeOK, End, Holds

LEMMA TypeGoTo == ASSUME TypeOK, NEW r \in Requests, NEW pc \in Statements, GoTo(r, pc)
                  PROVE  TypeOK'
  BY DEF TypeOK, GoTo, Request

LEMMA TypeCheck == ASSUME TypeOK, NEW r \in Requests, NEW ok, NEW pc \in Statements,
                          Check(r, ok, pc)
                   PROVE  TypeOK'
  <1>1. CASE GoTo(r, pc)
    BY <1>1, TypeGoTo
  <1>2. CASE Rollback(r)
    BY <1>2, TypeEnd DEF Rollback, TypeOK
  <1> QED
    BY <1>1, <1>2 DEF Check

(***************************************************************************)
(* Lemmas about the two ways a statement ends: the request moves to the    *)
(* next statement, or the transaction ends.                                *)
(***************************************************************************)

\* A request may move to pc when the locks guarantee what pc relies on.
LEMMA GoToInv ==
  ASSUME IInv, NEW r \in Requests, NEW pc \in Statements, GoTo(r, pc),
         req[r].op # "idle", RequestInv(r, pc)
  PROVE  IInv'
  <1>1. TypeOK'
    BY TypeGoTo DEF IInv
  <1>2. UNCHANGED <<order, proposal, chat, owner, sharers>>
    BY DEF GoTo
  <1>3. /\ req'[r].pc = pc
        /\ req'[r].op = req[r].op /\ req'[r].order = req[r].order /\ req'[r].prop = req[r].prop
        /\ \A s \in Requests \ {r} : req'[s] = req[s]
    BY DEF GoTo, IInv, TypeOK, Request
  <1>4. ForeignKeyInv' /\ VerdictAgrees' /\ OpenUndecided'
    BY <1>2 DEF IInv, ForeignKeyInv, VerdictAgrees, OpenUndecided, ProposalExists, OrderExists
  <1>5. ShareExcludes'
    BY <1>2, <1>3 DEF IInv, ShareExcludes, NoKey, Holds
  <1>6. ASSUME NEW s \in Requests PROVE RequestInv(s, req[s].pc)'
    <2>1. CASE s = r
      BY <1>2, <1>3, <2>1 DEF RequestInv, SlotInv, ShareInv, DecideInv, Deciding, ChosenInv,
         BulkInv, HeldInv, DeleteInv, Holds, ProposalsOf, ChatsOf, OrderExists, ProposalExists,
         ChatExists
    <2>2. CASE s # r
      <3>1. RequestInv(s, req[s].pc)
        BY DEF IInv
      <3> QED
        BY <1>2, <1>3, <2>2, <3>1 DEF RequestInv, SlotInv, ShareInv, DecideInv, Deciding,
           ChosenInv, BulkInv, HeldInv, DeleteInv, Holds, ProposalsOf, ChatsOf, OrderExists,
           ProposalExists, ChatExists
    <2> QED
      BY <2>1, <2>2
  <1> QED
    BY <1>1, <1>4, <1>5, <1>6 DEF IInv

\* A transaction that ends gives up its claims and leaves those of the others.
LEMMA RollbackInv ==
  ASSUME IInv, NEW r \in Requests, Rollback(r)
  PROVE  IInv'
  <1>1. TypeOK'
    BY TypeEnd DEF IInv, Rollback, TypeOK
  <1>2. UNCHANGED <<order, proposal, chat>>
    BY DEF Rollback
  <1>3. /\ req'[r] = Idle
        /\ \A s \in Requests \ {r} : req'[s] = req[s]
        /\ \A w \in Rows : ~Holds(r, w)'
        /\ \A s \in Requests \ {r}, w \in Rows : Holds(s, w)' <=> Holds(s, w)
        /\ \A o \in Orders : sharers'[o] = sharers[o] \ {r}
    BY DEF Rollback, End, Holds, IInv, TypeOK
  <1>4. ForeignKeyInv' /\ VerdictAgrees' /\ OpenUndecided'
    BY <1>2 DEF IInv, ForeignKeyInv, VerdictAgrees, OpenUndecided, ProposalExists, OrderExists
  <1>5. ShareExcludes'
    BY <1>2, <1>3 DEF IInv, ShareExcludes, NoKey, OrderLock, Rows
  <1>6. ASSUME NEW s \in Requests PROVE RequestInv(s, req[s].pc)'
    <2>1. CASE s = r
      BY <1>1, <1>2, <1>3, <2>1 DEF RequestInv, SlotInv, ShareInv, DecideInv, Deciding, ChosenInv,
         BulkInv, HeldInv, DeleteInv, Idle, Program, Rows, ProposalLock
    <2>2. CASE s # r
      <3>1. RequestInv(s, req[s].pc)
        BY DEF IInv
      <3> QED
        BY <1>2, <1>3, <2>2, <3>1 DEF RequestInv, SlotInv, ShareInv, DecideInv, Deciding,
           ChosenInv, BulkInv, HeldInv, DeleteInv, ProposalsOf, ChatsOf, OrderExists,
           ProposalExists, ChatExists, Rows, ProposalLock, ChatLock, OrderLock
    <2> QED
      BY <2>1, <2>2
  <1> QED
    BY <1>1, <1>4, <1>5, <1>6 DEF IInv

(***************************************************************************)
(* Acquiring a row.                                                        *)
(***************************************************************************)

\* The proposals a statement locks are the ones its handler is about.
LEMMA ProposalTargets ==
  ASSUME IInv, NEW r \in Requests, NEW q \in Proposals, ProposalLock(q) \in Targets(r)
  PROVE  /\ req[r].op \in {"accept_proposal", "close_order"} =>
              /\ Deciding(r, req[r].pc)
              /\ proposal[q].order = req[r].order
              /\ proposal[q].status = "PENDING"
         /\ req[r].op = "delete_order" => proposal[q].order = req[r].order
         /\ req[r].op \in {"delete_proposal", "close_chat"} => q = req[r].prop
         /\ req[r].op # "create_proposal"
  <1>1. /\ req[r].pc \in Program(req[r].op)
        /\ ChosenInv(r, req[r].pc)
        /\ req[r].op \in Operations \cup {"idle"}
    BY DEF IInv, RequestInv, SlotInv, TypeOK, Request
  <1>2. CASE req[r].op = "accept_proposal"
    BY <1>1, <1>2 DEF Program, Targets, ProposalsOf, ProposalExists, ProposalStatus, ChosenInv,
       Deciding, ProposalLock, OrderLock, ChatLock, ExecutorLock
  <1>3. CASE req[r].op = "close_order"
    BY <1>1, <1>3 DEF Program, Targets, ProposalsOf, ProposalExists,
       Deciding, ProposalLock, OrderLock, ChatLock, ExecutorLock
  <1>4. CASE req[r].op = "delete_order"
    BY <1>1, <1>4 DEF Program, Targets, ProposalsOf,
       ProposalLock, OrderLock, ChatLock, ExecutorLock
  <1>5. CASE req[r].op \in {"delete_proposal", "close_chat"}
    BY <1>1, <1>5 DEF Program, Targets, ProposalLock, OrderLock, ChatLock, ExecutorLock
  <1>6. CASE req[r].op = "create_proposal"
    BY <1>1, <1>6 DEF Program, Targets, ProposalLock, OrderLock, ChatLock, ExecutorLock
  <1> QED
    BY <1>1, <1>2, <1>3, <1>4, <1>5, <1>6

\* Two locks are the same only if they are of the same kind and row.
LEMMA LocksDiffer ==
  /\ \A o, x : OrderLock(o) = OrderLock(x) => o = x
  /\ \A p, q : ProposalLock(p) = ProposalLock(q) => p = q
  /\ \A p, q : ChatLock(p) = ChatLock(q) => p = q
  /\ \A o, p : OrderLock(o) # ProposalLock(p) /\ OrderLock(o) # ChatLock(p)
  /\ \A p, q : ProposalLock(p) # ChatLock(q)
  /\ \A u, x : /\ ExecutorLock(u) # OrderLock(x)
              /\ ExecutorLock(u) # ProposalLock(x)
              /\ ExecutorLock(u) # ChatLock(x)
  BY DEF OrderLock, ProposalLock, ChatLock, ExecutorLock

LEMMA LocksAreRows ==
  /\ \A o \in Orders : OrderLock(o) \in Rows
  /\ \A p \in Proposals : ProposalLock(p) \in Rows /\ ChatLock(p) \in Rows
  BY DEF Rows

\* FOR KEY SHARE of an INSERT.
LEMMA ShareRowInv ==
  ASSUME IInv, NEW r \in Requests, Sharing(r), LockRow(r)
  PROVE  IInv'
  <1> DEFINE o == req[r].order
  <1>1. PICK w \in Needs(r) : /\ Blockers(r, w) = {}
                              /\ sharers' = [sharers EXCEPT ![o] = @ \cup {r}]
                              /\ UNCHANGED <<order, proposal, chat, req, owner>>
    BY DEF LockRow
  <1>2. /\ req[r].op = "create_proposal" /\ req[r].pc = "insert"
        /\ o \in Orders
    BY DEF IInv, RequestInv, SlotInv, Program, Sharing, TypeOK, Request, Operations
  <1>3. w = OrderLock(o) /\ OrderExists(o)
    BY <1>2 DEF Needs, Sharing, Targets
  <1>4. \A s \in Requests : Holds(s, OrderLock(o)) => NoKey(s)
    <2>1. ~Holds(r, OrderLock(o))
      BY <1>2 DEF IInv, RequestInv, ShareInv
    <2>2. \A s \in Requests \ {r} : Holds(s, w) => NoKey(s)
      BY <1>1 DEF Blockers, Sharing
    <2> QED
      BY <2>1, <2>2, <1>3
  <1>5. TypeOK'
    BY <1>1, <1>2 DEF IInv, TypeOK
  <1>6. ForeignKeyInv' /\ VerdictAgrees' /\ OpenUndecided'
    BY <1>1 DEF IInv, ForeignKeyInv, VerdictAgrees, OpenUndecided, ProposalExists, OrderExists
  <1>7. ShareExcludes'
    BY <1>1, <1>2, <1>4 DEF IInv, TypeOK, ShareExcludes, NoKey, Holds
  <1>8. ASSUME NEW s \in Requests PROVE RequestInv(s, req[s].pc)'
    <2>1. RequestInv(s, req[s].pc)
      BY DEF IInv
    <2>2. ShareInv(s, req[s].pc)'
      BY <1>1, <1>2, <1>3, <2>1 DEF IInv, TypeOK, RequestInv, ShareInv, OrderExists, Holds
    <2> QED
      BY <1>1, <2>1, <2>2 DEF RequestInv, SlotInv, DecideInv, Deciding, ChosenInv, BulkInv,
         HeldInv, DeleteInv, Holds, ProposalsOf, ChatsOf, OrderExists, ProposalExists, ChatExists
  <1> QED
    BY <1>5, <1>6, <1>7, <1>8 DEF IInv

\* FOR UPDATE, UPDATE, DELETE and the advisory lock.
LEMMA OwnRowInv ==
  ASSUME IInv, NEW r \in Requests, ~Sharing(r), LockRow(r)
  PROVE  IInv'
  <1>1. PICK w \in Needs(r) : /\ Blockers(r, w) = {}
                              /\ owner' = [owner EXCEPT ![w] = r]
                              /\ UNCHANGED <<order, proposal, chat, req, sharers>>
    BY DEF LockRow
  <1>2. w \in Targets(r)
    BY DEF Needs, Sharing
  <1>3. /\ \A s \in Requests, x \in Rows : Holds(s, x) => Holds(s, x)'
        /\ \A s \in Requests, x \in Rows : Holds(s, x)' => Holds(s, x) \/ (s = r /\ x = w)
    <2>1. \A s \in Requests : ~Holds(s, w)
      BY <1>1 DEF Blockers, Sharing, Needs
    <2>2. \A x \in Rows : owner'[x] = IF x = w THEN r ELSE owner[x]
      <3>1. owner \in [Rows -> Requests \cup {Nobody}]
        BY DEF IInv, TypeOK
      <3> QED
        BY <1>1, <3>1
    <2> QED
      BY <2>1, <2>2 DEF Holds
  <1>4. TypeOK'
    <2>1. owner' \in [Rows -> Requests \cup {Nobody}]
      BY <1>1 DEF IInv, TypeOK
    <2> QED
      BY <1>1, <2>1 DEF IInv, TypeOK
  <1>5. ForeignKeyInv' /\ VerdictAgrees' /\ OpenUndecided'
    BY <1>1 DEF IInv, ForeignKeyInv, VerdictAgrees, OpenUndecided, ProposalExists, OrderExists
  <1>6. ShareExcludes'
    <2>1. ASSUME NEW o \in Orders, w = OrderLock(o), ~NoKey(r) PROVE sharers[o] \subseteq {r}
      BY <1>1, <2>1 DEF Blockers, Sharing, IInv, TypeOK
    <2>2. ASSUME NEW o \in Orders, w = OrderLock(o), r \in sharers[o] PROVE FALSE
      <3>1. req[r].op = "create_proposal" /\ req[r].pc = "commit"
        BY <2>2 DEF IInv, RequestInv, ShareInv, Sharing
      <3> QED
        BY <3>1, <1>2 DEF Targets
    <2> QED
      BY <1>1, <1>3, <2>1, <2>2, LocksAreRows DEF IInv, ShareExcludes, NoKey
  <1>7. ASSUME NEW s \in Requests PROVE RequestInv(s, req[s].pc)'
    <2>1. RequestInv(s, req[s].pc)
      BY DEF IInv
    <2>2. SlotInv(s, req[s].pc)'
      <3>1. req[r].op # "idle"
        BY <1>2 DEF IInv, RequestInv, SlotInv, Program, Targets
      <3> QED
        BY <1>1, <1>3, <2>1, <3>1 DEF RequestInv, SlotInv
    <2>3. HeldInv(s, req[s].pc)'
      BY <1>1, <1>2, <1>3, <2>1, ProposalTargets, LocksAreRows
         DEF RequestInv, HeldInv, Deciding
    <2>4. ShareInv(s, req[s].pc)'
      <3>1. ASSUME NEW o \in Orders, w = OrderLock(o), req[r].op = "create_proposal" PROVE FALSE
        BY <3>1, <1>2, LocksDiffer DEF IInv, RequestInv, SlotInv, Program, Targets, Sharing
      <3> QED
        BY <1>1, <1>3, <2>1, <3>1, LocksAreRows DEF RequestInv, ShareInv, OrderExists
    <2>5. DecideInv(s, req[s].pc)'
      BY <1>1, <1>3, <2>1, LocksAreRows DEF RequestInv, SlotInv, DecideInv, Deciding
    <2>6. ChosenInv(s, req[s].pc)' /\ BulkInv(s, req[s].pc)'
      BY <1>1, <1>3, <2>1, LocksAreRows DEF RequestInv, SlotInv, ChosenInv, BulkInv,
         ProposalsOf, ChatsOf, ProposalExists, ChatExists
    <2>7. DeleteInv(s, req[s].pc)'
      BY <1>1, <1>3, <2>1, LocksAreRows DEF RequestInv, SlotInv, DeleteInv, ProposalsOf,
         ProposalExists, OrderExists
    <2> QED
      BY <2>2, <2>3, <2>4, <2>5, <2>6, <2>7 DEF RequestInv
  <1> QED
    BY <1>4, <1>5, <1>6, <1>7 DEF IInv

(***************************************************************************)
(* Steps that look and go on.  Each shows what its new statement needs.    *)
(***************************************************************************)

LEMMA CheckInv ==
  ASSUME IInv, NEW r \in Requests, NEW ok, NEW pc \in Statements, Check(r, ok, pc),
         req[r].op # "idle", ok => RequestInv(r, pc)
  PROVE  IInv'
  BY GoToInv, RollbackInv DEF Check

\* A statement that has returned holds its rows.
LEMMA DoneHolds ==
  ASSUME NEW r \in Requests, NEW op, NEW pc, pc # "insert", Done(r, op, pc)
  PROVE  \A w \in Targets(r) : Holds(r, w)
  BY DEF Done, Needs, Sharing

\* The operations that neither decide nor delete an order rely on no lock
\* before their INSERT or COMMIT.
LEMMA PlainInv ==
  ASSUME IInv, NEW r \in Requests, NEW pc \in Program(req[r].op) \ {"insert", "commit"},
         req[r].op \in {"create_proposal", "update_order", "update_proposal",
                       "delete_proposal", "close_chat"},
         req[r].pc \notin {"insert", "commit"}
  PROVE  RequestInv(r, pc)
  BY DEF IInv, RequestInv, SlotInv, ShareInv, DecideInv, Deciding, ChosenInv, BulkInv, HeldInv,
     DeleteInv

LEMMA PlainCommitInv ==
  ASSUME IInv, NEW r \in Requests, 
         req[r].op \in {"update_order", "update_proposal", "delete_proposal", "close_chat"}
  PROVE  RequestInv(r, "commit")
  BY DEF IInv, RequestInv, SlotInv, ShareInv, DecideInv, Deciding, ChosenInv, BulkInv, HeldInv,
     DeleteInv, Program

LEMMA CreateLooksInv ==
  ASSUME IInv, NEW r \in Requests,
         \/ CreateReadOrder(r) \/ CreateCheckDuplicate(r) \/ CreateLockExecutor(r)
         \/ CreateCheckLimit(r) \/ CreateInsert(r)
  PROVE  IInv'
  <1>1. CASE CreateReadOrder(r)
    <2>1. RequestInv(r, "check_duplicate")
      BY <1>1, PlainInv DEF CreateReadOrder, Done, Program
    <2> QED
      BY <1>1, <2>1, GoToInv, RollbackInv DEF CreateReadOrder, Check, Done, Statements
  <1>2. CASE CreateCheckDuplicate(r)
    BY <1>2, CheckInv, PlainInv DEF CreateCheckDuplicate, Done, Program, Statements
  <1>3. CASE CreateLockExecutor(r)
    BY <1>3, GoToInv, PlainInv DEF CreateLockExecutor, Done, Program, Statements
  <1>4. CASE CreateCheckLimit(r)
    <2>1. RequestInv(r, "insert")
      BY <1>4 DEF CreateCheckLimit, Done, IInv, RequestInv, SlotInv, ShareInv, DecideInv, Deciding, ChosenInv,
           BulkInv, HeldInv, DeleteInv, Program
    <2> QED
      BY <1>4, <2>1, CheckInv DEF CreateCheckLimit, Done, Statements
  <1>5. CASE CreateInsert(r)
    <2>1. ASSUME OrderExists(req[r].order) PROVE RequestInv(r, "commit")
      <3>1. r \in sharers[req[r].order]
        BY <1>5, <2>1 DEF CreateInsert, Done, Needs, Sharing, Targets, OrderExists
      <3> QED
        BY <1>5, <3>1 DEF CreateInsert, Done, IInv, RequestInv, SlotInv, ShareInv, DecideInv, Deciding, ChosenInv,
           BulkInv, HeldInv, DeleteInv, Program
    <2> QED
      BY <1>5, <2>1, CheckInv DEF CreateInsert, Done, Statements
  <1> QED
    BY <1>1, <1>2, <1>3, <1>4, <1>5

LEMMA AcceptLooksInv ==
  ASSUME IInv, NEW r \in Requests,
         \/ AcceptLockOrder(r) \/ AcceptReadProposal(r) \/ AcceptRejectOthers(r)
         \/ AcceptCloseOtherChats(r) \/ AcceptFlush(r)
  PROVE  IInv'
  <1>1. CASE AcceptLockOrder(r)
    <2>1. ASSUME order[req[r].order].status = "OPEN" PROVE RequestInv(r, "read_proposal")
      <3>1. req[r].order \in Orders /\ OrderLock(req[r].order) \in Targets(r)
        BY <1>1, <2>1 DEF AcceptLockOrder, Done, Targets, OrderExists, OrderStatus, IInv, RequestInv,
           SlotInv
      <3>2. Holds(r, OrderLock(req[r].order))
        BY <1>1, <3>1, DoneHolds DEF AcceptLockOrder
      <3> QED
        BY <1>1, <2>1, <3>2 DEF AcceptLockOrder, Done, IInv, RequestInv, SlotInv, ShareInv, DecideInv, Deciding, ChosenInv,
           BulkInv, HeldInv, DeleteInv, Program
    <2> QED
      BY <1>1, <2>1, CheckInv DEF AcceptLockOrder, Done, Statements
  <1>2. CASE AcceptReadProposal(r)
    <2>1. ASSUME req[r].prop \in ProposalsOf(req[r].order),
                 proposal[req[r].prop].status = "PENDING"
          PROVE  RequestInv(r, "reject_pending")
      BY <1>2, <2>1 DEF AcceptReadProposal, Done, ProposalsOf, IInv, RequestInv, SlotInv, ShareInv, DecideInv, Deciding, ChosenInv,
           BulkInv, HeldInv, DeleteInv, Program
    <2> QED
      BY <1>2, <2>1, CheckInv DEF AcceptReadProposal, Done, Statements
  <1>3. CASE AcceptRejectOthers(r)
    <2>1. \A q \in ProposalsOf(req[r].order) \ {req[r].prop} :
            proposal[q].status = "PENDING" => Holds(r, ProposalLock(q))
      BY <1>3, DoneHolds DEF AcceptRejectOthers, Done, Targets
    <2>2. RequestInv(r, "close_chats")
      BY <1>3, <2>1 DEF AcceptRejectOthers, Done, IInv, RequestInv, SlotInv, ShareInv, DecideInv, Deciding, ChosenInv,
           BulkInv, HeldInv, DeleteInv, Program
    <2> QED
      BY <1>3, <2>2, GoToInv DEF AcceptRejectOthers, Done, Statements
  <1>4. CASE AcceptCloseOtherChats(r)
    <2>1. \A q \in ChatsOf(req[r].order) \ {req[r].prop} :
            chat[q].status = "active" => Holds(r, ChatLock(q))
      BY <1>4, DoneHolds DEF AcceptCloseOtherChats, Done, Targets
    <2>2. RequestInv(r, "write_proposal")
      BY <1>4, <2>1 DEF AcceptCloseOtherChats, Done, IInv, RequestInv, SlotInv, ShareInv, DecideInv, Deciding, ChosenInv,
           BulkInv, HeldInv, DeleteInv, Program
    <2> QED
      BY <1>4, <2>2, GoToInv DEF AcceptCloseOtherChats, Done, Statements
  <1>5. CASE AcceptFlush(r)
    <2>1. ASSUME ProposalExists(req[r].prop) PROVE RequestInv(r, "commit")
      <3>1. Holds(r, ProposalLock(req[r].prop))
        BY <1>5, <2>1, DoneHolds DEF AcceptFlush, Done, Targets, ProposalExists
      <3>2. proposal[req[r].prop].status = "PENDING"
        BY <1>5, <2>1 DEF AcceptFlush, Done, ProposalExists, ProposalStatus, IInv, RequestInv,
           ChosenInv
      <3> QED
        BY <1>5, <3>1, <3>2 DEF AcceptFlush, Done, IInv, RequestInv, SlotInv, ShareInv, DecideInv, Deciding, ChosenInv,
           BulkInv, HeldInv, DeleteInv, Program
    <2> QED
      BY <1>5, <2>1, CheckInv DEF AcceptFlush, Done, Statements
  <1> QED
    BY <1>1, <1>2, <1>3, <1>4, <1>5

LEMMA CloseLooksInv ==
  ASSUME IInv, NEW r \in Requests,
         CloseLockOrder(r) \/ CloseOrderChats(r) \/ CloseRejectPending(r)
  PROVE  IInv'
  <1>1. CASE CloseLockOrder(r)
    <2>1. ASSUME order[req[r].order].status \in {"OPEN", "ASSIGNED"}
          PROVE  RequestInv(r, "close_chats")
      <3>1. req[r].order \in Orders /\ OrderLock(req[r].order) \in Targets(r)
        BY <1>1, <2>1 DEF CloseLockOrder, Done, Targets, OrderExists, OrderStatus, IInv, RequestInv,
           SlotInv
      <3>2. Holds(r, OrderLock(req[r].order))
        BY <1>1, <3>1, DoneHolds DEF CloseLockOrder
      <3> QED
        BY <1>1, <2>1, <3>2 DEF CloseLockOrder, Done, IInv, RequestInv, SlotInv, ShareInv, DecideInv, Deciding, ChosenInv,
           BulkInv, HeldInv, DeleteInv, Program
    <2> QED
      BY <1>1, <2>1, CheckInv DEF CloseLockOrder, Done, Statements
  <1>2. CASE CloseOrderChats(r)
    <2>1. \A q \in ChatsOf(req[r].order) \ {req[r].prop} :
            chat[q].status = "active" => Holds(r, ChatLock(q))
      BY <1>2, DoneHolds DEF CloseOrderChats, Done, Targets
    <2>2. RequestInv(r, "reject_pending")
      BY <1>2, <2>1 DEF CloseOrderChats, Done, IInv, RequestInv, SlotInv, ShareInv, DecideInv, Deciding, ChosenInv,
           BulkInv, HeldInv, DeleteInv, Program
    <2> QED
      BY <1>2, <2>2, GoToInv DEF CloseOrderChats, Done, Statements
  <1>3. CASE CloseRejectPending(r)
    <2>1. \A q \in ProposalsOf(req[r].order) \ {req[r].prop} :
            proposal[q].status = "PENDING" => Holds(r, ProposalLock(q))
      BY <1>3, DoneHolds DEF CloseRejectPending, Done, Targets
    <2>2. RequestInv(r, "commit")
      BY <1>3, <2>1 DEF CloseRejectPending, Done, IInv, RequestInv, SlotInv, ShareInv, DecideInv, Deciding, ChosenInv,
           BulkInv, HeldInv, DeleteInv, Program
    <2> QED
      BY <1>3, <2>2, GoToInv DEF CloseRejectPending, Done, Statements
  <1> QED
    BY <1>1, <1>2, <1>3

LEMMA UpdateLooksInv ==
  ASSUME IInv, NEW r \in Requests,
         \/ UpdateOrderRead(r) \/ UpdateOrderWrite(r)
         \/ UpdateProposalRead(r) \/ UpdateProposalReadOrder(r) \/ UpdateProposalWrite(r)
  PROVE  IInv'
  <1>1. CASE UpdateOrderRead(r)
    <2>1. RequestInv(r, "write_order")
      BY <1>1, PlainInv DEF UpdateOrderRead, Done, Program
    <2> QED
      BY <1>1, <2>1, GoToInv, RollbackInv DEF UpdateOrderRead, Check, Done, Statements
  <1>2. CASE UpdateOrderWrite(r)
    BY <1>2, CheckInv, PlainCommitInv DEF UpdateOrderWrite, Done, Statements
  <1>3. CASE UpdateProposalRead(r)
    <2>1. RequestInv(r, "read_order")
      BY <1>3, PlainInv DEF UpdateProposalRead, Done, Program
    <2> QED
      BY <1>3, <2>1, GoToInv, RollbackInv DEF UpdateProposalRead, Check, Done, Statements
  <1>4. CASE UpdateProposalReadOrder(r)
    <2>1. RequestInv(r, "write_proposal")
      <3>1. req[r].op = "update_proposal" /\ req[r].pc = "read_order"
        BY <1>4 DEF UpdateProposalReadOrder, Done
      <3> QED
        BY <3>1, PlainInv DEF Program, Statements
    <2> QED
      BY <1>4, <2>1, CheckInv DEF UpdateProposalReadOrder, Done, Statements
  <1>5. CASE UpdateProposalWrite(r)
    BY <1>5, CheckInv, PlainCommitInv DEF UpdateProposalWrite, Done, Statements
  <1> QED
    BY <1>1, <1>2, <1>3, <1>4, <1>5

LEMMA WithdrawLooksInv ==
  ASSUME IInv, NEW r \in Requests, NEW op \in {"delete_proposal", "close_chat"},
         \/ DeleteProposalRead(r) \/ DeleteProposalReadChat(r)
         \/ CloseChatRead(r) \/ CloseChatReadProposal(r)
         \/ WithdrawWriteChat(r, op) \/ WithdrawDeleteProposal(r, op) \/ WithdrawSetNull(r, op)
  PROVE  IInv'
  <1>1. CASE DeleteProposalRead(r)
    <2>1. RequestInv(r, "read_chat")
      BY <1>1, PlainInv DEF DeleteProposalRead, Done, Program
    <2> QED
      BY <1>1, <2>1, GoToInv, RollbackInv DEF DeleteProposalRead, Check, Done, Statements
  <1>2. CASE DeleteProposalReadChat(r)
    BY <1>2, GoToInv, PlainInv DEF DeleteProposalReadChat, Done, Program, Statements
  <1>3. CASE CloseChatRead(r)
    <2>0. req[r].op = "close_chat" /\ req[r].pc = "read_chat"
      BY <1>3 DEF CloseChatRead, Done
    <2>1. RequestInv(r, "read_proposal") /\ RequestInv(r, "write_chat")
      <3>1. RequestInv(r, "read_proposal")
        BY <2>0, PlainInv DEF Program, Statements
      <3>2. RequestInv(r, "write_chat")
        BY <2>0, PlainInv DEF Program, Statements
      <3> QED
        BY <3>1, <3>2
    <2> QED
      BY <1>3, <2>1, GoToInv, RollbackInv DEF CloseChatRead, Check, Done, Statements
  <1>4. CASE CloseChatReadProposal(r)
    BY <1>4, CheckInv, PlainInv DEF CloseChatReadProposal, Done, Program, Statements
  <1>5. CASE WithdrawWriteChat(r, op)
    BY <1>5, CheckInv, PlainInv DEF WithdrawWriteChat, Done, Program, Statements
  <1>6. CASE WithdrawDeleteProposal(r, op)
    BY <1>6, GoToInv, PlainInv DEF WithdrawDeleteProposal, Done, Program, Statements
  <1>7. CASE WithdrawSetNull(r, op)
    BY <1>7, GoToInv, PlainCommitInv DEF WithdrawSetNull, Done, Statements
  <1> QED
    BY <1>1, <1>2, <1>3, <1>4, <1>5, <1>6, <1>7

LEMMA DeleteOrderLooksInv ==
  ASSUME IInv, NEW r \in Requests,
         \/ DeleteOrderRead(r) \/ DeleteOrderUnlink(r) \/ DeleteOrderChats(r)
         \/ DeleteOrderProposals(r) \/ DeleteOrderRow(r) \/ DeleteOrderCascade(r)
  PROVE  IInv'
  <1>1. ASSUME NEW pc \in {"unlink", "delete_chats", "delete_proposals", "delete_order"},
               req[r].op = "delete_order"
        PROVE  RequestInv(r, pc)
    BY <1>1 DEF IInv, RequestInv, SlotInv, ShareInv, DecideInv, Deciding, ChosenInv,
           BulkInv, HeldInv, DeleteInv, Program
  <1>2. CASE DeleteOrderRead(r)
    BY <1>1, <1>2, CheckInv DEF DeleteOrderRead, Done, Statements
  <1>3. CASE DeleteOrderUnlink(r)
    BY <1>1, <1>3, CheckInv DEF DeleteOrderUnlink, Done, Statements
  <1>4. CASE DeleteOrderChats(r)
    BY <1>1, <1>4, GoToInv DEF DeleteOrderChats, Done, Statements
  <1>5. CASE DeleteOrderProposals(r)
    BY <1>1, <1>5, GoToInv DEF DeleteOrderProposals, Done, Statements
  <1>6. CASE DeleteOrderRow(r)
    <2>1. OrderExists(req[r].order) => Holds(r, OrderLock(req[r].order))
      BY <1>6, DoneHolds DEF DeleteOrderRow, Done, Targets, OrderExists
    <2>2. RequestInv(r, "cascade")
      BY <1>6, <2>1 DEF DeleteOrderRow, Done, IInv, RequestInv, SlotInv, ShareInv, DecideInv, Deciding, ChosenInv,
           BulkInv, HeldInv, DeleteInv, Program
    <2> QED
      BY <1>6, <2>2, GoToInv DEF DeleteOrderRow, Done, Statements
  <1>7. CASE DeleteOrderCascade(r)
    <2>1. \A q \in ProposalsOf(req[r].order) : Holds(r, ProposalLock(q))
      BY <1>7, DoneHolds DEF DeleteOrderCascade, Done, Targets
    <2>2. RequestInv(r, "commit")
      BY <1>7, <2>1 DEF DeleteOrderCascade, Done, IInv, RequestInv, SlotInv, ShareInv, DecideInv, Deciding, ChosenInv,
           BulkInv, HeldInv, DeleteInv, Program
    <2> QED
      BY <1>7, <2>2, GoToInv DEF DeleteOrderCascade, Done, Statements
  <1> QED
    BY <1>2, <1>3, <1>4, <1>5, <1>6, <1>7

(***************************************************************************)
(* Steps that write the tables                                             *)
(***************************************************************************)

LEMMA EndFacts ==
  ASSUME IInv, NEW r \in Requests, End(r)
  PROVE  /\ req'[r] = Idle
         /\ \A s \in Requests \ {r} : req'[s] = req[s]
         /\ \A w \in Rows : ~Holds(r, w)'
         /\ \A s \in Requests \ {r}, w \in Rows : Holds(s, w)' <=> Holds(s, w)
         /\ \A o \in Orders : sharers'[o] = sharers[o] \ {r}
  BY DEF End, Holds, IInv, TypeOK

\* Whatever a transaction wrote, its slot is free and its shares are gone.
LEMMA EndInv ==
  ASSUME IInv, NEW r \in Requests, End(r)
  PROVE  RequestInv(r, req[r].pc)' /\ ShareExcludes'
  <1>1. RequestInv(r, req[r].pc)'
    BY EndFacts, LocksAreRows DEF RequestInv, SlotInv, ShareInv, DecideInv, Deciding, ChosenInv,
       BulkInv, HeldInv, DeleteInv, Idle, Program
  <1>2. ShareExcludes'
    BY EndFacts, LocksAreRows DEF IInv, ShareExcludes, NoKey
  <1> QED
    BY <1>1, <1>2

\* What every COMMIT but the one of create_proposal does: it changes only rows
\* it holds, revives nothing, and gives a verdict only with the order in hand.
Disciplined(r) ==
  /\ \A o \in Orders :
       /\ order'[o].status # order[o].status => Holds(r, OrderLock(o)) /\ ~NoKey(r)
       /\ order'[o].status = "unborn" <=> order[o].status = "unborn"
       /\ OrderExists(o)' => OrderExists(o)
  /\ \A q \in Proposals :
       /\ proposal'[q].order = proposal[q].order
       /\ ProposalExists(q)' => ProposalExists(q)
       /\ proposal'[q].status = "PENDING" => proposal[q].status = "PENDING"
       /\ proposal'[q].status # proposal[q].status =>
            /\ Holds(r, ProposalLock(q))
            /\ proposal'[q].status = "deleted" \/ Holds(r, OrderLock(proposal[q].order))
       /\ chat'[q].status = "active" => chat[q].status = "active"

LEMMA DisciplinedInv ==
  ASSUME IInv, NEW r \in Requests, End(r), Disciplined(r)
  PROVE  \A s \in Requests : RequestInv(s, req[s].pc)'
  <1> SUFFICES ASSUME NEW s \in Requests \ {r} PROVE RequestInv(s, req[s].pc)'
    BY EndInv
  <1>1. RequestInv(s, req[s].pc)
    BY DEF IInv
  <1>2. /\ req'[s] = req[s]
        /\ \A w \in Rows : Holds(s, w)' <=> Holds(s, w)
        /\ \A w : ~(Holds(s, w) /\ Holds(r, w))
        /\ \A o \in Orders : s \in sharers'[o] <=> s \in sharers[o]
    BY EndFacts DEF Holds
  <1>3. SlotInv(s, req[s].pc)'
    BY <1>1, <1>2 DEF RequestInv, SlotInv
  <1>4. ShareInv(s, req[s].pc)'
    <2>1. ASSUME NEW o \in Orders, s \in sharers[o] PROVE OrderExists(o)'
      BY <1>1, <2>1 DEF Disciplined, IInv, ShareExcludes, RequestInv, ShareInv, OrderExists
    <2> QED
      BY <1>1, <1>2, <2>1, LocksAreRows DEF RequestInv, SlotInv, ShareInv
  <1>5. DecideInv(s, req[s].pc)'
    BY <1>1, <1>2, LocksAreRows DEF RequestInv, SlotInv, DecideInv, Deciding, Disciplined
  <1>6. ChosenInv(s, req[s].pc)'
    BY <1>1, <1>2, LocksAreRows DEF RequestInv, SlotInv, DecideInv, Deciding, ChosenInv, Disciplined
  <1>7. BulkInv(s, req[s].pc)'
    BY <1>1, <1>2, LocksAreRows DEF RequestInv, SlotInv, BulkInv, Disciplined, ProposalsOf, ChatsOf,
       ChatExists
  <1>8. HeldInv(s, req[s].pc)'
    BY <1>1, <1>2, LocksAreRows DEF RequestInv, HeldInv, Deciding, Disciplined
  <1>9. DeleteInv(s, req[s].pc)'
    BY <1>1, <1>2, LocksAreRows DEF RequestInv, SlotInv, DeleteInv, Disciplined, ProposalsOf
  <1> QED
    BY <1>3, <1>4, <1>5, <1>6, <1>7, <1>8, <1>9 DEF RequestInv

LEMMA ProposalsAreNamed == \A p \in Proposals : p # NoProposal
  BY DEF Proposals, NoProposal

\* The order of an accepted proposal exists and names it.
LEMMA AcceptedHasOrder ==
  ASSUME IInv, NEW q \in Proposals, proposal[q].status = "ACCEPTED"
  PROVE  /\ proposal[q].order \in Orders
         /\ order[proposal[q].order].accepted = q
         /\ order[proposal[q].order].status \in {"ASSIGNED", "CLOSED"}
  BY ProposalsAreNamed DEF IInv, ForeignKeyInv, VerdictAgrees, ProposalExists, ProposalStatus,
     OrderExists

\* A decision writes rows of the tables.
LEMMA VerdictTyped ==
  ASSUME TypeOK, NEW q \in Proposals, NEW s \in ProposalStatus \cup {"deleted"}
  PROVE  [proposal[q] EXCEPT !.status = s] \in ProposalRow
  <1>1. proposal[q] \in ProposalRow
    BY DEF TypeOK
  <1> QED
    BY <1>1 DEF ProposalRow

LEMMA OrderTyped ==
  ASSUME TypeOK, NEW x \in Orders, NEW s \in OrderStatus \cup {"deleted"},
         NEW a \in Proposals \cup {NoProposal}
  PROVE  /\ [order[x] EXCEPT !.status = s] \in OrderRow
         /\ [order[x] EXCEPT !.status = s, !.accepted = a] \in OrderRow
  <1>1. order[x] \in OrderRow
    BY DEF TypeOK
  <1> QED
    BY <1>1 DEF OrderRow

LEMMA RejectTyped ==
  ASSUME TypeOK, NEW r, NEW p, NEW q \in Proposals
  PROVE  RejectHeld(r, p, q) \in ProposalRow
  <1>1. proposal[q] \in ProposalRow
    BY DEF TypeOK
  <1>2. [proposal[q] EXCEPT !.status = "REJECTED"] \in ProposalRow
    BY VerdictTyped DEF ProposalStatus
  <1> QED
    BY <1>1, <1>2 DEF RejectHeld

LEMMA CloseTyped ==
  ASSUME TypeOK, NEW r, NEW q \in Proposals
  PROVE  CloseHeld(r, q) \in ChatRow
  <1>1. chat[q] \in ChatRow
    BY DEF TypeOK
  <1>2. [chat[q] EXCEPT !.status = "closed"] \in ChatRow
    BY <1>1 DEF ChatRow
  <1> QED
    BY <1>1, <1>2 DEF CloseHeld

LEMMA AcceptCommitInv ==
  ASSUME IInv, NEW r \in Requests, AcceptCommit(r)
  PROVE  IInv'
  <1> DEFINE o == req[r].order
             p == req[r].prop
  <1>1. /\ o \in Orders /\ p \in Proposals
        /\ order[o].status = "OPEN" /\ Holds(r, OrderLock(o))
        /\ proposal[p].status = "PENDING" /\ proposal[p].order = o
        /\ Holds(r, ProposalLock(p))
        /\ ~NoKey(r)
    BY DEF AcceptCommit, Done, IInv, RequestInv, SlotInv, DecideInv, Deciding, ChosenInv, NoKey
  <1>2. \A q \in Proposals : Holds(r, ProposalLock(q)) =>
          proposal[q].order = o /\ proposal[q].status = "PENDING"
    BY DEF AcceptCommit, Done, IInv, RequestInv, HeldInv
  <1>3. /\ order' = [order EXCEPT ![o].status = "ASSIGNED", ![o].accepted = p]
        /\ proposal' = [q \in Proposals |->
                          IF q = p THEN [proposal[q] EXCEPT !.status = "ACCEPTED"]
                                   ELSE RejectHeld(r, p, q)]
        /\ chat' = [q \in Proposals |-> CloseHeld(r, q)]
        /\ End(r)
    BY DEF AcceptCommit
  <1>4. TypeOK'
    <2>1. order' \in [Orders -> OrderRow]
      <3>1. [order[o] EXCEPT !.status = "ASSIGNED", !.accepted = p] \in OrderRow
        BY <1>1, OrderTyped DEF IInv, OrderStatus
      <3> QED
        BY <1>1, <1>3, <3>1 DEF IInv, TypeOK
    <2>2. proposal' \in [Proposals -> ProposalRow]
      <3>1. \A q \in Proposals : [proposal[q] EXCEPT !.status = "ACCEPTED"] \in ProposalRow
        BY VerdictTyped DEF IInv, ProposalStatus
      <3> QED
        BY <1>3, <3>1, RejectTyped DEF IInv
    <2>3. chat' \in [Proposals -> ChatRow]
      BY <1>3, CloseTyped DEF IInv
    <2> QED
      BY <1>3, <2>1, <2>2, <2>3, TypeEnd DEF IInv, TypeOK
  <1>5. /\ order'[o].status = "ASSIGNED" /\ order'[o].accepted = p
        /\ \A x \in Orders \ {o} : order'[x] = order[x]
    BY <1>1, <1>3 DEF IInv, TypeOK, OrderRow
  <1>6. /\ proposal'[p].status = "ACCEPTED"
        /\ \A q \in Proposals :
             /\ proposal'[q].order = proposal[q].order
             /\ q # p => \/ proposal'[q].status = proposal[q].status
                         \/ Holds(r, ProposalLock(q)) /\ proposal'[q].status = "REJECTED"
    BY <1>1, <1>3 DEF IInv, TypeOK, ProposalRow, RejectHeld
  <1>7. \A q \in Proposals : chat'[q].status \in {chat[q].status, "closed"}
                            /\ (chat'[q].status # chat[q].status => Holds(r, ChatLock(q)))
    BY <1>3 DEF IInv, TypeOK, ChatRow, CloseHeld
  <1>8. ForeignKeyInv'
    BY <1>1, <1>2, <1>5, <1>6 DEF IInv, ForeignKeyInv, OrderExists, ProposalExists, OrderStatus,
       ProposalStatus
  <1>9. VerdictAgrees'
    <2>1. ASSUME NEW x \in Orders, order'[x].accepted # NoProposal
          PROVE  /\ order'[x].status \in {"ASSIGNED", "CLOSED"}
                 /\ proposal'[order'[x].accepted].status = "ACCEPTED"
                 /\ proposal'[order'[x].accepted].order = x
      <3>1. CASE x = o
        BY <1>1, <1>5, <1>6, <3>1
      <3>2. CASE x # o
        <4> DEFINE a == order[x].accepted
        <4>1. /\ order'[x] = order[x]
              /\ a \in Proposals
              /\ order[x].status \in {"ASSIGNED", "CLOSED"}
              /\ proposal[a].status = "ACCEPTED" /\ proposal[a].order = x
          BY <1>5, <2>1, <3>2 DEF IInv, VerdictAgrees, TypeOK, OrderRow
        <4>2. proposal'[a].status = "ACCEPTED" /\ proposal'[a].order = x
          BY <1>1, <1>2, <1>6, <4>1
        <4> QED
          BY <4>1, <4>2
      <3> QED
        BY <3>1, <3>2
    <2>2. ASSUME NEW q \in Proposals, proposal'[q].status = "ACCEPTED"
          PROVE  order'[proposal'[q].order].accepted = q
      <3>1. CASE q = p
        BY <1>1, <1>5, <1>6, <3>1
      <3>2. CASE q # p
        <4>1. proposal[q].status = "ACCEPTED"
          BY <1>6, <2>2, <3>2
        <4> QED
          BY <1>1, <1>5, <1>6, <4>1, AcceptedHasOrder
      <3> QED
        BY <3>1, <3>2
    <2> QED
      BY <2>1, <2>2 DEF VerdictAgrees
  <1>10. OpenUndecided'
    BY <1>1, <1>2, <1>5, <1>6 DEF IInv, OpenUndecided, ForeignKeyInv, ProposalExists, ProposalStatus,
       OrderExists
  <1>11. Disciplined(r)
    <2>1. ASSUME NEW x \in Orders
          PROVE  /\ order'[x].status # order[x].status => Holds(r, OrderLock(x)) /\ ~NoKey(r)
                 /\ order'[x].status = "unborn" <=> order[x].status = "unborn"
                 /\ OrderExists(x)' => OrderExists(x)
      BY <1>1, <1>5 DEF OrderExists, OrderStatus
    <2>2. ASSUME NEW q \in Proposals
          PROVE  /\ proposal'[q].order = proposal[q].order
                 /\ ProposalExists(q)' => ProposalExists(q)
                 /\ proposal'[q].status = "PENDING" => proposal[q].status = "PENDING"
                 /\ proposal'[q].status # proposal[q].status =>
                      /\ Holds(r, ProposalLock(q))
                      /\ proposal'[q].status = "deleted" \/ Holds(r, OrderLock(proposal[q].order))
      BY <1>1, <1>2, <1>6 DEF ProposalExists, ProposalStatus
    <2>3. ASSUME NEW q \in Proposals
          PROVE  chat'[q].status = "active" => chat[q].status = "active"
      BY <1>7
    <2> QED
      BY <2>1, <2>2, <2>3 DEF Disciplined
  <1> QED
    BY <1>3, <1>4, <1>8, <1>9, <1>10, <1>11, DisciplinedInv, EndInv DEF IInv

LEMMA CloseCommitInv ==
  ASSUME IInv, NEW r \in Requests, CloseCommit(r)
  PROVE  IInv'
  <1> DEFINE o == req[r].order
  <1>1. /\ o \in Orders
        /\ order[o].status \in {"OPEN", "ASSIGNED"} /\ Holds(r, OrderLock(o))
        /\ ~NoKey(r)
    BY DEF CloseCommit, Done, IInv, RequestInv, SlotInv, DecideInv, Deciding, NoKey
  <1>2. \A q \in Proposals : Holds(r, ProposalLock(q)) =>
          proposal[q].order = o /\ proposal[q].status = "PENDING"
    BY DEF CloseCommit, Done, IInv, RequestInv, HeldInv
  <1>3. /\ order' = [order EXCEPT ![o].status = "CLOSED"]
        /\ proposal' = [q \in Proposals |-> RejectHeld(r, NoProposal, q)]
        /\ chat' = [q \in Proposals |-> CloseHeld(r, q)]
        /\ End(r)
    BY DEF CloseCommit
  <1>4. TypeOK'
    <2>1. order' \in [Orders -> OrderRow]
      <3>1. [order[o] EXCEPT !.status = "CLOSED"] \in OrderRow
        BY <1>1, OrderTyped DEF IInv, OrderStatus
      <3> QED
        BY <1>1, <1>3, <3>1 DEF IInv, TypeOK
    <2>2. proposal' \in [Proposals -> ProposalRow]
      BY <1>3, RejectTyped DEF IInv
    <2>3. chat' \in [Proposals -> ChatRow]
      BY <1>3, CloseTyped DEF IInv
    <2> QED
      BY <1>3, <2>1, <2>2, <2>3, TypeEnd DEF IInv, TypeOK
  <1>5. /\ order'[o].status = "CLOSED"
        /\ \A x \in Orders : order'[x].accepted = order[x].accepted
        /\ \A x \in Orders \ {o} : order'[x] = order[x]
    BY <1>1, <1>3 DEF IInv, TypeOK, OrderRow
  <1>6. \A q \in Proposals :
          /\ proposal'[q].order = proposal[q].order
          /\ \/ proposal'[q].status = proposal[q].status
             \/ Holds(r, ProposalLock(q)) /\ proposal'[q].status = "REJECTED"
    BY <1>1, <1>3 DEF IInv, TypeOK, ProposalRow, RejectHeld
  <1>7. \A q \in Proposals : chat'[q].status \in {chat[q].status, "closed"}
    BY <1>3 DEF IInv, TypeOK, ChatRow, CloseHeld
  <1>8. ForeignKeyInv'
    BY <1>1, <1>2, <1>5, <1>6 DEF IInv, ForeignKeyInv, OrderExists, ProposalExists, OrderStatus,
       ProposalStatus
  <1>9. VerdictAgrees'
    <2>1. ASSUME NEW x \in Orders, order'[x].accepted # NoProposal
          PROVE  /\ order'[x].status \in {"ASSIGNED", "CLOSED"}
                 /\ proposal'[order'[x].accepted].status = "ACCEPTED"
                 /\ proposal'[order'[x].accepted].order = x
      <3> DEFINE a == order[x].accepted
      <3>1. /\ a \in Proposals /\ order'[x].accepted = a
            /\ order[x].status \in {"ASSIGNED", "CLOSED"}
            /\ proposal[a].status = "ACCEPTED" /\ proposal[a].order = x
        BY <1>5, <2>1 DEF IInv, VerdictAgrees, TypeOK, OrderRow
      <3>2. proposal'[a].status = "ACCEPTED" /\ proposal'[a].order = x
        BY <1>2, <1>6, <3>1
      <3>3. order'[x].status \in {"ASSIGNED", "CLOSED"}
        BY <1>5, <3>1
      <3> QED
        BY <3>1, <3>2, <3>3
    <2>2. ASSUME NEW q \in Proposals, proposal'[q].status = "ACCEPTED"
          PROVE  order'[proposal'[q].order].accepted = q
      <3>1. proposal[q].status = "ACCEPTED"
        BY <1>6, <2>2
      <3> QED
        BY <1>5, <1>6, <3>1, AcceptedHasOrder
    <2> QED
      BY <2>1, <2>2 DEF VerdictAgrees
  <1>10. OpenUndecided'
    BY <1>1, <1>2, <1>5, <1>6 DEF IInv, OpenUndecided, ForeignKeyInv, ProposalExists, ProposalStatus,
       OrderExists
  <1>11. Disciplined(r)
    <2>1. ASSUME NEW x \in Orders
          PROVE  /\ order'[x].status # order[x].status => Holds(r, OrderLock(x)) /\ ~NoKey(r)
                 /\ order'[x].status = "unborn" <=> order[x].status = "unborn"
                 /\ OrderExists(x)' => OrderExists(x)
      BY <1>1, <1>5 DEF OrderExists, OrderStatus
    <2>2. ASSUME NEW q \in Proposals
          PROVE  /\ proposal'[q].order = proposal[q].order
                 /\ ProposalExists(q)' => ProposalExists(q)
                 /\ proposal'[q].status = "PENDING" => proposal[q].status = "PENDING"
                 /\ proposal'[q].status # proposal[q].status =>
                      /\ Holds(r, ProposalLock(q))
                      /\ proposal'[q].status = "deleted" \/ Holds(r, OrderLock(proposal[q].order))
      BY <1>1, <1>2, <1>6 DEF ProposalExists, ProposalStatus
    <2> QED
      BY <1>7, <2>1, <2>2 DEF Disciplined
  <1> QED
    BY <1>3, <1>4, <1>8, <1>9, <1>10, <1>11, DisciplinedInv, EndInv DEF IInv

LEMMA DeleteOrderCommitInv ==
  ASSUME IInv, NEW r \in Requests, DeleteOrderCommit(r)
  PROVE  IInv'
  <1> DEFINE o == req[r].order
  <1>1. /\ o \in Orders /\ order[o].status # "unborn"
        /\ OrderExists(o) => Holds(r, OrderLock(o))
        /\ ~NoKey(r)
        /\ \A q \in ProposalsOf(o) : Holds(r, ProposalLock(q))
    BY DEF DeleteOrderCommit, Done, IInv, RequestInv, SlotInv, DeleteInv, NoKey
  <1>2. \A q \in Proposals : Holds(r, ProposalLock(q)) => proposal[q].order = o
    BY DEF DeleteOrderCommit, Done, IInv, RequestInv, HeldInv
  <1>3. /\ order' = IF OrderExists(o)
                    THEN [order EXCEPT ![o].status = "deleted", ![o].accepted = NoProposal]
                    ELSE order
        /\ proposal' = [q \in Proposals |->
                          IF Holds(r, ProposalLock(q))
                          THEN [proposal[q] EXCEPT !.status = "deleted"] ELSE proposal[q]]
        /\ chat' = [q \in Proposals |->
                      IF Holds(r, ChatLock(q))
                      THEN [status |-> "deleted", linked |-> FALSE] ELSE chat[q]]
        /\ End(r)
    BY DEF DeleteOrderCommit
  <1>4. TypeOK'
    <2>1. order' \in [Orders -> OrderRow]
      <3>1. [order[o] EXCEPT !.status = "deleted", !.accepted = NoProposal] \in OrderRow
        BY <1>1, OrderTyped DEF IInv
      <3> QED
        BY <1>1, <1>3, <3>1 DEF IInv, TypeOK
    <2>2. proposal' \in [Proposals -> ProposalRow]
      <3>1. ASSUME NEW q \in Proposals PROVE [proposal[q] EXCEPT !.status = "deleted"] \in ProposalRow
        BY VerdictTyped DEF IInv
      <3> QED
        BY <1>3, <3>1 DEF IInv, TypeOK
    <2>3. chat' \in [Proposals -> ChatRow]
      BY <1>3 DEF IInv, TypeOK, ChatRow
    <2> QED
      BY <1>3, <2>1, <2>2, <2>3, TypeEnd DEF IInv, TypeOK
  <1>5. /\ order'[o].status = "deleted" /\ order'[o].accepted = NoProposal
        /\ \A x \in Orders \ {o} : order'[x] = order[x]
    <2>1. CASE OrderExists(o)
      BY <1>1, <1>3, <2>1 DEF IInv, TypeOK, OrderRow
    <2>2. CASE ~OrderExists(o)
      BY <1>1, <1>3, <2>2 DEF IInv, VerdictAgrees, TypeOK, OrderRow, OrderExists, OrderStatus
    <2> QED
      BY <2>1, <2>2
  <1>6. \A q \in Proposals :
          /\ proposal'[q].order = proposal[q].order
          /\ Holds(r, ProposalLock(q)) => proposal'[q].status = "deleted"
          /\ ~Holds(r, ProposalLock(q)) => proposal'[q].status = proposal[q].status
    BY <1>1, <1>3 DEF IInv, TypeOK, ProposalRow
  <1>7. \A q \in Proposals : chat'[q].status \in {chat[q].status, "deleted"}
    BY <1>3 DEF IInv, TypeOK, ChatRow
  <1>8. ForeignKeyInv'
    <2>1. ASSUME NEW q \in Proposals, ProposalExists(q)' PROVE OrderExists(proposal[q].order)'
      <3>1. ProposalExists(q) /\ ~Holds(r, ProposalLock(q))
        BY <1>6, <2>1 DEF ProposalExists, ProposalStatus
      <3>2. proposal[q].order \in Orders \ {o}
        BY <1>1, <3>1 DEF ProposalsOf, IInv, ForeignKeyInv, OrderExists
      <3> QED
        BY <1>5, <1>6, <3>1, <3>2 DEF IInv, ForeignKeyInv, OrderExists
    <2>2. ASSUME NEW q \in Proposals, proposal'[q].status = "unborn"
          PROVE  proposal'[q].order = NoOrder
      BY <1>6, <2>2 DEF IInv, ForeignKeyInv
    <2> QED
      BY <1>6, <2>1, <2>2 DEF ForeignKeyInv
  <1>9. VerdictAgrees'
    <2>1. ASSUME NEW x \in Orders, order'[x].accepted # NoProposal
          PROVE  /\ order'[x].status \in {"ASSIGNED", "CLOSED"}
                 /\ proposal'[order'[x].accepted].status = "ACCEPTED"
                 /\ proposal'[order'[x].accepted].order = x
      <3> DEFINE a == order[x].accepted
      <3>1. x # o
        BY <1>5, <2>1
      <3>2. /\ a \in Proposals /\ order'[x] = order[x]
            /\ order[x].status \in {"ASSIGNED", "CLOSED"}
            /\ proposal[a].status = "ACCEPTED" /\ proposal[a].order = x
        BY <1>5, <2>1, <3>1 DEF IInv, VerdictAgrees, TypeOK, OrderRow
      <3>3. proposal'[a].status = "ACCEPTED" /\ proposal'[a].order = x
        BY <1>2, <1>6, <3>1, <3>2
      <3> QED
        BY <3>2, <3>3
    <2>2. ASSUME NEW q \in Proposals, proposal'[q].status = "ACCEPTED"
          PROVE  order'[proposal'[q].order].accepted = q
      <3>1. proposal[q].status = "ACCEPTED" /\ ~Holds(r, ProposalLock(q))
        BY <1>6, <2>2
      <3>2. proposal[q].order # o
        BY <1>1, <3>1 DEF ProposalsOf, ProposalExists, ProposalStatus
      <3> QED
        BY <1>5, <1>6, <3>1, <3>2, AcceptedHasOrder
    <2> QED
      BY <2>1, <2>2 DEF VerdictAgrees
  <1>10. OpenUndecided'
    BY <1>1, <1>2, <1>5, <1>6 DEF IInv, OpenUndecided, ForeignKeyInv, ProposalExists, ProposalStatus,
       OrderExists
  <1>11. Disciplined(r)
    <2>1. ASSUME NEW x \in Orders
          PROVE  /\ order'[x].status # order[x].status => Holds(r, OrderLock(x)) /\ ~NoKey(r)
                 /\ order'[x].status = "unborn" <=> order[x].status = "unborn"
                 /\ OrderExists(x)' => OrderExists(x)
      BY <1>1, <1>5 DEF OrderExists, OrderStatus, IInv, TypeOK, OrderRow
    <2>2. ASSUME NEW q \in Proposals
          PROVE  /\ proposal'[q].order = proposal[q].order
                 /\ ProposalExists(q)' => ProposalExists(q)
                 /\ proposal'[q].status = "PENDING" => proposal[q].status = "PENDING"
                 /\ proposal'[q].status # proposal[q].status =>
                      /\ Holds(r, ProposalLock(q))
                      /\ proposal'[q].status = "deleted" \/ Holds(r, OrderLock(proposal[q].order))
      BY <1>1, <1>2, <1>6 DEF ProposalExists, ProposalStatus
    <2> QED
      BY <1>7, <2>1, <2>2 DEF Disciplined
  <1> QED
    BY <1>3, <1>4, <1>8, <1>9, <1>10, <1>11, DisciplinedInv, EndInv DEF IInv

LEMMA WithdrawCommitInv ==
  ASSUME IInv, NEW r \in Requests, NEW op \in {"delete_proposal", "close_chat"},
         WithdrawCommit(r, op)
  PROVE  IInv'
  <1> DEFINE p == req[r].prop
             gone == Holds(r, ProposalLock(p))
  <1>1. p \in Proposals
    BY DEF WithdrawCommit, Done, IInv, RequestInv, SlotInv
  <1>2. /\ chat' = IF Holds(r, ChatLock(p))
                   THEN [chat EXCEPT ![p] = [status |-> "closed", linked |-> FALSE]] ELSE chat
        /\ proposal' = IF gone THEN [proposal EXCEPT ![p].status = "deleted"] ELSE proposal
        /\ order' = [o \in Orders |->
                       IF gone /\ order[o].accepted = p
                       THEN [order[o] EXCEPT !.accepted = NoProposal] ELSE order[o]]
        /\ End(r)
    BY DEF WithdrawCommit
  <1>3. TypeOK'
    <2>1. order' \in [Orders -> OrderRow]
      <3>1. ASSUME NEW o \in Orders PROVE [order[o] EXCEPT !.accepted = NoProposal] \in OrderRow
        <4>1. order[o] \in OrderRow
          BY DEF IInv, TypeOK
        <4> QED
          BY <4>1 DEF OrderRow
      <3> QED
        BY <1>2, <3>1 DEF IInv, TypeOK
    <2>2. proposal' \in [Proposals -> ProposalRow]
      <3>1. [proposal[p] EXCEPT !.status = "deleted"] \in ProposalRow
        BY <1>1, VerdictTyped DEF IInv
      <3> QED
        BY <1>1, <1>2, <3>1 DEF IInv, TypeOK
    <2>3. chat' \in [Proposals -> ChatRow]
      BY <1>1, <1>2 DEF IInv, TypeOK, ChatRow
    <2> QED
      BY <1>2, <2>1, <2>2, <2>3, TypeEnd DEF IInv, TypeOK
  <1>4. \A o \in Orders : /\ order'[o].status = order[o].status
                          /\ order'[o].accepted = IF gone /\ order[o].accepted = p
                                                  THEN NoProposal ELSE order[o].accepted
    BY <1>2 DEF IInv, TypeOK, OrderRow
  <1>5. /\ \A q \in Proposals : proposal'[q].order = proposal[q].order
        /\ gone => proposal'[p].status = "deleted"
        /\ \A q \in Proposals : q # p \/ ~gone => proposal'[q].status = proposal[q].status
    BY <1>1, <1>2 DEF IInv, TypeOK, ProposalRow
  <1>6. \A q \in Proposals : chat'[q].status \in {chat[q].status, "closed"}
    BY <1>1, <1>2 DEF IInv, TypeOK, ChatRow
  <1>7. ForeignKeyInv'
    BY <1>4, <1>5 DEF IInv, ForeignKeyInv, OrderExists, ProposalExists, ProposalStatus
  <1>8. VerdictAgrees'
    <2>1. ASSUME NEW o \in Orders, order'[o].accepted # NoProposal
          PROVE  /\ order'[o].status \in {"ASSIGNED", "CLOSED"}
                 /\ proposal'[order'[o].accepted].status = "ACCEPTED"
                 /\ proposal'[order'[o].accepted].order = o
      <3> DEFINE a == order[o].accepted
      <3>1. order'[o].accepted = a /\ (a # p \/ ~gone)
        BY <1>4, <2>1
      <3>2. /\ a \in Proposals
            /\ order[o].status \in {"ASSIGNED", "CLOSED"}
            /\ proposal[a].status = "ACCEPTED" /\ proposal[a].order = o
        BY <2>1, <3>1 DEF IInv, VerdictAgrees, TypeOK, OrderRow
      <3> QED
        BY <1>4, <1>5, <3>1, <3>2
    <2>2. ASSUME NEW q \in Proposals, proposal'[q].status = "ACCEPTED"
          PROVE  order'[proposal'[q].order].accepted = q
      <3>1. proposal[q].status = "ACCEPTED" /\ (q # p \/ ~gone)
        BY <1>5, <2>2
      <3> QED
        BY <1>4, <1>5, <3>1, AcceptedHasOrder
    <2> QED
      BY <2>1, <2>2 DEF VerdictAgrees
  <1>9. OpenUndecided'
    BY <1>4, <1>5 DEF IInv, OpenUndecided, ForeignKeyInv, ProposalExists, ProposalStatus, OrderExists
  <1>10. Disciplined(r)
    BY <1>1, <1>4, <1>5, <1>6 DEF Disciplined, OrderExists, ProposalExists, ProposalStatus
  <1> QED
    BY <1>2, <1>3, <1>7, <1>8, <1>9, <1>10, DisciplinedInv, EndInv DEF IInv

LEMMA UpdateCommitInv ==
  ASSUME IInv, NEW r \in Requests, UpdateOrderCommit(r) \/ UpdateProposalCommit(r)
  PROVE  IInv'
  <1>1. /\ req[r].op = "update_order" => req[r].order \in Orders
        /\ req[r].op = "update_proposal" => req[r].prop \in Proposals
    BY DEF IInv, RequestInv, SlotInv, TypeOK, Request
  <1>2. End(r) /\ UNCHANGED chat
    BY DEF UpdateOrderCommit, UpdateProposalCommit
  <1>3. /\ order' \in [Orders -> OrderRow]
        /\ \A o \in Orders : /\ order'[o].status = order[o].status
                             /\ order'[o].accepted = order[o].accepted
    <2>1. CASE UpdateOrderCommit(r)
      <3>1. /\ req[r].order \in Orders
            /\ order' = [order EXCEPT ![req[r].order].terms = "edited"]
        BY <1>1, <2>1 DEF UpdateOrderCommit, Done
      <3>2. ASSUME NEW o \in Orders PROVE [order[o] EXCEPT !.terms = "edited"] \in OrderRow
        BY DEF IInv, TypeOK, OrderRow, Terms
      <3> QED
        BY <3>1, <3>2 DEF IInv, TypeOK, OrderRow
    <2>2. CASE UpdateProposalCommit(r)
      BY <2>2 DEF UpdateProposalCommit, IInv, TypeOK
    <2> QED
      BY <2>1, <2>2
  <1>4. /\ proposal' \in [Proposals -> ProposalRow]
        /\ \A q \in Proposals : /\ proposal'[q].status = proposal[q].status
                                /\ proposal'[q].order = proposal[q].order
    <2>1. CASE UpdateOrderCommit(r)
      BY <2>1 DEF UpdateOrderCommit, IInv, TypeOK
    <2>2. CASE UpdateProposalCommit(r)
      <3>1. /\ req[r].prop \in Proposals
            /\ proposal' = [proposal EXCEPT ![req[r].prop].terms = "edited"]
        BY <1>1, <2>2 DEF UpdateProposalCommit, Done
      <3>2. [proposal[req[r].prop] EXCEPT !.terms = "edited"] \in ProposalRow
        <4>1. proposal[req[r].prop] \in ProposalRow
          BY <3>1 DEF IInv, TypeOK
        <4> QED
          BY <4>1 DEF ProposalRow, Terms
      <3> QED
        BY <3>1, <3>2 DEF IInv, TypeOK, ProposalRow
    <2> QED
      BY <2>1, <2>2
  <1>5. TypeOK'
    BY <1>2, <1>3, <1>4, TypeEnd DEF IInv, TypeOK
  <1>6. ForeignKeyInv' /\ OpenUndecided'
    BY <1>3, <1>4 DEF IInv, ForeignKeyInv, OpenUndecided, OrderExists, ProposalExists,
       ProposalStatus
  <1>7. VerdictAgrees'
    <2>1. ASSUME NEW o \in Orders, order'[o].accepted # NoProposal
          PROVE  /\ order'[o].status \in {"ASSIGNED", "CLOSED"}
                 /\ proposal'[order'[o].accepted].status = "ACCEPTED"
                 /\ proposal'[order'[o].accepted].order = o
      BY <1>3, <1>4, <2>1 DEF IInv, VerdictAgrees, TypeOK, OrderRow
    <2>2. ASSUME NEW q \in Proposals, proposal'[q].status = "ACCEPTED"
          PROVE  order'[proposal'[q].order].accepted = q
      BY <1>3, <1>4, <2>2, AcceptedHasOrder
    <2> QED
      BY <2>1, <2>2 DEF VerdictAgrees
  <1>8. Disciplined(r)
    BY <1>2, <1>3, <1>4 DEF Disciplined, OrderExists, ProposalExists
  <1> QED
    BY <1>2, <1>5, <1>6, <1>7, <1>8, DisciplinedInv, EndInv DEF IInv

\* The new proposal belongs to an order that its transaction shares, so no
\* other transaction is deciding on that order or deleting it.
LEMMA CreateCommitInv ==
  ASSUME IInv, NEW r \in Requests, CreateCommit(r)
  PROVE  IInv'
  <1> DEFINE o == req[r].order
  <1>1. PICK p \in Unborn :
          /\ proposal' = [proposal EXCEPT ![p] =
                            [status |-> "PENDING", order |-> o, executor |-> req[r].user,
                             recent |-> TRUE, terms |-> "posted"]]
          /\ chat' = [chat EXCEPT ![p] = [status |-> "active", linked |-> TRUE]]
    BY DEF CreateCommit
  <1>2. UNCHANGED order /\ End(r)
    BY DEF CreateCommit
  <1>3. p \in Proposals /\ proposal[p].status = "unborn" /\ proposal[p].order = NoOrder
    BY DEF Unborn, IInv, ForeignKeyInv
  <1>4. /\ o \in Orders /\ OrderExists(o)
        /\ r \in sharers[o] /\ ~NoKey(r)
        /\ \A s \in Requests : Holds(s, OrderLock(o)) => NoKey(s)
    BY DEF CreateCommit, Done, IInv, RequestInv, SlotInv, ShareInv, ShareExcludes, NoKey
  <1>5. TypeOK'
    <2>1. proposal' \in [Proposals -> ProposalRow]
      BY <1>1, <1>3, <1>4 DEF IInv, TypeOK, Request, ProposalRow, ProposalStatus, Terms
    <2>2. chat' \in [Proposals -> ChatRow]
      BY <1>1, <1>3 DEF IInv, TypeOK, ChatRow
    <2> QED
      BY <1>2, <2>1, <2>2, TypeEnd DEF IInv, TypeOK
  <1>6. /\ proposal'[p].status = "PENDING" /\ proposal'[p].order = o
        /\ \A q \in Proposals \ {p} : proposal'[q] = proposal[q] /\ chat'[q] = chat[q]
    BY <1>1, <1>3 DEF IInv, TypeOK
  <1>7. ForeignKeyInv' /\ OpenUndecided'
    BY <1>2, <1>4, <1>6 DEF IInv, ForeignKeyInv, OpenUndecided, OrderExists, ProposalExists
  <1>8. VerdictAgrees'
    <2>1. \A x \in Orders : order[x].accepted # p
      BY <1>3, ProposalsAreNamed DEF IInv, VerdictAgrees
    <2>2. ASSUME NEW x \in Orders, order'[x].accepted # NoProposal
          PROVE  /\ order'[x].status \in {"ASSIGNED", "CLOSED"}
                 /\ proposal'[order'[x].accepted].status = "ACCEPTED"
                 /\ proposal'[order'[x].accepted].order = x
      BY <1>2, <1>6, <2>1, <2>2 DEF IInv, VerdictAgrees, TypeOK, OrderRow
    <2>3. ASSUME NEW q \in Proposals, proposal'[q].status = "ACCEPTED"
          PROVE  order'[proposal'[q].order].accepted = q
      BY <1>2, <1>6, <2>3, AcceptedHasOrder
    <2> QED
      BY <2>2, <2>3 DEF VerdictAgrees
  <1>9. ASSUME NEW s \in Requests \ {r} PROVE RequestInv(s, req[s].pc)'
    <2>1. RequestInv(s, req[s].pc)
      BY DEF IInv
    <2>2. /\ req'[s] = req[s]
          /\ \A w \in Rows : Holds(s, w)' <=> Holds(s, w)
          /\ \A x \in Orders : s \in sharers'[x] <=> s \in sharers[x]
      BY <1>2, EndFacts
    <2>3. ~Deciding(s, req[s].pc) \/ req[s].order # o
      BY <1>4, <2>1 DEF RequestInv, DecideInv, Deciding, NoKey
    <2>4. SlotInv(s, req[s].pc)' /\ ShareInv(s, req[s].pc)' /\ DecideInv(s, req[s].pc)'
      BY <1>2, <2>1, <2>2, LocksAreRows DEF RequestInv, SlotInv, ShareInv, DecideInv, Deciding,
         OrderExists
    <2>5. ChosenInv(s, req[s].pc)'
      <3>1. CASE req[s].prop = p
        BY <1>3, <2>1, <2>2, <3>1 DEF RequestInv, SlotInv, ChosenInv
      <3>2. CASE req[s].prop # p
        BY <1>6, <2>1, <2>2, <3>2, LocksAreRows DEF RequestInv, SlotInv, ChosenInv
      <3> QED
        BY <3>1, <3>2
    <2>6. BulkInv(s, req[s].pc)'
      BY <1>6, <2>1, <2>2, <2>3, LocksAreRows DEF RequestInv, SlotInv, BulkInv, Deciding,
         ProposalsOf, ChatsOf, ProposalExists, ChatExists
    <2>7. HeldInv(s, req[s].pc)'
      BY <1>3, <1>6, <2>1, <2>2, LocksAreRows DEF RequestInv, SlotInv, HeldInv, Deciding
    <2>8. DeleteInv(s, req[s].pc)'
      <3>1. ASSUME req[s].op = "delete_order", req[s].pc = "commit", req[s].order = o PROVE FALSE
        BY <1>4, <2>1, <3>1 DEF RequestInv, DeleteInv, NoKey
      <3> QED
        BY <1>2, <1>6, <2>1, <2>2, <3>1, LocksAreRows DEF RequestInv, SlotInv, DeleteInv,
           ProposalsOf, ProposalExists, OrderExists
    <2> QED
      BY <2>4, <2>5, <2>6, <2>7, <2>8 DEF RequestInv
  <1> QED
    BY <1>2, <1>5, <1>7, <1>8, <1>9, EndInv DEF IInv

(***************************************************************************)
(* Clients and time                                                        *)
(***************************************************************************)

LEMMA CreateOrderInv ==
  ASSUME IInv, NEW o \in Orders, CreateOrder(o)
  PROVE  IInv'
  <1>1. /\ order[o].status = "unborn"
        /\ UNCHANGED <<proposal, chat, req, owner, sharers>>
    BY DEF CreateOrder
  <1>2. /\ order' \in [Orders -> OrderRow]
        /\ order'[o].status = "OPEN"
        /\ \A x \in Orders : order'[x].accepted = order[x].accepted
        /\ \A x \in Orders \ {o} : order'[x] = order[x]
    <2>1. [order[o] EXCEPT !.status = "OPEN"] \in OrderRow
      BY DEF IInv, TypeOK, OrderRow, OrderStatus
    <2> QED
      BY <2>1 DEF CreateOrder, IInv, TypeOK, OrderRow
  <1>3. TypeOK'
    BY <1>1, <1>2 DEF IInv, TypeOK
  <1>4. \A p \in Proposals : ProposalExists(p) => proposal[p].order \in Orders \ {o}
    BY <1>1 DEF IInv, ForeignKeyInv, OrderExists, OrderStatus
  <1>5. ForeignKeyInv' /\ OpenUndecided'
    BY <1>1, <1>2, <1>4 DEF IInv, ForeignKeyInv, OpenUndecided, ProposalExists, OrderExists
  <1>6. order[o].accepted = NoProposal
    BY <1>1 DEF IInv, VerdictAgrees
  <1>7. VerdictAgrees'
    <2>1. ASSUME NEW x \in Orders, order'[x].accepted # NoProposal
          PROVE  /\ order'[x].status \in {"ASSIGNED", "CLOSED"}
                 /\ proposal'[order'[x].accepted].status = "ACCEPTED"
                 /\ proposal'[order'[x].accepted].order = x
      BY <1>1, <1>2, <1>6, <2>1 DEF IInv, VerdictAgrees
    <2>2. ASSUME NEW q \in Proposals, proposal'[q].status = "ACCEPTED"
          PROVE  order'[proposal'[q].order].accepted = q
      BY <1>1, <1>2, <2>2, AcceptedHasOrder
    <2> QED
      BY <2>1, <2>2 DEF VerdictAgrees
  <1>8. ShareExcludes'
    BY <1>1 DEF IInv, ShareExcludes, Holds, NoKey
  <1>9. ASSUME NEW s \in Requests PROVE RequestInv(s, req[s].pc)'
    <2>1. RequestInv(s, req[s].pc)
      BY DEF IInv
    <2> QED
      BY <1>1, <1>2, <2>1 DEF RequestInv, SlotInv, ShareInv, DecideInv, Deciding, ChosenInv,
         BulkInv, HeldInv, DeleteInv, Holds, OrderExists, OrderStatus, ProposalsOf, ChatsOf,
         ProposalExists, ChatExists
  <1> QED
    BY <1>3, <1>5, <1>7, <1>8, <1>9 DEF IInv

LEMMA AgeInv ==
  ASSUME IInv, NEW p \in Proposals, Age(p)
  PROVE  IInv'
  <1>1. UNCHANGED <<order, chat, req, owner, sharers>>
    BY DEF Age
  <1>2. /\ proposal' \in [Proposals -> ProposalRow]
        /\ \A q \in Proposals : /\ proposal'[q].status = proposal[q].status
                                /\ proposal'[q].order = proposal[q].order
    <2>1. proposal[p] \in ProposalRow
      BY DEF IInv, TypeOK
    <2>2. [proposal[p] EXCEPT !.recent = FALSE] \in ProposalRow
      BY <2>1, Zenon DEF ProposalRow
    <2>3. proposal' = [proposal EXCEPT ![p] = [proposal[p] EXCEPT !.recent = FALSE]]
      BY DEF Age
    <2>4. /\ [proposal[p] EXCEPT !.recent = FALSE].status = proposal[p].status
          /\ [proposal[p] EXCEPT !.recent = FALSE].order = proposal[p].order
      BY <2>1 DEF ProposalRow
    <2> QED
      BY <2>2, <2>3, <2>4 DEF IInv, TypeOK
  <1>3. TypeOK'
    BY <1>1, <1>2 DEF IInv, TypeOK
  <1>4. ForeignKeyInv' /\ OpenUndecided' /\ ShareExcludes'
    BY <1>1, <1>2 DEF IInv, ForeignKeyInv, OpenUndecided, ShareExcludes, ProposalExists, OrderExists,
       Holds, NoKey
  <1>5. VerdictAgrees'
    <2>1. ASSUME NEW x \in Orders, order'[x].accepted # NoProposal
          PROVE  /\ order'[x].status \in {"ASSIGNED", "CLOSED"}
                 /\ proposal'[order'[x].accepted].status = "ACCEPTED"
                 /\ proposal'[order'[x].accepted].order = x
      BY <1>1, <1>2, <2>1 DEF IInv, VerdictAgrees, TypeOK, OrderRow
    <2>2. ASSUME NEW q \in Proposals, proposal'[q].status = "ACCEPTED"
          PROVE  order'[proposal'[q].order].accepted = q
      BY <1>1, <1>2, <2>2, AcceptedHasOrder
    <2> QED
      BY <2>1, <2>2 DEF VerdictAgrees
  <1>6. ASSUME NEW s \in Requests PROVE RequestInv(s, req[s].pc)'
    <2>1. RequestInv(s, req[s].pc)
      BY DEF IInv
    <2> QED
      BY <1>1, <1>2, <2>1 DEF RequestInv, SlotInv, ShareInv, DecideInv, Deciding, ChosenInv,
         BulkInv, HeldInv, DeleteInv, Holds, OrderExists, ProposalsOf, ChatsOf, ProposalExists,
         ChatExists
  <1> QED
    BY <1>3, <1>4, <1>5, <1>6 DEF IInv

LEMMA ArriveInv ==
  ASSUME IInv, NEW r \in Requests, NEW op \in Operations, NEW pc \in Program(op), NEW u \in Users,
         NEW o \in Orders \cup {NoOrder}, NEW p \in Proposals \cup {NoProposal},
         Arrive(r, op, pc, u, o, p),
         pc \in {"lock_order", "read_order", "read_proposal", "read_chat"},
         op \in {"accept_proposal", "close_order"} => pc = "lock_order",
         op \in {"create_proposal", "close_order", "update_order", "delete_order"} =>
           o \in Orders /\ p = NoProposal,
         op = "accept_proposal" => o \in Orders /\ p \in Proposals,
         op \in {"delete_proposal", "close_chat", "update_proposal"} => p \in Proposals,
         op = "delete_order" => order[o].status # "unborn"
  PROVE  IInv'
  <1>1. /\ UNCHANGED <<order, proposal, chat, owner, sharers>>
        /\ req[r] = Idle
        /\ req' = [req EXCEPT ![r] = [op |-> op, pc |-> pc, user |-> u, order |-> o, prop |-> p]]
    BY DEF Arrive
  <1>2. TypeOK'
    <2>1. [op |-> op, pc |-> pc, user |-> u, order |-> o, prop |-> p] \in Request
      BY DEF Request, Statements
    <2> QED
      BY <1>1, <2>1 DEF IInv, TypeOK
  <1>3. /\ req'[r] = [op |-> op, pc |-> pc, user |-> u, order |-> o, prop |-> p]
        /\ \A s \in Requests \ {r} : req'[s] = req[s]
    BY <1>1 DEF IInv, TypeOK
  <1>4. /\ \A w \in Rows : ~Holds(r, w)
        /\ \A x \in Orders : r \notin sharers[x]
    BY <1>1 DEF IInv, RequestInv, SlotInv, ShareInv, Idle
  <1>5. ForeignKeyInv' /\ VerdictAgrees' /\ OpenUndecided'
    BY <1>1 DEF IInv, ForeignKeyInv, VerdictAgrees, OpenUndecided, ProposalExists, OrderExists
  <1>6. ShareExcludes'
    BY <1>1, <1>3, <1>4, LocksAreRows DEF IInv, ShareExcludes, Holds, NoKey
  <1>7. ASSUME NEW s \in Requests PROVE RequestInv(s, req[s].pc)'
    <2>1. CASE s = r
      BY <1>1, <1>3, <1>4, <2>1, LocksAreRows DEF Holds, Operations, RequestInv, SlotInv, ShareInv, DecideInv, Deciding,
       ChosenInv, BulkInv, HeldInv, DeleteInv
    <2>2. CASE s # r
      <3>1. RequestInv(s, req[s].pc)
        BY DEF IInv
      <3> QED
        BY <1>1, <1>3, <2>2, <3>1 DEF Holds, OrderExists, ProposalsOf, ChatsOf,
       ProposalExists, ChatExists, RequestInv, SlotInv, ShareInv, DecideInv, Deciding,
       ChosenInv, BulkInv, HeldInv, DeleteInv
    <2> QED
      BY <2>1, <2>2
  <1> QED
    BY <1>2, <1>5, <1>6, <1>7 DEF IInv

(***************************************************************************)
(* The inductive invariant                                                 *)
(***************************************************************************)

LEMMA InitInv == Init => IInv
  <1> SUFFICES ASSUME Init PROVE IInv
    OBVIOUS
  <1>1. TypeOK
    BY IdleIsRequest DEF Init, TypeOK, OrderRow, ProposalRow, ChatRow, Terms
  <1>2. ForeignKeyInv /\ OpenUndecided /\ ShareExcludes
    BY DEF Init, ForeignKeyInv, OpenUndecided, ShareExcludes, ProposalExists, ProposalStatus
  <1>3. VerdictAgrees
    BY DEF Init, VerdictAgrees
  <1>4. ASSUME NEW r \in Requests PROVE RequestInv(r, req[r].pc)
    BY LocksAreRows DEF Init, Idle, Program, Holds, RequestInv, SlotInv, ShareInv, DecideInv, Deciding,
       ChosenInv, BulkInv, HeldInv, DeleteInv
  <1> QED
    BY <1>1, <1>2, <1>3, <1>4 DEF IInv

LEMMA ArrivalsInv ==
  ASSUME IInv, NEW r \in Requests, ArriveOrderRequest(r) \/ ArriveProposalRequest(r)
  PROVE  IInv'
  <1>1. CASE ArriveOrderRequest(r)
    <2>1. PICK u \in Users, o \in Orders :
            /\ order[o].status # "unborn"
            /\ \/ Arrive(r, "create_proposal", "read_order", u, o, NoProposal)
               \/ Arrive(r, "close_order", "lock_order", u, o, NoProposal)
               \/ Arrive(r, "delete_order", "read_order", u, o, NoProposal)
               \/ Arrive(r, "update_order", "read_order", u, o, NoProposal)
               \/ \E p \in Proposals \ Unborn :
                    Arrive(r, "accept_proposal", "lock_order", u, o, p)
      BY <1>1 DEF ArriveOrderRequest
    <2> QED
      BY <2>1, ArriveInv DEF Operations, Program
  <1>2. CASE ArriveProposalRequest(r)
    <2>1. PICK u \in Users, p \in Proposals \ Unborn :
            \/ Arrive(r, "update_proposal", "read_proposal", u, NoOrder, p)
            \/ Arrive(r, "delete_proposal", "read_proposal", u, NoOrder, p)
            \/ Arrive(r, "close_chat", "read_chat", u, NoOrder, p)
      BY <1>2 DEF ArriveProposalRequest
    <2> QED
      BY <2>1, ArriveInv DEF Operations, Program
  <1> QED
    BY <1>1, <1>2

LEMMA HandleInv ==
  ASSUME IInv, NEW r \in Requests, Handle(r)
  PROVE  IInv'
  <1>1. CASE CreateProposal(r)
    BY <1>1, CreateLooksInv, CreateCommitInv DEF CreateProposal
  <1>2. CASE AcceptProposal(r)
    BY <1>2, AcceptLooksInv, AcceptCommitInv DEF AcceptProposal
  <1>3. CASE CloseOrder(r)
    BY <1>3, CloseLooksInv, CloseCommitInv DEF CloseOrder
  <1>4. CASE UpdateOrder(r)
    BY <1>4, UpdateLooksInv, UpdateCommitInv DEF UpdateOrder
  <1>5. CASE DeleteOrder(r)
    BY <1>5, DeleteOrderLooksInv, DeleteOrderCommitInv DEF DeleteOrder
  <1>6. CASE UpdateProposal(r)
    BY <1>6, UpdateLooksInv, UpdateCommitInv DEF UpdateProposal
  <1>7. CASE DeleteProposal(r)
    BY <1>7, WithdrawLooksInv, WithdrawCommitInv DEF DeleteProposal, Withdraw
  <1>8. CASE CloseChat(r)
    BY <1>8, WithdrawLooksInv, WithdrawCommitInv DEF CloseChat, Withdraw
  <1> QED
    BY <1>1, <1>2, <1>3, <1>4, <1>5, <1>6, <1>7, <1>8 DEF Handle

LEMMA StutterInv == IInv /\ UNCHANGED vars => IInv'
  <1> SUFFICES ASSUME IInv, UNCHANGED vars PROVE IInv'
    OBVIOUS
  <1>1. UNCHANGED <<order, proposal, chat, req, owner, sharers>>
    BY DEF vars
  <1> QED
    BY <1>1 DEF IInv, TypeOK, ForeignKeyInv, VerdictAgrees, OpenUndecided, ShareExcludes, NoKey,
       Holds, OrderExists, ProposalExists, ChatExists, ProposalsOf, ChatsOf, RequestInv, SlotInv, ShareInv, DecideInv, Deciding,
       ChosenInv, BulkInv, HeldInv, DeleteInv

LEMMA NextInv == IInv /\ [Next]_vars => IInv'
  <1> SUFFICES ASSUME IInv, [Next]_vars PROVE IInv'
    OBVIOUS
  <1>1. CASE \E o \in Orders : CreateOrder(o)
    BY <1>1, CreateOrderInv
  <1>2. CASE \E p \in Proposals : Age(p)
    BY <1>2, AgeInv
  <1>3. ASSUME NEW r \in Requests, ArriveOrderRequest(r) \/ ArriveProposalRequest(r) PROVE IInv'
    BY <1>3, ArrivalsInv
  <1>4. ASSUME NEW r \in Requests, Progress(r) PROVE IInv'
    BY <1>4, ShareRowInv, OwnRowInv, HandleInv, RollbackInv DEF Progress, DeadlockAbort
  <1>5. ASSUME NEW r \in Requests, Crash(r) PROVE IInv'
    BY <1>5, RollbackInv DEF Crash
  <1>6. CASE UNCHANGED vars
    BY <1>6, StutterInv
  <1> QED
    BY <1>1, <1>2, <1>3, <1>4, <1>5, <1>6 DEF Next

\* The invariant of the whole development: what the row locks guarantee to every
\* handler of orders/services.py and chat/services.py holds in every state.
THEOREM Invariance == Spec => []IInv
  BY InitInv, NextInv, PTL DEF Spec

(***************************************************************************)
(* Invariants                                                              *)
(***************************************************************************)

\* The tables, the requests in flight and the lock table keep their types.
THEOREM TypeCorrect == Spec => []TypeOK
  BY Invariance, PTL DEF IInv

\* accepted_proposal_id and the verdicts of order_proposal never contradict
\* each other, whatever requests accept, withdraw, close and delete together.
THEOREM VerdictsAgree == Spec => []VerdictAgrees
  BY Invariance, PTL DEF IInv

\* A proposal of an open order is undecided: no verdict of accept_proposal or
\* close_order becomes visible before the new status of the order does.
THEOREM OpenOrdersUndecided == Spec => []OpenUndecided
  BY Invariance, PTL DEF IInv

\* Racing accept_proposal requests never choose two executors for an order.
THEOREM OnlyOneExecutor == Spec => []OneExecutor
  <1>1. IInv => OneExecutor
    BY AcceptedHasOrder DEF OneExecutor
  <1> QED
    BY <1>1, Invariance, PTL

(***************************************************************************)
(* Action properties                                                       *)
(***************************************************************************)

\* The tables change when a transaction commits, when a customer posts an order
\* and when a proposal gets older; every other step leaves them alone.
Writes(r) == \/ AcceptCommit(r) \/ CloseCommit(r) \/ DeleteOrderCommit(r)
             \/ UpdateOrderCommit(r) \/ UpdateProposalCommit(r) \/ CreateCommit(r)
             \/ \E op \in {"delete_proposal", "close_chat"} : WithdrawCommit(r, op)

LEMMA WritesAtCommit ==
  ASSUME [Next]_vars
  PROVE  \/ UNCHANGED <<order, proposal, chat>>
         \/ \E o \in Orders : CreateOrder(o)
         \/ \E p \in Proposals : Age(p)
         \/ \E r \in Requests : Writes(r)
  <1>1. ASSUME NEW r \in Requests, Handle(r)
        PROVE  UNCHANGED <<order, proposal, chat>> \/ Writes(r)
    <2>1. \A ok, pc : Check(r, ok, pc) => UNCHANGED <<order, proposal, chat>>
      BY DEF Check, GoTo, Rollback
    <2>2. \A pc : GoTo(r, pc) => UNCHANGED <<order, proposal, chat>>
      BY DEF GoTo
    <2>3. CASE CreateProposal(r)
      BY <2>1, <2>2, <2>3 DEF CreateProposal, Writes, CreateReadOrder, CreateCheckDuplicate,
         CreateLockExecutor, CreateCheckLimit, CreateInsert
    <2>4. CASE AcceptProposal(r)
      BY <2>1, <2>2, <2>4 DEF AcceptProposal, Writes, AcceptLockOrder, AcceptReadProposal,
         AcceptRejectOthers, AcceptCloseOtherChats, AcceptFlush
    <2>5. CASE CloseOrder(r)
      BY <2>1, <2>2, <2>5 DEF CloseOrder, Writes, CloseLockOrder, CloseOrderChats,
         CloseRejectPending
    <2>6. CASE UpdateOrder(r)
      BY <2>1, <2>2, <2>6 DEF UpdateOrder, Writes, UpdateOrderRead, UpdateOrderWrite
    <2>7. CASE DeleteOrder(r)
      BY <2>1, <2>2, <2>7 DEF DeleteOrder, Writes, DeleteOrderRead, DeleteOrderUnlink,
         DeleteOrderChats, DeleteOrderProposals, DeleteOrderRow, DeleteOrderCascade
    <2>8. CASE UpdateProposal(r)
      BY <2>1, <2>2, <2>8 DEF UpdateProposal, Writes, UpdateProposalRead,
         UpdateProposalReadOrder, UpdateProposalWrite
    <2>9. CASE DeleteProposal(r)
      BY <2>1, <2>2, <2>9 DEF DeleteProposal, Writes, DeleteProposalRead,
         DeleteProposalReadChat, Withdraw, WithdrawWriteChat, WithdrawDeleteProposal,
         WithdrawSetNull
    <2>10. CASE CloseChat(r)
      BY <2>1, <2>2, <2>10 DEF CloseChat, Writes, CloseChatRead, CloseChatReadProposal,
         Withdraw, WithdrawWriteChat, WithdrawDeleteProposal, WithdrawSetNull
    <2> QED
      BY <1>1, <2>3, <2>4, <2>5, <2>6, <2>7, <2>8, <2>9, <2>10 DEF Handle
  <1>2. ASSUME NEW r \in Requests,
               \/ ArriveOrderRequest(r) \/ ArriveProposalRequest(r)
               \/ LockRow(r) \/ DeadlockAbort(r) \/ Crash(r)
        PROVE  UNCHANGED <<order, proposal, chat>>
    BY <1>2 DEF ArriveOrderRequest, ArriveProposalRequest, Arrive, LockRow, DeadlockAbort, Crash,
       Rollback
  <1> QED
    BY <1>1, <1>2 DEF Next, Progress, vars

\* What an accepting or closing COMMIT writes, as far as verdicts go.
LEMMA DecidingWrites ==
  ASSUME IInv, NEW r \in Requests, AcceptCommit(r) \/ CloseCommit(r)
  PROVE  /\ req[r].order \in Orders
         /\ \A x \in Orders \ {req[r].order} : order'[x] = order[x]
         /\ AcceptCommit(r) => /\ order[req[r].order].status = "OPEN"
                               /\ order'[req[r].order].status = "ASSIGNED"
                               /\ order'[req[r].order].accepted = req[r].prop
         /\ CloseCommit(r) => /\ order[req[r].order].status \in {"OPEN", "ASSIGNED"}
                              /\ order'[req[r].order].status = "CLOSED"
                              /\ order'[req[r].order].accepted = order[req[r].order].accepted
         /\ \A q \in Proposals :
              /\ proposal'[q].order = proposal[q].order
              /\ proposal'[q].status # proposal[q].status => proposal[q].status = "PENDING"
  <1> DEFINE o == req[r].order
             p == req[r].prop
  <1>1. CASE AcceptCommit(r)
    <2>1. /\ o \in Orders /\ p \in Proposals /\ order[o].status = "OPEN"
          /\ proposal[p].status = "PENDING"
          /\ req[r].op = "accept_proposal"
          /\ \A q \in Proposals : Holds(r, ProposalLock(q)) => proposal[q].status = "PENDING"
      BY <1>1 DEF AcceptCommit, Done, IInv, RequestInv, SlotInv, DecideInv, Deciding, ChosenInv,
         HeldInv
    <2>2. /\ order' = [order EXCEPT ![o].status = "ASSIGNED", ![o].accepted = p]
          /\ proposal' = [q \in Proposals |->
                            IF q = p THEN [proposal[q] EXCEPT !.status = "ACCEPTED"]
                                     ELSE RejectHeld(r, p, q)]
      BY <1>1 DEF AcceptCommit
    <2>3. /\ order'[o].status = "ASSIGNED" /\ order'[o].accepted = p
          /\ \A x \in Orders \ {o} : order'[x] = order[x]
      BY <2>1, <2>2 DEF IInv, TypeOK, OrderRow
    <2>4. \A q \in Proposals :
            /\ proposal'[q].order = proposal[q].order
            /\ proposal'[q].status # proposal[q].status => proposal[q].status = "PENDING"
      BY <2>1, <2>2 DEF IInv, TypeOK, ProposalRow, RejectHeld
    <2>5. ~CloseCommit(r)
      BY <2>1 DEF CloseCommit, Done
    <2> QED
      BY <2>1, <2>3, <2>4, <2>5
  <1>2. CASE CloseCommit(r)
    <2>1. /\ o \in Orders /\ order[o].status \in {"OPEN", "ASSIGNED"}
          /\ req[r].op = "close_order"
          /\ \A q \in Proposals : Holds(r, ProposalLock(q)) => proposal[q].status = "PENDING"
      BY <1>2 DEF CloseCommit, Done, IInv, RequestInv, SlotInv, DecideInv, Deciding, HeldInv
    <2>2. /\ order' = [order EXCEPT ![o].status = "CLOSED"]
          /\ proposal' = [q \in Proposals |-> RejectHeld(r, NoProposal, q)]
      BY <1>2 DEF CloseCommit
    <2>3. /\ order'[o].status = "CLOSED" /\ order'[o].accepted = order[o].accepted
          /\ \A x \in Orders \ {o} : order'[x] = order[x]
      BY <2>1, <2>2 DEF IInv, TypeOK, OrderRow
    <2>4. \A q \in Proposals :
            /\ proposal'[q].order = proposal[q].order
            /\ proposal'[q].status # proposal[q].status => proposal[q].status = "PENDING"
      BY <2>1, <2>2 DEF IInv, TypeOK, ProposalRow, RejectHeld
    <2>5. ~AcceptCommit(r)
      BY <2>1 DEF AcceptCommit, Done
    <2> QED
      BY <2>1, <2>3, <2>4, <2>5
  <1> QED
    BY <1>1, <1>2

\* The other COMMITs give no verdict and move no order but to "deleted".
LEMMA OtherWrites ==
  ASSUME IInv, NEW r \in Requests, Writes(r), ~AcceptCommit(r), ~CloseCommit(r)
  PROVE  /\ \A o \in Orders :
              /\ order'[o].status # order[o].status =>
                   order[o].status \in OrderStatus /\ order'[o].status = "deleted"
              /\ order'[o].accepted \in {order[o].accepted, NoProposal}
         /\ \A q \in Proposals :
              proposal'[q].status # proposal[q].status =>
                proposal'[q].status = "deleted" \/ proposal[q].status = "unborn"
  <1>1. CASE DeleteOrderCommit(r)
    <2> DEFINE o == req[r].order
    <2>1. \A x \in Orders :
            /\ order'[x].status # order[x].status => OrderExists(x) /\ order'[x].status = "deleted"
            /\ order'[x].accepted \in {order[x].accepted, NoProposal}
      BY <1>1 DEF DeleteOrderCommit, OrderExists, IInv, TypeOK, OrderRow
    <2>2. \A q \in Proposals : proposal'[q].status \in {proposal[q].status, "deleted"}
      BY <1>1 DEF DeleteOrderCommit, IInv, TypeOK, ProposalRow
    <2> QED
      BY <2>1, <2>2 DEF OrderExists
  <1>2. CASE UpdateOrderCommit(r)
    BY <1>2 DEF UpdateOrderCommit, IInv, TypeOK, OrderRow
  <1>3. CASE UpdateProposalCommit(r)
    BY <1>3 DEF UpdateProposalCommit, IInv, TypeOK, ProposalRow
  <1>4. CASE CreateCommit(r)
    BY <1>4 DEF CreateCommit, Unborn, IInv, TypeOK, ProposalRow
  <1>5. ASSUME NEW op \in {"delete_proposal", "close_chat"}, WithdrawCommit(r, op)
        PROVE  /\ \A o \in Orders : /\ order'[o].status = order[o].status
                                    /\ order'[o].accepted \in {order[o].accepted, NoProposal}
               /\ \A q \in Proposals : proposal'[q].status \in {proposal[q].status, "deleted"}
    <2>1. \A o \in Orders : /\ order'[o].status = order[o].status
                            /\ order'[o].accepted \in {order[o].accepted, NoProposal}
      BY <1>5 DEF WithdrawCommit, IInv, TypeOK, OrderRow
    <2>2. \A q \in Proposals : proposal'[q].status \in {proposal[q].status, "deleted"}
      BY <1>5 DEF WithdrawCommit, IInv, TypeOK, ProposalRow
    <2> QED
      BY <2>1, <2>2
  <1> QED
    BY <1>1, <1>2, <1>3, <1>4, <1>5 DEF Writes

\* A customer posts an order, a proposal gets older: no verdict either.
LEMMA OutsideWrites ==
  ASSUME IInv, (\E o \in Orders : CreateOrder(o)) \/ (\E p \in Proposals : Age(p))
  PROVE  /\ \A x \in Orders :
              /\ order'[x].status # order[x].status =>
                   order[x].status = "unborn" /\ order'[x].status = "OPEN"
              /\ order'[x].accepted = order[x].accepted
         /\ \A q \in Proposals : proposal'[q].status = proposal[q].status
  <1>1. ASSUME NEW o \in Orders, CreateOrder(o)
        PROVE  /\ \A x \in Orders :
                    /\ order'[x].status # order[x].status =>
                         order[x].status = "unborn" /\ order'[x].status = "OPEN"
                    /\ order'[x].accepted = order[x].accepted
               /\ UNCHANGED proposal
    BY <1>1 DEF CreateOrder, IInv, TypeOK, OrderRow
  <1>2. ASSUME NEW p \in Proposals, Age(p)
        PROVE  /\ UNCHANGED order
               /\ \A q \in Proposals : proposal'[q].status = proposal[q].status
    BY <1>2 DEF Age, IInv, TypeOK, ProposalRow
  <1> QED
    BY <1>1, <1>2

\* A verdict of accept_proposal or close_order is never taken back or replaced:
\* a decided proposal can only be deleted.
THEOREM VerdictsAreFinal == Spec => VerdictIsFinal
  <1>1. ASSUME IInv, [Next]_vars, NEW p \in Proposals,
               proposal[p].status \in {"ACCEPTED", "REJECTED"}
        PROVE  proposal'[p].status \in {proposal[p].status, "deleted"}
    <2>1. CASE UNCHANGED <<order, proposal, chat>>
      BY <2>1
    <2>2. CASE (\E o \in Orders : CreateOrder(o)) \/ (\E q \in Proposals : Age(q))
      BY <1>1, <2>2, OutsideWrites
    <2>3. ASSUME NEW r \in Requests, Writes(r)
          PROVE  proposal'[p].status \in {proposal[p].status, "deleted"}
      <3>1. CASE AcceptCommit(r) \/ CloseCommit(r)
        BY <1>1, <3>1, DecidingWrites
      <3>2. CASE ~AcceptCommit(r) /\ ~CloseCommit(r)
        BY <1>1, <2>3, <3>2, OtherWrites
      <3> QED
        BY <3>1, <3>2
    <2> QED
      BY <1>1, <2>1, <2>2, <2>3, WritesAtCommit
  <1>2. IInv /\ [Next]_vars => [\A p \in Proposals : Final(p)]_vars
    BY <1>1 DEF Final
  <1> QED
    BY <1>2, Invariance, PTL DEF Spec, VerdictIsFinal

\* An order moves from open to assigned to closed and away and never back; its
\* executor is chosen in the step that assigns it and at no other time.
THEOREM OrdersMoveOn == Spec => OrderMovesOn
  <1>1. ASSUME IInv, [Next]_vars, NEW o \in Orders
        PROVE  Forward(o)
    <2>1. order[o].status \in OrderStatus \cup {"unborn", "deleted"}
      BY <1>1 DEF IInv, TypeOK, OrderRow
    <2>2. CASE UNCHANGED <<order, proposal, chat>>
      BY <2>1, <2>2 DEF Forward
    <2>3. CASE (\E x \in Orders : CreateOrder(x)) \/ (\E q \in Proposals : Age(q))
      BY <1>1, <2>1, <2>3, OutsideWrites DEF Forward
    <2>4. ASSUME NEW r \in Requests, Writes(r)
          PROVE  Forward(o)
      <3>1. CASE AcceptCommit(r) \/ CloseCommit(r)
        <4>1. CASE o = req[r].order
          BY <1>1, <3>1, <4>1, DecidingWrites DEF Forward, OrderStatus
        <4>2. CASE o # req[r].order
          BY <1>1, <2>1, <3>1, <4>2, DecidingWrites DEF Forward, OrderStatus
        <4> QED
          BY <4>1, <4>2
      <3>2. CASE ~AcceptCommit(r) /\ ~CloseCommit(r)
        BY <1>1, <2>1, <2>4, <3>2, OtherWrites DEF Forward
      <3> QED
        BY <3>1, <3>2
    <2> QED
      BY <1>1, <2>2, <2>3, <2>4, WritesAtCommit
  <1>2. IInv /\ [Next]_vars => [\A o \in Orders : Forward(o)]_vars
    BY <1>1
  <1> QED
    BY <1>2, Invariance, PTL DEF Spec, OrderMovesOn

\* The step that takes an order out of OPEN rejects every other proposal the
\* order has and closes every other chat: FOR KEY SHARE of a concurrent INSERT
\* keeps the order in place until the new proposal is there to be rejected.
THEOREM DecisionsAreComplete == Spec => DecisionIsComplete
  <1>1. ASSUME IInv, [Next]_vars, NEW o \in Orders, order[o].status = "OPEN",
               order'[o].status \in {"ASSIGNED", "CLOSED"},
               NEW p \in Proposals, proposal'[p].order = o
        PROVE  /\ proposal'[p].status # "PENDING"
               /\ chat'[p].status = "active" => p = order'[o].accepted
    <2>1. PICK r \in Requests : Writes(r)
      BY <1>1, OutsideWrites, WritesAtCommit
    <2>2. AcceptCommit(r) \/ CloseCommit(r)
      BY <1>1, <2>1, OtherWrites
    <2>3. req[r].order = o /\ proposal[p].order = o
      BY <1>1, <2>2, DecidingWrites
    <2>4. BulkInv(r, "commit") /\ SlotInv(r, "commit") /\ req[r].pc = "commit"
      BY <1>1, <2>2 DEF AcceptCommit, CloseCommit, Done, IInv, RequestInv
    <2>5. CASE AcceptCommit(r)
      <3>1. /\ req[r].op = "accept_proposal" /\ req[r].prop \in Proposals
            /\ proposal' = [q \in Proposals |->
                              IF q = req[r].prop THEN [proposal[q] EXCEPT !.status = "ACCEPTED"]
                                                 ELSE RejectHeld(r, req[r].prop, q)]
            /\ chat' = [q \in Proposals |-> CloseHeld(r, q)]
            /\ order'[o].accepted = req[r].prop
        <4>1. req[r].op = "accept_proposal" /\ req[r].prop \in Proposals
          BY <2>4, <2>5 DEF AcceptCommit, Done, SlotInv
        <4>2. order'[o].accepted = req[r].prop
          BY <1>1, <2>3, <2>5, DecidingWrites
        <4> QED
          BY <2>5, <4>1, <4>2 DEF AcceptCommit
      <3>2. CASE p = req[r].prop
        BY <1>1, <3>1, <3>2 DEF IInv, TypeOK, ProposalRow
      <3>3. CASE p # req[r].prop
        <4>1. proposal[p].status = "PENDING" => Holds(r, ProposalLock(p))
          BY <2>3, <2>4, <3>1, <3>3 DEF BulkInv, ProposalsOf, ProposalExists, ProposalStatus
        <4>2. chat[p].status = "active" => Holds(r, ChatLock(p))
          BY <2>3, <2>4, <3>1, <3>3 DEF BulkInv, ChatsOf, ChatExists
        <4>3. proposal'[p].status # "PENDING"
          BY <1>1, <3>1, <3>3, <4>1 DEF RejectHeld, IInv, TypeOK, ProposalRow
        <4>4. chat'[p].status # "active"
          BY <1>1, <3>1, <4>2 DEF CloseHeld, IInv, TypeOK, ChatRow
        <4> QED
          BY <4>3, <4>4
      <3> QED
        BY <3>2, <3>3
    <2>6. CASE CloseCommit(r)
      <3>1. /\ req[r].op = "close_order" /\ req[r].prop = NoProposal
            /\ proposal' = [q \in Proposals |-> RejectHeld(r, NoProposal, q)]
            /\ chat' = [q \in Proposals |-> CloseHeld(r, q)]
        BY <2>4, <2>6 DEF CloseCommit, Done, SlotInv
      <3>2. p # NoProposal
        BY ProposalsAreNamed
      <3>3. proposal[p].status = "PENDING" => Holds(r, ProposalLock(p))
        BY <2>3, <2>4, <3>1, <3>2 DEF BulkInv, ProposalsOf, ProposalExists, ProposalStatus
      <3>4. chat[p].status = "active" => Holds(r, ChatLock(p))
        BY <2>3, <2>4, <3>1, <3>2 DEF BulkInv, ChatsOf, ChatExists
      <3>5. proposal'[p].status # "PENDING"
        BY <1>1, <3>1, <3>2, <3>3 DEF RejectHeld, IInv, TypeOK, ProposalRow
      <3>6. chat'[p].status # "active"
        BY <1>1, <3>1, <3>4 DEF CloseHeld, IInv, TypeOK, ChatRow
      <3> QED
        BY <3>5, <3>6
    <2> QED
      BY <2>2, <2>5, <2>6
  <1>2. IInv /\ [Next]_vars => [\A o \in Orders : Settles(o)]_vars
    BY <1>1 DEF Settles
  <1> QED
    BY <1>2, Invariance, PTL DEF Spec, DecisionIsComplete
=============================================================================
