--------------------------- MODULE OrderLocksProofs ---------------------------
(***************************************************************************)
(* What OrderLifecycle keeps besides the verdicts: chats that follow their *)
(* proposals, one proposal per executor and order, the daily limit, and    *)
(* where deadlocks come from.  It builds on the inductive invariant of     *)
(* OrderLifecycleProofs.                                                   *)
(***************************************************************************)
EXTENDS OrderLifecycleProofs, FiniteSetTheorems

\* A proposal and its chat are created together.
ChatBorn == \A p \in Proposals : chat[p].status = "unborn" <=> proposal[p].status = "unborn"

\* Nobody closes the chat of a proposal that stays undecided.
UndecidedChatOpen ==
  \A p \in Proposals : ProposalExists(p) /\ order[proposal[p].order].status = "OPEN"
                       => chat[p].status = "active"

TablesInv == /\ ChatBorn /\ ChatFollowsProposal /\ UndecidedChatOpen /\ ChosenChatOpen
             /\ OneProposalPerExecutor /\ DailyLimit

\* From the count of his proposals on a creating executor holds his advisory lock, so
\* what he counted, and that he has no other proposal for the order, stays true.
CreatorInv(r, pc) ==
  req[r].op = "create_proposal" =>
    /\ req[r].user \in Users
    /\ pc \in {"check_limit", "insert", "commit"} => Holds(r, ExecutorLock(req[r].user))
    /\ pc \in {"insert", "commit"} => Cardinality(Recent(req[r].user)) < MaxPerDay
    /\ pc = "commit" => ~Duplicate(req[r].order, req[r].user)

\* A withdrawal takes the chat and then the proposal, if it is still there.
WithdrawInv(r, pc) ==
  req[r].op \in {"delete_proposal", "close_chat"} =>
    /\ proposal[req[r].prop].status # "unborn"
    /\ pc \in {"delete_proposal", "set_null", "commit"} /\ ProposalExists(req[r].prop)
         => Holds(r, ChatLock(req[r].prop))
    /\ pc \in {"set_null", "commit"} /\ ProposalExists(req[r].prop)
         => Holds(r, ProposalLock(req[r].prop))

\* delete_order reaches its COMMIT with all chats of the order.
DeletesChatsInv(r, pc) ==
  req[r].op = "delete_order" /\ pc = "commit" =>
    \A q \in ChatsOf(req[r].order) : Holds(r, ChatLock(q))

\* The chats a transaction holds are there and are chats of its own request.
HeldChatInv(r) ==
  \A q \in Proposals : Holds(r, ChatLock(q)) =>
    /\ ChatExists(q)
    /\ req[r].op \in {"accept_proposal", "close_order", "delete_order"} =>
         proposal[q].order = req[r].order
    /\ req[r].op \in {"accept_proposal", "close_order"} =>
         q # req[r].prop /\ Holds(r, OrderLock(req[r].order))
    /\ req[r].op \in {"delete_proposal", "close_chat"} => q = req[r].prop
    /\ req[r].op \notin {"create_proposal", "update_order", "update_proposal"}

\* So are, where nothing is removed, its orders, proposals and advisory lock.
HeldRowInv(r, pc) ==
  /\ \A o \in Orders : Holds(r, OrderLock(o)) =>
       /\ req[r].op \in {"accept_proposal", "close_order", "update_order"} => o = req[r].order
       /\ req[r].op = "update_order" => pc \in {"write_order", "commit"}
       /\ req[r].op # "update_proposal"
  /\ \A q \in Proposals : Holds(r, ProposalLock(q)) =>
       /\ req[r].op = "update_proposal" => q = req[r].prop /\ pc \in {"write_proposal", "commit"}
       /\ req[r].op \notin {"create_proposal", "update_order"}
  /\ \A u \in Users : Holds(r, ExecutorLock(u)) =>
       /\ req[r].op = "create_proposal" /\ u = req[r].user
       /\ pc \in {"lock_executor", "check_limit", "insert", "commit"}

ClaimInv(r, pc) == /\ CreatorInv(r, pc) /\ WithdrawInv(r, pc) /\ DeletesChatsInv(r, pc)
                   /\ HeldChatInv(r) /\ HeldRowInv(r, pc)

\* The inductive invariant, on top of that of OrderLifecycleProofs.
LocksInv == /\ IInv /\ TablesInv
            /\ \A r \in Requests : ClaimInv(r, req[r].pc)

-----------------------------------------------------------------------------
(***************************************************************************)
(* Locks and sets                                                          *)
(***************************************************************************)

LEMMA ExecutorRows == /\ \A u \in Users : ExecutorLock(u) \in Rows
                      /\ \A u, x : ExecutorLock(u) = ExecutorLock(x) => u = x
  BY DEF Rows, ExecutorLock

LEMMA RecentIsFinite ==
  ASSUME NEW S \in SUBSET Proposals PROVE IsFiniteSet(S) /\ Cardinality(S) \in Nat
<1>1. IsFiniteSet(Proposals)
  <2>1. 1 \in Int /\ NProposals \in Int
    BY NumbersAssumption
  <2>2. IsFiniteSet(1 .. NProposals)
    BY <2>1, FS_Interval
  <2> QED BY <2>2 DEF Proposals
<1> QED BY <1>1, FS_Subset, FS_CardinalityType

\* No proposal and no chat appears, and none changes whose it is.
Shrinks ==
  \A q \in Proposals :
    /\ proposal'[q].order = proposal[q].order
    /\ proposal'[q].executor = proposal[q].executor
    /\ proposal'[q].recent => proposal[q].recent
    /\ ProposalExists(q)' => ProposalExists(q)
    /\ proposal'[q].status = "unborn" <=> proposal[q].status = "unborn"
    /\ ChatExists(q)' => ChatExists(q)
    /\ chat'[q].status = "unborn" <=> chat[q].status = "unborn"

LEMMA RecentShrinks ==
  ASSUME Shrinks, NEW u
  PROVE  /\ Recent(u)' \subseteq Recent(u)
         /\ Cardinality(Recent(u)') \in Nat /\ Cardinality(Recent(u)) \in Nat
         /\ Cardinality(Recent(u)') <= Cardinality(Recent(u))
<1>1. Recent(u)' \subseteq Recent(u) /\ Recent(u) \subseteq Proposals
  BY DEF Shrinks, Recent
<1> QED BY <1>1, RecentIsFinite, FS_Subset

\* What all steps but the birth of a proposal leave of uniqueness and limit.
LEMMA CountsShrink ==
  ASSUME LocksInv, Shrinks PROVE ChatBorn' /\ OneProposalPerExecutor' /\ DailyLimit'
<1>1. ChatBorn' /\ OneProposalPerExecutor'
  BY DEF LocksInv, TablesInv, ChatBorn, OneProposalPerExecutor, Shrinks
<1>2. ASSUME NEW u \in Users PROVE Cardinality(Recent(u)') <= MaxPerDay
  <2>1. Cardinality(Recent(u)) <= MaxPerDay
    BY DEF LocksInv, TablesInv, DailyLimit
  <2> QED BY <2>1, RecentShrinks, NumbersAssumption
<1> QED BY <1>1, <1>2 DEF DailyLimit

\* What the tables and locks must leave true for the other requests.
LEMMA OthersKeep ==
  ASSUME LocksInv, Shrinks, NEW s \in Requests, req'[s] = req[s],
         \A w \in Rows : Holds(s, w) <=> Holds(s, w)',
         \A q \in Proposals : Holds(s, ChatLock(q)) => chat'[q] = chat[q]
  PROVE  ClaimInv(s, req[s].pc)'
<1>1. ClaimInv(s, req[s].pc) /\ SlotInv(s, req[s].pc) /\ TypeOK
  BY DEF LocksInv, IInv, RequestInv
<1>2. CreatorInv(s, req[s].pc)'
  <2> SUFFICES ASSUME req[s].op = "create_proposal" PROVE CreatorInv(s, req[s].pc)'
    BY DEF CreatorInv
  <2>1. req[s].user \in Users /\ CreatorInv(s, req[s].pc)
    BY <1>1 DEF ClaimInv, CreatorInv
  <2>2. Duplicate(req[s].order, req[s].user)' => Duplicate(req[s].order, req[s].user)
    BY DEF Duplicate, ProposalsOf, Shrinks
  <2>3. req[s].pc \in {"insert", "commit"} => Cardinality(Recent(req[s].user)') < MaxPerDay
    BY <2>1, RecentShrinks, NumbersAssumption DEF CreatorInv
  <2>4. Holds(s, ExecutorLock(req[s].user)) <=> Holds(s, ExecutorLock(req[s].user))'
    BY <2>1, ExecutorRows
  <2> QED BY <2>1, <2>2, <2>3, <2>4 DEF CreatorInv
<1>3. WithdrawInv(s, req[s].pc)'
  <2> SUFFICES ASSUME req[s].op \in {"delete_proposal", "close_chat"}
               PROVE  WithdrawInv(s, req[s].pc)'
    BY DEF WithdrawInv
  <2>1. req[s].prop \in Proposals /\ WithdrawInv(s, req[s].pc)
    BY <1>1 DEF ClaimInv, SlotInv
  <2> QED BY <2>1, LocksAreRows DEF WithdrawInv, Shrinks
<1>4. DeletesChatsInv(s, req[s].pc)'
  BY <1>1, LocksAreRows DEF ClaimInv, DeletesChatsInv, ChatsOf, Shrinks
<1>5. HeldChatInv(s)'
  <2>1. req[s].op \in {"accept_proposal", "close_order"} => req[s].order \in Orders
    BY <1>1 DEF SlotInv
  <2> QED BY <1>1, <2>1, LocksAreRows DEF ClaimInv, HeldChatInv, ChatExists, Shrinks
<1>6. HeldRowInv(s, req[s].pc)'
  BY <1>1, LocksAreRows, ExecutorRows DEF ClaimInv, HeldRowInv
<1> QED BY <1>2, <1>3, <1>4, <1>5, <1>6 DEF ClaimInv

-----------------------------------------------------------------------------
(***************************************************************************)
(* Steps that write no table                                               *)
(***************************************************************************)

LEMMA TablesKeep ==
  ASSUME LocksInv, UNCHANGED <<order, proposal, chat>> PROVE TablesInv' /\ Shrinks
<1>1. Shrinks
  BY DEF Shrinks, ProposalExists, ChatExists
<1> QED BY <1>1, CountsShrink DEF LocksInv, TablesInv, ChatFollowsProposal, UndecidedChatOpen,
        ChosenChatOpen, ProposalExists, ChatExists

\* A free slot claims nothing.
LEMMA FreshClaims ==
  ASSUME NEW r \in Requests, req'[r] = Idle, \A w \in Rows : ~Holds(r, w)'
  PROVE  ClaimInv(r, req[r].pc)'
  BY LocksAreRows, ExecutorRows DEF ClaimInv, CreatorInv, WithdrawInv, DeletesChatsInv, HeldChatInv,
     HeldRowInv, Idle

\* The transaction ends without a commit.
LEMMA RollbackClaims ==
  ASSUME LocksInv, IInv', NEW r \in Requests, Rollback(r) PROVE LocksInv'
<1>1. IInv /\ End(r) /\ UNCHANGED <<order, proposal, chat>>
  BY DEF LocksInv, Rollback
<1>2. TablesInv' /\ Shrinks
  BY <1>1, TablesKeep
<1>3. ASSUME NEW s \in Requests PROVE ClaimInv(s, req[s].pc)'
  <2>1. CASE s = r
    BY <1>1, <2>1, EndFacts, FreshClaims
  <2>2. CASE s # r
    BY <1>1, <1>2, <2>2, EndFacts, OthersKeep
  <2> QED BY <2>1, <2>2
<1> QED BY <1>2, <1>3 DEF LocksInv

\* A request may move to pc if it then claims what it has.
LEMMA GoToClaims ==
  ASSUME LocksInv, IInv', NEW r \in Requests, NEW pc \in Statements, GoTo(r, pc), ClaimInv(r, pc)
  PROVE  LocksInv'
<1>1. /\ UNCHANGED <<order, proposal, chat, owner, sharers>>
      /\ req'[r].pc = pc /\ req'[r].user = req[r].user
      /\ req'[r].op = req[r].op /\ req'[r].order = req[r].order /\ req'[r].prop = req[r].prop
      /\ \A s \in Requests \ {r} : req'[s] = req[s]
  BY DEF GoTo, LocksInv, IInv, TypeOK, Request
<1>2. TablesInv' /\ Shrinks
  BY <1>1, TablesKeep
<1>3. ASSUME NEW s \in Requests PROVE ClaimInv(s, req[s].pc)'
  <2>1. CASE s = r
    <3>1. HeldChatInv(r)'
      BY <1>1 DEF ClaimInv, HeldChatInv, Holds, ChatExists
    <3>2. CreatorInv(r, pc)' /\ WithdrawInv(r, pc)' /\ DeletesChatsInv(r, pc)' /\ HeldRowInv(r, pc)'
      BY <1>1 DEF ClaimInv, CreatorInv, WithdrawInv, DeletesChatsInv, HeldRowInv,
         Holds, Recent, Duplicate, ProposalsOf, ChatsOf, ProposalExists, ChatExists
    <3> QED BY <1>1, <2>1, <3>1, <3>2 DEF ClaimInv
  <2>2. CASE s # r
    BY <1>1, <1>2, <2>2, OthersKeep DEF Holds
  <2> QED BY <2>1, <2>2
<1> QED BY <1>2, <1>3 DEF LocksInv

LEMMA CheckClaims ==
  ASSUME LocksInv, IInv', NEW r \in Requests, NEW ok, NEW pc \in Statements, Check(r, ok, pc),
         ok => ClaimInv(r, pc)
  PROVE  LocksInv'
  BY GoToClaims, RollbackClaims DEF Check

-----------------------------------------------------------------------------
(***************************************************************************)
(* Statements that look or take locks                                      *)
(***************************************************************************)

LEMMA ArriveClaims ==
  ASSUME LocksInv, IInv', NEW r \in Requests, NEW op \in Operations, NEW pc \in Statements,
         NEW u \in Users, NEW o, NEW p, Arrive(r, op, pc, u, o, p),
         pc \in {"lock_order", "read_order", "read_proposal", "read_chat"},
         op \in {"delete_proposal", "close_chat"} => proposal[p].status # "unborn"
  PROVE  LocksInv'
<1>2. /\ UNCHANGED <<order, proposal, chat, owner, sharers>>
      /\ req[r] = Idle
      /\ req'[r] = [op |-> op, pc |-> pc, user |-> u, order |-> o, prop |-> p]
      /\ \A s \in Requests \ {r} : req'[s] = req[s]
  BY DEF Arrive, LocksInv, IInv, TypeOK
<1>3. \A w \in Rows : ~Holds(r, w)
  BY <1>2 DEF LocksInv, IInv, RequestInv, SlotInv, Idle
<1>4. TablesInv' /\ Shrinks
  BY <1>2, TablesKeep
<1>5. ASSUME NEW s \in Requests PROVE ClaimInv(s, req[s].pc)'
  <2>1. CASE s = r
    BY <1>2, <1>3, <2>1, LocksAreRows, ExecutorRows DEF ClaimInv, CreatorInv, WithdrawInv,
       DeletesChatsInv, HeldChatInv, HeldRowInv, Holds
  <2>2. CASE s # r
    BY <1>2, <1>4, <2>2, OthersKeep DEF Holds
  <2> QED BY <2>1, <2>2
<1> QED BY <1>4, <1>5 DEF LocksInv

LEMMA ArrivalsClaims ==
  ASSUME LocksInv, IInv', NEW r \in Requests, ArriveOrderRequest(r) \/ ArriveProposalRequest(r)
  PROVE  LocksInv'
<1>1. CASE ArriveOrderRequest(r)
  BY <1>1, ArriveClaims DEF ArriveOrderRequest, Operations, Statements
<1>2. CASE ArriveProposalRequest(r)
  <2>1. PICK u \in Users, p \in Proposals \ Unborn :
          \/ Arrive(r, "update_proposal", "read_proposal", u, NoOrder, p)
          \/ Arrive(r, "delete_proposal", "read_proposal", u, NoOrder, p)
          \/ Arrive(r, "close_chat", "read_chat", u, NoOrder, p)
    BY <1>2 DEF ArriveProposalRequest
  <2>2. proposal[p].status # "unborn"
    BY DEF Unborn
  <2> QED BY <2>1, <2>2, ArriveClaims DEF Operations, Statements
<1> QED BY <1>1, <1>2

\* The row that r takes is one of its request.
LEMMA TargetsAre ==
  ASSUME IInv, TablesInv, NEW r \in Requests, NEW w \in Targets(r)
  PROVE  \/ \E o \in Orders : /\ w = OrderLock(o)
                              /\ req[r].op \in {"accept_proposal", "close_order", "update_order"}
                                   => o = req[r].order
                              /\ req[r].op = "update_order" => req[r].pc = "write_order"
                              /\ req[r].op # "update_proposal"
         \/ \E q \in Proposals : /\ w = ProposalLock(q)
                                 /\ req[r].op = "update_proposal" =>
                                      q = req[r].prop /\ req[r].pc = "write_proposal"
                                 /\ req[r].op \notin {"create_proposal", "update_order"}
         \/ \E q \in Proposals :
              /\ w = ChatLock(q) /\ ChatExists(q)
              /\ req[r].op \in {"accept_proposal", "close_order", "delete_order"} =>
                   proposal[q].order = req[r].order
              /\ req[r].op \in {"accept_proposal", "close_order"} =>
                   q # req[r].prop /\ Holds(r, OrderLock(req[r].order))
              /\ req[r].op \in {"delete_proposal", "close_chat"} => q = req[r].prop
              /\ req[r].op \notin {"create_proposal", "update_order", "update_proposal"}
         \/ /\ w = ExecutorLock(req[r].user) /\ req[r].op = "create_proposal"
            /\ req[r].pc = "lock_executor"
<1>1. /\ req[r].pc \in Program(req[r].op)
      /\ req[r].op \in Operations \cup {"idle"}
      /\ req[r].op = "close_order" => req[r].prop = NoProposal
      /\ Deciding(r, req[r].pc) => Holds(r, OrderLock(req[r].order))
  BY DEF IInv, RequestInv, SlotInv, DecideInv, TypeOK, Request
<1>2. CASE req[r].op = "create_proposal"
  BY <1>1, <1>2 DEF Program, Targets
<1>3. CASE req[r].op = "accept_proposal"
  <2>1. \A q \in ChatsOf(req[r].order) : chat[q].status = "active" => chat[q].linked
    BY DEF TablesInv, ChatFollowsProposal, ChatsOf
  <2> QED BY <1>1, <1>3, <2>1 DEF Program, Targets, Deciding, ChatsOf, ProposalsOf
<1>4. CASE req[r].op = "close_order"
  BY <1>1, <1>4, ProposalsAreNamed DEF Program, Targets, Deciding, ChatsOf, ProposalsOf
<1>5. CASE req[r].op = "delete_order"
  BY <1>1, <1>5 DEF Program, Targets, ChatsOf, ProposalsOf
<1>6. CASE req[r].op \in {"update_order", "update_proposal"}
  BY <1>1, <1>6 DEF Program, Targets
<1>7. CASE req[r].op \in {"delete_proposal", "close_chat"}
  BY <1>1, <1>7 DEF Program, Targets
<1> QED BY <1>1, <1>2, <1>3, <1>4, <1>5, <1>6, <1>7 DEF Operations, Program, Targets

\* Taking a row.
LEMMA LockClaims == ASSUME LocksInv, IInv', NEW r \in Requests, LockRow(r) PROVE LocksInv'
<1>0. IInv /\ TypeOK /\ TablesInv /\ UNCHANGED <<order, proposal, chat, req>>
  BY DEF LocksInv, IInv, LockRow
<1>1. TablesInv' /\ Shrinks
  BY <1>0, TablesKeep
<1>2. PICK w \in Targets(r) :
        /\ \A s \in Requests, x \in Rows : Holds(s, x) => Holds(s, x)'
        /\ \A s \in Requests, x \in Rows : Holds(s, x)' => Holds(s, x) \/ (s = r /\ x = w)
  <2>1. PICK w \in Needs(r) : /\ Blockers(r, w) = {}
                              /\ IF Sharing(r) THEN UNCHANGED owner
                                 ELSE owner' = [owner EXCEPT ![w] = r]
    BY DEF LockRow
  <2>2. w \in Targets(r)
    BY DEF Needs
  <2>3. CASE Sharing(r)
    BY <2>1, <2>2, <2>3 DEF Holds
  <2>4. CASE ~Sharing(r)
    <3>1. \A s \in Requests : ~Holds(s, w)
      BY <2>1, <2>4 DEF Blockers, Needs
    <3>2. \A x \in Rows : owner'[x] = IF x = w THEN r ELSE owner[x]
      BY <1>0, <2>1, <2>4 DEF TypeOK
    <3> QED BY <2>2, <3>1, <3>2 DEF Holds
  <2> QED BY <2>3, <2>4
<1>3. ASSUME NEW s \in Requests PROVE ClaimInv(s, req[s].pc)'
  <2>1. ClaimInv(s, req[s].pc) /\ SlotInv(s, req[s].pc)
    BY DEF LocksInv, IInv, RequestInv
  <2>2. CreatorInv(s, req[s].pc)' /\ WithdrawInv(s, req[s].pc)' /\ DeletesChatsInv(s, req[s].pc)'
    <3>1. req[s].op \in {"delete_proposal", "close_chat"} => req[s].prop \in Proposals
      BY <2>1 DEF SlotInv
    <3> QED BY <1>0, <1>2, <2>1, <3>1, LocksAreRows, ExecutorRows DEF ClaimInv, CreatorInv, WithdrawInv,
            DeletesChatsInv, Recent, Duplicate, ProposalsOf, ChatsOf, ProposalExists, ChatExists
  <2>3. HeldChatInv(s)'
    <3> SUFFICES ASSUME NEW q \in Proposals, Holds(s, ChatLock(q))'
                 PROVE  /\ ChatExists(q)
                        /\ req[s].op \in {"accept_proposal", "close_order", "delete_order"} =>
                             proposal[q].order = req[s].order
                        /\ req[s].op \in {"accept_proposal", "close_order"} =>
                             q # req[s].prop /\ Holds(s, OrderLock(req[s].order))
                        /\ req[s].op \in {"delete_proposal", "close_chat"} => q = req[s].prop
                        /\ req[s].op \notin {"create_proposal", "update_order", "update_proposal"}
      <4>1. req[s].op \in {"accept_proposal", "close_order"} /\ Holds(s, OrderLock(req[s].order))
              => Holds(s, OrderLock(req[s].order))'
        BY <1>0, <1>2, <2>1, LocksAreRows DEF SlotInv
      <4> QED BY <1>0, <4>1 DEF HeldChatInv, ChatExists
    <3>1. CASE Holds(s, ChatLock(q))
      BY <2>1, <3>1 DEF ClaimInv, HeldChatInv
    <3>2. CASE s = r /\ w = ChatLock(q)
      BY <1>0, <3>2, TargetsAre, LocksDiffer
    <3> QED BY <1>2, <3>1, <3>2, LocksAreRows
  <2>4. HeldRowInv(s, req[s].pc)'
    <3>1. ASSUME NEW o \in Orders, Holds(s, OrderLock(o))'
          PROVE  /\ req[s].op \in {"accept_proposal", "close_order", "update_order"}
                      => o = req[s].order
                 /\ req[s].op = "update_order" => req[s].pc \in {"write_order", "commit"}
                 /\ req[s].op # "update_proposal"
      <4>1. CASE Holds(s, OrderLock(o))
        BY <2>1, <4>1 DEF ClaimInv, HeldRowInv
      <4>2. CASE s = r /\ w = OrderLock(o)
        BY <1>0, <4>2, TargetsAre, LocksDiffer
      <4> QED BY <1>2, <3>1, <4>1, <4>2, LocksAreRows
    <3>2. ASSUME NEW q \in Proposals, Holds(s, ProposalLock(q))'
          PROVE  /\ req[s].op = "update_proposal" =>
                      q = req[s].prop /\ req[s].pc \in {"write_proposal", "commit"}
                 /\ req[s].op \notin {"create_proposal", "update_order"}
      <4>1. CASE Holds(s, ProposalLock(q))
        BY <2>1, <4>1 DEF ClaimInv, HeldRowInv
      <4>2. CASE s = r /\ w = ProposalLock(q)
        BY <1>0, <4>2, TargetsAre, LocksDiffer
      <4> QED BY <1>2, <3>2, <4>1, <4>2, LocksAreRows
    <3>3. ASSUME NEW u \in Users, Holds(s, ExecutorLock(u))'
          PROVE  /\ req[s].op = "create_proposal" /\ u = req[s].user
                 /\ req[s].pc \in {"lock_executor", "check_limit", "insert", "commit"}
      <4>1. CASE Holds(s, ExecutorLock(u))
        BY <2>1, <4>1 DEF ClaimInv, HeldRowInv
      <4>2. CASE s = r /\ w = ExecutorLock(u)
        BY <1>0, <4>2, TargetsAre, LocksDiffer, ExecutorRows
      <4> QED BY <1>2, <3>3, <4>1, <4>2, ExecutorRows
    <3> QED BY <1>0, <3>1, <3>2, <3>3 DEF HeldRowInv
  <2> QED BY <2>2, <2>3, <2>4 DEF ClaimInv
<1> QED BY <1>1, <1>3 DEF LocksInv

\* What depends on the statement of a request, and what does not.
LEMMA MoveClaims ==
  ASSUME LocksInv, NEW r \in Requests, NEW pc,
         CreatorInv(r, pc), WithdrawInv(r, pc), DeletesChatsInv(r, pc),
         req[r].op \in {"create_proposal", "update_order", "update_proposal"} => HeldRowInv(r, pc)
  PROVE  ClaimInv(r, pc)
<1>1. ClaimInv(r, req[r].pc)
  BY DEF LocksInv
<1>2. HeldChatInv(r)
  BY <1>1 DEF ClaimInv
<1>3. HeldRowInv(r, pc)
  BY <1>1 DEF ClaimInv, HeldRowInv
<1> QED BY <1>2, <1>3 DEF ClaimInv

LEMMA CreateLooksClaims ==
  ASSUME LocksInv, IInv', NEW r \in Requests, CreateProposal(r), ~CreateCommit(r) PROVE LocksInv'
<1>0. IInv /\ TypeOK /\ ClaimInv(r, req[r].pc)
  BY DEF LocksInv, IInv
<1> DEFINE Goes(from, ok, to) == Done(r, "create_proposal", from) /\ Check(r, ok, to)
<1>1. \A from, to, ok :
        Goes(from, ok, to) /\ to \in Statements /\ (ok => CreatorInv(r, to) /\ HeldRowInv(r, to))
        => LocksInv'
  <2> SUFFICES ASSUME NEW from, NEW to \in Statements, NEW ok, Goes(from, ok, to),
                      ok => CreatorInv(r, to) /\ HeldRowInv(r, to)
               PROVE  LocksInv'
    OBVIOUS
  <2>1. WithdrawInv(r, to) /\ DeletesChatsInv(r, to)
    BY DEF Done, WithdrawInv, DeletesChatsInv
  <2> QED BY <2>1, MoveClaims, CheckClaims
<1>2. CASE CreateReadOrder(r)
  <2>1. Goes("read_order", order[req[r].order].status = "OPEN" /\ Customer[req[r].order] # req[r].user,
             "check_duplicate")
    BY <1>2 DEF CreateReadOrder
  <2>2. CreatorInv(r, "check_duplicate") /\ HeldRowInv(r, "check_duplicate")
    BY <1>0, <2>1 DEF Done, ClaimInv, CreatorInv, HeldRowInv
  <2> HIDE DEF Goes
  <2> QED BY <1>1, <2>1, <2>2 DEF Statements
<1>3. CASE CreateCheckDuplicate(r)
  <2>1. Goes("check_duplicate", ~Duplicate(req[r].order, req[r].user), "lock_executor")
    BY <1>3 DEF CreateCheckDuplicate
  <2>2. CreatorInv(r, "lock_executor") /\ HeldRowInv(r, "lock_executor")
    BY <1>0, <2>1 DEF Done, ClaimInv, CreatorInv, HeldRowInv
  <2> HIDE DEF Goes
  <2> QED BY <1>1, <2>1, <2>2 DEF Statements
<1>4. CASE CreateLockExecutor(r)
  <2>1. Goes("lock_executor", TRUE, "check_limit")
    BY <1>4 DEF CreateLockExecutor, Check
  <2>2. Holds(r, ExecutorLock(req[r].user))
    BY <2>1, DoneHolds DEF Done, Targets
  <2>3. CreatorInv(r, "check_limit") /\ HeldRowInv(r, "check_limit")
    BY <1>0, <2>1, <2>2 DEF Done, ClaimInv, CreatorInv, HeldRowInv
  <2> HIDE DEF Goes
  <2> QED BY <1>1, <2>1, <2>3 DEF Statements
<1>5. CASE CreateCheckLimit(r)
  <2>1. Goes("check_limit", Cardinality(Recent(req[r].user)) < MaxPerDay, "insert")
    BY <1>5 DEF CreateCheckLimit
  <2>2. Cardinality(Recent(req[r].user)) < MaxPerDay => CreatorInv(r, "insert") /\ HeldRowInv(r, "insert")
    BY <1>0, <2>1 DEF Done, ClaimInv, CreatorInv, HeldRowInv
  <2> HIDE DEF Goes
  <2> QED BY <1>1, <2>1, <2>2 DEF Statements
<1>6. CASE CreateInsert(r)
  <2>1. Goes("insert", OrderExists(req[r].order) /\ ~Duplicate(req[r].order, req[r].user), "commit")
    BY <1>6 DEF CreateInsert
  <2>2. ~Duplicate(req[r].order, req[r].user) => CreatorInv(r, "commit") /\ HeldRowInv(r, "commit")
    BY <1>0, <2>1 DEF Done, ClaimInv, CreatorInv, HeldRowInv
  <2> HIDE DEF Goes
  <2> QED BY <1>1, <2>1, <2>2 DEF Statements
<1> QED BY <1>2, <1>3, <1>4, <1>5, <1>6 DEF CreateProposal

\* Deciding needs no claims but those on what it holds.
LEMMA DecideLooksClaims ==
  ASSUME LocksInv, IInv', NEW r \in Requests, AcceptProposal(r) \/ CloseOrder(r),
         ~AcceptCommit(r), ~CloseCommit(r)
  PROVE  LocksInv'
<1>1. \A pc \in Statements : req[r].op \in {"accept_proposal", "close_order"} => ClaimInv(r, pc)
  BY MoveClaims DEF CreatorInv, WithdrawInv, DeletesChatsInv
<1>2. \A pc \in Statements : \A ok :
        req[r].op \in {"accept_proposal", "close_order"} /\ Check(r, ok, pc) => LocksInv'
  BY <1>1, CheckClaims
<1>3. \A pc \in Statements :
        req[r].op \in {"accept_proposal", "close_order"} /\ GoTo(r, pc) => LocksInv'
  BY <1>1, GoToClaims
<1>4. CASE AcceptProposal(r)
  BY <1>2, <1>3, <1>4 DEF AcceptProposal, AcceptLockOrder, AcceptReadProposal, AcceptRejectOthers,
     AcceptCloseOtherChats, AcceptFlush, Done, Statements
<1>5. CASE CloseOrder(r)
  BY <1>2, <1>3, <1>5 DEF CloseOrder, CloseLockOrder, CloseOrderChats, CloseRejectPending, Done,
     Statements
<1> QED BY <1>4, <1>5

LEMMA UpdateLooksClaims ==
  ASSUME LocksInv, IInv', NEW r \in Requests, UpdateOrder(r) \/ UpdateProposal(r),
         ~UpdateOrderCommit(r), ~UpdateProposalCommit(r)
  PROVE  LocksInv'
<1>1. ClaimInv(r, req[r].pc)
  BY DEF LocksInv
<1>2. ASSUME NEW pc \in Statements, NEW ok, Check(r, ok, pc),
             \/ req[r].op = "update_order" /\ pc \in {"write_order", "commit"}
             \/ req[r].op = "update_proposal" /\ pc \in {"write_proposal", "commit"}
             \/ req[r].op = "update_proposal" /\ req[r].pc = "read_proposal"
      PROVE  LocksInv'
  <2>1. HeldRowInv(r, pc)
    BY <1>1, <1>2 DEF ClaimInv, HeldRowInv
  <2>2. ClaimInv(r, pc)
    BY <1>2, <2>1, MoveClaims DEF CreatorInv, WithdrawInv, DeletesChatsInv
  <2> QED BY <1>2, <2>2, CheckClaims
<1>3. CASE UpdateOrder(r)
  BY <1>2, <1>3 DEF UpdateOrder, UpdateOrderRead, UpdateOrderWrite, Done, Statements
<1>4. CASE UpdateProposal(r)
  BY <1>2, <1>4 DEF UpdateProposal, UpdateProposalRead, UpdateProposalReadOrder, UpdateProposalWrite,
     Done, Statements
<1> QED BY <1>3, <1>4

LEMMA DeleteLooksClaims ==
  ASSUME LocksInv, IInv', NEW r \in Requests, DeleteOrder(r), ~DeleteOrderCommit(r) PROVE LocksInv'
<1>1. ASSUME NEW pc \in Statements \ {"commit"}, req[r].op = "delete_order" PROVE ClaimInv(r, pc)
  BY <1>1, MoveClaims DEF CreatorInv, WithdrawInv, DeletesChatsInv
<1>2. \A pc \in Statements \ {"commit"} : \A ok :
        req[r].op = "delete_order" /\ Check(r, ok, pc) => LocksInv'
  BY <1>1, CheckClaims
<1>3. \A pc \in Statements \ {"commit"} : req[r].op = "delete_order" /\ GoTo(r, pc) => LocksInv'
  BY <1>1, GoToClaims
<1>4. CASE DeleteOrderCascade(r)
  <2>1. Done(r, "delete_order", "cascade") /\ GoTo(r, "commit")
    BY <1>4 DEF DeleteOrderCascade
  <2>2. DeletesChatsInv(r, "commit")
    <3> SUFFICES ASSUME NEW q \in ChatsOf(req[r].order) PROVE Holds(r, ChatLock(q))
      BY DEF DeletesChatsInv
    <3>1. ChatLock(q) \in Targets(r)
      BY <2>1 DEF Done, Targets
    <3> QED BY <2>1, <3>1, DoneHolds
  <2>3. ClaimInv(r, "commit")
    BY <2>1, <2>2, MoveClaims DEF Done, CreatorInv, WithdrawInv
  <2> QED BY <2>1, <2>3, GoToClaims DEF Statements
<1>5. CASE DeleteOrderRead(r)
  BY <1>2, <1>5 DEF DeleteOrderRead, Done, Statements
<1> QED BY <1>2, <1>3, <1>4, <1>5 DEF DeleteOrder, DeleteOrderUnlink, DeleteOrderChats,
        DeleteOrderProposals, DeleteOrderRow, Done, Statements

LEMMA WithdrawLooksClaims ==
  ASSUME LocksInv, IInv', NEW r \in Requests, DeleteProposal(r) \/ CloseChat(r),
         \A op \in {"delete_proposal", "close_chat"} : ~WithdrawCommit(r, op)
  PROVE  LocksInv'
<1> DEFINE p == req[r].prop
<1>0. /\ TypeOK /\ IInv /\ ClaimInv(r, req[r].pc)
      /\ req[r].op \in {"delete_proposal", "close_chat"} => p \in Proposals
      /\ \A q \in Proposals : ProposalExists(q) => ChatExists(q) /\ chat[q].linked
  BY DEF LocksInv, IInv, RequestInv, SlotInv, TablesInv, ChatFollowsProposal
<1> DEFINE Goes(op, from, ok, to) == Done(r, op, from) /\ Check(r, ok, to)
<1>1. \A op \in {"delete_proposal", "close_chat"}, to \in Statements : \A from, ok :
        Goes(op, from, ok, to) /\ (ok => WithdrawInv(r, to)) => LocksInv'
  <2> SUFFICES ASSUME NEW op \in {"delete_proposal", "close_chat"}, NEW to \in Statements, NEW from, NEW ok,
                      Goes(op, from, ok, to), ok => WithdrawInv(r, to)
               PROVE  LocksInv'
    OBVIOUS
  <2>1. CreatorInv(r, to) /\ DeletesChatsInv(r, to)
    BY DEF Done, CreatorInv, DeletesChatsInv
  <2>2. req[r].op \notin {"create_proposal", "update_order", "update_proposal"}
    BY DEF Done
  <2> QED BY <2>1, <2>2, MoveClaims, CheckClaims
<1>2. \A op \in {"delete_proposal", "close_chat"} : \A from, to :
        Done(r, op, from) /\ to \notin {"delete_proposal", "set_null", "commit"} => WithdrawInv(r, to)
  BY <1>0 DEF ClaimInv, WithdrawInv, Done
<1>3. CASE DeleteProposalRead(r)
  <2>1. Goes("delete_proposal", "read_proposal",
             ProposalExists(p) /\ MayEdit(req[r].user, p) /\ proposal[p].status = "PENDING", "read_chat")
    BY <1>3 DEF DeleteProposalRead
  <2> QED BY <1>1, <1>2, <2>1 DEF Statements
<1>4. CASE DeleteProposalReadChat(r)
  <2>1. CASE ChatExists(p) /\ chat[p].linked
    <3>1. Goes("delete_proposal", "read_chat", TRUE, "write_chat")
      BY <1>4, <2>1 DEF DeleteProposalReadChat, Check
    <3>2. WithdrawInv(r, "write_chat")
      BY <1>2, <3>1
    <3> HIDE DEF Goes
    <3> QED BY <1>1, <3>1, <3>2 DEF Statements
  <2>2. CASE ~(ChatExists(p) /\ chat[p].linked)
    <3>1. Goes("delete_proposal", "read_chat", TRUE, "delete_proposal")
      BY <1>4, <2>2 DEF DeleteProposalReadChat, Check
    <3>2. req[r].op = "delete_proposal" /\ ~ProposalExists(p)
      BY <1>0, <2>2, <3>1 DEF Done
    <3>3. WithdrawInv(r, "delete_proposal")
      BY <1>0, <3>2 DEF ClaimInv, WithdrawInv
    <3> HIDE DEF Goes
    <3> QED BY <1>1, <3>1, <3>3 DEF Statements
  <2> QED BY <2>1, <2>2
<1>5. CASE CloseChatRead(r)
  <2>1. PICK to \in {"read_proposal", "write_chat"} :
          Goes("close_chat", "read_chat",
               chat[p].status = "active" /\ req[r].user \in {Customer[proposal[p].order], proposal[p].executor}, to)
    BY <1>5 DEF CloseChatRead
  <2> QED BY <1>1, <1>2, <2>1 DEF Statements
<1>6. CASE CloseChatReadProposal(r)
  <2>1. Goes("close_chat", "read_proposal", proposal[p].status # "ACCEPTED", "write_chat")
    BY <1>6 DEF CloseChatReadProposal
  <2> QED BY <1>1, <1>2, <2>1 DEF Statements
<1>7. ASSUME NEW op \in {"delete_proposal", "close_chat"}, WithdrawWriteChat(r, op) PROVE LocksInv'
  <2>1. Goes(op, "write_chat", ChatExists(p), "delete_proposal")
    BY <1>7 DEF WithdrawWriteChat
  <2>2. ChatExists(p) => Holds(r, ChatLock(p))
    <3>1. ChatExists(p) => ChatLock(p) \in Targets(r)
      BY <1>0, <2>1 DEF Targets, Done
    <3> QED BY <2>1, <3>1, DoneHolds
  <2>3. ChatExists(p) => WithdrawInv(r, "delete_proposal")
    BY <1>0, <2>1, <2>2 DEF ClaimInv, WithdrawInv, Done
  <2> HIDE DEF Goes
  <2> QED BY <1>1, <2>1, <2>3 DEF Statements
<1>8. ASSUME NEW op \in {"delete_proposal", "close_chat"}, WithdrawDeleteProposal(r, op) PROVE LocksInv'
  <2>1. Goes(op, "delete_proposal", TRUE, "set_null")
    BY <1>8 DEF WithdrawDeleteProposal, Check
  <2>2. ProposalExists(p) => Holds(r, ProposalLock(p))
    <3>1. ProposalExists(p) => ProposalLock(p) \in Targets(r)
      BY <1>0, <2>1 DEF Targets, Done
    <3> QED BY <2>1, <3>1, DoneHolds
  <2>3. WithdrawInv(r, "set_null")
    BY <1>0, <2>1, <2>2 DEF ClaimInv, WithdrawInv, Done
  <2> HIDE DEF Goes
  <2> QED BY <1>1, <2>1, <2>3 DEF Statements
<1>9. ASSUME NEW op \in {"delete_proposal", "close_chat"}, WithdrawSetNull(r, op) PROVE LocksInv'
  <2>1. Goes(op, "set_null", TRUE, "commit")
    BY <1>9 DEF WithdrawSetNull, Check
  <2>2. WithdrawInv(r, "commit")
    BY <1>0, <2>1 DEF ClaimInv, WithdrawInv, Done
  <2> HIDE DEF Goes
  <2> QED BY <1>1, <2>1, <2>2 DEF Statements
<1> QED BY <1>3, <1>4, <1>5, <1>6, <1>7, <1>8, <1>9 DEF DeleteProposal, CloseChat, Withdraw

-----------------------------------------------------------------------------
(***************************************************************************)
(* Commits, posted orders and days that pass                               *)
(***************************************************************************)

\* What a commit that creates nothing must show.
LEMMA CommitClaims ==
  ASSUME LocksInv, IInv', NEW r \in Requests, End(r), Shrinks,
         \A q \in Proposals : chat'[q] # chat[q] => Holds(r, ChatLock(q)),
         ChatFollowsProposal', UndecidedChatOpen', ChosenChatOpen'
  PROVE  LocksInv'
<1>1. IInv
  BY DEF LocksInv
<1>2. TablesInv'
  BY CountsShrink DEF TablesInv
<1>3. ASSUME NEW s \in Requests PROVE ClaimInv(s, req[s].pc)'
  <2>1. CASE s = r
    BY <1>1, <2>1, EndFacts, FreshClaims
  <2>2. CASE s # r
    <3>1. \A q \in Proposals : Holds(s, ChatLock(q)) => chat'[q] = chat[q]
      BY <2>2 DEF Holds
    <3> QED BY <1>1, <2>2, <3>1, EndFacts, OthersKeep
  <2> QED BY <2>1, <2>2
<1> QED BY <1>2, <1>3 DEF LocksInv

\* No step closes the chat of a proposal whose order stays open.
LEMMA UndecidedKeeps ==
  ASSUME LocksInv, Shrinks,
         \A x \in Orders : order'[x].status = "OPEN" => order[x].status = "OPEN",
         \A q \in Proposals : ProposalExists(q)' /\ proposal[q].order \in Orders
                              /\ order'[proposal[q].order].status = "OPEN"
                              => chat'[q].status = chat[q].status
  PROVE  UndecidedChatOpen'
<1> SUFFICES ASSUME NEW q \in Proposals, ProposalExists(q)', order'[proposal[q].order].status = "OPEN"
             PROVE  chat'[q].status = "active"
  BY DEF UndecidedChatOpen, Shrinks
<1>1. ProposalExists(q)
  BY DEF Shrinks
<1>2. proposal[q].order \in Orders
  BY <1>1 DEF LocksInv, IInv, ForeignKeyInv, OrderExists
<1> QED BY <1>1, <1>2 DEF LocksInv, TablesInv, UndecidedChatOpen

\* The bulk UPDATEs of a decision leave rows and links alone.
LEMMA DecisionShrinks ==
  ASSUME LocksInv, NEW r \in Requests, NEW p,
         req[r].op \in {"accept_proposal", "close_order"},
         chat' = [q \in Proposals |-> CloseHeld(r, q)],
         \A q \in Proposals : /\ proposal'[q].order = proposal[q].order
                              /\ proposal'[q].executor = proposal[q].executor
                              /\ proposal'[q].recent = proposal[q].recent
                              /\ \/ proposal'[q].status = proposal[q].status
                                 \/ /\ proposal[q].status = "PENDING"
                                    /\ proposal'[q].status \in ProposalStatus
  PROVE  /\ Shrinks /\ ChatFollowsProposal'
         /\ \A q \in Proposals :
              /\ ProposalExists(q)' <=> ProposalExists(q)
              /\ chat'[q] # chat[q] => /\ Holds(r, ChatLock(q))
                                      /\ proposal[q].order = req[r].order
                                      /\ q # req[r].prop
<1>1. TypeOK /\ HeldChatInv(r) /\ ChatFollowsProposal
  BY DEF LocksInv, IInv, TablesInv, ClaimInv
<1>2. \A q \in Proposals :
        /\ chat'[q].linked = chat[q].linked
        /\ chat'[q].status = IF Holds(r, ChatLock(q)) THEN "closed" ELSE chat[q].status
        /\ ~Holds(r, ChatLock(q)) => chat'[q] = chat[q]
  BY <1>1 DEF CloseHeld, TypeOK, ChatRow
<1>3. \A q \in Proposals : Holds(r, ChatLock(q)) =>
        ChatExists(q) /\ proposal[q].order = req[r].order /\ q # req[r].prop
  BY <1>1 DEF HeldChatInv
<1>4. \A q \in Proposals : /\ ProposalExists(q)' <=> ProposalExists(q)
                           /\ ChatExists(q)' <=> ChatExists(q)
                           /\ proposal'[q].status = "unborn" <=> proposal[q].status = "unborn"
                           /\ chat'[q].status = "unborn" <=> chat[q].status = "unborn"
                           /\ chat'[q].status = "active" => chat[q].status = "active"
  BY <1>2, <1>3 DEF ProposalExists, ProposalStatus, ChatExists
<1>5. Shrinks
  BY <1>4 DEF Shrinks
<1>6. ChatFollowsProposal'
  BY <1>1, <1>2, <1>4 DEF ChatFollowsProposal
<1> QED BY <1>2, <1>3, <1>4, <1>5, <1>6

LEMMA AcceptClaims == ASSUME LocksInv, IInv', NEW r \in Requests, AcceptCommit(r) PROVE LocksInv'
<1> DEFINE o == req[r].order
           p == req[r].prop
<1>0. /\ IInv /\ TypeOK /\ TablesInv /\ VerdictAgrees
      /\ req[r].op = "accept_proposal" /\ req[r].pc = "commit" /\ End(r)
      /\ order' = [order EXCEPT ![o].status = "ASSIGNED", ![o].accepted = p]
      /\ proposal' = [q \in Proposals |->
                        IF q = p THEN [proposal[q] EXCEPT !.status = "ACCEPTED"]
                                 ELSE RejectHeld(r, p, q)]
      /\ chat' = [q \in Proposals |-> CloseHeld(r, q)]
  BY DEF LocksInv, IInv, AcceptCommit, Done
<1>1. /\ o \in Orders /\ p \in Proposals /\ order[o].status = "OPEN"
      /\ proposal[p].status = "PENDING" /\ proposal[p].order = o
      /\ \A q \in Proposals : Holds(r, ProposalLock(q)) => proposal[q].status = "PENDING"
  BY <1>0 DEF IInv, RequestInv, SlotInv, DecideInv, Deciding, ChosenInv, HeldInv
<1>2. \A q \in Proposals : /\ proposal'[q].order = proposal[q].order
                           /\ proposal'[q].executor = proposal[q].executor
                           /\ proposal'[q].recent = proposal[q].recent
                           /\ \/ proposal'[q].status = proposal[q].status
                              \/ /\ proposal[q].status = "PENDING"
                                 /\ proposal'[q].status \in ProposalStatus
  BY <1>0, <1>1 DEF RejectHeld, TypeOK, ProposalRow, ProposalStatus
<1>3. /\ Shrinks /\ ChatFollowsProposal'
      /\ \A q \in Proposals :
           /\ ProposalExists(q)' <=> ProposalExists(q)
           /\ chat'[q] # chat[q] => Holds(r, ChatLock(q)) /\ proposal[q].order = o /\ q # p
  BY <1>0, <1>2, DecisionShrinks
<1>4. /\ order'[o].status = "ASSIGNED" /\ order'[o].accepted = p
      /\ \A x \in Orders \ {o} : order'[x] = order[x]
  BY <1>0, <1>1 DEF TypeOK, OrderRow
<1>5. UndecidedChatOpen'
  BY <1>3, <1>4, UndecidedKeeps
<1>6. ChosenChatOpen'
  <2> SUFFICES ASSUME NEW x \in Orders, order'[x].status = "ASSIGNED", order'[x].accepted # NoProposal
               PROVE  chat'[order'[x].accepted].status = "active"
    BY DEF ChosenChatOpen
  <2>1. CASE x = o
    <3>1. chat[p].status = "active"
      BY <1>0, <1>1 DEF TablesInv, UndecidedChatOpen, ProposalExists, ProposalStatus
    <3> QED BY <1>1, <1>3, <1>4, <2>1, <3>1
  <2>2. CASE x # o
    <3>1. /\ order[x].status = "ASSIGNED" /\ order'[x].accepted = order[x].accepted
          /\ order[x].accepted \in Proposals /\ proposal[order[x].accepted].order = x
          /\ chat[order[x].accepted].status = "active"
      BY <1>0, <1>4, <2>2 DEF VerdictAgrees, TablesInv, ChosenChatOpen, TypeOK, OrderRow
    <3> QED BY <1>3, <2>2, <3>1
  <2> QED BY <2>1, <2>2
<1> QED BY <1>0, <1>3, <1>5, <1>6, CommitClaims

LEMMA CloseClaims == ASSUME LocksInv, IInv', NEW r \in Requests, CloseCommit(r) PROVE LocksInv'
<1> DEFINE o == req[r].order
<1>0. /\ IInv /\ TypeOK /\ TablesInv /\ VerdictAgrees
      /\ req[r].op = "close_order" /\ req[r].pc = "commit" /\ End(r)
      /\ order' = [order EXCEPT ![o].status = "CLOSED"]
      /\ proposal' = [q \in Proposals |-> RejectHeld(r, NoProposal, q)]
      /\ chat' = [q \in Proposals |-> CloseHeld(r, q)]
  BY DEF LocksInv, IInv, CloseCommit, Done
<1>1. /\ o \in Orders
      /\ \A q \in Proposals : Holds(r, ProposalLock(q)) => proposal[q].status = "PENDING"
  BY <1>0 DEF IInv, RequestInv, SlotInv, HeldInv
<1>2. \A q \in Proposals : /\ proposal'[q].order = proposal[q].order
                           /\ proposal'[q].executor = proposal[q].executor
                           /\ proposal'[q].recent = proposal[q].recent
                           /\ \/ proposal'[q].status = proposal[q].status
                              \/ /\ proposal[q].status = "PENDING"
                                 /\ proposal'[q].status \in ProposalStatus
  BY <1>0, <1>1 DEF RejectHeld, TypeOK, ProposalRow, ProposalStatus
<1>3. /\ Shrinks /\ ChatFollowsProposal'
      /\ \A q \in Proposals :
           /\ ProposalExists(q)' <=> ProposalExists(q)
           /\ chat'[q] # chat[q] => Holds(r, ChatLock(q)) /\ proposal[q].order = o
  BY <1>0, <1>2, DecisionShrinks
<1>4. /\ order'[o].status = "CLOSED"
      /\ \A x \in Orders \ {o} : order'[x] = order[x]
  BY <1>0, <1>1 DEF TypeOK, OrderRow
<1>5. UndecidedChatOpen'
  BY <1>3, <1>4, UndecidedKeeps
<1>6. ChosenChatOpen'
  <2> SUFFICES ASSUME NEW x \in Orders, order'[x].status = "ASSIGNED", order'[x].accepted # NoProposal
               PROVE  chat'[order'[x].accepted].status = "active"
    BY DEF ChosenChatOpen
  <2>1. x # o
    BY <1>4
  <2>2. /\ order[x].status = "ASSIGNED" /\ order'[x].accepted = order[x].accepted
        /\ order[x].accepted \in Proposals /\ proposal[order[x].accepted].order = x
        /\ chat[order[x].accepted].status = "active"
    BY <1>0, <1>4, <2>1 DEF VerdictAgrees, TablesInv, ChosenChatOpen, TypeOK, OrderRow
  <2> QED BY <1>3, <2>1, <2>2
<1> QED BY <1>0, <1>3, <1>5, <1>6, CommitClaims

LEMMA DeleteClaims == ASSUME LocksInv, IInv', NEW r \in Requests, DeleteOrderCommit(r) PROVE LocksInv'
<1> DEFINE o == req[r].order
<1>0. /\ IInv /\ TypeOK /\ TablesInv /\ VerdictAgrees /\ ClaimInv(r, "commit")
      /\ req[r].op = "delete_order" /\ req[r].pc = "commit" /\ End(r)
      /\ order' = IF OrderExists(o)
                  THEN [order EXCEPT ![o].status = "deleted", ![o].accepted = NoProposal]
                  ELSE order
      /\ proposal' = [q \in Proposals |->
                        IF Holds(r, ProposalLock(q))
                        THEN [proposal[q] EXCEPT !.status = "deleted"] ELSE proposal[q]]
      /\ chat' = [q \in Proposals |->
                    IF Holds(r, ChatLock(q))
                    THEN [status |-> "deleted", linked |-> FALSE] ELSE chat[q]]
  BY DEF LocksInv, IInv, DeleteOrderCommit, Done
<1>1. /\ o \in Orders
      /\ \A q \in Proposals : /\ Holds(r, ProposalLock(q)) => proposal[q].order = o
                              /\ Holds(r, ChatLock(q)) => ChatExists(q) /\ proposal[q].order = o
                              /\ ProposalExists(q) /\ proposal[q].order = o => Holds(r, ProposalLock(q))
                              /\ ChatExists(q) /\ proposal[q].order = o => Holds(r, ChatLock(q))
  BY <1>0 DEF IInv, RequestInv, SlotInv, HeldInv, DeleteInv, ClaimInv, HeldChatInv, DeletesChatsInv,
     ProposalsOf, ChatsOf
<1>2. \A q \in Proposals :
        /\ proposal'[q].order = proposal[q].order /\ proposal'[q].executor = proposal[q].executor
        /\ proposal'[q].recent = proposal[q].recent
        /\ proposal'[q].status = IF Holds(r, ProposalLock(q)) THEN "deleted" ELSE proposal[q].status
  BY <1>0 DEF TypeOK, ProposalRow
<1>3. \A q \in Proposals :
        /\ Holds(r, ProposalLock(q)) => proposal[q].status # "unborn"
        /\ ProposalExists(q)' <=> ProposalExists(q) /\ proposal[q].order # o
  <2>1. ASSUME NEW q \in Proposals, Holds(r, ProposalLock(q)) PROVE proposal[q].status # "unborn"
    <3>1. proposal[q].order # NoOrder
      BY <1>1, <2>1, NobodyAssumption
    <3> QED BY <1>0, <3>1 DEF IInv, ForeignKeyInv
  <2> QED BY <1>1, <1>2, <2>1 DEF ProposalExists, ProposalStatus
<1>4. \A q \in Proposals :
        /\ chat'[q] # chat[q] => Holds(r, ChatLock(q)) /\ proposal[q].order = o
        /\ ChatExists(q)' => ChatExists(q)
        /\ chat'[q].status = "unborn" <=> chat[q].status = "unborn"
        /\ chat'[q].status = "active" => proposal[q].order # o
  BY <1>0, <1>1 DEF ChatExists
<1>5. Shrinks
  BY <1>2, <1>3, <1>4 DEF Shrinks
<1>6. ChatFollowsProposal'
  <2>1. ASSUME NEW q \in Proposals, ProposalExists(q)' PROVE ChatExists(q)' /\ chat'[q].linked
    <3>1. ProposalExists(q) /\ chat'[q] = chat[q]
      BY <1>3, <1>4, <2>1
    <3> QED BY <1>0, <3>1 DEF TablesInv, ChatFollowsProposal, ChatExists
  <2>2. ASSUME NEW q \in Proposals, ~ProposalExists(q)' PROVE chat'[q].status # "active"
    BY <1>0, <1>3, <1>4, <2>2 DEF TablesInv, ChatFollowsProposal
  <2> QED BY <2>1, <2>2 DEF ChatFollowsProposal
<1>7. \A x \in Orders : /\ x # o => order'[x] = order[x]
                        /\ order'[x].status \in {"OPEN", "ASSIGNED"} => x # o
  BY <1>0, <1>1 DEF TypeOK, OrderRow, OrderExists, OrderStatus
<1>8. UndecidedChatOpen'
  BY <1>1, <1>4, <1>5, <1>7, UndecidedKeeps
<1>9. ChosenChatOpen'
  <2> SUFFICES ASSUME NEW x \in Orders, order'[x].status = "ASSIGNED", order'[x].accepted # NoProposal
               PROVE  chat'[order'[x].accepted].status = "active"
    BY DEF ChosenChatOpen
  <2>1. x # o /\ order'[x] = order[x]
    BY <1>7
  <2>2. /\ order[x].accepted \in Proposals /\ proposal[order[x].accepted].order = x
        /\ chat[order[x].accepted].status = "active"
    BY <1>0, <2>1 DEF VerdictAgrees, TablesInv, ChosenChatOpen, TypeOK, OrderRow
  <2> QED BY <1>4, <2>1, <2>2
<1> QED BY <1>0, <1>4, <1>5, <1>6, <1>8, <1>9, CommitClaims

LEMMA WithdrawClaims ==
  ASSUME LocksInv, IInv', NEW r \in Requests, NEW op \in {"delete_proposal", "close_chat"},
         WithdrawCommit(r, op)
  PROVE  LocksInv'
<1>a. req[r].prop \in Proposals
  BY DEF LocksInv, IInv, RequestInv, SlotInv, WithdrawCommit, Done
<1> PICK p \in Proposals : p = req[r].prop
  BY <1>a
<1>0. /\ IInv /\ TypeOK /\ TablesInv /\ VerdictAgrees /\ ClaimInv(r, "commit")
      /\ req[r].op = op /\ req[r].pc = "commit" /\ End(r)
      /\ chat' = IF Holds(r, ChatLock(p))
                 THEN [chat EXCEPT ![p] = [status |-> "closed", linked |-> FALSE]] ELSE chat
      /\ proposal' = IF Holds(r, ProposalLock(p))
                     THEN [proposal EXCEPT ![p].status = "deleted"] ELSE proposal
      /\ order' = [x \in Orders |->
                     IF Holds(r, ProposalLock(p)) /\ order[x].accepted = p
                     THEN [order[x] EXCEPT !.accepted = NoProposal] ELSE order[x]]
  BY DEF LocksInv, IInv, WithdrawCommit, Done
<1>1. /\ p \in Proposals /\ proposal[p].status # "unborn"
      /\ ProposalExists(p) => Holds(r, ChatLock(p)) /\ Holds(r, ProposalLock(p))
      /\ Holds(r, ChatLock(p)) => ChatExists(p)
  BY <1>0 DEF IInv, RequestInv, SlotInv, ClaimInv, WithdrawInv, HeldChatInv
<1>2. /\ \A q \in Proposals : /\ proposal'[q].order = proposal[q].order
                              /\ proposal'[q].executor = proposal[q].executor
                              /\ proposal'[q].recent = proposal[q].recent
                              /\ q # p => proposal'[q] = proposal[q] /\ chat'[q] = chat[q]
      /\ proposal'[p].status \in {proposal[p].status, "deleted"} /\ ~ProposalExists(p)'
      /\ Holds(r, ChatLock(p)) => chat'[p].status = "closed"
      /\ ~Holds(r, ChatLock(p)) => chat'[p] = chat[p]
  <2>1. \A q \in Proposals : q # p => proposal'[q] = proposal[q] /\ chat'[q] = chat[q]
    BY <1>0, <1>1 DEF TypeOK
  <2>2. /\ proposal'[p].order = proposal[p].order /\ proposal'[p].executor = proposal[p].executor
        /\ proposal'[p].recent = proposal[p].recent
        /\ proposal'[p].status = IF Holds(r, ProposalLock(p)) THEN "deleted" ELSE proposal[p].status
    BY <1>0, <1>1 DEF TypeOK, ProposalRow
  <2>3. /\ Holds(r, ChatLock(p)) => chat'[p].status = "closed"
        /\ ~Holds(r, ChatLock(p)) => chat'[p] = chat[p]
    BY <1>0, <1>1 DEF TypeOK, ChatRow
  <2>4. ~ProposalExists(p)'
    BY <1>1, <2>2 DEF ProposalExists, ProposalStatus
  <2> QED BY <2>1, <2>2, <2>3, <2>4
<1>3. Shrinks
  <2>1. \A q \in Proposals \ {p} : /\ (ProposalExists(q)' => ProposalExists(q))
                                   /\ (ChatExists(q)' => ChatExists(q))
    BY <1>2 DEF ProposalExists, ChatExists
  <2>2. /\ ChatExists(p)' => ChatExists(p)
        /\ chat'[p].status = "unborn" <=> chat[p].status = "unborn"
    BY <1>1, <1>2 DEF ChatExists
  <2> QED BY <1>1, <1>2, <2>1, <2>2 DEF Shrinks
<1>4. ChatFollowsProposal'
  <2>1. chat'[p].status # "active"
    BY <1>0, <1>1, <1>2 DEF TablesInv, ChatFollowsProposal
  <2>2. \A q \in Proposals \ {p} : /\ ProposalExists(q)' <=> ProposalExists(q)
                                   /\ ChatExists(q)' <=> ChatExists(q)
                                   /\ chat'[q] = chat[q]
    BY <1>2 DEF ProposalExists, ChatExists
  <2> QED BY <1>0, <1>2, <2>1, <2>2 DEF TablesInv, ChatFollowsProposal
<1>5. \A x \in Orders : /\ order'[x].status = order[x].status
                        /\ order'[x].accepted \in {order[x].accepted, NoProposal}
                        /\ order'[x].accepted = p => ~Holds(r, ProposalLock(p))
  BY <1>0, <1>1, ProposalsAreNamed DEF TypeOK, OrderRow
<1>6. UndecidedChatOpen'
  BY <1>2, <1>3, <1>5, UndecidedKeeps
<1>7. ChosenChatOpen'
  <2> SUFFICES ASSUME NEW x \in Orders, order'[x].status = "ASSIGNED", order'[x].accepted # NoProposal
               PROVE  chat'[order'[x].accepted].status = "active"
    BY DEF ChosenChatOpen
  <2> DEFINE a == order[x].accepted
  <2>1. order'[x].accepted = a /\ order[x].status = "ASSIGNED" /\ a # NoProposal
    BY <1>5
  <2>2. a \in Proposals /\ proposal[a].status = "ACCEPTED" /\ chat[a].status = "active"
    BY <1>0, <2>1 DEF VerdictAgrees, TablesInv, ChosenChatOpen, TypeOK, OrderRow
  <2>3. a # p
    BY <1>1, <1>5, <2>1, <2>2 DEF ProposalExists, ProposalStatus
  <2> QED BY <1>2, <2>1, <2>2, <2>3
<1>8. \A q \in Proposals : chat'[q] # chat[q] => Holds(r, ChatLock(q))
  BY <1>2
<1> QED BY <1>0, <1>3, <1>4, <1>6, <1>7, <1>8, CommitClaims

LEMMA UpdateClaims ==
  ASSUME LocksInv, IInv', NEW r \in Requests, UpdateOrderCommit(r) \/ UpdateProposalCommit(r)
  PROVE  LocksInv'
<1>0. /\ IInv /\ TypeOK /\ TablesInv /\ End(r) /\ UNCHANGED chat
      /\ \A x \in Orders : /\ order'[x].status = order[x].status
                           /\ order'[x].accepted = order[x].accepted
      /\ \A q \in Proposals :
           /\ proposal'[q].order = proposal[q].order /\ proposal'[q].executor = proposal[q].executor
           /\ proposal'[q].recent = proposal[q].recent /\ proposal'[q].status = proposal[q].status
  <2>0. IInv /\ TypeOK /\ TablesInv
    BY DEF LocksInv, IInv
  <2>1. CASE UpdateOrderCommit(r)
    BY <2>0, <2>1 DEF UpdateOrderCommit, TypeOK, OrderRow
  <2>2. CASE UpdateProposalCommit(r)
    BY <2>0, <2>2 DEF UpdateProposalCommit, TypeOK, ProposalRow
  <2> QED BY <2>0, <2>1, <2>2
<1>1. Shrinks
  BY <1>0 DEF Shrinks, ProposalExists, ChatExists
<1>2. ChatFollowsProposal' /\ ChosenChatOpen'
  BY <1>0 DEF TablesInv, ChatFollowsProposal, ChosenChatOpen, ProposalExists, ChatExists
<1>3. UndecidedChatOpen'
  BY <1>0, <1>1, UndecidedKeeps
<1> QED BY <1>0, <1>1, <1>2, <1>3, CommitClaims

\* The new proposal is the only one of its executor for the order and fits in his day: his
\* advisory lock kept other transactions from adding to what this one counted.  Nobody else
\* claims anything of a row that did not exist.
LEMMA CreateClaims == ASSUME LocksInv, IInv', NEW r \in Requests, CreateCommit(r) PROVE LocksInv'
<1>0. IInv /\ TypeOK /\ TablesInv /\ End(r) /\ UNCHANGED order
  BY DEF LocksInv, IInv, CreateCommit
<1>1. /\ req[r].op = "create_proposal" /\ req[r].pc = "commit"
      /\ req[r].order \in Orders /\ req[r].user \in Users
  BY DEF CreateCommit, Done, LocksInv, IInv, RequestInv, SlotInv, ClaimInv, CreatorInv
<1> PICK o \in Orders, u \in Users : o = req[r].order /\ u = req[r].user
  BY <1>1
<1>2. PICK p \in Proposals :
        /\ proposal[p].status = "unborn"
        /\ proposal' = [proposal EXCEPT ![p] = [status |-> "PENDING", order |-> o, executor |-> u,
                                                recent |-> TRUE, terms |-> "posted"]]
        /\ chat' = [chat EXCEPT ![p] = [status |-> "active", linked |-> TRUE]]
  BY DEF CreateCommit, Unborn
<1>3. /\ proposal'[p].status = "PENDING" /\ proposal'[p].order = o /\ proposal'[p].executor = u
      /\ chat'[p].status = "active" /\ chat'[p].linked
      /\ \A q \in Proposals \ {p} : proposal'[q] = proposal[q] /\ chat'[q] = chat[q]
  BY <1>0, <1>2 DEF TypeOK
<1>4. /\ Holds(r, ExecutorLock(u)) /\ Cardinality(Recent(u)) < MaxPerDay /\ ~Duplicate(o, u)
      /\ \A s \in Requests : Holds(s, OrderLock(o)) => NoKey(s)
  BY <1>1 DEF LocksInv, ClaimInv, CreatorInv, IInv, RequestInv, ShareInv, ShareExcludes
<1>5. /\ ~ProposalExists(p) /\ ~ChatExists(p) /\ chat[p].status = "unborn"
      /\ ProposalExists(p)' /\ ChatExists(p)'
      /\ \A q \in Proposals : q # p => /\ ProposalExists(q)' <=> ProposalExists(q)
                                       /\ ChatExists(q)' <=> ChatExists(q)
  BY <1>0, <1>2, <1>3 DEF ProposalExists, ProposalStatus, ChatExists, TablesInv, ChatBorn
<1>6. \A x \in Users : Recent(x)' = IF x = u THEN Recent(u) \cup {p} ELSE Recent(x)
  <2>1. p \in Recent(u)' /\ \A x \in Users : x # u => p \notin Recent(x)'
    BY <1>2, <1>3, <1>5 DEF Recent
  <2>2. \A x \in Users : p \notin Recent(x)
    BY <1>5 DEF Recent
  <2>3. \A x \in Users : \A q \in Proposals \ {p} : q \in Recent(x)' <=> q \in Recent(x)
    BY <1>3, <1>5 DEF Recent
  <2>4. \A x \in Users : Recent(x) \subseteq Proposals /\ Recent(x)' \subseteq Proposals
    BY DEF Recent
  <2> QED BY <2>1, <2>2, <2>3, <2>4
<1>7. TablesInv'
  <2>1. ChatBorn' /\ ChatFollowsProposal' /\ UndecidedChatOpen'
    BY <1>0, <1>3, <1>5 DEF TablesInv, ChatBorn, ChatFollowsProposal, UndecidedChatOpen
  <2>2. ChosenChatOpen'
    <3> SUFFICES ASSUME NEW x \in Orders, order[x].status = "ASSIGNED", order[x].accepted # NoProposal
                 PROVE  chat'[order[x].accepted].status = "active"
      BY <1>0 DEF ChosenChatOpen
    <3>1. /\ order[x].accepted \in Proposals /\ proposal[order[x].accepted].status = "ACCEPTED"
          /\ chat[order[x].accepted].status = "active"
      BY <1>0 DEF IInv, VerdictAgrees, TablesInv, ChosenChatOpen, TypeOK, OrderRow
    <3>2. order[x].accepted # p
      BY <1>2, <3>1
    <3> QED BY <1>3, <3>1, <3>2
  <2>3. OneProposalPerExecutor'
    <3>1. \A q \in Proposals \ {p} :
            ~(ProposalExists(q) /\ proposal[q].order = o /\ proposal[q].executor = u)
      BY <1>4 DEF Duplicate, ProposalsOf
    <3> QED BY <1>0, <1>3, <1>5, <3>1 DEF TablesInv, OneProposalPerExecutor
  <2>4. DailyLimit'
    <3>1. \A x \in Users : IsFiniteSet(Recent(x)) /\ Cardinality(Recent(x)) \in Nat
      BY RecentIsFinite DEF Recent
    <3>2. p \notin Recent(u)
      BY <1>5 DEF Recent
    <3>3. Cardinality(Recent(u) \cup {p}) = Cardinality(Recent(u)) + 1
      BY <3>1, <3>2, FS_AddElement
    <3>4. Cardinality(Recent(u)') <= MaxPerDay
      BY <1>4, <1>6, <3>1, <3>3, NumbersAssumption
    <3>5. \A x \in Users \ {u} : Cardinality(Recent(x)') <= MaxPerDay
      BY <1>0, <1>6 DEF TablesInv, DailyLimit
    <3> QED BY <3>4, <3>5 DEF DailyLimit
  <2> QED BY <2>1, <2>2, <2>3, <2>4 DEF TablesInv
<1>8. ASSUME NEW s \in Requests \ {r} PROVE ClaimInv(s, req[s].pc)'
  <2>1. /\ ClaimInv(s, req[s].pc) /\ SlotInv(s, req[s].pc) /\ DeleteInv(s, req[s].pc)
        /\ ForeignKeyInv
    BY DEF LocksInv, IInv, RequestInv
  <2>2. req'[s] = req[s] /\ \A w \in Rows : Holds(s, w)' <=> Holds(s, w)
    BY <1>0, EndFacts
  <2>3. CreatorInv(s, req[s].pc)'
    <3> SUFFICES ASSUME req[s].op = "create_proposal" PROVE CreatorInv(s, req[s].pc)'
      BY <2>2 DEF CreatorInv
    <3>1. req[s].user \in Users /\ CreatorInv(s, req[s].pc)
      BY <2>1 DEF ClaimInv, CreatorInv
    <3>2. Holds(s, ExecutorLock(req[s].user)) => req[s].user # u
      BY <1>4 DEF Holds
    <3>3. req[s].user # u /\ Duplicate(req[s].order, req[s].user)' => Duplicate(req[s].order, req[s].user)
      BY <1>3, <1>5, <2>2 DEF Duplicate, ProposalsOf
    <3>4. req[s].user # u => Recent(req[s].user)' = Recent(req[s].user)
      BY <1>6, <2>2, <3>1
    <3> QED BY <2>2, <3>1, <3>2, <3>3, <3>4, ExecutorRows DEF CreatorInv
  <2>4. WithdrawInv(s, req[s].pc)'
    <3> SUFFICES ASSUME req[s].op \in {"delete_proposal", "close_chat"}
                 PROVE  WithdrawInv(s, req[s].pc)'
      BY <2>2 DEF WithdrawInv
    <3>1. req[s].prop \in Proposals /\ req[s].prop # p
      BY <1>2, <2>1 DEF ClaimInv, WithdrawInv, SlotInv
    <3>2. /\ proposal'[req[s].prop] = proposal[req[s].prop]
          /\ ProposalExists(req[s].prop)' <=> ProposalExists(req[s].prop)
      BY <1>3, <1>5, <2>2, <3>1
    <3> QED BY <2>1, <2>2, <3>1, <3>2, LocksAreRows DEF ClaimInv, WithdrawInv
  <2>5. DeletesChatsInv(s, req[s].pc)'
    <3> SUFFICES ASSUME req[s].op = "delete_order", req[s].pc = "commit",
                        NEW q \in ChatsOf(req[s].order)' PROVE Holds(s, ChatLock(q))'
      BY <2>2 DEF DeletesChatsInv
    <3>1. req[s].order # o
      <4>1. OrderExists(o)
        BY <1>0, <1>1 DEF IInv, RequestInv, ShareInv
      <4> QED BY <1>4, <2>1, <4>1 DEF DeleteInv, NoKey
    <3>2. q \in Proposals /\ q # p /\ q \in ChatsOf(req[s].order)
      BY <1>3, <1>5, <2>2, <3>1 DEF ChatsOf
    <3> QED BY <2>1, <2>2, <3>2, LocksAreRows DEF ClaimInv, DeletesChatsInv
  <2>6. HeldChatInv(s)'
    <3>1. \A q \in Proposals : Holds(s, ChatLock(q)) => q # p
      BY <1>5, <2>1 DEF ClaimInv, HeldChatInv
    <3>2. req[s].op \in {"accept_proposal", "close_order"} => req[s].order \in Orders
      BY <2>1 DEF SlotInv
    <3> QED BY <1>3, <1>5, <2>1, <2>2, <3>1, <3>2, LocksAreRows DEF ClaimInv, HeldChatInv
  <2>7. HeldRowInv(s, req[s].pc)'
    BY <2>1, <2>2, LocksAreRows, ExecutorRows DEF ClaimInv, HeldRowInv
  <2> QED BY <2>3, <2>4, <2>5, <2>6, <2>7 DEF ClaimInv
<1>9. ClaimInv(r, req[r].pc)'
  BY <1>0, EndFacts, FreshClaims
<1> QED BY <1>7, <1>8, <1>9 DEF LocksInv

\* Steps that no request takes.
LEMMA OutsideClaims ==
  ASSUME LocksInv, IInv', Shrinks, UNCHANGED <<chat, req, owner, sharers>>,
         ChatFollowsProposal', UndecidedChatOpen', ChosenChatOpen'
  PROVE  LocksInv'
<1>1. TablesInv'
  BY CountsShrink DEF TablesInv
<1>2. ASSUME NEW s \in Requests PROVE ClaimInv(s, req[s].pc)'
  BY OthersKeep DEF Holds
<1> QED BY <1>1, <1>2 DEF LocksInv

LEMMA CreateOrderClaims == ASSUME LocksInv, IInv', NEW o \in Orders, CreateOrder(o) PROVE LocksInv'
<1>0. /\ IInv /\ TypeOK /\ TablesInv /\ UNCHANGED <<proposal, chat, req, owner, sharers>>
      /\ order[o].status = "unborn" /\ order'[o].status = "OPEN"
      /\ \A x \in Orders \ {o} : order'[x] = order[x]
  BY DEF LocksInv, IInv, TypeOK, OrderRow, CreateOrder
<1>1. Shrinks
  BY <1>0 DEF Shrinks, ProposalExists, ChatExists
<1>2. ChatFollowsProposal' /\ ChosenChatOpen'
  BY <1>0 DEF TablesInv, ChatFollowsProposal, ChosenChatOpen, ProposalExists, ChatExists
<1>3. UndecidedChatOpen'
  <2>1. \A q \in Proposals : ProposalExists(q) => proposal[q].order \in Orders \ {o}
    BY <1>0 DEF IInv, ForeignKeyInv, OrderExists, OrderStatus
  <2> QED BY <1>0, <2>1 DEF TablesInv, UndecidedChatOpen, ProposalExists
<1> QED BY <1>0, <1>1, <1>2, <1>3, OutsideClaims

LEMMA AgeClaims == ASSUME LocksInv, IInv', NEW p \in Proposals, Age(p) PROVE LocksInv'
<1>0. /\ TypeOK /\ TablesInv /\ UNCHANGED <<order, chat, req, owner, sharers>>
      /\ \A q \in Proposals :
           /\ proposal'[q].order = proposal[q].order /\ proposal'[q].executor = proposal[q].executor
           /\ proposal'[q].recent => proposal[q].recent
           /\ proposal'[q].status = proposal[q].status
  BY DEF LocksInv, IInv, TypeOK, ProposalRow, Age
<1>1. Shrinks
  BY <1>0 DEF Shrinks, ProposalExists, ChatExists
<1>2. ChatFollowsProposal' /\ ChosenChatOpen'
  BY <1>0 DEF TablesInv, ChatFollowsProposal, ChosenChatOpen, ProposalExists, ChatExists
<1>3. UndecidedChatOpen'
  BY <1>0, <1>1, UndecidedKeeps
<1> QED BY <1>0, <1>1, <1>2, <1>3, OutsideClaims

-----------------------------------------------------------------------------
(***************************************************************************)
(* The invariant                                                           *)
(***************************************************************************)

LEMMA InitClaims == Init => LocksInv
<1> SUFFICES ASSUME Init PROVE LocksInv
  OBVIOUS
<1>1. IInv
  BY InitInv
<1>2. \A q \in Proposals : /\ proposal[q].status = "unborn" /\ chat[q].status = "unborn"
                           /\ ~ProposalExists(q)
  BY DEF Init, ProposalExists, ProposalStatus
<1>3. DailyLimit
  <2>1. ASSUME NEW u \in Users PROVE Cardinality(Recent(u)) <= MaxPerDay
    <3>1. Recent(u) = {}
      BY <1>2 DEF Recent
    <3> QED BY <3>1, FS_EmptySet, NumbersAssumption
  <2> QED BY <2>1 DEF DailyLimit
<1>4. ChatBorn /\ ChatFollowsProposal /\ UndecidedChatOpen /\ OneProposalPerExecutor
  BY <1>2 DEF ChatBorn, ChatFollowsProposal, UndecidedChatOpen, OneProposalPerExecutor
<1>5. ChosenChatOpen
  BY DEF Init, ChosenChatOpen
<1>6. ASSUME NEW r \in Requests PROVE ClaimInv(r, req[r].pc)
  <2>1. req[r] = Idle /\ \A w \in Rows : ~Holds(r, w)
    BY <1>6, NobodyAssumption DEF Init, Holds
  <2> QED BY <2>1, LocksAreRows, ExecutorRows DEF ClaimInv, CreatorInv, WithdrawInv, DeletesChatsInv,
          HeldChatInv, HeldRowInv, Idle
<1> QED BY <1>1, <1>3, <1>4, <1>5, <1>6 DEF LocksInv, TablesInv

LEMMA HandleClaims ==
  ASSUME LocksInv, IInv', NEW r \in Requests, Handle(r) PROVE LocksInv'
<1>1. CASE CreateProposal(r)
  BY <1>1, CreateLooksClaims, CreateClaims
<1>2. CASE AcceptProposal(r) \/ CloseOrder(r)
  BY <1>2, DecideLooksClaims, AcceptClaims, CloseClaims
<1>3. CASE UpdateOrder(r) \/ UpdateProposal(r)
  BY <1>3, UpdateLooksClaims, UpdateClaims
<1>4. CASE DeleteOrder(r)
  BY <1>4, DeleteLooksClaims, DeleteClaims
<1>5. CASE DeleteProposal(r) \/ CloseChat(r)
  BY <1>5, WithdrawLooksClaims, WithdrawClaims
<1> QED BY <1>1, <1>2, <1>3, <1>4, <1>5 DEF Handle

LEMMA NextClaims == LocksInv /\ [Next]_vars => LocksInv'
<1> SUFFICES ASSUME LocksInv, [Next]_vars PROVE LocksInv'
  OBVIOUS
<1>0. IInv'
  BY NextInv DEF LocksInv
<1>1. CASE \E o \in Orders : CreateOrder(o)
  BY <1>0, <1>1, CreateOrderClaims
<1>2. CASE \E p \in Proposals : Age(p)
  BY <1>0, <1>2, AgeClaims
<1>3. ASSUME NEW r \in Requests, ArriveOrderRequest(r) \/ ArriveProposalRequest(r) PROVE LocksInv'
  BY <1>0, <1>3, ArrivalsClaims
<1>4. ASSUME NEW r \in Requests, Progress(r) PROVE LocksInv'
  BY <1>0, <1>4, LockClaims, HandleClaims, RollbackClaims DEF Progress, DeadlockAbort
<1>5. ASSUME NEW r \in Requests, Crash(r) PROVE LocksInv'
  BY <1>0, <1>5, RollbackClaims DEF Crash
<1>6. CASE UNCHANGED vars
  <2>1. UNCHANGED <<order, proposal, chat, req, owner, sharers>>
    BY <1>6 DEF vars
  <2>2. TablesInv' /\ Shrinks
    BY <2>1, TablesKeep
  <2> QED BY <1>0, <2>1, <2>2, OutsideClaims DEF TablesInv
<1> QED BY <1>1, <1>2, <1>3, <1>4, <1>5, <1>6 DEF Next

\* What the row locks and the advisory lock guarantee to every handler of
\* orders/services.py and chat/services.py, chats and counts included.
THEOREM LocksInvariance == Spec => []LocksInv
  BY InitClaims, NextClaims, PTL DEF Spec

(***************************************************************************)
(* Invariants                                                              *)
(***************************************************************************)

\* A proposal keeps the chat created with it, and the chat of a proposal that
\* delete_proposal, close_chat or delete_order removed is never left open.
THEOREM ChatsFollow == Spec => []ChatFollowsProposal
  BY LocksInvariance, PTL DEF LocksInv, TablesInv

\* However accept_proposal, close_chat and delete_proposal race, the chat of
\* the chosen executor of an assigned order is open.
THEOREM ChosenChatsOpen == Spec => []ChosenChatOpen
  BY LocksInvariance, PTL DEF LocksInv, TablesInv

\* Parallel create_proposal requests leave an executor one proposal per order.
THEOREM OneProposalEach == Spec => []OneProposalPerExecutor
  BY LocksInvariance, PTL DEF LocksInv, TablesInv

\* Parallel create_proposal requests never pass max_proposals_per_day.
THEOREM LimitHolds == Spec => []DailyLimit
  BY LocksInvariance, PTL DEF LocksInv, TablesInv

(***************************************************************************)
(* Deadlocks                                                               *)
(***************************************************************************)

Stays(r) == req[r].op \notin Removals

\* What a request that removes nothing can wait for: the order before it has
\* decided anything, then rows of the order it owns.
LEMMA WaitsAtOrder ==
  ASSUME LocksInv, NEW r \in Requests, Stays(r), NEW w \in Targets(r)
  PROVE  \/ /\ Deciding(r, req[r].pc) /\ req[r].order \in Orders
            /\ \E q \in Proposals : /\ w \in {ProposalLock(q), ChatLock(q)}
                                    /\ proposal[q].order = req[r].order
         \/ /\ ~Deciding(r, req[r].pc)
            /\ req[r].order \in Orders /\ w = OrderLock(req[r].order)
         \/ /\ ~Deciding(r, req[r].pc) /\ req[r].op = "update_proposal"
            /\ req[r].prop \in Proposals /\ w = ProposalLock(req[r].prop)
         \/ /\ ~Deciding(r, req[r].pc) /\ req[r].op = "create_proposal"
            /\ req[r].user \in Users /\ w = ExecutorLock(req[r].user)
<1>1. /\ SlotInv(r, req[r].pc) /\ ChosenInv(r, req[r].pc) /\ CreatorInv(r, req[r].pc)
      /\ req[r].op \in Operations \cup {"idle"}
  BY DEF LocksInv, IInv, RequestInv, ClaimInv, TypeOK, Request
<1>2. CASE req[r].op = "create_proposal"
  BY <1>1, <1>2 DEF SlotInv, CreatorInv, Program, Targets, Deciding
<1>3. CASE req[r].op = "accept_proposal"
  BY <1>1, <1>3 DEF SlotInv, ChosenInv, Program, Targets, Deciding, ChatsOf, ProposalsOf
<1>4. CASE req[r].op = "close_order"
  BY <1>1, <1>4 DEF SlotInv, Program, Targets, Deciding, ChatsOf, ProposalsOf
<1>5. CASE req[r].op \in {"update_order", "update_proposal"}
  BY <1>1, <1>5 DEF SlotInv, Program, Targets, Deciding
<1>6. CASE req[r].op = "idle"
  BY <1>1, <1>6 DEF SlotInv, Program, Targets
<1> QED BY <1>1, <1>2, <1>3, <1>4, <1>5, <1>6 DEF Stays, Removals, Operations

\* Who holds an order and still waits has begun to decide about it.
LEMMA OrderHolders ==
  ASSUME LocksInv, NEW s \in Requests, Stays(s), Needs(s) # {}, NEW o \in Orders,
         Holds(s, OrderLock(o)) \/ s \in sharers[o]
  PROVE  Deciding(s, req[s].pc)
<1>1. /\ SlotInv(s, req[s].pc) /\ ShareInv(s, req[s].pc) /\ HeldRowInv(s, req[s].pc)
      /\ req[s].op \in Operations \cup {"idle"}
  BY DEF LocksInv, IInv, RequestInv, ClaimInv, TypeOK, Request
<1>2. s \notin sharers[o]
  <2> SUFFICES ASSUME s \in sharers[o] PROVE Needs(s) = {}
    OBVIOUS
  <2>1. req[s].pc \in {"insert", "commit"} /\ req[s].order = o
    BY <1>1 DEF ShareInv
  <2> QED BY <2>1 DEF Needs, Sharing, Targets
<1>3. Holds(s, OrderLock(o))
  BY <1>2
<1>4. req[s].op # "create_proposal" /\ req[s].op # "idle" /\ req[s].op # "update_proposal"
  BY <1>1, <1>3, LocksAreRows DEF ShareInv, SlotInv, HeldRowInv
<1>5. req[s].op \in {"accept_proposal", "close_order", "update_order"} /\ o = req[s].order
  BY <1>1, <1>3, <1>4 DEF HeldRowInv, Stays, Removals, Operations
<1>6. req[s].pc \in {"lock_order", "write_order", "commit"} => Needs(s) = {}
  BY <1>3, <1>5 DEF Needs, Sharing, Targets
<1> QED BY <1>1, <1>3, <1>5, <1>6 DEF HeldRowInv, Deciding

\* Who holds a proposal or a chat and still waits holds its order.
LEMMA RowHolders ==
  ASSUME LocksInv, NEW s \in Requests, Stays(s), Needs(s) # {}, NEW q \in Proposals,
         Holds(s, ProposalLock(q)) \/ Holds(s, ChatLock(q))
  PROVE  Holds(s, OrderLock(proposal[q].order)) /\ proposal[q].order \in Orders
<1>1. /\ SlotInv(s, req[s].pc) /\ DecideInv(s, req[s].pc) /\ HeldInv(s, req[s].pc)
      /\ HeldRowInv(s, req[s].pc) /\ HeldChatInv(s)
      /\ req[s].op \in Operations \cup {"idle"}
  BY DEF LocksInv, IInv, RequestInv, ClaimInv, TypeOK, Request
<1>2. req[s].op # "idle"
  BY <1>1, LocksAreRows DEF SlotInv
<1>3. CASE Holds(s, ChatLock(q))
  <2>1. req[s].op \in {"accept_proposal", "close_order"}
    BY <1>1, <1>2, <1>3 DEF HeldChatInv, Stays, Removals, Operations
  <2> QED BY <1>1, <1>3, <2>1 DEF HeldChatInv, SlotInv
<1>4. CASE Holds(s, ProposalLock(q))
  <2>1. req[s].op # "update_proposal"
    <3> SUFFICES ASSUME req[s].op = "update_proposal" PROVE Needs(s) = {}
      OBVIOUS
    <3>1. q = req[s].prop /\ req[s].pc \in {"write_proposal", "commit"}
      BY <1>1, <1>4 DEF HeldRowInv
    <3> QED BY <1>4, <3>1 DEF Needs, Sharing, Targets
  <2>2. req[s].op \in {"accept_proposal", "close_order"}
    BY <1>1, <1>2, <1>4, <2>1 DEF HeldRowInv, Stays, Removals, Operations
  <2> QED BY <1>1, <1>4, <2>2 DEF HeldInv, DecideInv, SlotInv
<1> QED BY <1>3, <1>4

\* Choosing, closing, creating and editing never wait for each other in a circle: the
\* order is locked before its proposals and chats, which only its holder locks in bulk,
\* the advisory lock before the order, and an edit holds nothing while it waits.
THEOREM DeadlocksNeedRemovals == Spec => []DeadlockNeedsRemoval
<1>1. LocksInv => DeadlockNeedsRemoval
  <2> SUFFICES ASSUME LocksInv, NEW D \in SUBSET Requests, Deadlocked(D), \A r \in D : Stays(r)
               PROVE  FALSE
    BY DEF DeadlockNeedsRemoval, Stays
  <2>0. \A r \in D : r \in Requests /\ Needs(r) # {}
    BY DEF Deadlocked, WaitsFor
  <2>1. ASSUME NEW r \in D
        PROVE  \E s \in D, w \in Targets(r) :
                 /\ s # r
                 /\ Holds(s, w) \/ \E o \in Orders : w = OrderLock(o) /\ s \in sharers[o]
    <3>1. PICK s \in D : WaitsFor(r, s)
      BY DEF Deadlocked
    <3>2. PICK w \in Needs(r) : s \in Blockers(r, w)
      BY <3>1 DEF WaitsFor
    <3>3. w \in Targets(r)
      BY DEF Needs
    <3> QED BY <3>2, <3>3 DEF Blockers
  <2>2. ASSUME NEW r \in D, Deciding(r, req[r].pc) PROVE FALSE
    <3>1. PICK s \in D, w \in Targets(r) :
            /\ s # r
            /\ Holds(s, w) \/ \E o \in Orders : w = OrderLock(o) /\ s \in sharers[o]
      BY <2>1
    <3>2. PICK q \in Proposals : w \in {ProposalLock(q), ChatLock(q)} /\ proposal[q].order = req[r].order
      BY <2>0, <2>2, WaitsAtOrder
    <3>3. Holds(s, ProposalLock(q)) \/ Holds(s, ChatLock(q))
      BY <3>1, <3>2, LocksDiffer
    <3>4. Holds(s, OrderLock(req[r].order))
      BY <2>0, <3>2, <3>3, RowHolders
    <3>5. Holds(r, OrderLock(req[r].order))
      BY <2>0, <2>2 DEF LocksInv, IInv, RequestInv, DecideInv
    <3> QED BY <3>1, <3>4, <3>5 DEF Holds
  <2>3. ASSUME NEW r \in D
        PROVE  /\ req[r].op = "create_proposal" /\ req[r].user \in Users
               /\ \E s \in D \ {r} : Holds(s, ExecutorLock(req[r].user))
    <3>1. PICK s \in D, w \in Targets(r) :
            /\ s # r
            /\ Holds(s, w) \/ \E o \in Orders : w = OrderLock(o) /\ s \in sharers[o]
      BY <2>1
    <3>2. ~Deciding(r, req[r].pc) /\ ~Deciding(s, req[s].pc)
      BY <2>2
    <3>3. CASE req[r].order \in Orders /\ w = OrderLock(req[r].order)
      <4>1. Holds(s, OrderLock(req[r].order)) \/ s \in sharers[req[r].order]
        BY <3>1, <3>3, LocksDiffer
      <4> QED BY <2>0, <3>2, <3>3, <4>1, OrderHolders
    <3>4. CASE req[r].prop \in Proposals /\ w = ProposalLock(req[r].prop)
      <4>1. Holds(s, ProposalLock(req[r].prop))
        BY <3>1, <3>4, LocksDiffer
      <4>2. /\ Holds(s, OrderLock(proposal[req[r].prop].order))
            /\ proposal[req[r].prop].order \in Orders
        BY <2>0, <3>4, <4>1, RowHolders
      <4> QED BY <2>0, <3>2, <4>2, OrderHolders
    <3>5. CASE /\ req[r].op = "create_proposal" /\ req[r].user \in Users
               /\ w = ExecutorLock(req[r].user)
      BY <3>1, <3>5, LocksDiffer
    <3> QED BY <2>0, <3>2, <3>3, <3>4, <3>5, WaitsAtOrder
  <2>4. PICK r \in D : TRUE
    BY DEF Deadlocked
  <2>5. PICK s \in D : Holds(s, ExecutorLock(req[r].user)) /\ req[r].user \in Users
    BY <2>3
  <2>6. req[s].user = req[r].user
    BY <2>0, <2>5 DEF LocksInv, ClaimInv, HeldRowInv
  <2>7. PICK x \in D \ {s} : Holds(x, ExecutorLock(req[s].user))
    BY <2>3
  <2> QED BY <2>5, <2>6, <2>7 DEF Holds
<1> QED BY <1>1, LocksInvariance, PTL
=============================================================================
