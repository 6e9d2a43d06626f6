-------------------------- MODULE ChatMessagesProofs --------------------------
(***************************************************************************)
(* What ChatMessages keeps for any number of messages and of concurrent    *)
(* requests.                                                               *)
(***************************************************************************)
EXTENDS ChatMessages, TLAPS

USE MessagesAssumption, NobodyAssumption

\* Rows that are locked are there.
HeldExist == /\ \A m \in Messages : owner[MessageLock(m)] # Nobody => MessageExists(m)
             /\ owner[ChatLock] # Nobody => chat.exists

\* A free slot, and a handler that has committed, hold nothing; only the deletion of
\* the order locks messages to delete them.
SlotInv(r, q) ==
  /\ q.op = "idle" => q.pc = "idle"
  /\ q.op = "idle" \/ q.pc = "publish" => \A w \in Rows : ~Holds(r, w)
  /\ q.op \in {"send", "read"} => q.user \in Users
  /\ q.pc \in {"delete_rows", "cascade"} => q.op = "delete"

\* A message is inserted while its sender holds the chat, and announced when it is there.
SendInv(r, q) ==
  q.op = "send" => /\ q.pc \in {"insert", "commit"} => Holds(r, ChatLock)
                   /\ q.pc = "publish" => \A m \in q.rows : message[m].status # "unborn"

\* A bulk UPDATE of messages holds only unread ones that it matched.
MarkInv(r, q) ==
  q.op \in {"read", "close"} =>
    \A m \in Messages : Holds(r, MessageLock(m)) => /\ q.pc \notin {"read_chat", "mark"}
                                                    /\ m \in q.rows
                                                    /\ message[m].status = "unread"

\* What a read matches are messages of the other one, all that were known and are
\* still unread; and in the end it holds those of them that are.
ReadInv(r, q) ==
  q.op = "read" =>
    /\ \A m \in q.known : message[m].status # "unborn" /\ message[m].by # q.user
    /\ q.pc \in {"marking", "commit"} =>
         /\ \A m \in q.rows : message[m].status # "unborn" /\ message[m].by # q.user
         /\ \A m \in q.known : message[m].status = "unread" => m \in q.rows
    /\ q.pc = "commit" => \A m \in q.rows : message[m].status = "unread" => Holds(r, MessageLock(m))

\* What is to be counted is read, and was not counted before.
CountInv(q) ==
  q.op = "read" /\ q.pc = "publish" =>
    \A m \in q.rows : message[m].status \in {"read", "deleted"} /\ counted[m] = 0

\* The deletion holds the chat and, in the end, all its messages.
DeleteInv(r, q) ==
  q.op = "delete" =>
    /\ q.pc \in {"cascade", "commit"} => Holds(r, ChatLock)
    /\ q.pc = "commit" => \A m \in Messages : MessageExists(m) => Holds(r, MessageLock(m))

RequestInv(r, q) == /\ SlotInv(r, q) /\ SendInv(r, q) /\ MarkInv(r, q) /\ ReadInv(r, q)
                    /\ CountInv(q) /\ DeleteInv(r, q)

Counting(q) == q.op = "read" /\ q.pc = "publish"

\* No two requests are about to count the same message.
CountedApart == \A r, s \in Requests :
                  r # s /\ Counting(req[r]) /\ Counting(req[s]) => req[r].rows \cap req[s].rows = {}

TablesInv == EventsAreTrue /\ CountedOnce /\ NoOrphanMessage

\* The inductive invariant.
IInv == /\ TypeOK /\ TablesInv /\ HeldExist /\ CountedApart
        /\ \A r \in Requests : RequestInv(r, req[r])

-----------------------------------------------------------------------------
(***************************************************************************)
(* Types and locks                                                         *)
(***************************************************************************)

LEMMA IdleIsRequest == Idle \in Request
  BY DEF Idle, Request, Statements, Operations

LEMMA LocksDiffer == /\ \A m, n : MessageLock(m) = MessageLock(n) => m = n
                     /\ \A m : MessageLock(m) # ChatLock
  BY DEF MessageLock, ChatLock

LEMMA LocksAreRows == ChatLock \in Rows /\ \A m \in Messages : MessageLock(m) \in Rows
  BY DEF Rows

\* What a transaction that ends leaves of the requests and locks.
LEMMA EndIs ==
  ASSUME TypeOK, NEW r \in Requests, NEW q \in Request, EndAs(r, q)
  PROVE  /\ req' \in [Requests -> Request] /\ owner' \in [Rows -> Requests \cup {Nobody}]
         /\ req'[r] = q
         /\ \A s \in Requests \ {r} : req'[s] = req[s]
         /\ \A w \in Rows : owner'[w] = (IF owner[w] = r THEN Nobody ELSE owner[w])
         /\ \A w \in Rows : ~Holds(r, w)'
         /\ \A s \in Requests \ {r}, w \in Rows : Holds(s, w)' <=> Holds(s, w)
  BY DEF TypeOK, EndAs, Unlocked, Holds

\* What the tables and locks must leave true for the other requests.
LEMMA OthersKeep ==
  ASSUME IInv, NEW s \in Requests, req'[s] = req[s], message' \in [Messages -> MessageRow],
         \A w \in Rows : Holds(s, w) <=> Holds(s, w)',
         \A m \in Messages : message[m].status # "unborn" =>
              /\ message'[m].status # "unborn"
              /\ message'[m].by = message[m].by
              /\ message'[m].status = "unread" => message[m].status = "unread"
              /\ Holds(s, MessageLock(m)) => message'[m] = message[m],
         \A m \in Messages : message[m].status = "unborn" /\ message'[m].status # "unborn"
              => ~Holds(s, ChatLock),
         \A m \in Messages : MessageExists(m)' => MessageExists(m) \/ message[m].status = "unborn",
         Counting(req[s]) => \A m \in req[s].rows : counted'[m] = counted[m]
  PROVE  RequestInv(s, req[s])'
<1>1. RequestInv(s, req[s]) /\ req[s] \in Request
  BY DEF IInv, TypeOK
<1>2. \A m \in Messages : Holds(s, MessageLock(m)) => message[m].status # "unborn"
  BY DEF IInv, HeldExist, Holds, MessageExists
<1>3. SlotInv(s, req[s])' /\ SendInv(s, req[s])'
  BY <1>1, LocksAreRows DEF RequestInv, SlotInv, SendInv, Request
<1>4. MarkInv(s, req[s])'
  BY <1>1, <1>2, LocksAreRows DEF RequestInv, MarkInv
<1>5. ReadInv(s, req[s])'
  BY <1>1, LocksAreRows DEF RequestInv, ReadInv, Request
<1>6. CountInv(req[s])'
  <2> SUFFICES ASSUME Counting(req[s]), NEW m \in req[s].rows
               PROVE  message'[m].status \in {"read", "deleted"} /\ counted'[m] = 0
    BY DEF CountInv, Counting
  <2>1. message[m].status \in {"read", "deleted"} /\ counted[m] = 0 /\ m \in Messages
    BY <1>1 DEF RequestInv, CountInv, Counting, Request
  <2>2. message'[m].status \in {"unborn", "unread", "read", "deleted"}
    BY <2>1 DEF MessageRow
  <2> QED BY <2>1, <2>2
<1>7. DeleteInv(s, req[s])'
  BY <1>1, LocksAreRows DEF RequestInv, DeleteInv, MessageExists
<1> QED BY <1>3, <1>4, <1>5, <1>6, <1>7 DEF RequestInv

-----------------------------------------------------------------------------
(***************************************************************************)
(* Steps that write no table                                               *)
(***************************************************************************)

\* The tables are as they were.
LEMMA TablesKeep ==
  ASSUME IInv, UNCHANGED <<chat, message, events>> PROVE TablesInv'
  BY DEF IInv, TablesInv, EventsAreTrue, CountedOnce, NoOrphanMessage, MessageExists, events

LEMMA GoOnInv ==
  ASSUME IInv, NEW r \in Requests, NEW q \in Request, GoOn(r, q), RequestInv(r, q),
         q.pc # "publish"
  PROVE  IInv'
<1>1. /\ UNCHANGED <<chat, message, events, owner>>
      /\ created' = created /\ counted' = counted
      /\ req' \in [Requests -> Request]
      /\ req'[r] = q
      /\ \A s \in Requests \ {r} : req'[s] = req[s]
  BY DEF IInv, TypeOK, GoOn, events
<1>2. TypeOK'
  BY <1>1 DEF IInv, TypeOK
<1>3. TablesInv' /\ HeldExist'
  BY <1>1, TablesKeep DEF IInv, HeldExist, MessageExists
<1>4. CountedApart'
  BY <1>1 DEF IInv, CountedApart, Counting
<1>5. ASSUME NEW s \in Requests PROVE RequestInv(s, req[s])'
  <2>1. RequestInv(s, req'[s])
    BY <1>1 DEF IInv
  <2> QED BY <1>1, <2>1 DEF RequestInv, SlotInv, SendInv, MarkInv, ReadInv, CountInv, DeleteInv, Holds,
          MessageExists
<1> QED BY <1>2, <1>3, <1>4, <1>5 DEF IInv

\* A free slot claims nothing.
LEMMA IdleInv == ASSUME NEW r \in Requests, \A w \in Rows : ~Holds(r, w) PROVE RequestInv(r, Idle)
  BY LocksAreRows DEF RequestInv, SlotInv, SendInv, MarkInv, ReadInv, CountInv, DeleteInv, Idle

\* A transaction that ends without a commit.
LEMMA RollbackInv == ASSUME IInv, NEW r \in Requests, Rollback(r) PROVE IInv'
<1>0. /\ TypeOK /\ EndAs(r, Idle) /\ UNCHANGED <<chat, message, events>>
      /\ created' = created /\ counted' = counted
  BY DEF IInv, Rollback, events
<1>1. TypeOK'
  BY <1>0, IdleIsRequest, EndIs DEF TypeOK
<1>2. TablesInv'
  BY <1>0, TablesKeep
<1>3. HeldExist'
  BY <1>0, IdleIsRequest, EndIs, LocksAreRows DEF IInv, HeldExist, MessageExists
<1>4. CountedApart'
  <2>1. ~Counting(Idle)
    BY DEF Counting, Idle
  <2> QED BY <1>0, <2>1, IdleIsRequest, EndIs DEF IInv, CountedApart
<1>5. ASSUME NEW s \in Requests PROVE RequestInv(s, req[s])'
  <2>1. CASE s = r
    <3>1. req'[r] = Idle /\ (\A w \in Rows : ~Holds(r, w)')
      BY <1>0, IdleIsRequest, EndIs
    <3> QED BY <2>1, <3>1, LocksAreRows DEF RequestInv, SlotInv, SendInv, MarkInv, ReadInv, CountInv,
            DeleteInv, Idle
  <2>2. CASE s # r
    <3>1. req'[s] = req[s] /\ \A w \in Rows : Holds(s, w) <=> Holds(s, w)'
      BY <1>0, <2>2, IdleIsRequest, EndIs
    <3>2. message' \in [Messages -> MessageRow]
      BY <1>0 DEF TypeOK
    <3> QED BY <1>0, <3>1, <3>2, OthersKeep DEF MessageExists
  <2> QED BY <2>1, <2>2
<1> QED BY <1>1, <1>2, <1>3, <1>4, <1>5 DEF IInv

\* What a request that moves to pc is.
LEMMA MovedIs ==
  ASSUME NEW q \in Request, NEW pc \in Statements
  PROVE  /\ [q EXCEPT !.pc = pc] \in Request
         /\ [q EXCEPT !.pc = pc].pc = pc
         /\ [q EXCEPT !.pc = pc].op = q.op
         /\ [q EXCEPT !.pc = pc].user = q.user
         /\ [q EXCEPT !.pc = pc].rows = q.rows
         /\ [q EXCEPT !.pc = pc].known = q.known
  BY DEF Request

\* A request may move to pc if its locks guarantee what pc relies on.
LEMMA CheckInv ==
  ASSUME IInv, NEW r \in Requests, NEW ok, NEW pc \in Statements \ {"publish"}, Check(r, ok, pc),
         ok => RequestInv(r, [req[r] EXCEPT !.pc = pc])
  PROVE  IInv'
<1>1. req[r] \in Request
  BY DEF IInv, TypeOK
<1> QED BY <1>1, MovedIs, GoOnInv, RollbackInv DEF Check, GoTo

LEMMA GoToInv ==
  ASSUME IInv, NEW r \in Requests, NEW pc \in Statements \ {"publish"}, GoTo(r, pc),
         RequestInv(r, [req[r] EXCEPT !.pc = pc])
  PROVE  IInv'
<1>1. req[r] \in Request
  BY DEF IInv, TypeOK
<1> QED BY <1>1, MovedIs, GoOnInv DEF GoTo

-----------------------------------------------------------------------------
(***************************************************************************)
(* Taking a row                                                            *)
(***************************************************************************)

LEMMA TargetsAre ==
  ASSUME TypeOK, NEW r \in Requests, NEW w \in Targets(r)
  PROVE  \/ w = ChatLock /\ chat.exists /\ req[r].pc \in {"write_chat", "delete_chat"}
         \/ \E m \in Messages :
              /\ w = MessageLock(m) /\ MessageExists(m)
              /\ \/ req[r].pc \in {"delete_rows", "cascade"}
                 \/ req[r].pc = "marking" /\ m \in req[r].rows /\ message[m].status = "unread"
<1>1. CASE req[r].pc \in {"write_chat", "delete_chat"}
  BY <1>1 DEF Targets
<1>2. CASE req[r].pc = "marking"
  BY <1>2 DEF Targets, Unread, MessageExists
<1>3. CASE req[r].pc \in {"delete_rows", "cascade"}
  BY <1>3 DEF Targets, TypeOK, Request
<1>4. CASE req[r].pc \notin {"write_chat", "delete_chat", "marking", "delete_rows", "cascade"}
  BY <1>4 DEF Targets
<1> QED BY <1>1, <1>2, <1>3, <1>4

LEMMA LockInv == ASSUME IInv, NEW r \in Requests, LockRow(r) PROVE IInv'
<1>1. PICK w \in Needs(r) : /\ Blockers(r, w) = {}
                            /\ owner' = [owner EXCEPT ![w] = r]
                            /\ UNCHANGED <<chat, message, events, req>>
  BY DEF LockRow
<1>2. w \in Targets(r) /\ ~Holds(r, w)
  BY DEF Needs
<1>3. w \in Rows /\ owner \in [Rows -> Requests \cup {Nobody}]
  BY <1>2, TargetsAre, LocksAreRows DEF IInv, TypeOK
<1>4. owner[w] = Nobody
  BY <1>1, <1>2, <1>3 DEF Blockers, Holds
<1>5. /\ \A s \in Requests, x \in Rows : Holds(s, x) => Holds(s, x)'
      /\ \A s \in Requests, x \in Rows : Holds(s, x)' => Holds(s, x) \/ (s = r /\ x = w)
  BY <1>1, <1>3, <1>4 DEF Holds
<1>6. created' = created /\ counted' = counted /\ UNCHANGED <<chat, message, req>>
  BY <1>1 DEF events
<1>7. TypeOK' /\ TablesInv' /\ CountedApart'
  BY <1>1, <1>3, <1>6, TablesKeep DEF IInv, TypeOK, CountedApart, Counting
<1>8. HeldExist'
  <2>1. \A m \in Messages : w = MessageLock(m) => MessageExists(m)
    BY <1>2, TargetsAre, LocksDiffer DEF IInv
  <2>2. w = ChatLock => chat.exists
    BY <1>2, TargetsAre, LocksDiffer DEF IInv
  <2> QED BY <1>1, <1>3, <1>6, <2>1, <2>2, LocksAreRows DEF IInv, HeldExist, MessageExists
<1>9. ASSUME NEW s \in Requests PROVE RequestInv(s, req[s])'
  <2>1. RequestInv(s, req[s]) /\ req[s] \in Request
    BY DEF IInv, TypeOK
  <2>2. SlotInv(s, req[s])'
    <3>1. req[r].op # "idle" /\ req[r].pc # "publish"
      BY <1>2, TargetsAre DEF IInv, RequestInv, SlotInv
    <3> QED BY <1>5, <1>6, <2>1, <3>1 DEF RequestInv, SlotInv
  <2>3. MarkInv(s, req[s])'
    <3>0. req[r].pc \in {"delete_rows", "cascade"} => req[r].op = "delete"
      BY DEF IInv, RequestInv, SlotInv
    <3>1. ASSUME NEW m \in Messages, w = MessageLock(m), req[r].op \in {"read", "close"}
          PROVE  req[r].pc \notin {"read_chat", "mark"} /\ m \in req[r].rows /\ message[m].status = "unread"
      BY <1>2, <3>0, <3>1, TargetsAre, LocksDiffer DEF IInv
    <3> QED BY <1>5, <1>6, <2>1, <3>1, LocksAreRows DEF RequestInv, MarkInv
  <2>4. SendInv(s, req[s])' /\ ReadInv(s, req[s])' /\ CountInv(req[s])' /\ DeleteInv(s, req[s])'
    BY <1>5, <1>6, <2>1, LocksAreRows DEF RequestInv, SendInv, ReadInv, CountInv, DeleteInv, MessageExists,
       Request
  <2> QED BY <2>2, <2>3, <2>4 DEF RequestInv
<1> QED BY <1>7, <1>8, <1>9 DEF IInv

-----------------------------------------------------------------------------
(***************************************************************************)
(* Statements                                                              *)
(***************************************************************************)

LEMMA ArriveInv == ASSUME IInv, NEW r \in Requests, Arrive(r) PROVE IInv'
<1>0. /\ TypeOK /\ req[r] = Idle
      /\ \A w \in Rows : ~Holds(r, w)
  <2>1. TypeOK /\ req[r] = Idle /\ SlotInv(r, req[r])
    BY DEF IInv, Arrive, RequestInv
  <2>2. Idle.op = "idle"
    BY DEF Idle
  <2> QED BY <2>1, <2>2 DEF SlotInv
<1>1. PICK q \in Request :
        /\ GoOn(r, q) /\ q.op # "idle" /\ q.rows = {}
        /\ \/ q.pc = "read_chat"
           \/ q.op = "settle" /\ q.pc = "write_chat"
        /\ q.op \in {"send", "read"} => q.user \in Users
        /\ q.op = "read" => q.known = UnreadFor(q.user)
  <2> DEFINE Good(q) == /\ q \in Request /\ GoOn(r, q) /\ q.op # "idle" /\ q.rows = {}
                        /\ \/ q.pc = "read_chat"
                           \/ q.op = "settle" /\ q.pc = "write_chat"
                        /\ q.op \in {"send", "read"} => q.user \in Users
                        /\ q.op = "read" => q.known = UnreadFor(q.user)
  <2>1. ASSUME NEW u \in Users, GoOn(r, [Idle EXCEPT !.op = "send", !.pc = "read_chat", !.user = u])
        PROVE  \E q : Good(q)
    <3>1. Good([Idle EXCEPT !.op = "send", !.pc = "read_chat", !.user = u])
      BY <2>1 DEF Idle, Request, Statements, Operations
    <3> QED BY <3>1
  <2>2. ASSUME NEW u \in Users, GoOn(r, [Idle EXCEPT !.op = "read", !.pc = "read_chat", !.user = u,
                                                      !.known = UnreadFor(u)])
        PROVE  \E q : Good(q)
    <3>1. UnreadFor(u) \subseteq Messages
      BY DEF UnreadFor, Unread
    <3>2. Good([Idle EXCEPT !.op = "read", !.pc = "read_chat", !.user = u, !.known = UnreadFor(u)])
      BY <2>2, <3>1 DEF Idle, Request, Statements, Operations
    <3> QED BY <3>2
  <2>3. ASSUME NEW op \in {"close", "delete"}, GoOn(r, [Idle EXCEPT !.op = op, !.pc = "read_chat"])
        PROVE  \E q : Good(q)
    <3>1. Good([Idle EXCEPT !.op = op, !.pc = "read_chat"])
      BY <2>3 DEF Idle, Request, Statements, Operations
    <3> QED BY <3>1
  <2>4. ASSUME GoOn(r, [Idle EXCEPT !.op = "settle", !.pc = "write_chat"]) PROVE \E q : Good(q)
    <3>1. Good([Idle EXCEPT !.op = "settle", !.pc = "write_chat"])
      BY <2>4 DEF Idle, Request, Statements, Operations
    <3> QED BY <3>1
  <2>5. \E q : Good(q)
    <3> HIDE DEF Good
    <3> QED BY <2>1, <2>2, <2>3, <2>4 DEF Arrive
  <2> QED BY <2>5
<1>2. RequestInv(r, q)
  <2>1. \A m \in Messages : ~Holds(r, MessageLock(m))
    BY <1>0, LocksAreRows
  <2>2. SlotInv(r, q) /\ SendInv(r, q) /\ MarkInv(r, q) /\ CountInv(q) /\ DeleteInv(r, q)
    BY <1>1, <2>1 DEF SlotInv, SendInv, MarkInv, CountInv, DeleteInv
  <2>3. ReadInv(r, q)
    BY <1>1 DEF ReadInv, UnreadFor, Unread
  <2> QED BY <2>2, <2>3 DEF RequestInv
<1> QED BY <1>1, <1>2, GoOnInv

\* What a request whose statement has all its locks holds.
LEMMA HasRows ==
  ASSUME TypeOK, NEW r \in Requests, Needs(r) = {}
  PROVE  /\ req[r].pc = "write_chat" /\ req[r].op # "settle" /\ chat.exists => Holds(r, ChatLock)
         /\ req[r].pc = "delete_chat" /\ req[r].op # "settle" /\ chat.exists => Holds(r, ChatLock)
         /\ req[r].pc = "marking" =>
              \A m \in req[r].rows : message[m].status = "unread" => Holds(r, MessageLock(m))
         /\ req[r].pc = "cascade" =>
              \A m \in Messages : MessageExists(m) => Holds(r, MessageLock(m))
<1>1. \A w \in Targets(r) : Holds(r, w)
  BY DEF Needs
<1>2. req[r].pc \in {"write_chat", "delete_chat"} /\ req[r].op # "settle" /\ chat.exists
        => ChatLock \in Targets(r)
  BY DEF Targets
<1>3. req[r].pc = "marking" =>
        \A m \in req[r].rows : message[m].status = "unread" => MessageLock(m) \in Targets(r)
  BY DEF Targets, TypeOK, Request, Unread
<1>4. req[r].pc = "cascade" =>
        \A m \in Messages : MessageExists(m) => MessageLock(m) \in Targets(r)
  BY DEF Targets
<1> QED BY <1>1, <1>2, <1>3, <1>4

\* A request that moves to pc keeps what it had, if pc asks for no more.
LEMMA MoveInv ==
  ASSUME IInv, NEW r \in Requests, NEW pc \in Statements, req[r].op # "idle", req[r].pc # "publish",
         pc \notin {"idle", "publish"},
         pc \in {"delete_rows", "cascade"} => req[r].op = "delete",
         req[r].op = "send" /\ pc \in {"insert", "commit"} => Holds(r, ChatLock),
         pc \in {"read_chat", "mark"} => req[r].pc \in {"read_chat", "mark"},
         req[r].op = "read" /\ pc \in {"marking", "commit"} => req[r].pc = "marking" /\ Needs(r) = {},
         req[r].op = "delete" /\ pc \in {"cascade", "commit"} => Holds(r, ChatLock),
         req[r].op = "delete" /\ pc = "commit" => req[r].pc = "cascade" /\ Needs(r) = {}
  PROVE  RequestInv(r, [req[r] EXCEPT !.pc = pc])
<1> DEFINE q == [req[r] EXCEPT !.pc = pc]
<1>0. TypeOK /\ req[r] \in Request /\ RequestInv(r, req[r])
  BY DEF IInv, TypeOK
<1>1. /\ q \in Request /\ q.pc = pc /\ q.op = req[r].op /\ q.user = req[r].user
      /\ q.rows = req[r].rows /\ q.known = req[r].known
  BY <1>0, MovedIs
<1> HIDE DEF q
<1>2. SlotInv(r, q) /\ SendInv(r, q) /\ CountInv(q)
  BY <1>0, <1>1 DEF RequestInv, SlotInv, SendInv, CountInv
<1>3. MarkInv(r, q)
  BY <1>0, <1>1 DEF RequestInv, MarkInv
<1>4. ReadInv(r, q)
  BY <1>0, <1>1, HasRows DEF RequestInv, ReadInv
<1>5. DeleteInv(r, q)
  BY <1>0, <1>1, HasRows DEF RequestInv, DeleteInv
<1>6. RequestInv(r, q)
  BY <1>2, <1>3, <1>4, <1>5 DEF RequestInv
<1> QED BY <1>6 DEF q

\* The statements that only look or take locks, operation by operation.
LEMMA SendLooks ==
  ASSUME IInv, NEW r \in Requests, SendReadChat(r) \/ SendWriteChat(r) \/ SendInsert(r)
  PROVE  IInv'
<1>0. TypeOK /\ SendInv(r, req[r])
  BY DEF IInv, RequestInv
<1>1. CASE SendReadChat(r)
  <2>1. Done(r, "send", "read_chat") /\ Check(r, chat.exists /\ chat.active, "write_chat")
    BY <1>1 DEF SendReadChat
  <2>2. RequestInv(r, [req[r] EXCEPT !.pc = "write_chat"])
    BY <2>1, MoveInv DEF Done, Statements
  <2> QED BY <2>1, <2>2, CheckInv DEF Statements
<1>2. CASE SendWriteChat(r)
  <2>1. Done(r, "send", "write_chat") /\ Check(r, chat.exists, "insert")
    BY <1>2 DEF SendWriteChat
  <2>2. chat.exists => Holds(r, ChatLock)
    BY <1>0, <2>1, HasRows DEF Done
  <2>3. chat.exists => RequestInv(r, [req[r] EXCEPT !.pc = "insert"])
    BY <2>1, <2>2, MoveInv DEF Done, Statements
  <2> QED BY <2>1, <2>3, CheckInv DEF Statements
<1>3. CASE SendInsert(r)
  <2>1. Done(r, "send", "insert") /\ GoTo(r, "commit")
    BY <1>3 DEF SendInsert
  <2>2. Holds(r, ChatLock)
    BY <1>0, <2>1 DEF SendInv, Done
  <2>3. RequestInv(r, [req[r] EXCEPT !.pc = "commit"])
    BY <2>1, <2>2, MoveInv DEF Done, Statements
  <2> QED BY <2>1, <2>3, GoToInv DEF Statements
<1> QED BY <1>1, <1>2, <1>3

\* A bulk UPDATE that begins matches unread messages and holds none yet.
LEMMA BeginsInv ==
  ASSUME IInv, NEW r \in Requests, NEW M \in SUBSET Unread, req[r].pc = "mark",
         req[r].op \in {"read", "close"}, req[r].op = "read" => M = UnreadFor(req[r].user),
         GoOn(r, [req[r] EXCEPT !.pc = "marking", !.rows = M])
  PROVE  IInv'
<1> DEFINE q == [req[r] EXCEPT !.pc = "marking", !.rows = M]
<1>0. TypeOK /\ req[r] \in Request /\ RequestInv(r, req[r]) /\ M \subseteq Messages
  BY DEF IInv, TypeOK, Unread
<1>1. /\ q \in Request /\ q.pc = "marking" /\ q.op = req[r].op /\ q.user = req[r].user
      /\ q.rows = M /\ q.known = req[r].known
  BY <1>0 DEF Request, Statements
<1>2. GoOn(r, q)
  OBVIOUS
<1> HIDE DEF q
<1>3. SlotInv(r, q) /\ SendInv(r, q) /\ CountInv(q) /\ DeleteInv(r, q)
  BY <1>0, <1>1 DEF RequestInv, SlotInv, SendInv, CountInv, DeleteInv
<1>4. MarkInv(r, q)
  BY <1>0, <1>1 DEF RequestInv, MarkInv
<1>5. ReadInv(r, q)
  BY <1>0, <1>1 DEF RequestInv, ReadInv, UnreadFor, Unread, Request
<1>6. RequestInv(r, q) /\ q.pc # "publish"
  BY <1>1, <1>3, <1>4, <1>5 DEF RequestInv
<1> QED BY <1>1, <1>2, <1>6, GoOnInv

LEMMA ReadLooks ==
  ASSUME IInv, NEW r \in Requests, ReadReadChat(r) \/ ReadBegins(r) \/ ReadEnds(r)
  PROVE  IInv'
<1>1. CASE ReadReadChat(r)
  <2>1. Done(r, "read", "read_chat") /\ Check(r, chat.exists, "mark")
    BY <1>1 DEF ReadReadChat
  <2>2. RequestInv(r, [req[r] EXCEPT !.pc = "mark"])
    BY <2>1, MoveInv DEF Done, Statements
  <2> QED BY <2>1, <2>2, CheckInv DEF Statements
<1>2. CASE ReadBegins(r)
  <2>1. UnreadFor(req[r].user) \in SUBSET Unread
    BY DEF UnreadFor
  <2> QED BY <1>2, <2>1, BeginsInv DEF ReadBegins, Done
<1>3. CASE ReadEnds(r)
  <2>1. Done(r, "read", "marking") /\ GoTo(r, "commit")
    BY <1>3 DEF ReadEnds
  <2>2. RequestInv(r, [req[r] EXCEPT !.pc = "commit"])
    BY <2>1, MoveInv DEF Done, Statements
  <2> QED BY <2>1, <2>2, GoToInv DEF Statements
<1> QED BY <1>1, <1>2, <1>3

LEMMA CloseLooks ==
  ASSUME IInv, NEW r \in Requests,
         CloseReadChat(r) \/ CloseBegins(r) \/ CloseEnds(r) \/ CloseWriteChat(r)
  PROVE  IInv'
<1>1. CASE CloseReadChat(r)
  <2>1. Check(r, chat.exists /\ chat.active, "mark") \/ Rollback(r)
    BY <1>1 DEF CloseReadChat
  <2>2. RequestInv(r, [req[r] EXCEPT !.pc = "mark"])
    BY <1>1, MoveInv DEF CloseReadChat, Done, Statements
  <2> QED BY <2>1, <2>2, CheckInv, RollbackInv DEF Statements
<1>2. CASE CloseBegins(r)
  BY <1>2, BeginsInv DEF CloseBegins, Done
<1>3. CASE CloseEnds(r)
  <2>1. Done(r, "close", "marking") /\ GoTo(r, "write_chat")
    BY <1>3 DEF CloseEnds
  <2>2. RequestInv(r, [req[r] EXCEPT !.pc = "write_chat"])
    BY <2>1, MoveInv DEF Done, Statements
  <2> QED BY <2>1, <2>2, GoToInv DEF Statements
<1>4. CASE CloseWriteChat(r)
  <2>1. Done(r, "close", "write_chat") /\ Check(r, chat.exists, "commit")
    BY <1>4 DEF CloseWriteChat
  <2>2. RequestInv(r, [req[r] EXCEPT !.pc = "commit"])
    BY <2>1, MoveInv DEF Done, Statements
  <2> QED BY <2>1, <2>2, CheckInv DEF Statements
<1> QED BY <1>1, <1>2, <1>3, <1>4

LEMMA SettleLooks == ASSUME IInv, NEW r \in Requests, SettleWriteChat(r) PROVE IInv'
<1>1. Done(r, "settle", "write_chat") /\ GoTo(r, "commit")
  BY DEF SettleWriteChat
<1>2. RequestInv(r, [req[r] EXCEPT !.pc = "commit"])
  BY <1>1, MoveInv DEF Done, Statements
<1> QED BY <1>1, <1>2, GoToInv DEF Statements

LEMMA DeleteLooks ==
  ASSUME IInv, NEW r \in Requests,
         DeleteReadChat(r) \/ DeleteRows(r) \/ DeleteChat(r) \/ DeleteCascade(r)
  PROVE  IInv'
<1>0. TypeOK /\ req[r] \in Request /\ RequestInv(r, req[r])
  BY DEF IInv, TypeOK
<1>1. CASE DeleteReadChat(r)
  <2> DEFINE M == {m \in Messages : MessageExists(m)}
             q == [req[r] EXCEPT !.pc = "delete_rows", !.rows = M]
  <2>1. req[r].op = "delete" /\ req[r].pc = "read_chat" /\ (GoOn(r, q) \/ Rollback(r))
    BY <1>1 DEF DeleteReadChat, Done
  <2>2. q \in Request /\ q.pc = "delete_rows" /\ q.op = "delete"
    BY <1>0, <2>1 DEF Request, Statements
  <2> HIDE DEF q
  <2>3. RequestInv(r, q) /\ q.pc # "publish"
    BY <2>2 DEF RequestInv, SlotInv, SendInv, MarkInv, ReadInv, CountInv, DeleteInv
  <2> QED BY <2>1, <2>2, <2>3, GoOnInv, RollbackInv
<1>2. CASE DeleteRows(r)
  <2>1. Done(r, "delete", "delete_rows") /\ GoTo(r, "delete_chat")
    BY <1>2 DEF DeleteRows
  <2>2. RequestInv(r, [req[r] EXCEPT !.pc = "delete_chat"])
    BY <2>1, MoveInv DEF Done, Statements
  <2> QED BY <2>1, <2>2, GoToInv DEF Statements
<1>3. CASE DeleteChat(r)
  <2>1. Done(r, "delete", "delete_chat") /\ Check(r, chat.exists, "cascade")
    BY <1>3 DEF DeleteChat
  <2>2. chat.exists => Holds(r, ChatLock)
    BY <1>0, <2>1, HasRows DEF Done
  <2>3. chat.exists => RequestInv(r, [req[r] EXCEPT !.pc = "cascade"])
    BY <2>1, <2>2, MoveInv DEF Done, Statements
  <2> QED BY <2>1, <2>3, CheckInv DEF Statements
<1>4. CASE DeleteCascade(r)
  <2>1. Done(r, "delete", "cascade") /\ GoTo(r, "commit")
    BY <1>4 DEF DeleteCascade
  <2>2. Holds(r, ChatLock)
    BY <1>0, <2>1 DEF RequestInv, DeleteInv, Done
  <2>3. RequestInv(r, [req[r] EXCEPT !.pc = "commit"])
    BY <2>1, <2>2, MoveInv DEF Done, Statements
  <2> QED BY <2>1, <2>3, GoToInv DEF Statements
<1> QED BY <1>1, <1>2, <1>3, <1>4

-----------------------------------------------------------------------------
(***************************************************************************)
(* Commits and publications                                                *)
(***************************************************************************)

\* Nobody is idle or done who holds a row.
LEMMA FreshInv ==
  ASSUME NEW r \in Requests, req'[r] = Idle, \A w \in Rows : ~Holds(r, w)'
  PROVE  RequestInv(r, req[r])'
  BY LocksAreRows DEF RequestInv, SlotInv, SendInv, MarkInv, ReadInv, CountInv, DeleteInv, Idle

\* A message a transaction changes is one it holds, or one that it sends holding the chat.
Writes(r) == \A m \in Messages :
  message'[m] # message[m] =>
    \/ message[m].status = "unborn" /\ Holds(r, ChatLock)
    \/ /\ Holds(r, MessageLock(m))
       /\ message'[m].status \in {"read", "deleted"}
       /\ message'[m].by = message[m].by

\* What a step that ends the transaction of r, or publishes for it, must show.
LEMMA CommitInv ==
  ASSUME IInv, NEW r \in Requests, NEW q \in Request, EndAs(r, q), Writes(r),
         chat' \in ChatRow, message' \in [Messages -> MessageRow],
         created' \subseteq Messages, counted' \in [Messages -> 0 .. MaxCount], TablesInv',
         chat.exists => chat'.exists \/ Holds(r, ChatLock),
         \A s \in Requests \ {r} : Counting(req[s]) =>
            \A m \in req[s].rows : counted'[m] = counted[m] /\ (Counting(q) => m \notin q.rows),
         RequestInv(r, req[r])'
  PROVE  IInv'
<1>0. TypeOK /\ HeldExist /\ CountedApart
  BY DEF IInv
<1>1. TypeOK'
  BY <1>0, EndIs DEF TypeOK
<1>2. HeldExist'
  <2>1. ASSUME NEW m \in Messages, owner'[MessageLock(m)] # Nobody PROVE MessageExists(m)'
    <3>1. owner[MessageLock(m)] # r /\ owner[MessageLock(m)] # Nobody
      BY <1>0, <2>1, EndIs, LocksAreRows
    <3>2. MessageExists(m)
      BY <1>0, <3>1 DEF HeldExist
    <3> QED BY <3>1, <3>2 DEF Writes, Holds, MessageExists
  <2>2. ASSUME owner'[ChatLock] # Nobody PROVE chat'.exists
    <3>1. owner[ChatLock] # r /\ owner[ChatLock] # Nobody
      BY <1>0, <2>2, EndIs, LocksAreRows
    <3> QED BY <1>0, <3>1 DEF HeldExist, Holds
  <2> QED BY <2>1, <2>2 DEF HeldExist
<1>3. CountedApart'
  <2> SUFFICES ASSUME NEW s \in Requests, NEW t \in Requests, s # t,
                      Counting(req'[s]), Counting(req'[t])
               PROVE  req'[s].rows \cap req'[t].rows = {}
    BY DEF CountedApart, Counting
  <2>1. CASE s # r /\ t # r
    BY <1>0, <2>1, EndIs DEF CountedApart
  <2>2. CASE s = r
    BY <1>0, <2>2, EndIs
  <2>3. CASE t = r
    BY <1>0, <2>3, EndIs
  <2> QED BY <2>1, <2>2, <2>3
<1>4. ASSUME NEW s \in Requests \ {r} PROVE RequestInv(s, req[s])'
  <2>1. req'[s] = req[s] /\ \A w \in Rows : Holds(s, w) <=> Holds(s, w)'
    BY <1>0, <1>4, EndIs
  <2>2. ASSUME NEW m \in Messages, message[m].status # "unborn"
        PROVE  /\ message'[m].status # "unborn"
               /\ message'[m].by = message[m].by
               /\ message'[m].status = "unread" => message[m].status = "unread"
               /\ Holds(s, MessageLock(m)) => message'[m] = message[m]
    BY <2>2 DEF Writes, Holds
  <2>3. ASSUME NEW m \in Messages, message[m].status = "unborn", message'[m].status # "unborn"
        PROVE  ~Holds(s, ChatLock)
    <3>1. ~MessageExists(m)
      BY <2>3 DEF MessageExists
    <3>2. ~Holds(r, MessageLock(m))
      BY <1>0, <3>1 DEF HeldExist, Holds
    <3> QED BY <2>3, <3>2 DEF Writes, Holds
  <2>4. ASSUME NEW m \in Messages, MessageExists(m)'
        PROVE  MessageExists(m) \/ message[m].status = "unborn"
    <3>1. CASE message'[m] = message[m]
      BY <2>4, <3>1 DEF MessageExists
    <3>2. CASE Holds(r, MessageLock(m))
      BY <1>0, <3>2 DEF HeldExist, Holds
    <3> QED BY <3>1, <3>2 DEF Writes
  <2>5. Counting(req[s]) => \A m \in req[s].rows : counted'[m] = counted[m]
    BY <1>4
  <2> QED BY <2>1, <2>2, <2>3, <2>4, <2>5, OthersKeep
<1> QED BY <1>0, <1>1, <1>2, <1>3, <1>4 DEF IInv

LEMMA SendCommitInv == ASSUME IInv, NEW r \in Requests, SendCommit(r) PROVE IInv'
<1>0. /\ TypeOK /\ TablesInv /\ HeldExist /\ RequestInv(r, req[r]) /\ req[r] \in Request
      /\ req[r].op = "send" /\ req[r].pc = "commit"
  BY DEF IInv, TypeOK, SendCommit, Done
<1>1. PICK n \in Messages :
        /\ message[n].status = "unborn"
        /\ message' = [message EXCEPT ![n] = [status |-> "unread", by |-> req[r].user]]
        /\ EndAs(r, [req[r] EXCEPT !.pc = "publish", !.rows = {n}])
  BY DEF SendCommit, NextMessage, Unborn
<1>2. chat' = chat /\ created' = created /\ counted' = counted
  BY DEF SendCommit, events
<1> DEFINE q == [req[r] EXCEPT !.pc = "publish", !.rows = {n}]
<1>3. q \in Request /\ q.op = "send" /\ q.pc = "publish" /\ q.rows = {n} /\ q.user = req[r].user
  BY <1>0 DEF Request, Statements
<1>4. EndAs(r, q)
  BY <1>1
<1> HIDE DEF q
<1>5. Holds(r, ChatLock) /\ chat.exists /\ req[r].user \in Users
  BY <1>0, NobodyAssumption DEF RequestInv, SendInv, SlotInv, HeldExist, Holds
<1>6. Writes(r) /\ message' \in [Messages -> MessageRow]
  BY <1>0, <1>1, <1>5 DEF Writes, TypeOK, MessageRow
<1>7. TablesInv'
  <2>1. \A m \in Messages : message[m].status # "unborn" => message'[m] = message[m]
    BY <1>0, <1>1 DEF TypeOK
  <2>2. \A m \in Messages : message'[m].status # "unborn" \/ m \notin created
    BY <1>0, <2>1 DEF TablesInv, EventsAreTrue
  <2>3. \A m \in Messages : counted[m] > 0 => message'[m].status \in {"read", "deleted"}
    BY <1>0, <2>1 DEF TablesInv, EventsAreTrue
  <2> QED BY <1>0, <1>2, <1>5, <2>2, <2>3 DEF TablesInv, EventsAreTrue, CountedOnce, NoOrphanMessage
<1>8. RequestInv(r, req[r])'
  <2>1. req'[r] = q /\ \A w \in Rows : ~Holds(r, w)'
    BY <1>0, <1>3, <1>4, EndIs
  <2>2. message'[n].status # "unborn"
    BY <1>0, <1>1 DEF TypeOK
  <2>3. SlotInv(r, req[r])' /\ SendInv(r, req[r])'
    BY <1>3, <1>5, <2>1, <2>2 DEF SlotInv, SendInv
  <2>4. MarkInv(r, req[r])' /\ ReadInv(r, req[r])' /\ CountInv(req[r])' /\ DeleteInv(r, req[r])'
    BY <1>3, <2>1 DEF MarkInv, ReadInv, CountInv, DeleteInv
  <2> QED BY <2>3, <2>4 DEF RequestInv
<1>9. ~Counting(q)
  BY <1>3 DEF Counting
<1> QED BY <1>0, <1>2, <1>3, <1>4, <1>5, <1>6, <1>7, <1>8, <1>9, CommitInv DEF TypeOK

LEMMA SendPublishInv == ASSUME IInv, NEW r \in Requests, SendPublish(r) PROVE IInv'
<1>0. /\ TypeOK /\ TablesInv /\ RequestInv(r, req[r]) /\ req[r] \in Request
      /\ req[r].op = "send" /\ req[r].pc = "publish"
      /\ EndAs(r, Idle) /\ UNCHANGED <<chat, message, counted>> /\ created' = created \cup req[r].rows
  BY DEF IInv, TypeOK, SendPublish, Done
<1>1. created' \subseteq Messages
  BY <1>0 DEF TypeOK, Request
<1>2. TablesInv'
  BY <1>0 DEF TablesInv, EventsAreTrue, CountedOnce, NoOrphanMessage, MessageExists, RequestInv, SendInv
<1>3. RequestInv(r, req[r])'
  BY <1>0, IdleIsRequest, EndIs, FreshInv
<1>4. Writes(r) /\ ~Counting(Idle)
  BY <1>0 DEF Writes, Counting, Idle
<1> QED BY <1>0, <1>1, <1>2, <1>3, <1>4, IdleIsRequest, CommitInv DEF TypeOK

\* What the commit of a bulk UPDATE does to the messages.
LEMMA MarkHeldIs ==
  ASSUME IInv, NEW r \in Requests, req[r].op \in {"read", "close"},
         message' = [m \in Messages |-> MarkHeld(r, m)]
  PROVE  /\ \A m \in Marked(r) : /\ m \in Messages /\ Holds(r, MessageLock(m))
                                 /\ message[m].status = "unread" /\ message'[m].status = "read"
                                 /\ message'[m].by = message[m].by
         /\ \A m \in Messages \ Marked(r) : message'[m] = message[m]
         /\ \A m \in Messages : Holds(r, MessageLock(m)) <=> m \in Marked(r)
         /\ message' \in [Messages -> MessageRow]
         /\ Writes(r)
         /\ \A m \in Messages : MessageExists(m)' <=> MessageExists(m)
         /\ EventsAreTrue /\ UNCHANGED events => EventsAreTrue'
<1>0. TypeOK /\ MarkInv(r, req[r]) /\ req[r] \in Request
  BY DEF IInv, TypeOK, RequestInv
<1>1. \A m \in Messages : /\ message'[m] = MarkHeld(r, m)
                         /\ message[m] \in MessageRow
  BY <1>0 DEF TypeOK
<1>2. \A m \in Messages : Holds(r, MessageLock(m)) <=> m \in Marked(r)
  BY <1>0 DEF MarkInv, Marked
<1>3. \A m \in Marked(r) : m \in Messages /\ message[m].status = "unread"
  BY <1>0 DEF MarkInv, Marked, Request
<1>4. \A m \in Marked(r) : /\ message'[m].status = "read" /\ message'[m].by = message[m].by
                          /\ message'[m] \in MessageRow
  BY <1>1, <1>3 DEF MarkHeld, MessageRow
<1>5. \A m \in Messages \ Marked(r) : message'[m] = message[m]
  BY <1>1 DEF MarkHeld
<1>6. message' \in [Messages -> MessageRow]
  BY <1>1, <1>4, <1>5
<1>7. Writes(r)
  BY <1>2, <1>4, <1>5 DEF Writes
<1>8. \A m \in Messages : MessageExists(m)' <=> MessageExists(m)
  BY <1>3, <1>4, <1>5 DEF MessageExists
<1>9. EventsAreTrue /\ UNCHANGED events => EventsAreTrue'
  BY <1>3, <1>4, <1>5 DEF EventsAreTrue, events
<1> QED BY <1>2, <1>3, <1>4, <1>5, <1>6, <1>7, <1>8, <1>9

LEMMA ReadCommitInv == ASSUME IInv, NEW r \in Requests, ReadCommit(r) PROVE IInv'
<1> DEFINE q == [req[r] EXCEPT !.pc = "publish", !.rows = Marked(r)]
<1>0. /\ TypeOK /\ TablesInv /\ RequestInv(r, req[r]) /\ req[r] \in Request
      /\ req[r].op = "read" /\ req[r].pc = "commit"
      /\ message' = [m \in Messages |-> MarkHeld(r, m)]
      /\ EndAs(r, q) /\ UNCHANGED <<chat, events>>
      /\ chat' = chat /\ created' = created /\ counted' = counted
  BY DEF IInv, TypeOK, ReadCommit, Done, events
<1>1. /\ q \in Request /\ q.op = "read" /\ q.pc = "publish" /\ q.rows = Marked(r)
      /\ q.user = req[r].user /\ q.known = req[r].known
  BY <1>0 DEF Request, Statements, Marked
<1> HIDE DEF q
<1>2. TablesInv'
  BY <1>0, MarkHeldIs DEF TablesInv, CountedOnce, NoOrphanMessage
<1>3. \A m \in Marked(r) : counted[m] = 0
  <2>1. \A m \in Messages : counted[m] \in Nat
    BY <1>0 DEF TypeOK, MaxCount
  <2> QED BY <1>0, <2>1, MarkHeldIs DEF TablesInv, EventsAreTrue
<1>4. RequestInv(r, req[r])'
  <2>1. req'[r] = q /\ \A w \in Rows : ~Holds(r, w)'
    BY <1>0, <1>1, EndIs
  <2>2. CountInv(req[r])'
    BY <1>0, <1>1, <1>3, <2>1, MarkHeldIs DEF CountInv
  <2>3. ReadInv(r, req[r])'
    <3>1. q.known \subseteq Messages /\ \A m \in q.known : message[m].status # "unborn" /\ message[m].by # q.user
      BY <1>0, <1>1 DEF RequestInv, ReadInv, Request
    <3>2. \A m \in q.known : message'[m].status # "unborn" /\ message'[m].by # q.user
      BY <1>0, <3>1, MarkHeldIs
    <3> QED BY <1>1, <2>1, <3>2 DEF ReadInv
  <2>4. SlotInv(r, req[r])' /\ SendInv(r, req[r])' /\ MarkInv(r, req[r])' /\ DeleteInv(r, req[r])'
    BY <1>0, <1>1, <2>1, LocksAreRows DEF RequestInv, SlotInv, SendInv, MarkInv, DeleteInv
  <2> QED BY <2>2, <2>3, <2>4 DEF RequestInv
<1>5. ASSUME NEW s \in Requests \ {r}, Counting(req[s]), NEW m \in req[s].rows
      PROVE  counted'[m] = counted[m] /\ m \notin q.rows
  <2>1. message[m].status \in {"read", "deleted"}
    BY <1>5 DEF IInv, RequestInv, CountInv, Counting
  <2> QED BY <1>0, <1>1, <2>1, MarkHeldIs
<1> QED BY <1>0, <1>1, <1>2, <1>4, <1>5, MarkHeldIs, CommitInv DEF TypeOK

LEMMA ReadPublishInv == ASSUME IInv, NEW r \in Requests, ReadPublish(r) PROVE IInv'
<1>0. /\ TypeOK /\ TablesInv /\ CountedApart /\ RequestInv(r, req[r]) /\ req[r] \in Request
      /\ req[r].op = "read" /\ req[r].pc = "publish"
      /\ counted' = [m \in Messages |-> IF m \in req[r].rows /\ counted[m] < MaxCount
                                       THEN counted[m] + 1 ELSE counted[m]]
      /\ EndAs(r, Idle) /\ UNCHANGED <<chat, message, created>>
  BY DEF IInv, TypeOK, ReadPublish, Done
<1>1. \A m \in req[r].rows : message[m].status \in {"read", "deleted"} /\ counted[m] = 0
  BY <1>0 DEF RequestInv, CountInv
<1>2. counted' \in [Messages -> 0 .. MaxCount]
  BY <1>0 DEF TypeOK, MaxCount
<1>3. TablesInv'
  <2>1. \A m \in Messages : counted'[m] = IF m \in req[r].rows THEN 1 ELSE counted[m]
    BY <1>0, <1>1 DEF MaxCount
  <2>2. EventsAreTrue'
    BY <1>0, <1>1, <2>1 DEF TablesInv, EventsAreTrue
  <2>3. CountedOnce'
    BY <1>0, <2>1 DEF TablesInv, CountedOnce
  <2> QED BY <1>0, <2>2, <2>3 DEF TablesInv, NoOrphanMessage, MessageExists
<1>4. RequestInv(r, req[r])'
  BY <1>0, IdleIsRequest, EndIs, FreshInv
<1>5. Writes(r) /\ ~Counting(Idle)
  BY <1>0 DEF Writes, Counting, Idle
<1>6. ASSUME NEW s \in Requests \ {r}, Counting(req[s]), NEW m \in req[s].rows
      PROVE  counted'[m] = counted[m]
  <2>1. m \notin req[r].rows
    BY <1>0, <1>6 DEF CountedApart, Counting
  <2>2. m \in Messages
    BY <1>0, <1>6 DEF TypeOK, Request
  <2> QED BY <1>0, <2>1, <2>2
<1> QED BY <1>0, <1>2, <1>3, <1>4, <1>5, <1>6, IdleIsRequest, CommitInv DEF TypeOK

LEMMA CloseCommitInv == ASSUME IInv, NEW r \in Requests, CloseCommit(r) PROVE IInv'
<1>0. /\ TypeOK /\ TablesInv /\ req[r].op = "close"
      /\ message' = [m \in Messages |-> MarkHeld(r, m)]
      /\ chat' = [chat EXCEPT !.active = FALSE]
      /\ EndAs(r, Idle) /\ UNCHANGED events
      /\ created' = created /\ counted' = counted
  BY DEF IInv, CloseCommit, Done, events
<1>1. chat' \in ChatRow /\ chat'.exists = chat.exists
  BY <1>0 DEF TypeOK, ChatRow
<1>2. TablesInv'
  BY <1>0, <1>1, MarkHeldIs DEF TablesInv, CountedOnce, NoOrphanMessage
<1>3. RequestInv(r, req[r])' /\ ~Counting(Idle)
  <2>1. ~Counting(Idle)
    BY DEF Counting, Idle
  <2> QED BY <1>0, <2>1, IdleIsRequest, EndIs, FreshInv
<1> QED BY <1>0, <1>1, <1>2, <1>3, MarkHeldIs, IdleIsRequest, CommitInv DEF TypeOK

LEMMA SettleCommitInv == ASSUME IInv, NEW r \in Requests, SettleCommit(r) PROVE IInv'
<1>0. /\ TypeOK /\ TablesInv
      /\ chat' = IF Holds(r, ChatLock) THEN [chat EXCEPT !.active = FALSE] ELSE chat
      /\ EndAs(r, Idle) /\ message' = message
      /\ created' = created /\ counted' = counted
  BY DEF IInv, SettleCommit, events
<1>1. chat' \in ChatRow /\ chat'.exists = chat.exists
  BY <1>0 DEF TypeOK, ChatRow
<1>2. TablesInv'
  BY <1>0, <1>1 DEF TablesInv, EventsAreTrue, CountedOnce, NoOrphanMessage, MessageExists
<1>3. RequestInv(r, req[r])' /\ Writes(r) /\ ~Counting(Idle)
  BY <1>0, IdleIsRequest, EndIs, FreshInv DEF Writes, Counting, Idle
<1> QED BY <1>0, <1>1, <1>2, <1>3, IdleIsRequest, CommitInv DEF TypeOK

LEMMA DeleteCommitInv == ASSUME IInv, NEW r \in Requests, DeleteCommit(r) PROVE IInv'
<1>0. /\ TypeOK /\ TablesInv /\ HeldExist /\ DeleteInv(r, req[r])
      /\ req[r].op = "delete" /\ req[r].pc = "commit"
      /\ message' = [m \in Messages |-> DeleteHeld(r, m)]
      /\ chat' = [exists |-> FALSE, active |-> FALSE]
      /\ EndAs(r, Idle)
      /\ created' = created /\ counted' = counted
  BY DEF IInv, DeleteCommit, Done, RequestInv, events
<1>1. /\ Holds(r, ChatLock)
      /\ \A m \in Messages : MessageExists(m) <=> Holds(r, MessageLock(m))
  BY <1>0, NobodyAssumption DEF DeleteInv, HeldExist, Holds
<1>2. \A m \in Messages :
        /\ message'[m] \in MessageRow /\ message'[m].by = message[m].by
        /\ message'[m].status = IF MessageExists(m) THEN "deleted" ELSE message[m].status
        /\ ~MessageExists(m) => message'[m] = message[m]
  BY <1>0, <1>1 DEF DeleteHeld, TypeOK, MessageRow
<1>3. message' \in [Messages -> MessageRow] /\ chat' \in ChatRow
  BY <1>0, <1>2 DEF ChatRow
<1>4. Writes(r)
  BY <1>1, <1>2 DEF Writes
<1>5. TablesInv'
  BY <1>0, <1>2 DEF TablesInv, EventsAreTrue, CountedOnce, NoOrphanMessage, MessageExists
<1>6. RequestInv(r, req[r])' /\ ~Counting(Idle)
  <2>1. ~Counting(Idle)
    BY DEF Counting, Idle
  <2> QED BY <1>0, <2>1, IdleIsRequest, EndIs, FreshInv
<1> QED BY <1>0, <1>1, <1>3, <1>4, <1>5, <1>6, IdleIsRequest, CommitInv DEF TypeOK

-----------------------------------------------------------------------------
(***************************************************************************)
(* The theorems                                                            *)
(***************************************************************************)

LEMMA InitInv == Init => IInv
<1> SUFFICES ASSUME Init PROVE IInv
  OBVIOUS
<1>1. 1 \in Messages
  BY DEF Messages
<1>2. TypeOK
  BY <1>1, IdleIsRequest DEF Init, TypeOK, ChatRow, MessageRow, MaxCount, Users
<1>3. TablesInv
  BY DEF Init, TablesInv, EventsAreTrue, CountedOnce, NoOrphanMessage
<1>4. \A r \in Requests, w \in Rows : ~Holds(r, w)
  BY DEF Init, Holds
<1>5. HeldExist
  BY LocksAreRows DEF Init, HeldExist
<1>6. CountedApart
  BY DEF Init, CountedApart, Counting, Idle
<1>7. \A r \in Requests : RequestInv(r, req[r])
  BY <1>4, IdleInv DEF Init
<1> QED BY <1>2, <1>3, <1>5, <1>6, <1>7 DEF IInv

LEMMA HandleInv == ASSUME IInv, NEW r \in Requests, Handle(r) PROVE IInv'
<1>1. CASE Send(r)
  BY <1>1, SendLooks, SendCommitInv, SendPublishInv DEF Send
<1>2. CASE Read(r)
  BY <1>2, ReadLooks, ReadCommitInv, ReadPublishInv DEF Read
<1>3. CASE Close(r)
  BY <1>3, CloseLooks, CloseCommitInv DEF Close
<1>4. CASE Settle(r)
  BY <1>4, SettleLooks, SettleCommitInv DEF Settle
<1>5. CASE Delete(r)
  BY <1>5, DeleteLooks, DeleteCommitInv DEF Delete
<1> QED BY <1>1, <1>2, <1>3, <1>4, <1>5 DEF Handle

LEMMA StepInv == ASSUME IInv, [Next]_vars PROVE IInv'
<1>1. CASE UNCHANGED vars
  <2>1. UNCHANGED <<chat, message, created, counted, req, owner>>
    BY <1>1 DEF vars, events
  <2> QED BY <2>1 DEF IInv, TypeOK, TablesInv, EventsAreTrue, CountedOnce, NoOrphanMessage, HeldExist,
          CountedApart, Counting, MessageExists, RequestInv, SlotInv, SendInv, MarkInv, ReadInv,
          CountInv, DeleteInv, Holds
<1>2. ASSUME NEW r \in Requests, Arrive(r) \/ Progress(r) \/ Crash(r) PROVE IInv'
  <2>1. CASE DeadlockAbort(r) \/ Crash(r)
    BY <2>1, RollbackInv DEF DeadlockAbort, Crash
  <2> QED BY <1>2, <2>1, ArriveInv, LockInv, HandleInv DEF Progress
<1> QED BY <1>1, <1>2 DEF Next

\* IInv holds in every state of the chat.
THEOREM Invariance == Spec => []IInv
  BY InitInv, StepInv, PTL DEF Spec

\* Every variable keeps its type.
THEOREM TypeCorrect == Spec => []TypeOK
<1>1. IInv => TypeOK
  BY DEF IInv
<1> QED BY <1>1, Invariance, PTL

\* Clients are told only of messages, and of read marks, that are in the database:
\* send_message and mark_as_read commit before they publish.
THEOREM EventsTellTheTruth == Spec => []EventsAreTrue
<1>1. IInv => EventsAreTrue
  BY DEF IInv, TablesInv
<1> QED BY <1>1, Invariance, PTL

\* However many reads of a chat overlap, mark_messages_as_read reports a message as
\* marked to at most one of them.
THEOREM MessagesAreCountedOnce == Spec => []CountedOnce
<1>1. IInv => CountedOnce
  BY DEF IInv, TablesInv
<1> QED BY <1>1, Invariance, PTL

\* delete_order leaves no message of a chat it deletes, sent meanwhile or not.
THEOREM NoMessageIsOrphaned == Spec => []NoOrphanMessage
<1>1. IInv => NoOrphanMessage
  BY DEF IInv, TablesInv
<1> QED BY <1>1, Invariance, PTL

-----------------------------------------------------------------------------
(***************************************************************************)
(* What a step may do                                                      *)
(***************************************************************************)

\* A request that is not the one that steps is as it was.
LEMMA OnlyOneMoves ==
  ASSUME IInv, NEW r \in Requests, Arrive(r) \/ Progress(r) \/ Crash(r)
  PROVE  \A s \in Requests \ {r} : req'[s] = req[s]
<1>1. (\E q : req' = [req EXCEPT ![r] = q]) \/ req' = req
  <2>1. CASE Arrive(r)
    BY <2>1 DEF Arrive, GoOn
  <2>2. CASE LockRow(r)
    BY <2>2 DEF LockRow
  <2>3. CASE DeadlockAbort(r) \/ Crash(r)
    BY <2>3 DEF DeadlockAbort, Crash, Rollback, EndAs
  <2>4. CASE Send(r)
    BY <2>4 DEF Send, SendReadChat, SendWriteChat, SendInsert, SendCommit, SendPublish, Check, GoTo,
       GoOn, Rollback, EndAs
  <2>5. CASE Read(r)
    BY <2>5 DEF Read, ReadReadChat, ReadBegins, ReadEnds, ReadCommit, ReadPublish, Check, GoTo,
       GoOn, Rollback, EndAs
  <2>6. CASE Close(r)
    BY <2>6 DEF Close, CloseReadChat, CloseBegins, CloseEnds, CloseWriteChat, CloseCommit, Check,
       GoTo, GoOn, Rollback, EndAs
  <2>7. CASE Settle(r)
    BY <2>7 DEF Settle, SettleWriteChat, SettleCommit, GoTo, GoOn, EndAs
  <2>8. CASE Delete(r)
    BY <2>8 DEF Delete, DeleteReadChat, DeleteRows, DeleteChat, DeleteCascade, DeleteCommit, Check,
       GoTo, GoOn, Rollback, EndAs
  <2> QED BY <2>1, <2>2, <2>3, <2>4, <2>5, <2>6, <2>7, <2>8 DEF Progress, Handle
<1> QED BY <1>1 DEF IInv, TypeOK

\* The steps that write messages are the commits.
LEMMA WritersAre ==
  ASSUME IInv, NEW r \in Requests, Arrive(r) \/ Progress(r) \/ Crash(r)
  PROVE  message' = message \/ SendCommit(r) \/ ReadCommit(r) \/ CloseCommit(r) \/ DeleteCommit(r)
<1>1. CASE Arrive(r)
  BY <1>1 DEF Arrive, GoOn
<1>2. CASE LockRow(r)
  BY <1>2 DEF LockRow
<1>3. CASE DeadlockAbort(r) \/ Crash(r)
  BY <1>3 DEF DeadlockAbort, Crash, Rollback
<1>4. CASE Send(r)
  BY <1>4 DEF Send, SendReadChat, SendWriteChat, SendInsert, SendPublish, Check, GoTo, GoOn, Rollback
<1>5. CASE Read(r)
  BY <1>5 DEF Read, ReadReadChat, ReadBegins, ReadEnds, ReadPublish, Check, GoTo, GoOn, Rollback
<1>6. CASE Close(r)
  BY <1>6 DEF Close, CloseReadChat, CloseBegins, CloseEnds, CloseWriteChat, Check, GoTo, GoOn, Rollback
<1>7. CASE Settle(r)
  BY <1>7 DEF Settle, SettleWriteChat, SettleCommit, GoTo, GoOn
<1>8. CASE Delete(r)
  BY <1>8 DEF Delete, DeleteReadChat, DeleteRows, DeleteChat, DeleteCascade, Check, GoTo, GoOn, Rollback
<1> QED BY <1>1, <1>2, <1>3, <1>4, <1>5, <1>6, <1>7, <1>8 DEF Progress, Handle

\* A request that goes from its commit to its publication has committed.
LEMMA CommitIs ==
  ASSUME IInv, NEW r \in Requests, Arrive(r) \/ Progress(r) \/ Crash(r),
         req[r].op = "read", req[r].pc = "commit", req'[r].pc = "publish"
  PROVE  ReadCommit(r)
<1>0. /\ TypeOK /\ req[r] \in Request /\ req[r].pc # "publish"
      /\ Idle.pc # "publish" /\ req[r] # Idle
  BY DEF IInv, TypeOK, Idle
<1>1. CASE Arrive(r)
  BY <1>0, <1>1 DEF Arrive
<1>2. CASE LockRow(r)
  BY <1>0, <1>2 DEF LockRow
<1>3. CASE DeadlockAbort(r) \/ Crash(r)
  BY <1>0, <1>3 DEF DeadlockAbort, Crash, Rollback, EndAs, TypeOK
<1>4. CASE Handle(r)
  BY <1>4 DEF Handle, Send, SendReadChat, SendWriteChat, SendInsert, SendCommit, SendPublish,
     Read, ReadReadChat, ReadBegins, ReadEnds, ReadPublish,
     Close, CloseReadChat, CloseBegins, CloseEnds, CloseWriteChat, CloseCommit,
     Settle, SettleWriteChat, SettleCommit,
     Delete, DeleteReadChat, DeleteRows, DeleteChat, DeleteCascade, DeleteCommit, Done
<1> QED BY <1>1, <1>2, <1>3, <1>4 DEF Progress

\* A read that is committed has reached every message of the other participant that
\* was unread when the request arrived.
THEOREM ReadsReach == Spec => ReadReaches
<1> DEFINE Reaches == \A r \in Requests :
                        req[r].op = "read" /\ req[r].pc = "commit" /\ req'[r].pc = "publish"
                        => req[r].known \cap Unread' = {}
<1>1. ASSUME IInv, [Next]_vars PROVE [Reaches]_vars
  <2> SUFFICES ASSUME Next, NEW s \in Requests,
                      req[s].op = "read", req[s].pc = "commit", req'[s].pc = "publish",
                      NEW m \in req[s].known, m \in Unread'
               PROVE  FALSE
    BY <1>1
  <2>1. PICK r \in Requests : Arrive(r) \/ Progress(r) \/ Crash(r)
    BY DEF Next
  <2>2. s = r
    BY <1>1, <2>1, OnlyOneMoves
  <2>3. ReadCommit(r)
    BY <1>1, <2>1, <2>2, CommitIs
  <2>4. message' = [n \in Messages |-> MarkHeld(r, n)]
    BY <2>3 DEF ReadCommit
  <2>5. ReadInv(r, req[r]) /\ m \in Messages
    BY <1>1, <2>2 DEF IInv, RequestInv, TypeOK, Request, Unread
  <2>6. message'[m].status = "unread"
    BY DEF Unread
  <2>7. m \notin Marked(r) /\ message[m].status = "unread"
    BY <1>1, <2>2, <2>4, <2>5, <2>6, MarkHeldIs
  <2> QED BY <2>2, <2>5, <2>7 DEF ReadInv, Marked
<1> HIDE DEF Reaches
<1>2. Spec => [][Reaches]_vars
  BY <1>1, Invariance, PTL DEF Spec
<1> QED BY <1>2 DEF ReadReaches, Reaches

\* A message is marked once and never unread again, by a request of its recipient or
\* by close_chat, and it is deleted only with its chat.
THEOREM RecipientsMark == Spec => MarkedByRecipient
<1> DEFINE Marks ==
      \A m \in Messages :
        message'[m] # message[m] /\ message[m].status # "unborn" =>
          /\ message'[m].by = message[m].by
          /\ \/ message'[m].status = "deleted" /\ ~chat'.exists
             \/ /\ message[m].status = "unread" /\ message'[m].status = "read"
                /\ \E r \in Requests :
                     /\ Holds(r, MessageLock(m)) /\ ~Holds(r, MessageLock(m))'
                     /\ \/ req[r].op = "read" /\ req[r].user # message[m].by
                        \/ req[r].op = "close" /\ ~chat'.active
<1>1. ASSUME IInv, [Next]_vars PROVE [Marks]_vars
  <2> SUFFICES ASSUME Next, NEW m \in Messages, message'[m] # message[m], message[m].status # "unborn"
               PROVE  /\ message'[m].by = message[m].by
                      /\ \/ message'[m].status = "deleted" /\ ~chat'.exists
                         \/ /\ message[m].status = "unread" /\ message'[m].status = "read"
                            /\ \E r \in Requests :
                                 /\ Holds(r, MessageLock(m)) /\ ~Holds(r, MessageLock(m))'
                                 /\ \/ req[r].op = "read" /\ req[r].user # message[m].by
                                    \/ req[r].op = "close" /\ ~chat'.active
    BY <1>1
  <2>0. TypeOK
    BY <1>1 DEF IInv
  <2>1. PICK r \in Requests : Arrive(r) \/ Progress(r) \/ Crash(r)
    BY DEF Next
  <2>2. SendCommit(r) \/ ReadCommit(r) \/ CloseCommit(r) \/ DeleteCommit(r)
    BY <1>1, <2>1, WritersAre
  <2>3. CASE SendCommit(r)
    BY <2>0, <2>3 DEF SendCommit, NextMessage, Unborn, TypeOK
  <2>4. CASE ReadCommit(r) \/ CloseCommit(r)
    <3>1. /\ message' = [n \in Messages |-> MarkHeld(r, n)]
          /\ req[r].op \in {"read", "close"}
      BY <2>4 DEF ReadCommit, CloseCommit, Done
    <3>2. m \in Marked(r) /\ Holds(r, MessageLock(m)) /\ m \in req[r].rows
      BY <1>1, <3>1, MarkHeldIs DEF Marked
    <3>3. ~Holds(r, MessageLock(m))'
      <4>1. PICK q \in Request : EndAs(r, q)
        <5>1. CASE ReadCommit(r)
          <6>1. [req[r] EXCEPT !.pc = "publish", !.rows = Marked(r)] \in Request
            BY <2>0 DEF TypeOK, Request, Statements, Marked
          <6> QED BY <5>1, <6>1 DEF ReadCommit
        <5>2. CASE CloseCommit(r)
          BY <5>2, IdleIsRequest DEF CloseCommit
        <5> QED BY <2>4, <5>1, <5>2
      <4> QED BY <2>0, <4>1, EndIs, LocksAreRows
    <3>4. CASE ReadCommit(r)
      <4>1. req[r].op = "read" /\ req[r].pc = "commit" /\ ReadInv(r, req[r])
        BY <1>1, <3>4 DEF ReadCommit, Done, IInv, RequestInv
      <4>2. message[m].by # req[r].user
        BY <3>2, <4>1 DEF ReadInv
      <4> QED BY <1>1, <3>1, <3>2, <3>3, <4>1, <4>2, MarkHeldIs
    <3>5. CASE CloseCommit(r)
      <4>1. req[r].op = "close" /\ ~chat'.active
        BY <2>0, <3>5 DEF CloseCommit, Done, TypeOK, ChatRow
      <4> QED BY <1>1, <3>1, <3>2, <3>3, <4>1, MarkHeldIs
    <3> QED BY <2>4, <3>4, <3>5
  <2>5. CASE DeleteCommit(r)
    <3>1. /\ message'[m] = DeleteHeld(r, m) /\ ~chat'.exists
          /\ message[m] \in MessageRow
      BY <2>0, <2>5 DEF DeleteCommit, TypeOK
    <3> QED BY <3>1 DEF DeleteHeld, MessageRow
  <2> QED BY <2>2, <2>3, <2>4, <2>5
<1> HIDE DEF Marks
<1>2. Spec => [][Marks]_vars
  BY <1>1, Invariance, PTL DEF Spec
<1> QED BY <1>2 DEF MarkedByRecipient, Marks
=============================================================================
