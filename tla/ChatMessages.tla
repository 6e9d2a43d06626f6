---------------------------- MODULE ChatMessages ----------------------------
(***************************************************************************)
(* The messages of one chat: sending, marking as read, closing the chat,   *)
(* and the deletion of its order (chat/services.py, chat/routers.py), and  *)
(* the events that are handed to the event bus after a commit.             *)
(*                                                                         *)
(* As in OrderLifecycle a request is one transaction at READ COMMITTED     *)
(* that writes only rows it holds, at its Commit.  A bulk UPDATE matches   *)
(* the rows committed when it begins, waits for those another transaction  *)
(* holds, and skips the ones that then no longer match.                    *)
(***************************************************************************)
EXTENDS Integers, FiniteSets

CONSTANTS Requests,      \* slots for requests in flight
          NMessages,     \* bound: how many messages are ever sent
          Endpoints,     \* the operations an instance calls
          Nobody

Messages == 1 .. NMessages
Users == {"customer", "executor"}

ASSUME MessagesAssumption == NMessages \in Nat \ {0}
ASSUME NobodyAssumption == Nobody \notin Requests \cup Users

VARIABLES chat,      \* the row of table "chat"
          message,   \* table "message"
          created,   \* the messages announced by a message.created
          counted,   \* how often a message was counted in a message.read
          req,       \* the requests in flight
          owner      \* which request locks a row

events == <<created, counted>>
vars == <<chat, message, events, req, owner>>

-----------------------------------------------------------------------------
(***************************************************************************)
(* Tables, events and requests                                             *)
(***************************************************************************)

ChatRow == [exists : BOOLEAN, active : BOOLEAN]

\* Of a row, "unread" and "read" are is_read, by is sender_id.
MessageRow == [status : {"unborn", "unread", "read", "deleted"}, by : Users \cup {Nobody}]

MessageExists(m) == message[m].status \in {"unread", "read"}
Unborn == {m \in Messages : message[m].status = "unborn"}
Unread == {m \in Messages : message[m].status = "unread"}
UnreadFor(u) == {m \in Unread : message[m].by # u}

\* Of the events handed to the event bus the model keeps what they are about.  A
\* message.read carries the number of messages that were marked: counted adds
\* them up, message by message, to at most MaxCount.
MaxCount == 2

ChatLock == <<"chat", 0>>
MessageLock(m) == <<"message", m>>
Rows == {ChatLock} \cup {MessageLock(m) : m \in Messages}

Operations == {"send", "read", "close", "settle", "delete"}

Statements == {"idle", "read_chat", "mark", "marking", "write_chat", "insert",
               "delete_rows", "delete_chat", "cascade", "commit", "publish"}

\* rows is what the bulk statement of the request matched, known the messages
\* that were unread for the user when the request arrived.
Request == [op : Operations \cup {"idle"}, pc : Statements, user : Users \cup {Nobody},
            rows : SUBSET Messages, known : SUBSET Messages]

Idle == [op |-> "idle", pc |-> "idle", user |-> Nobody, rows |-> {}, known |-> {}]

TypeOK == /\ chat \in ChatRow
          /\ message \in [Messages -> MessageRow]
          /\ created \subseteq Messages
          /\ counted \in [Messages -> 0 .. MaxCount]
          /\ req \in [Requests -> Request]
          /\ owner \in [Rows -> Requests \cup {Nobody}]

\* create_proposal opened the chat with the text of the proposal.
Init == /\ chat = [exists |-> TRUE, active |-> TRUE]
        /\ message = [m \in Messages |->
                        IF m = 1 THEN [status |-> "unread", by |-> "executor"]
                                 ELSE [status |-> "unborn", by |-> Nobody]]
        /\ created = {}
        /\ counted = [m \in Messages |-> 0]
        /\ req = [r \in Requests |-> Idle]
        /\ owner = [w \in Rows |-> Nobody]

-----------------------------------------------------------------------------
(***************************************************************************)
(* Row locks                                                               *)
(***************************************************************************)

Holds(r, w) == owner[w] = r

\* The rows the statement of r must lock.
Targets(r) ==
  CASE req[r].pc \in {"write_chat", "delete_chat"} ->
         {w \in {ChatLock} : chat.exists /\ (req[r].op = "settle" => chat.active)}
    [] req[r].pc = "marking" -> {MessageLock(m) : m \in req[r].rows \cap Unread}
    [] req[r].pc = "delete_rows" -> {MessageLock(m) : m \in {m \in req[r].rows : MessageExists(m)}}
    [] req[r].pc = "cascade" -> {MessageLock(m) : m \in {m \in Messages : MessageExists(m)}}
    [] OTHER -> {}

Needs(r) == {w \in Targets(r) : ~Holds(r, w)}
Blockers(r, w) == {s \in Requests \ {r} : Holds(s, w)}

LockRow(r) ==
  \E w \in Needs(r) :
    /\ Blockers(r, w) = {}
    /\ owner' = [owner EXCEPT ![w] = r]
    /\ UNCHANGED <<chat, message, events, req>>

Done(r, op, pc) == req[r].op = op /\ req[r].pc = pc /\ Needs(r) = {}

\* The request goes on as q, at its next statement.
GoOn(r, q) == req' = [req EXCEPT ![r] = q] /\ UNCHANGED <<chat, message, events, owner>>
GoTo(r, pc) == GoOn(r, [req[r] EXCEPT !.pc = pc])

Unlocked(r) == [w \in Rows |-> IF Holds(r, w) THEN Nobody ELSE owner[w]]

\* The transaction is over; the handler goes on as q.
EndAs(r, q) == req' = [req EXCEPT ![r] = q] /\ owner' = Unlocked(r)

\* Mutant of Rollback: a session that fails is not rolled back.
RollbackKeepsLocks(r) == /\ req' = [req EXCEPT ![r] = Idle]
                         /\ UNCHANGED <<chat, message, events, owner>>

Rollback(r) == EndAs(r, Idle) /\ UNCHANGED <<chat, message, events>>
Check(r, ok, pc) == IF ok THEN GoTo(r, pc) ELSE Rollback(r)

-----------------------------------------------------------------------------
(***************************************************************************)
(* Clients.  Somebody who is not in the chat is turned away at the read of *)
(* the chat, so requests are those of its two participants.                *)
(***************************************************************************)

Sending == {r \in Requests : req[r].op = "send" /\ req[r].pc # "publish"}

\* settle is whatever closes the chat with its order or proposal, delete the
\* deletion of the order.  Which of the two closes or deletes makes no difference.
Arrive(r) ==
  /\ req[r] = Idle
  /\ \/ \E u \in Users :
          \/ /\ "send" \in Endpoints
             /\ Cardinality(Sending) < Cardinality(Unborn)
             /\ GoOn(r, [Idle EXCEPT !.op = "send", !.pc = "read_chat", !.user = u])
          \/ /\ "read" \in Endpoints
             /\ GoOn(r, [Idle EXCEPT !.op = "read", !.pc = "read_chat", !.user = u,
                                     !.known = UnreadFor(u)])
     \/ \E op \in {"close", "delete"} \cap Endpoints :
          GoOn(r, [Idle EXCEPT !.op = op, !.pc = "read_chat"])
     \/ /\ "settle" \in Endpoints
        /\ GoOn(r, [Idle EXCEPT !.op = "settle", !.pc = "write_chat"])

-----------------------------------------------------------------------------
(***************************************************************************)
(* POST /chats/{id}/messages                                               *)
(***************************************************************************)

\* The chat is read without a lock.
SendReadChat(r) == Done(r, "send", "read_chat") /\ Check(r, chat.exists /\ chat.active, "write_chat")

\* updated_at.  UPDATE of a row that is gone: StaleDataError.
SendWriteChat(r) == Done(r, "send", "write_chat") /\ Check(r, chat.exists, "insert")

\* The first free id goes to the row of a transaction that commits.
NextMessage(n) == n \in Unborn /\ \A m \in Unborn : n <= m

\* Mutant of SendInsert: the event is published before the commit.
SendPublishFirst(r) ==
  /\ Done(r, "send", "insert")
  /\ \E n \in Messages :
       /\ NextMessage(n)
       /\ created' = created \cup {n}
  /\ req' = [req EXCEPT ![r].pc = "commit"]
  /\ UNCHANGED <<chat, message, counted, owner>>

SendInsert(r) == Done(r, "send", "insert") /\ GoTo(r, "commit")

SendCommit(r) ==
  /\ Done(r, "send", "commit")
  /\ \E n \in Messages :
       /\ NextMessage(n)
       /\ message' = [message EXCEPT ![n] = [status |-> "unread", by |-> req[r].user]]
       /\ EndAs(r, [req[r] EXCEPT !.pc = "publish", !.rows = {n}])
  /\ UNCHANGED <<chat, events>>

SendPublish(r) ==
  /\ Done(r, "send", "publish")
  /\ created' = created \cup req[r].rows
  /\ EndAs(r, Idle)
  /\ UNCHANGED <<chat, message, counted>>

Send(r) == \/ SendReadChat(r) \/ SendWriteChat(r) \/ SendInsert(r) \/ SendCommit(r)
           \/ SendPublish(r)

-----------------------------------------------------------------------------
(***************************************************************************)
(* POST /chats/{id}/read, and the event "read" of a WebSocket              *)
(***************************************************************************)

ReadReadChat(r) == Done(r, "read", "read_chat") /\ Check(r, chat.exists, "mark")

\* Mutant of ReadBegins: the condition on the sender is the wrong way round.
ReadOwn(r) ==
  /\ Done(r, "read", "mark")
  /\ GoOn(r, [req[r] EXCEPT !.pc = "marking", !.rows = Unread \ UnreadFor(req[r].user)])

\* Mutant of ReadBegins: there is no condition on the sender.
ReadAll(r) ==
  /\ Done(r, "read", "mark")
  /\ GoOn(r, [req[r] EXCEPT !.pc = "marking", !.rows = Unread])

ReadBegins(r) ==
  /\ Done(r, "read", "mark")
  /\ GoOn(r, [req[r] EXCEPT !.pc = "marking", !.rows = UnreadFor(req[r].user)])

ReadEnds(r) == Done(r, "read", "marking") /\ GoTo(r, "commit")

\* The rows of the bulk UPDATE that r holds are the ones it changed.
Marked(r) == {m \in req[r].rows : Holds(r, MessageLock(m))}

MarkHeld(r, m) == IF m \in Marked(r) THEN [message[m] EXCEPT !.status = "read"] ELSE message[m]

\* Mutant of ReadCommit: the count is of the rows that matched, not of rowcount.
ReadCountsMatches(r) ==
  /\ Done(r, "read", "commit")
  /\ message' = [m \in Messages |-> MarkHeld(r, m)]
  /\ EndAs(r, [req[r] EXCEPT !.pc = "publish"])
  /\ UNCHANGED <<chat, events>>

ReadCommit(r) ==
  /\ Done(r, "read", "commit")
  /\ message' = [m \in Messages |-> MarkHeld(r, m)]
  /\ EndAs(r, [req[r] EXCEPT !.pc = "publish", !.rows = Marked(r)])
  /\ UNCHANGED <<chat, events>>

ReadPublish(r) ==
  /\ Done(r, "read", "publish")
  /\ counted' = [m \in Messages |-> IF m \in req[r].rows /\ counted[m] < MaxCount
                                    THEN counted[m] + 1 ELSE counted[m]]
  /\ EndAs(r, Idle)
  /\ UNCHANGED <<chat, message, created>>

Read(r) == \/ ReadReadChat(r) \/ ReadBegins(r) \/ ReadEnds(r) \/ ReadCommit(r)
           \/ ReadPublish(r)

-----------------------------------------------------------------------------
(***************************************************************************)
(* POST /chats/{id}/close, and what else closes or removes the chat        *)
(***************************************************************************)

\* The chat of an accepted proposal is refused; see OrderLifecycle for that and
\* for the proposal that is withdrawn with the chat.
CloseReadChat(r) ==
  \/ Done(r, "close", "read_chat") /\ Check(r, chat.exists /\ chat.active, "mark")
  \/ Done(r, "close", "read_chat") /\ Rollback(r)

\* Everything unread is matched, whoever sent it.
CloseBegins(r) ==
  /\ Done(r, "close", "mark")
  /\ GoOn(r, [req[r] EXCEPT !.pc = "marking", !.rows = Unread])

CloseEnds(r) == Done(r, "close", "marking") /\ GoTo(r, "write_chat")

CloseWriteChat(r) == Done(r, "close", "write_chat") /\ Check(r, chat.exists, "commit")

CloseCommit(r) ==
  /\ Done(r, "close", "commit")
  /\ message' = [m \in Messages |-> MarkHeld(r, m)]
  /\ chat' = [chat EXCEPT !.active = FALSE]
  /\ EndAs(r, Idle)
  /\ UNCHANGED events

Close(r) == \/ CloseReadChat(r) \/ CloseBegins(r) \/ CloseEnds(r) \/ CloseWriteChat(r)
            \/ CloseCommit(r)

\* accept_proposal, close_order and delete_proposal close the chat and leave its
\* messages alone.  It may be closed or gone already.
SettleWriteChat(r) == Done(r, "settle", "write_chat") /\ GoTo(r, "commit")

SettleCommit(r) ==
  /\ Done(r, "settle", "commit")
  /\ chat' = IF Holds(r, ChatLock) THEN [chat EXCEPT !.active = FALSE] ELSE chat
  /\ EndAs(r, Idle)
  /\ UNCHANGED <<message, events>>

Settle(r) == SettleWriteChat(r) \/ SettleCommit(r)

\* delete_order: the ORM loads the chat and its messages, deletes the messages,
\* then the chat; what was inserted meanwhile goes by ON DELETE CASCADE.
DeleteReadChat(r) ==
  /\ Done(r, "delete", "read_chat")
  /\ IF chat.exists
     THEN GoOn(r, [req[r] EXCEPT !.pc = "delete_rows",
                                 !.rows = {m \in Messages : MessageExists(m)}])
     ELSE Rollback(r)

DeleteRows(r) == Done(r, "delete", "delete_rows") /\ GoTo(r, "delete_chat")
DeleteChat(r) == Done(r, "delete", "delete_chat") /\ Check(r, chat.exists, "cascade")
DeleteCascade(r) == Done(r, "delete", "cascade") /\ GoTo(r, "commit")

\* Mutant of DeleteHeld: only what the ORM loaded is deleted.
DeleteLoaded(r, m) ==
  IF m \in req[r].rows /\ Holds(r, MessageLock(m))
  THEN [message[m] EXCEPT !.status = "deleted"] ELSE message[m]

DeleteHeld(r, m) ==
  IF Holds(r, MessageLock(m)) THEN [message[m] EXCEPT !.status = "deleted"] ELSE message[m]

DeleteCommit(r) ==
  /\ Done(r, "delete", "commit")
  /\ message' = [m \in Messages |-> DeleteHeld(r, m)]
  /\ chat' = [exists |-> FALSE, active |-> FALSE]
  /\ EndAs(r, Idle)
  /\ UNCHANGED events

Delete(r) == \/ DeleteReadChat(r) \/ DeleteRows(r) \/ DeleteChat(r) \/ DeleteCascade(r)
             \/ DeleteCommit(r)

-----------------------------------------------------------------------------
(***************************************************************************)
(* Failures, and the whole                                                 *)
(***************************************************************************)

WaitsFor(r, s) == /\ Needs(r) # {}
                  /\ \A w \in Needs(r) : Blockers(r, w) # {}
                  /\ \E w \in Needs(r) : s \in Blockers(r, w)

Deadlocked(D) == /\ D # {}
                 /\ \A r \in D : \E s \in D : WaitsFor(r, s)
                 /\ \A s \in D : \E r \in D : WaitsFor(r, s)

DeadlockAbort(r) ==
  /\ \E D \in SUBSET Requests : r \in D /\ Deadlocked(D)
  /\ Rollback(r)

\* After the commit of a message or a read mark, a crash loses the event.
Crash(r) == req[r] # Idle /\ Rollback(r)

Handle(r) == Send(r) \/ Read(r) \/ Close(r) \/ Settle(r) \/ Delete(r)

Progress(r) == LockRow(r) \/ Handle(r) \/ DeadlockAbort(r)

Next == \E r \in Requests : Arrive(r) \/ Progress(r) \/ Crash(r)

Spec == Init /\ [][Next]_vars

\* As in OrderLifecycle: a statement that can run again and again runs.
FairSpec == Spec /\ \A r \in Requests : SF_vars(Progress(r))

-----------------------------------------------------------------------------
(***************************************************************************)
(* Properties                                                              *)
(***************************************************************************)

\* Clients are told only what is in the database: send_message and mark_as_read
\* commit before they publish, and a message that is announced as read is read.
EventsAreTrue ==
  \A m \in Messages :
    /\ m \in created => message[m].status # "unborn"
    /\ counted[m] > 0 => message[m].status \in {"read", "deleted"}

\* However many reads of a chat overlap, a message is counted as read by at most
\* one of them.
CountedOnce == \A m \in Messages : counted[m] <= 1

\* No message outlives its chat, the ones sent while the order was deleted included.
NoOrphanMessage == ~chat.exists => \A m \in Messages : ~MessageExists(m)

\* A mark_messages_as_read that is committed has reached every message of the
\* other participant that was unread when the request arrived; one sent later
\* may be left unread.
ReadReaches ==
  [][\A r \in Requests :
       req[r].op = "read" /\ req[r].pc = "commit" /\ req'[r].pc = "publish"
       => req[r].known \cap Unread' = {}]_vars

\* A message is marked once and never unread again, and only a request of its
\* recipient, or a close_chat, marks it.
MarkedByRecipient ==
  [][\A m \in Messages :
       message'[m] # message[m] /\ message[m].status # "unborn" =>
         /\ message'[m].by = message[m].by
         /\ \/ message'[m].status = "deleted" /\ ~chat'.exists
            \/ /\ message[m].status = "unread" /\ message'[m].status = "read"
               /\ \E r \in Requests :
                    /\ Holds(r, MessageLock(m)) /\ ~Holds(r, MessageLock(m))'
                    /\ \/ req[r].op = "read" /\ req[r].user # message[m].by
                       \/ req[r].op = "close" /\ ~chat'.active]_vars

\* Every request gets an answer.
EveryRequestEnds == \A r \in Requests : req[r] # Idle ~> req[r] = Idle

\* README: nothing can be written to a closed chat.
ClosedStaysSilent ==
  [][\A m \in Messages : message[m].status = "unborn" /\ message'[m].status # "unborn"
       => chat.active]_vars
=============================================================================
