------------------------------ MODULE EventBus ------------------------------
(***************************************************************************)
(* Realtime events of one chat: the WebSocket handlers, the registry of    *)
(* connections and the event bus of every worker (ws/routers.py,           *)
(* ws/manager.py, ws/event_bus.py), with Redis pub/sub between workers.    *)
(*                                                                         *)
(* A worker runs one event loop: what a coroutine does between two awaits  *)
(* that really wait (a frame, a send, an answer of Redis) is one step.     *)
(* The lock of the registry is never held across such an await.            *)
(***************************************************************************)
EXTENDS Integers, Sequences, FiniteSets

CONSTANTS Workers,
          Conns,         \* slots for WebSocket objects
          Home,          \* the worker a slot belongs to
          Address,       \* id() of the object in a slot, unique in its process
          Speakers,      \* the connections whose clients send frames in an instance
          NEvents,       \* bound: how many events are ever published
          RedisUrl,      \* whether REDIS_URL is set
          NFaults,       \* bound: how often Redis, a listener or a process fails
          NBreaks,       \* bound: how often a client goes away
          Nobody

Events == 1 .. NEvents

ASSUME EventsAssumption == NEvents \in Nat
ASSUME FaultsAssumption == NFaults \in Nat /\ NBreaks \in Nat
ASSUME SpeakersAssumption == Speakers \subseteq Conns
ASSUME HomeAssumption == Home \in [Conns -> Workers]
ASSUME AddressAssumption ==
  \A c, d \in Conns : Home[c] = Home[d] /\ Address[c] = Address[d] => c = d
ASSUME RedisUrlAssumption == RedisUrl \in BOOLEAN
ASSUME NobodyAssumption == Nobody \notin Conns \cup Workers

VARIABLES bus,       \* the EventBus object of each worker
          inbox,     \* what the subscription of a worker has not read yet
          conn,      \* the handler of each WebSocket
          members,   \* ConnectionManager: the connections registered for the chat
          job,       \* the dispatches in progress
          origin,    \* by event: the connection it excludes
          last,      \* how many events were published
          faults,    \* how many faults there were
          breaks,    \* how many clients went away
          got,       \* what a connection has received
          owed,      \* history: the events a connection should still receive
          unsure     \* history: the events whose publication had no answer

history == <<got, owed, unsure>>
vars == <<bus, inbox, conn, members, job, origin, last, faults, breaks, history>>

-----------------------------------------------------------------------------

\* available is _redis_available; the listener is _listener_task.
Bus == [started : BOOLEAN, available : BOOLEAN, listener : {"none", "running", "stopped"}]

\* A dispatch of a listener, or the local one of a publisher that could not use
\* Redis.  Before its snapshot of the registry it is waiting.
Job == [worker : Workers, event : Events, via : {"listener", "local"},
        waiting : BOOLEAN, targets : SUBSET Conns, dead : SUBSET Conns]

\* "open": the handler has registered the connection; "broken": the client is gone
\* and the handler does not know yet.
TypeOK == /\ bus \in [Workers -> Bus]
          /\ inbox \in [Workers -> Seq(Events)]
          /\ conn \in [Conns -> {"none", "open", "broken"}]
          /\ members \subseteq Conns
          /\ job \subseteq Job
          /\ origin \in [Events -> Conns \cup {Nobody}]
          /\ last \in 0 .. NEvents
          /\ faults \in 0 .. NFaults
          /\ breaks \in 0 .. NBreaks
          /\ got \in [Conns -> Seq(Events \X {"listener", "local"})]
          /\ owed \in [Conns -> SUBSET Events]
          /\ unsure \subseteq Events

NotStarted == [started |-> FALSE, available |-> RedisUrl, listener |-> "none"]

Init == /\ bus = [w \in Workers |-> NotStarted]
        /\ inbox = [w \in Workers |-> <<>>]
        /\ conn = [c \in Conns |-> "none"]
        /\ members = {}
        /\ job = {}
        /\ origin = [e \in Events |-> Nobody]
        /\ last = 0
        /\ faults = 0
        /\ breaks = 0
        /\ got = [c \in Conns |-> <<>>]
        /\ owed = [c \in Conns |-> {}]
        /\ unsure = {}

-----------------------------------------------------------------------------
(***************************************************************************)
(* Workers: lifespan, EventBus.start, the end of the listener              *)
(***************************************************************************)

Hearing(w) == bus[w].listener = "running"

\* Something goes wrong that is not a client's doing.
Fault == faults < NFaults /\ faults' = faults + 1

\* Without REDIS_URL there is no listener; if the subscription fails, neither, and
\* the worker stays local for good.
Start(w) ==
  /\ ~bus[w].started
  /\ \/ /\ bus' = [bus EXCEPT ![w].started = TRUE,
                             ![w].listener = IF RedisUrl THEN "running" ELSE "none"]
        /\ UNCHANGED faults
     \/ /\ RedisUrl /\ Fault
        /\ bus' = [bus EXCEPT ![w].started = TRUE, ![w].available = FALSE]
  /\ UNCHANGED <<inbox, conn, members, job, origin, last, breaks, history>>

\* An exception of the subscription ends _listen; nobody starts it again.
ListenerStops(w) ==
  /\ Fault
  /\ Hearing(w)
  /\ ~\E j \in job : j.worker = w /\ j.via = "listener"
  /\ bus' = [bus EXCEPT ![w].listener = "stopped"]
  /\ inbox' = [inbox EXCEPT ![w] = <<>>]
  /\ UNCHANGED <<conn, members, job, origin, last, breaks, history>>

\* The process ends (or is stopped and restarted) with all it has in memory.
WorkerStops(w) ==
  LET here == {c \in Conns : Home[c] = w}
  IN /\ Fault
     /\ bus[w].started
     /\ bus' = [bus EXCEPT ![w] = NotStarted]
     /\ inbox' = [inbox EXCEPT ![w] = <<>>]
     /\ conn' = [c \in Conns |-> IF c \in here THEN "none" ELSE conn[c]]
     /\ members' = members \ here
     /\ job' = {j \in job : j.worker # w}
     /\ got' = [c \in Conns |-> IF c \in here THEN <<>> ELSE got[c]]
     /\ owed' = [c \in Conns |-> IF c \in here THEN {} ELSE owed[c]]
     /\ UNCHANGED <<origin, last, breaks, unsure>>

-----------------------------------------------------------------------------
(***************************************************************************)
(* WebSocket handlers: chat_events                                         *)
(***************************************************************************)

\* accept, the auth frame, the check of user and chat, manager.connect, "auth.ok".
\* A handler that gives up before manager.connect has touched nothing.  The id() of
\* an object is free again when no dispatch holds the object any more.
Connect(c) ==
  /\ bus[Home[c]].started
  /\ conn[c] = "none"
  /\ ~\E j \in job : c \in j.targets \cup j.dead
  /\ conn' = [conn EXCEPT ![c] = "open"]
  /\ members' = members \cup {c}
  /\ UNCHANGED <<bus, inbox, job, origin, last, faults, breaks, history>>

\* The client goes away, or the handler raises because it was asked to mark the
\* messages of a chat that is gone.  From here on the connection is owed nothing.
Break(c) ==
  /\ breaks < NBreaks
  /\ breaks' = breaks + 1
  /\ conn[c] = "open"
  /\ conn' = [conn EXCEPT ![c] = "broken"]
  /\ owed' = [owed EXCEPT ![c] = {}]
  /\ UNCHANGED <<bus, inbox, members, job, origin, last, faults, got, unsure>>

\* The handler is not inside a publish of its own.
Listening(c) == ~\E j \in job : j.via = "local" /\ origin[j.event] = c

\* Mutant of Disconnect: the finally clause is missing.
DisconnectOnly(c) ==
  /\ conn[c] = "broken"
  /\ Listening(c)
  /\ conn' = [conn EXCEPT ![c] = "none"]
  /\ got' = [got EXCEPT ![c] = <<>>]
  /\ UNCHANGED <<bus, inbox, members, job, origin, last, faults, breaks, owed, unsure>>

\* WebSocketDisconnect from receive_json, and the finally clause.
Disconnect(c) ==
  /\ conn[c] = "broken"
  /\ Listening(c)
  /\ conn' = [conn EXCEPT ![c] = "none"]
  /\ members' = members \ {c}
  /\ got' = [got EXCEPT ![c] = <<>>]
  /\ UNCHANGED <<bus, inbox, job, origin, last, faults, breaks, owed, unsure>>

-----------------------------------------------------------------------------
(***************************************************************************)
(* EventBus.publish                                                        *)
(***************************************************************************)

\* A REST handler (x = Nobody), or the handler of connection x for a "typing" or
\* "read" frame; the event is not for x.
MayPublish(w, x) ==
  /\ bus[w].started
  /\ last < NEvents
  /\ x # Nobody => Home[x] = w /\ conn[x] = "open" /\ Listening(x)

NewEvent(x) == last' = last + 1 /\ origin' = [origin EXCEPT ![last + 1] = x]

\* Redis pushes the event to every subscription.
Pushed(e) == [v \in Workers |-> IF Hearing(v) THEN Append(inbox[v], e) ELSE inbox[v]]

Owe(x, C) == [c \in Conns |-> IF c \in C \cap members /\ c # x /\ conn[c] = "open"
                              THEN owed[c] \cup {last + 1} ELSE owed[c]]

At(w) == {c \in Conns : Home[c] = w}
Heard == {c \in Conns : Hearing(Home[c])}

Usable(w) == RedisUrl /\ bus[w].available

\* Mutant of Snapshot: id() is compared across processes.
SnapshotByAddress(w, x) ==
  {c \in members : Home[c] = w /\ (x # Nobody => Address[c] # Address[x])}

\* Mutant of Snapshot: the origin is not excluded.
SnapshotAll(w, x) == {c \in members : Home[c] = w}

\* The connections of worker w that an event from x goes to.
Snapshot(w, x) ==
  {c \in members : /\ Home[c] = w
                   /\ x # Nobody => ~(Home[x] = w /\ Address[c] = Address[x])}

\* Nothing to send is nothing to wait for.
Dispatch(w, e, x, via) ==
  IF Snapshot(w, x) = {} THEN {}
  ELSE {[worker |-> w, event |-> e, via |-> via, waiting |-> FALSE,
         targets |-> Snapshot(w, x), dead |-> {}]}

\* Mutant of PublishRedis: no return after the publication.
PublishBoth(w, x) ==
  /\ MayPublish(w, x) /\ Usable(w)
  /\ NewEvent(x)
  /\ inbox' = Pushed(last + 1)
  /\ owed' = Owe(x, Heard \cup At(w))
  /\ job' = job \cup Dispatch(w, last + 1, x, "local")
  /\ UNCHANGED <<bus, conn, members, faults, breaks, got, unsure>>

PublishRedis(w, x) ==
  /\ MayPublish(w, x) /\ Usable(w)
  /\ NewEvent(x)
  /\ inbox' = Pushed(last + 1)
  /\ owed' = Owe(x, Heard \cup At(w))
  /\ UNCHANGED <<bus, conn, members, job, faults, breaks, got, unsure>>

\* Redis took the event, but its answer is lost: the client library sends it again
\* or raises, later.
PublishUnsure(w, x) ==
  /\ Fault
  /\ MayPublish(w, x) /\ Usable(w)
  /\ NewEvent(x)
  /\ inbox' = Pushed(last + 1)
  /\ owed' = Owe(x, Heard \cup At(w))
  /\ unsure' = unsure \cup {last + 1}
  /\ job' = job \cup {[worker |-> w, event |-> last + 1, via |-> "local", waiting |-> TRUE,
                       targets |-> {}, dead |-> {}]}
  /\ UNCHANGED <<bus, conn, members, breaks, got>>

\* Redis is not used or not reached.
PublishLocal(w, x) ==
  /\ IF Usable(w) THEN Fault ELSE UNCHANGED faults
  /\ MayPublish(w, x)
  /\ NewEvent(x)
  /\ owed' = Owe(x, At(w))
  /\ job' = job \cup Dispatch(w, last + 1, x, "local")
  /\ UNCHANGED <<bus, inbox, conn, members, breaks, got, unsure>>

Publish(w) == \E x \in Speakers \cup {Nobody} :
                PublishRedis(w, x) \/ PublishUnsure(w, x) \/ PublishLocal(w, x)

-----------------------------------------------------------------------------
(***************************************************************************)
(* EventBus._listen, _dispatch and ConnectionManager.broadcast             *)
(***************************************************************************)

\* Mutant of Take: every event is dispatched by a task of its own.
TakeEagerly(w) ==
  /\ Hearing(w) /\ inbox[w] # <<>>
  /\ job' = job \cup Dispatch(w, Head(inbox[w]), origin[Head(inbox[w])], "listener")
  /\ inbox' = [inbox EXCEPT ![w] = Tail(@)]
  /\ UNCHANGED <<bus, conn, members, origin, last, faults, breaks, history>>

\* The listener dispatches one event after the other.
Take(w) ==
  /\ Hearing(w) /\ inbox[w] # <<>>
  /\ ~\E j \in job : j.worker = w /\ j.via = "listener"
  /\ job' = job \cup Dispatch(w, Head(inbox[w]), origin[Head(inbox[w])], "listener")
  /\ inbox' = [inbox EXCEPT ![w] = Tail(@)]
  /\ UNCHANGED <<bus, conn, members, origin, last, faults, breaks, history>>

\* The same PUBLISH again, and this time the answer comes.
Resend(w) ==
  \E j \in job :
    /\ j.worker = w /\ j.waiting
    /\ inbox' = Pushed(j.event)
    /\ job' = job \ {j}
    /\ UNCHANGED <<bus, conn, members, origin, last, faults, breaks, history>>

\* The exception of a publication without an answer: local delivery.
Fallback(w) ==
  \E j \in job :
    /\ j.worker = w /\ j.waiting
    /\ job' = (job \ {j}) \cup Dispatch(w, j.event, origin[j.event], "local")
    /\ UNCHANGED <<bus, inbox, conn, members, origin, last, faults, breaks, history>>

\* Mutant of Advance: the lock is held during the sends, and disconnect wants it.
AdvanceLocked(j, k) ==
  IF k.targets = {} /\ k.dead = {}
  THEN job' = job \ {j} /\ UNCHANGED members
  ELSE job' = (job \ {j}) \cup {k} /\ UNCHANGED members

\* After the last send the dead connections are unregistered.
Advance(j, k) ==
  IF k.targets = {}
  THEN job' = job \ {j} /\ members' = members \ k.dead
  ELSE job' = (job \ {j}) \cup {k} /\ UNCHANGED members

\* One send_json.  To a client that is gone it raises, or it goes nowhere.
SendTo(j, c) ==
  /\ c \in j.targets
  /\ \/ /\ conn[c] = "open"
        /\ got' = [got EXCEPT ![c] = Append(@, <<j.event, j.via>>)]
        /\ owed' = [owed EXCEPT ![c] = @ \ {j.event}]
        /\ Advance(j, [j EXCEPT !.targets = @ \ {c}])
     \/ /\ conn[c] # "open"
        /\ UNCHANGED <<got, owed>>
        /\ \/ Advance(j, [j EXCEPT !.targets = @ \ {c}, !.dead = @ \cup {c}])
           \/ Advance(j, [j EXCEPT !.targets = @ \ {c}])
  /\ UNCHANGED <<bus, inbox, conn, origin, last, faults, breaks, unsure>>

SendNext(w) == \E j \in job, c \in Conns : j.worker = w /\ SendTo(j, c)

-----------------------------------------------------------------------------

Next == \/ \E w \in Workers : \/ Start(w) \/ ListenerStops(w) \/ WorkerStops(w)
                              \/ Publish(w) \/ Resend(w) \/ Fallback(w) \/ Take(w) \/ SendNext(w)
        \/ \E c \in Conns : Connect(c) \/ Break(c) \/ Disconnect(c)

Spec == Init /\ [][Next]_vars

\* The event loop of a worker does not idle while a task is ready, and a send ends: the
\* server drops a client that no longer answers its pings.  Which task runs is left open.
Run(w) == Take(w) \/ Resend(w) \/ Fallback(w) \/ SendNext(w)

FairSpec == Spec /\ \A w \in Workers : WF_vars(Run(w))

-----------------------------------------------------------------------------
(***************************************************************************)
(* Properties                                                              *)
(***************************************************************************)

\* An event that a connection should still get is on its way to it: in the
\* subscription of its worker, or in a dispatch that has not come to it yet.
\* Neither the death of other connections nor an origin with the same id() in
\* another process may take it away.
NothingForgotten ==
  \A c \in Conns : \A e \in owed[c] :
    bus[Home[c]].listener # "stopped" =>
      \/ \E i \in 1 .. Len(inbox[Home[c]]) : inbox[Home[c]][i] = e
      \/ \E j \in job : /\ j.worker = Home[c] /\ j.event = e
                        /\ j.waiting \/ c \in j.targets

\* What comes through Redis reaches a connection in the order of publication, apart
\* from an event that had to be sent again.
ChannelOrder ==
  \A c \in Conns : \A i, k \in 1 .. Len(got[c]) :
    i < k /\ got[c][i][2] = "listener" /\ got[c][k][2] = "listener"
    => got[c][i][1] < got[c][k][1] \/ got[c][k][1] \in unsure

\* A connection gets an event once, unless Redis took it and did not answer.
OnceUnlessUnsure ==
  \A c \in Conns : \A i, k \in 1 .. Len(got[c]) :
    i # k /\ got[c][i][1] = got[c][k][1] => got[c][i][1] \in unsure

\* The author of an event does not get it back, neither directly nor through Redis.
NotEchoed == \A c \in Conns : \A i \in 1 .. Len(got[c]) : origin[got[c][i][1]] # c

\* What is registered has a handler that will unregister it, and whoever is told
\* auth.ok stays registered as long as the connection works.
RegisteredHasHandler ==
  /\ members \subseteq {c \in Conns : conn[c] \in {"open", "broken"}}
  /\ {c \in Conns : conn[c] = "open"} \subseteq members

\* An event reaches everybody it is owed to, unless their connections or the listener of
\* their worker end first: there is always a later time when nothing is owed.
Settled(e) == \A c \in Conns : e \in owed[c] => bus[Home[c]].listener = "stopped"

EveryEventArrives == []<>(\A e \in Events : Settled(e))
=============================================================================
