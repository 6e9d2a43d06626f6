--------------------------- MODULE EventBusProofs ---------------------------
(***************************************************************************)
(* Proofs about the realtime events, for every number of workers,          *)
(* connections, events and faults: what is on the way to a connection is   *)
(* not lost, comes in the order of publication and comes once.             *)
(***************************************************************************)
EXTENDS EventBus, SequenceTheorems, TLAPS

-----------------------------------------------------------------------------
(***************************************************************************)
(* The inductive invariant                                                 *)
(***************************************************************************)

\* The events of the system are those that were published.
Published ==
  /\ \A w \in Workers : \A p \in 1 .. Len(inbox[w]) : inbox[w][p] <= last
  /\ \A j \in job : j.event <= last
  /\ \A c \in Conns : \A i \in 1 .. Len(got[c]) : got[c][i][1] <= last
  /\ \A c \in Conns : \A e \in owed[c] : e <= last
  /\ \A e \in unsure : e <= last

\* A worker that uses Redis has had a listener, and handlers run in a worker that runs.
Subscribed ==
  /\ \A w \in Workers : bus[w].started /\ Usable(w) => bus[w].listener # "none"
  /\ \A c \in Conns : conn[c] # "none" => bus[Home[c]].started

\* A dispatch has to do with connections of its own worker, never with the one its event
\* excludes, and what it took for dead is not open: its object is still held, so that no
\* new handler has its id().
Dispatches ==
  \A j \in job : /\ \A c \in j.targets \cup j.dead : Home[c] = j.worker
                 /\ \A c \in j.dead : conn[c] # "open"
                 /\ origin[j.event] \notin j.targets

\* Only a publication without an answer waits, in a worker that uses Redis.
Waiting ==
  \A j \in job : j.waiting => /\ j.targets = {}
                              /\ j.event \in unsure
                              /\ bus[j.worker].started /\ Usable(j.worker)

\* A listener dispatches one event at a time.
OneListener ==
  \A j, k \in job :
    j.via = "listener" /\ k.via = "listener" /\ j.worker = k.worker => j = k

\* What is owed is owed to a working connection, and not to the author.
OwedIsOpen == \A c \in Conns : \A e \in owed[c] : conn[c] = "open" /\ origin[e] # c

\* f comes after e, or it was sent again.
Later(e, f) == e < f \/ f \in unsure

\* The order of publication on the whole way: within a subscription, from the dispatch
\* of the listener to the subscription, and from what was received to both.
InboxOrder ==
  \A w \in Workers : \A p, q \in 1 .. Len(inbox[w]) : p < q => Later(inbox[w][p], inbox[w][q])

JobOrder ==
  \A j \in job : j.via = "listener" =>
    \A p \in 1 .. Len(inbox[j.worker]) : Later(j.event, inbox[j.worker][p])

GotOrder ==
  \A c \in Conns : \A i \in 1 .. Len(got[c]) : got[c][i][2] = "listener" =>
    /\ \A p \in 1 .. Len(inbox[Home[c]]) : Later(got[c][i][1], inbox[Home[c]][p])
    /\ \A j \in job : j.via = "listener" /\ c \in j.targets => Later(got[c][i][1], j.event)

\* An event whose publication was answered is in one place on the way to a connection:
\* the subscription of its worker, one dispatch there, or what it has received.
JobOnce ==
  /\ \A j \in job : \A p \in 1 .. Len(inbox[j.worker]) :
       inbox[j.worker][p] = j.event => j.event \in unsure
  /\ \A j, k \in job : j # k /\ j.worker = k.worker /\ j.event = k.event => j.event \in unsure

GotOnce ==
  \A c \in Conns : \A i \in 1 .. Len(got[c]) :
    /\ \A p \in 1 .. Len(inbox[Home[c]]) :
         inbox[Home[c]][p] = got[c][i][1] => got[c][i][1] \in unsure
    /\ \A j \in job : c \in j.targets /\ j.event = got[c][i][1] => j.event \in unsure

\* What the steps of an event may not spoil, and what holds of the workers and handlers.
Flow == /\ NotEchoed /\ OneListener
        /\ InboxOrder /\ JobOrder /\ GotOrder /\ ChannelOrder
        /\ JobOnce /\ GotOnce /\ OnceUnlessUnsure

IInv == /\ TypeOK
        /\ Published /\ Subscribed /\ Dispatches /\ Waiting /\ OwedIsOpen
        /\ RegisteredHasHandler /\ NothingForgotten
        /\ Flow

-----------------------------------------------------------------------------
(***************************************************************************)
(* Lemmas on the operators                                                 *)
(***************************************************************************)

USE DEF Events

LEMMA AppendIs ==
  ASSUME NEW S, NEW s \in Seq(S), NEW e \in S
  PROVE  /\ Append(s, e) \in Seq(S)
         /\ \A p \in 1 .. Len(s) : p \in 1 .. Len(Append(s, e)) /\ Append(s, e)[p] = s[p]
         /\ Len(s) + 1 \in 1 .. Len(Append(s, e)) /\ Append(s, e)[Len(s) + 1] = e
         /\ \A p \in 1 .. Len(Append(s, e)) :
              \/ p \in 1 .. Len(s) /\ Append(s, e)[p] = s[p]
              \/ p = Len(s) + 1 /\ Append(s, e)[p] = e
<1>1. Len(s) \in Nat /\ Len(Append(s, e)) = Len(s) + 1
  OBVIOUS
<1>2. QED
  BY <1>1

LEMMA TailIs ==
  ASSUME NEW S, NEW s \in Seq(S), s # <<>>
  PROVE  /\ Tail(s) \in Seq(S)
         /\ 1 \in 1 .. Len(s) /\ Head(s) = s[1] /\ s[1] \in S
         /\ \A p \in 1 .. Len(s) : p # 1 => /\ p - 1 \in 1 .. Len(Tail(s))
                                          /\ Tail(s)[p - 1] = s[p]
         /\ \A p \in 1 .. Len(Tail(s)) : /\ p + 1 \in 1 .. Len(s) /\ p + 1 # 1
                                          /\ Tail(s)[p] = s[p + 1]
<1>1. /\ Len(s) \in Nat \ {0} /\ Len(Tail(s)) = Len(s) - 1
      /\ Tail(s) \in Seq(S) /\ Head(s) = s[1] /\ s[1] \in S
  BY HeadTailProperties, ElementOfSeq, EmptySeq
<1>2. \A p \in 1 .. Len(Tail(s)) : Tail(s)[p] = s[p + 1]
  BY <1>1, HeadTailProperties
<1>3. QED
  BY <1>1, <1>2

\* What was in the subscriptions stays at its place, and e comes last where there is a
\* listener.
LEMMA PushedIs ==
  ASSUME inbox \in [Workers -> Seq(Events)], NEW e \in Events
  PROVE  /\ Pushed(e) \in [Workers -> Seq(Events)]
         /\ \A v \in Workers :
              /\ \A p \in 1 .. Len(inbox[v]) : /\ p \in 1 .. Len(Pushed(e)[v])
                                               /\ Pushed(e)[v][p] = inbox[v][p]
              /\ \A p \in 1 .. Len(Pushed(e)[v]) :
                   \/ p \in 1 .. Len(inbox[v]) /\ Pushed(e)[v][p] = inbox[v][p]
                   \/ p = Len(inbox[v]) + 1 /\ Hearing(v) /\ Pushed(e)[v][p] = e
              /\ Hearing(v) => /\ Len(inbox[v]) + 1 \in 1 .. Len(Pushed(e)[v])
                               /\ Pushed(e)[v][Len(inbox[v]) + 1] = e
<1>1. \A v \in Workers :
        /\ inbox[v] \in Seq(Events)
        /\ Pushed(e)[v] = IF Hearing(v) THEN Append(inbox[v], e) ELSE inbox[v]
  BY DEF Pushed
<1>2. \A v \in Workers : Append(inbox[v], e) \in Seq(Events)
  BY <1>1, AppendIs
<1>3. Pushed(e) \in [Workers -> Seq(Events)]
  BY <1>1, <1>2 DEF Pushed
<1>4. ASSUME NEW v \in Workers
      PROVE  /\ \A p \in 1 .. Len(inbox[v]) : /\ p \in 1 .. Len(Pushed(e)[v])
                                               /\ Pushed(e)[v][p] = inbox[v][p]
             /\ \A p \in 1 .. Len(Pushed(e)[v]) :
                  \/ p \in 1 .. Len(inbox[v]) /\ Pushed(e)[v][p] = inbox[v][p]
                  \/ p = Len(inbox[v]) + 1 /\ Hearing(v) /\ Pushed(e)[v][p] = e
             /\ Hearing(v) => /\ Len(inbox[v]) + 1 \in 1 .. Len(Pushed(e)[v])
                              /\ Pushed(e)[v][Len(inbox[v]) + 1] = e
  <2>1. CASE Hearing(v)
    <3>1. Pushed(e)[v] = Append(inbox[v], e) /\ inbox[v] \in Seq(Events)
      BY <1>1, <2>1
    <3> DEFINE s == inbox[v]
               t == Append(s, e)
    <3>2. /\ \A p \in 1 .. Len(s) : p \in 1 .. Len(t) /\ t[p] = s[p]
          /\ Len(s) + 1 \in 1 .. Len(t) /\ t[Len(s) + 1] = e
          /\ \A p \in 1 .. Len(t) :
               \/ p \in 1 .. Len(s) /\ t[p] = s[p]
               \/ p = Len(s) + 1 /\ t[p] = e
      BY <3>1, AppendIs
    <3>3. t = Pushed(e)[v]
      BY <3>1
    <3> HIDE DEF t
    <3>4. QED
      BY <2>1, <3>2, <3>3
  <2>2. CASE ~Hearing(v)
    BY <1>1, <2>2
  <2>3. QED
    BY <2>1, <2>2
<1>5. QED
  BY <1>3, <1>4

\* What the listener has taken is the first of its subscription; the others move up.
LEMMA TakenIs ==
  ASSUME inbox \in [Workers -> Seq(Events)], NEW w \in Workers, inbox[w] # <<>>,
         NEW after, after = [inbox EXCEPT ![w] = Tail(@)]
  PROVE  /\ after \in [Workers -> Seq(Events)]
         /\ 1 \in 1 .. Len(inbox[w]) /\ Head(inbox[w]) = inbox[w][1]
         /\ Head(inbox[w]) \in Events
         /\ \A p \in 1 .. Len(inbox[w]) : p # 1 => /\ p - 1 \in 1 .. Len(after[w])
                                                   /\ after[w][p - 1] = inbox[w][p]
         /\ \A p \in 1 .. Len(after[w]) : /\ p + 1 \in 1 .. Len(inbox[w])
                                          /\ p + 1 # 1
                                          /\ after[w][p] = inbox[w][p + 1]
         /\ \A v \in Workers : v # w => after[v] = inbox[v]
<1>1. inbox[w] \in Seq(Events)
  OBVIOUS
<1>2. after[w] = Tail(inbox[w]) /\ \A v \in Workers : v # w => after[v] = inbox[v]
  OBVIOUS
<1>3. Tail(inbox[w]) \in Seq(Events)
  BY <1>1, TailIs
<1>4. after \in [Workers -> Seq(Events)]
  BY <1>3
<1>5. PICK t : t = Tail(inbox[w])
  OBVIOUS
<1>6. /\ 1 \in 1 .. Len(inbox[w]) /\ Head(inbox[w]) = inbox[w][1] /\ inbox[w][1] \in Events
      /\ \A p \in 1 .. Len(inbox[w]) : p # 1 => /\ p - 1 \in 1 .. Len(t)
                                                /\ t[p - 1] = inbox[w][p]
      /\ \A p \in 1 .. Len(t) : /\ p + 1 \in 1 .. Len(inbox[w]) /\ p + 1 # 1
                               /\ t[p] = inbox[w][p + 1]
  BY <1>1, <1>5, TailIs
<1>7. after[w] = t
  BY <1>2, <1>5
<1>8. QED
  BY <1>2, <1>4, <1>6, <1>7

\* A dispatch at w of an event from x goes to the working connections of w but x, and
\* never to x, whatever other object has the id() of x in another process.
LEMMA SnapshotIs ==
  ASSUME TypeOK, RegisteredHasHandler, NEW w \in Workers, NEW x \in Conns \cup {Nobody}
  PROVE  /\ Snapshot(w, x) \subseteq members
         /\ \A c \in Snapshot(w, x) : Home[c] = w
         /\ x \notin Snapshot(w, x)
         /\ \A c \in Conns : conn[c] = "open" /\ Home[c] = w /\ c # x => c \in Snapshot(w, x)
<1>1. members \subseteq Conns /\ \A c \in Conns : conn[c] = "open" => c \in members
  BY DEF TypeOK, RegisteredHasHandler
<1>2. Snapshot(w, x) \subseteq members /\ \A c \in Snapshot(w, x) : Home[c] = w
  BY DEF Snapshot
<1>3. x \notin Snapshot(w, x)
  BY <1>1, NobodyAssumption DEF Snapshot
<1>4. ASSUME NEW c \in Conns, conn[c] = "open", Home[c] = w, c # x
      PROVE  c \in Snapshot(w, x)
  BY <1>1, <1>4, AddressAssumption DEF Snapshot
<1>5. QED
  BY <1>2, <1>3, <1>4

\* A dispatch that has something to send, and nothing else.
LEMMA DispatchIs ==
  ASSUME TypeOK, NEW w \in Workers, NEW e \in Events, NEW x, NEW via \in {"listener", "local"}
  PROVE  /\ Dispatch(w, e, x, via) \subseteq Job
         /\ \A j \in Dispatch(w, e, x, via) :
              /\ j.worker = w /\ j.event = e /\ j.via = via /\ ~j.waiting
              /\ j.targets = Snapshot(w, x) /\ j.dead = {}
         /\ \A j, k \in Dispatch(w, e, x, via) : j = k
         /\ Snapshot(w, x) # {} => \E j \in Dispatch(w, e, x, via) : TRUE
<1>1. Snapshot(w, x) \subseteq Conns
  BY DEF TypeOK, Snapshot
<1>2. CASE Snapshot(w, x) = {}
  BY <1>2, Zenon DEF Dispatch
<1>3. CASE Snapshot(w, x) # {}
  <2> DEFINE d == [worker |-> w, event |-> e, via |-> via, waiting |-> FALSE,
                   targets |-> Snapshot(w, x), dead |-> {}]
  <2>1. Dispatch(w, e, x, via) = {d}
    BY <1>3, Zenon DEF Dispatch
  <2>2. d \in Job
    BY <1>1 DEF Job
  <2>3. QED
    BY <2>1, <2>2
<1>4. QED
  BY <1>2, <1>3

-----------------------------------------------------------------------------
(***************************************************************************)
(* Initial states, and the steps in which something ends                   *)
(***************************************************************************)

LEMMA InitIInv == Init => IInv
<1> SUFFICES ASSUME Init PROVE IInv
  OBVIOUS
<1>1. TypeOK
  BY EventsAssumption, FaultsAssumption, RedisUrlAssumption DEF Init, TypeOK, Bus, NotStarted, Job
<1>2. Published /\ Dispatches /\ Waiting /\ OwedIsOpen
  BY DEF Init, Published, Dispatches, Waiting, OwedIsOpen
<1>3. Subscribed
  BY HomeAssumption DEF Init, Subscribed, NotStarted
<1>4. RegisteredHasHandler /\ NothingForgotten
  BY DEF Init, RegisteredHasHandler, NothingForgotten
<1>5. NotEchoed /\ OneListener /\ ChannelOrder /\ OnceUnlessUnsure
  BY DEF Init, NotEchoed, OneListener, ChannelOrder, OnceUnlessUnsure
<1>6. InboxOrder /\ JobOrder /\ GotOrder
  BY DEF Init, InboxOrder, JobOrder, GotOrder
<1>7. JobOnce /\ GotOnce
  BY DEF Init, JobOnce, GotOnce
<1>8. QED
  BY <1>1, <1>2, <1>3, <1>4, <1>5, <1>6, <1>7 DEF IInv, Flow

\* Subscriptions, dispatches and connections that end leave the others in order.
LEMMA LostFlow ==
  ASSUME IInv,
         \A w \in Workers : inbox'[w] = inbox[w] \/ inbox'[w] = <<>>,
         \A c \in Conns : got'[c] = got[c] \/ got'[c] = <<>>,
         job' \subseteq job,
         UNCHANGED <<origin, last, unsure>>
  PROVE  Flow'
<1>1. Flow /\ TypeOK
  BY DEF IInv
<1>2. \A w \in Workers : \A p \in 1 .. Len(inbox'[w]) : inbox'[w] = inbox[w]
  OBVIOUS
<1>3. \A c \in Conns : \A i \in 1 .. Len(got'[c]) : got'[c] = got[c]
  OBVIOUS
<1>4. \A c \in Conns : Home[c] \in Workers
  BY HomeAssumption
<1>5. \A j \in job : j.worker \in Workers
  BY <1>1 DEF TypeOK, Job
<1>6. NotEchoed'
  BY <1>1, <1>3 DEF Flow, NotEchoed
<1>7. OneListener'
  BY <1>1 DEF Flow, OneListener
<1>8. InboxOrder'
  BY <1>1, <1>2 DEF Flow, InboxOrder, Later
<1>9. JobOrder'
  BY <1>1, <1>2, <1>5 DEF Flow, JobOrder, Later
<1>10. GotOrder'
  BY <1>1, <1>2, <1>3, <1>4 DEF Flow, GotOrder, Later
<1>11. ChannelOrder'
  BY <1>1, <1>3 DEF Flow, ChannelOrder
<1>12. JobOnce'
  BY <1>1, <1>2, <1>5 DEF Flow, JobOnce
<1>13. GotOnce'
  BY <1>1, <1>2, <1>3, <1>4 DEF Flow, GotOnce
<1>14. OnceUnlessUnsure'
  BY <1>1, <1>3 DEF Flow, OnceUnlessUnsure
<1>15. QED
  BY <1>6, <1>7, <1>8, <1>9, <1>10, <1>11, <1>12, <1>13, <1>14 DEF Flow

LEMMA StartStep == ASSUME IInv, NEW w \in Workers, Start(w) PROVE IInv'
<1>1. /\ TypeOK /\ Published /\ Subscribed /\ Dispatches /\ Waiting /\ OwedIsOpen
      /\ RegisteredHasHandler /\ NothingForgotten
  BY DEF IInv
<1>2. /\ ~bus[w].started
      /\ UNCHANGED <<inbox, conn, members, job, origin, last, breaks, got, owed, unsure>>
  BY DEF Start, history
<1>3. faults' \in 0 .. NFaults
  BY <1>1, FaultsAssumption DEF Start, Fault, TypeOK
<1>4. /\ bus' \in [Workers -> Bus] /\ bus'[w].started
      /\ RedisUrl /\ bus'[w].available => bus'[w].listener # "none"
      /\ \A v \in Workers : v # w => bus'[v] = bus[v]
  <2>1. bus \in [Workers -> Bus]
    BY <1>1 DEF TypeOK
  <2>2. CASE bus' = [bus EXCEPT ![w].started = TRUE,
                                ![w].listener = IF RedisUrl THEN "running" ELSE "none"]
    BY <2>1, <2>2 DEF Bus
  <2>3. CASE RedisUrl /\ bus' = [bus EXCEPT ![w].started = TRUE, ![w].available = FALSE]
    BY <2>1, <2>3 DEF Bus
  <2>4. QED
    BY <2>2, <2>3 DEF Start
<1>5. TypeOK'
  BY <1>1, <1>2, <1>3, <1>4 DEF TypeOK
<1>6. Published' /\ Dispatches' /\ OwedIsOpen' /\ RegisteredHasHandler'
  BY <1>1, <1>2 DEF Published, Dispatches, OwedIsOpen, RegisteredHasHandler
<1>7. Subscribed'
  BY <1>1, <1>2, <1>3, <1>4, HomeAssumption DEF Subscribed, Usable
<1>8. Waiting'
  BY <1>1, <1>2, <1>4 DEF Waiting, Usable, TypeOK, Job
<1>9. NothingForgotten'
  <2>1. \A c \in Conns : Home[c] = w => owed[c] = {}
    BY <1>1, <1>2 DEF Subscribed, OwedIsOpen
  <2>2. \A c \in Conns : Home[c] # w => bus'[Home[c]] = bus[Home[c]]
    BY <1>4, HomeAssumption
  <2>3. QED
    BY <1>1, <1>2, <2>1, <2>2 DEF NothingForgotten
<1>10. Flow'
  BY <1>2, LostFlow
<1>11. QED
  BY <1>5, <1>6, <1>7, <1>8, <1>9, <1>10 DEF IInv

LEMMA ListenerStopsStep == ASSUME IInv, NEW w \in Workers, ListenerStops(w) PROVE IInv'
<1>1. /\ TypeOK /\ Published /\ Subscribed /\ Dispatches /\ Waiting /\ OwedIsOpen
      /\ RegisteredHasHandler /\ NothingForgotten
  BY DEF IInv
<1>2. /\ bus' = [bus EXCEPT ![w].listener = "stopped"]
      /\ inbox' = [inbox EXCEPT ![w] = <<>>]
      /\ UNCHANGED <<conn, members, job, origin, last, breaks, got, owed, unsure>>
      /\ faults' \in 0 .. NFaults
  BY <1>1, FaultsAssumption DEF ListenerStops, Fault, history, TypeOK
<1>3. /\ bus'[w].listener = "stopped" /\ bus' \in [Workers -> Bus]
      /\ \A v \in Workers : /\ bus'[v].started = bus[v].started
                            /\ bus'[v].available = bus[v].available
                            /\ v # w => bus'[v] = bus[v] /\ inbox'[v] = inbox[v]
      /\ inbox'[w] = <<>> /\ inbox' \in [Workers -> Seq(Events)]
  BY <1>1, <1>2 DEF TypeOK, Bus
<1>4. TypeOK'
  BY <1>1, <1>2, <1>3 DEF TypeOK
<1>5. Published' /\ Dispatches' /\ OwedIsOpen' /\ RegisteredHasHandler'
  BY <1>1, <1>2, <1>3 DEF Published, Dispatches, OwedIsOpen, RegisteredHasHandler
<1>6. Subscribed' /\ Waiting'
  BY <1>1, <1>2, <1>3, HomeAssumption DEF Subscribed, Waiting, Usable, TypeOK, Job
<1>7. NothingForgotten'
  BY <1>1, <1>2, <1>3, HomeAssumption DEF NothingForgotten
<1>8. Flow'
  BY <1>2, <1>3, LostFlow
<1>9. QED
  BY <1>4, <1>5, <1>6, <1>7, <1>8 DEF IInv

LEMMA WorkerStopsStep == ASSUME IInv, NEW w \in Workers, WorkerStops(w) PROVE IInv'
<1>1. /\ TypeOK /\ Published /\ Subscribed /\ Dispatches /\ Waiting /\ OwedIsOpen
      /\ RegisteredHasHandler /\ NothingForgotten
  BY DEF IInv
<1>2. /\ bus' = [bus EXCEPT ![w] = NotStarted]
      /\ inbox' = [inbox EXCEPT ![w] = <<>>]
      /\ conn' = [c \in Conns |-> IF Home[c] = w THEN "none" ELSE conn[c]]
      /\ members' = members \ {c \in Conns : Home[c] = w}
      /\ job' = {j \in job : j.worker # w}
      /\ got' = [c \in Conns |-> IF Home[c] = w THEN <<>> ELSE got[c]]
      /\ owed' = [c \in Conns |-> IF Home[c] = w THEN {} ELSE owed[c]]
      /\ UNCHANGED <<origin, last, breaks, unsure>>
      /\ faults' \in 0 .. NFaults
  BY <1>1, FaultsAssumption DEF WorkerStops, Fault, TypeOK
<1>3. /\ bus' \in [Workers -> Bus] /\ bus'[w].listener = "none" /\ ~bus'[w].started
      /\ inbox' \in [Workers -> Seq(Events)] /\ inbox'[w] = <<>>
      /\ \A v \in Workers : v # w => bus'[v] = bus[v] /\ inbox'[v] = inbox[v]
  BY <1>1, <1>2, RedisUrlAssumption DEF TypeOK, Bus, NotStarted
<1>4. \A c \in Conns : IF Home[c] = w
                       THEN conn'[c] = "none" /\ got'[c] = <<>> /\ owed'[c] = {}
                       ELSE conn'[c] = conn[c] /\ got'[c] = got[c] /\ owed'[c] = owed[c]
  BY <1>2
<1>5. got' \in [Conns -> Seq(Events \X {"listener", "local"})]
  BY <1>1, <1>2 DEF TypeOK
<1>6. TypeOK'
  BY <1>1, <1>2, <1>3, <1>5 DEF TypeOK
<1>7. Published'
  BY <1>1, <1>2, <1>3, <1>4 DEF Published
<1>8. Subscribed' /\ Waiting'
  BY <1>1, <1>2, <1>3, <1>4, HomeAssumption DEF Subscribed, Waiting, Usable, TypeOK, Job
<1>9. Dispatches' /\ OwedIsOpen' /\ RegisteredHasHandler'
  BY <1>1, <1>2, <1>4 DEF Dispatches, OwedIsOpen, RegisteredHasHandler, TypeOK, Job
<1>10. NothingForgotten'
  BY <1>1, <1>2, <1>3, <1>4, HomeAssumption DEF NothingForgotten
<1>11. Flow'
  BY <1>2, <1>3, <1>4, LostFlow
<1>12. QED
  BY <1>6, <1>7, <1>8, <1>9, <1>10, <1>11 DEF IInv

LEMMA ConnectStep == ASSUME IInv, NEW c \in Conns, Connect(c) PROVE IInv'
<1>1. /\ TypeOK /\ Published /\ Subscribed /\ Dispatches /\ Waiting /\ OwedIsOpen
      /\ RegisteredHasHandler /\ NothingForgotten
  BY DEF IInv
<1>2. /\ bus[Home[c]].started /\ conn[c] = "none"
      /\ \A j \in job : c \notin j.targets \cup j.dead
      /\ conn' = [conn EXCEPT ![c] = "open"]
      /\ members' = members \cup {c}
      /\ UNCHANGED <<bus, inbox, job, origin, last, faults, breaks, got, owed, unsure>>
  BY DEF Connect, history
<1>3. conn'[c] = "open" /\ \A d \in Conns : d # c => conn'[d] = conn[d]
  BY <1>1, <1>2 DEF TypeOK
<1>4. TypeOK'
  BY <1>1, <1>2 DEF TypeOK
<1>5. Published' /\ Waiting' /\ NothingForgotten'
  BY <1>1, <1>2 DEF Published, Waiting, Usable, NothingForgotten
<1>6. Subscribed'
  BY <1>1, <1>2, <1>3 DEF Subscribed, Usable
<1>7. Dispatches' /\ OwedIsOpen' /\ RegisteredHasHandler'
  BY <1>1, <1>2, <1>3 DEF Dispatches, OwedIsOpen, RegisteredHasHandler, TypeOK, Job
<1>8. Flow'
  BY <1>2, LostFlow
<1>9. QED
  BY <1>4, <1>5, <1>6, <1>7, <1>8 DEF IInv

LEMMA BreakStep == ASSUME IInv, NEW c \in Conns, Break(c) PROVE IInv'
<1>1. /\ TypeOK /\ Published /\ Subscribed /\ Dispatches /\ Waiting /\ OwedIsOpen
      /\ RegisteredHasHandler /\ NothingForgotten
  BY DEF IInv
<1>2. /\ conn[c] = "open"
      /\ conn' = [conn EXCEPT ![c] = "broken"]
      /\ owed' = [owed EXCEPT ![c] = {}]
      /\ UNCHANGED <<bus, inbox, members, job, origin, last, faults, got, unsure>>
      /\ breaks' \in 0 .. NBreaks
  BY <1>1, FaultsAssumption DEF Break, TypeOK
<1>3. /\ conn'[c] = "broken" /\ owed'[c] = {}
      /\ \A d \in Conns : d # c => conn'[d] = conn[d] /\ owed'[d] = owed[d]
  BY <1>1, <1>2 DEF TypeOK
<1>4. TypeOK'
  BY <1>1, <1>2 DEF TypeOK
<1>5. Published' /\ Waiting' /\ NothingForgotten'
  BY <1>1, <1>2, <1>3 DEF Published, Waiting, Usable, NothingForgotten
<1>6. Subscribed'
  BY <1>1, <1>2, <1>3 DEF Subscribed, Usable
<1>7. Dispatches' /\ OwedIsOpen' /\ RegisteredHasHandler'
  BY <1>1, <1>2, <1>3 DEF Dispatches, OwedIsOpen, RegisteredHasHandler, TypeOK, Job
<1>8. Flow'
  BY <1>2, LostFlow
<1>9. QED
  BY <1>4, <1>5, <1>6, <1>7, <1>8 DEF IInv

LEMMA DisconnectStep == ASSUME IInv, NEW c \in Conns, Disconnect(c) PROVE IInv'
<1>1. /\ TypeOK /\ Published /\ Subscribed /\ Dispatches /\ Waiting /\ OwedIsOpen
      /\ RegisteredHasHandler /\ NothingForgotten
  BY DEF IInv
<1>2. /\ conn[c] = "broken"
      /\ conn' = [conn EXCEPT ![c] = "none"]
      /\ members' = members \ {c}
      /\ got' = [got EXCEPT ![c] = <<>>]
      /\ UNCHANGED <<bus, inbox, job, origin, last, faults, breaks, owed, unsure>>
  BY DEF Disconnect
<1>3. /\ conn'[c] = "none" /\ got'[c] = <<>>
      /\ \A d \in Conns : d # c => conn'[d] = conn[d] /\ got'[d] = got[d]
  BY <1>1, <1>2 DEF TypeOK
<1>4. TypeOK'
  BY <1>1, <1>2 DEF TypeOK
<1>5. Published' /\ Waiting' /\ NothingForgotten'
  BY <1>1, <1>2, <1>3 DEF Published, Waiting, Usable, NothingForgotten
<1>6. Subscribed'
  BY <1>1, <1>2, <1>3 DEF Subscribed, Usable
<1>7. Dispatches' /\ OwedIsOpen' /\ RegisteredHasHandler'
  BY <1>1, <1>2, <1>3 DEF Dispatches, OwedIsOpen, RegisteredHasHandler, TypeOK, Job
<1>8. Flow'
  BY <1>2, <1>3, LostFlow
<1>9. QED
  BY <1>4, <1>5, <1>6, <1>7, <1>8 DEF IInv

-----------------------------------------------------------------------------
(***************************************************************************)
(* The steps in which an event is published, or published again            *)
(***************************************************************************)

LEMMA PublishedIs ==
  ASSUME TypeOK, last < NEvents, NEW x \in Conns \cup {Nobody}, NewEvent(x)
  PROVE  /\ last' = last + 1 /\ last' \in Events /\ last' \in 0 .. NEvents /\ last < last'
         /\ last \in Nat
         /\ origin' \in [Events -> Conns \cup {Nobody}] /\ origin'[last'] = x
         /\ \A f \in Events : f <= last => origin'[f] = origin[f]
<1>1. last' = last + 1 /\ origin' = [origin EXCEPT ![last + 1] = x]
  BY DEF NewEvent
<1>2. last \in Nat /\ last + 1 \in 1 .. NEvents
  BY EventsAssumption DEF TypeOK
<1>3. QED
  BY <1>1, <1>2, EventsAssumption DEF TypeOK

\* The new event is owed to working connections other than its author.
LEMMA OweIs ==
  ASSUME TypeOK, NEW x, NEW C, last + 1 \in Events
  PROVE  /\ Owe(x, C) \in [Conns -> SUBSET Events]
         /\ \A c \in Conns : \A e \in Owe(x, C)[c] :
              \/ e \in owed[c]
              \/ e = last + 1 /\ c \in C /\ c # x /\ conn[c] = "open"
BY DEF TypeOK, Owe

\* An event that is new or was sent before without an answer keeps the order when it
\* comes to the subscriptions.
LEMMA PushedFlow ==
  ASSUME IInv, NEW e \in Events, inbox' = Pushed(e), got' = got,
         unsure \subseteq unsure', e \in unsure' \/ last < e,
         \A j \in job' : \/ j \in job
                         \/ /\ j.worker \in Workers /\ j.via = "local"
                            /\ j.targets = {} /\ j.event \in unsure',
         \A f \in Events : f <= last => origin'[f] = origin[f]
  PROVE  Flow'
<1>1. Flow /\ TypeOK /\ Published
  BY DEF IInv
<1>2. inbox \in [Workers -> Seq(Events)] /\ last \in Int
  BY <1>1, EventsAssumption DEF TypeOK
<1>3. \A v \in Workers : \A p \in 1 .. Len(inbox'[v]) :
        \/ p \in 1 .. Len(inbox[v]) /\ inbox'[v][p] = inbox[v][p] /\ inbox[v][p] <= last
        \/ p = Len(inbox[v]) + 1 /\ inbox'[v][p] = e
  BY <1>1, <1>2, PushedIs DEF Published
<1>4. \A v \in Workers : \A p \in 1 .. Len(inbox[v]) : inbox[v][p] \in Events
  BY <1>2, ElementOfSeq
<1>5. \A c \in Conns : Home[c] \in Workers
  BY HomeAssumption
<1>6. \A j \in job : j.worker \in Workers /\ j.event \in Events /\ j.event <= last
  BY <1>1 DEF TypeOK, Job, Published
<1>7. \A c \in Conns : \A i \in 1 .. Len(got[c]) : got[c][i][1] \in Events /\ got[c][i][1] <= last
  <2>1. \A c \in Conns : got[c] \in Seq(Events \X {"listener", "local"})
    BY <1>1 DEF TypeOK
  <2>2. \A c \in Conns : \A i \in 1 .. Len(got[c]) : got[c][i] \in Events \X {"listener", "local"}
    BY <2>1, ElementOfSeq
  <2>3. QED
    BY <1>1, <2>2 DEF Published
<1>8. NotEchoed'
  BY <1>1, <1>7 DEF Flow, NotEchoed
<1>9. OneListener'
  BY <1>1 DEF Flow, OneListener
<1>10. InboxOrder'
  <2> SUFFICES ASSUME NEW v \in Workers, NEW p \in 1 .. Len(inbox'[v]),
                      NEW q \in 1 .. Len(inbox'[v]), p < q
               PROVE  inbox'[v][p] < inbox'[v][q] \/ inbox'[v][q] \in unsure'
    BY DEF InboxOrder, Later
  <2>1. Len(inbox[v]) \in Nat
    BY <1>2
  <2>2. p \in 1 .. Len(inbox[v]) /\ inbox'[v][p] = inbox[v][p] /\ inbox[v][p] <= last
    BY <1>3, <2>1
  <2>3. CASE q \in 1 .. Len(inbox[v]) /\ inbox'[v][q] = inbox[v][q]
    BY <1>1, <2>2, <2>3 DEF Flow, InboxOrder, Later
  <2>4. CASE inbox'[v][q] = e
    BY <1>2, <1>4, <2>2, <2>4
  <2>5. QED
    BY <1>3, <2>3, <2>4
<1>11. \A f \in Events : f <= last => f < e \/ e \in unsure'
  BY <1>2
<1>12. \A f \in Events : f <= last /\ f = e => f \in unsure'
  BY <1>2
<1>13. \A j \in job' : j.via = "listener" => j \in job
  OBVIOUS
<1>14. JobOrder'
  <2> SUFFICES ASSUME NEW j \in job', j.via = "listener",
                      NEW p \in 1 .. Len(inbox'[j.worker])
               PROVE  j.event < inbox'[j.worker][p] \/ inbox'[j.worker][p] \in unsure'
    BY DEF JobOrder, Later
  <2>1. j \in job /\ j.worker \in Workers /\ j.event \in Events /\ j.event <= last
    BY <1>6
  <2>2. CASE p \in 1 .. Len(inbox[j.worker]) /\ inbox'[j.worker][p] = inbox[j.worker][p]
    BY <1>1, <2>1, <2>2 DEF Flow, JobOrder, Later
  <2>3. CASE inbox'[j.worker][p] = e
    BY <1>11, <2>1, <2>3
  <2>4. QED
    BY <1>3, <2>1, <2>2, <2>3
<1>15. GotOrder'
  <2>1. ASSUME NEW c \in Conns, NEW i \in 1 .. Len(got[c]), got[c][i][2] = "listener",
               NEW p \in 1 .. Len(inbox'[Home[c]])
        PROVE  got[c][i][1] < inbox'[Home[c]][p] \/ inbox'[Home[c]][p] \in unsure'
    <3>1. CASE p \in 1 .. Len(inbox[Home[c]]) /\ inbox'[Home[c]][p] = inbox[Home[c]][p]
      BY <1>1, <2>1, <3>1 DEF Flow, GotOrder, Later
    <3>2. CASE inbox'[Home[c]][p] = e
      BY <1>7, <1>11, <3>2
    <3>3. QED
      BY <1>3, <1>5, <3>1, <3>2
  <2>2. ASSUME NEW c \in Conns, NEW i \in 1 .. Len(got[c]), got[c][i][2] = "listener",
               NEW j \in job', j.via = "listener", c \in j.targets
        PROVE  got[c][i][1] < j.event \/ j.event \in unsure'
    BY <1>1, <1>13, <2>2 DEF Flow, GotOrder, Later
  <2>3. QED
    BY <2>1, <2>2 DEF GotOrder, Later
<1>16. ChannelOrder'
  BY <1>1 DEF Flow, ChannelOrder
<1>17. JobOnce'
  <2>1. ASSUME NEW j \in job', NEW p \in 1 .. Len(inbox'[j.worker]),
               inbox'[j.worker][p] = j.event
        PROVE  j.event \in unsure'
    <3>1. CASE j \in job
      <4>1. j.worker \in Workers /\ j.event \in Events /\ j.event <= last
        BY <1>6, <3>1
      <4>2. CASE p \in 1 .. Len(inbox[j.worker]) /\ inbox'[j.worker][p] = inbox[j.worker][p]
        BY <1>1, <2>1, <3>1, <4>2 DEF Flow, JobOnce
      <4>3. CASE inbox'[j.worker][p] = e
        BY <1>12, <2>1, <4>1, <4>3
      <4>4. QED
        BY <1>3, <4>1, <4>2, <4>3
    <3>2. QED
      BY <3>1
  <2>2. ASSUME NEW j \in job', NEW k \in job', j # k, j.worker = k.worker, j.event = k.event
        PROVE  j.event \in unsure'
    BY <1>1, <2>2 DEF Flow, JobOnce
  <2>3. QED
    BY <2>1, <2>2 DEF JobOnce
<1>18. GotOnce'
  <2>1. ASSUME NEW c \in Conns, NEW i \in 1 .. Len(got[c]),
               NEW p \in 1 .. Len(inbox'[Home[c]]), inbox'[Home[c]][p] = got[c][i][1]
        PROVE  got[c][i][1] \in unsure'
    <3>1. CASE p \in 1 .. Len(inbox[Home[c]]) /\ inbox'[Home[c]][p] = inbox[Home[c]][p]
      BY <1>1, <2>1, <3>1 DEF Flow, GotOnce
    <3>2. CASE inbox'[Home[c]][p] = e
      BY <1>7, <1>12, <2>1, <3>2
    <3>3. QED
      BY <1>3, <1>5, <3>1, <3>2
  <2>2. ASSUME NEW c \in Conns, NEW i \in 1 .. Len(got[c]),
               NEW j \in job', c \in j.targets, j.event = got[c][i][1]
        PROVE  j.event \in unsure'
    BY <1>1, <2>2 DEF Flow, GotOnce
  <2>3. QED
    BY <2>1, <2>2 DEF GotOnce
<1>19. OnceUnlessUnsure'
  BY <1>1 DEF Flow, OnceUnlessUnsure
<1>20. QED
  BY <1>8, <1>9, <1>10, <1>14, <1>15, <1>16, <1>17, <1>18, <1>19 DEF Flow

\* So does the local dispatch of such an event.
LEMMA LocalFlow ==
  ASSUME IInv, NEW e \in Events, inbox' = inbox, got' = got, unsure' = unsure,
         e \in unsure \/ last < e,
         \A j \in job' : \/ j \in job
                         \/ j.worker \in Workers /\ j.via = "local" /\ j.event = e,
         \A j, k \in job' : j \notin job /\ k \notin job => j = k,
         \A f \in Events : f <= last => origin'[f] = origin[f]
  PROVE  Flow'
<1>1. Flow /\ TypeOK /\ Published
  BY DEF IInv
<1>2. last \in Int
  BY <1>1, EventsAssumption DEF TypeOK
<1>3. \A v \in Workers : \A p \in 1 .. Len(inbox[v]) : inbox[v][p] <= last
  BY <1>1 DEF Published
<1>4. \A c \in Conns : Home[c] \in Workers
  BY HomeAssumption
<1>5. \A j \in job : j.worker \in Workers /\ j.event \in Events /\ j.event <= last
  BY <1>1 DEF TypeOK, Job, Published
<1>6. \A c \in Conns : \A i \in 1 .. Len(got[c]) : got[c][i][1] \in Events /\ got[c][i][1] <= last
  <2>1. \A c \in Conns : got[c] \in Seq(Events \X {"listener", "local"})
    BY <1>1 DEF TypeOK
  <2>2. \A c \in Conns : \A i \in 1 .. Len(got[c]) : got[c][i] \in Events \X {"listener", "local"}
    BY <2>1, ElementOfSeq
  <2>3. QED
    BY <1>1, <2>2 DEF Published
<1>7. NotEchoed'
  BY <1>1, <1>6 DEF Flow, NotEchoed
<1>8. OneListener'
  BY <1>1 DEF Flow, OneListener
<1>9. InboxOrder'
  BY <1>1 DEF Flow, InboxOrder, Later
<1>10. JobOrder'
  BY <1>1 DEF Flow, JobOrder, Later
<1>11. GotOrder'
  BY <1>1 DEF Flow, GotOrder, Later
<1>12. ChannelOrder'
  BY <1>1 DEF Flow, ChannelOrder
<1>13. JobOnce'
  <2>1. ASSUME NEW j \in job', NEW p \in 1 .. Len(inbox[j.worker]),
               inbox[j.worker][p] = j.event
        PROVE  j.event \in unsure
    <3>1. CASE j \in job
      BY <1>1, <2>1, <3>1 DEF Flow, JobOnce
    <3>2. CASE j \notin job
      <4>1. j.worker \in Workers /\ j.event = e
        BY <3>2
      <4>2. e <= last
        BY <1>3, <2>1, <4>1
      <4>3. QED
        BY <1>2, <4>1, <4>2
    <3>3. QED
      BY <3>1, <3>2
  <2>2. ASSUME NEW j \in job', NEW k \in job', j # k, j.worker = k.worker, j.event = k.event
        PROVE  j.event \in unsure
    <3>1. CASE j \in job /\ k \in job
      BY <1>1, <2>2, <3>1 DEF Flow, JobOnce
    <3>2. CASE j \in job /\ k \notin job
      BY <1>2, <1>5, <2>2, <3>2
    <3>3. CASE j \notin job /\ k \in job
      BY <1>2, <1>5, <2>2, <3>3
    <3>4. QED
      BY <2>2, <3>1, <3>2, <3>3
  <2>3. QED
    BY <2>1, <2>2 DEF JobOnce
<1>14. GotOnce'
  <2>1. ASSUME NEW c \in Conns, NEW i \in 1 .. Len(got[c]),
               NEW j \in job', c \in j.targets, j.event = got[c][i][1]
        PROVE  j.event \in unsure
    <3>1. CASE j \in job
      BY <1>1, <2>1, <3>1 DEF Flow, GotOnce
    <3>2. CASE j \notin job
      <4>1. j.event = e /\ got[c][i][1] <= last
        BY <1>6, <3>2
      <4>2. QED
        BY <1>2, <2>1, <4>1
    <3>3. QED
      BY <3>1, <3>2
  <2>2. QED
    BY <1>1, <2>1 DEF Flow, GotOnce
<1>15. OnceUnlessUnsure'
  BY <1>1 DEF Flow, OnceUnlessUnsure
<1>16. QED
  BY <1>7, <1>8, <1>9, <1>10, <1>11, <1>12, <1>13, <1>14, <1>15 DEF Flow

\* A publication that Redis takes, with or without an answer.
LEMMA RedisPublication ==
  ASSUME IInv, NEW w \in Workers, NEW x \in Conns \cup {Nobody},
         bus[w].started, last < NEvents, Usable(w), NewEvent(x),
         inbox' = Pushed(last + 1), owed' = Owe(x, Heard \cup At(w)),
         UNCHANGED <<bus, conn, members, breaks, got>>, faults' \in 0 .. NFaults,
         unsure \subseteq unsure', unsure' \subseteq unsure \cup {last + 1},
         job \subseteq job',
         \A j \in job' : \/ j \in job
                         \/ /\ j \in Job /\ j.worker = w /\ j.event = last + 1
                            /\ j.via = "local" /\ j.waiting /\ j.targets = {} /\ j.dead = {}
                            /\ j.event \in unsure'
  PROVE  IInv'
<1>1. /\ TypeOK /\ Published /\ Subscribed /\ Dispatches /\ Waiting /\ OwedIsOpen
      /\ RegisteredHasHandler /\ NothingForgotten
  BY DEF IInv
<1>2. /\ bus[w].started /\ last < NEvents /\ Usable(w) /\ NewEvent(x)
      /\ inbox' = Pushed(last + 1)
      /\ owed' = Owe(x, Heard \cup At(w))
      /\ UNCHANGED <<bus, conn, members, breaks, got>>
  OBVIOUS
<1>3. /\ last' = last + 1 /\ last' \in Events /\ last' \in 0 .. NEvents /\ last < last'
      /\ last \in Nat
      /\ origin' \in [Events -> Conns \cup {Nobody}] /\ origin'[last'] = x
      /\ \A f \in Events : f <= last => origin'[f] = origin[f]
  BY <1>1, <1>2, PublishedIs
<1>4. PICK e \in Events : e = last + 1
  BY <1>3
<1>5. inbox \in [Workers -> Seq(Events)] /\ inbox' = Pushed(e)
  BY <1>1, <1>2, <1>4 DEF TypeOK
<1>6. /\ inbox' \in [Workers -> Seq(Events)]
      /\ \A v \in Workers :
           /\ \A p \in 1 .. Len(inbox[v]) : p \in 1 .. Len(inbox'[v]) /\ inbox'[v][p] = inbox[v][p]
           /\ \A p \in 1 .. Len(inbox'[v]) :
                \/ p \in 1 .. Len(inbox[v]) /\ inbox'[v][p] = inbox[v][p]
                \/ inbox'[v][p] = e
           /\ Hearing(v) => \E p \in 1 .. Len(inbox'[v]) : inbox'[v][p] = e
  BY <1>5, PushedIs
<1>7. /\ owed' \in [Conns -> SUBSET Events]
      /\ \A c \in Conns : \A f \in owed'[c] :
           \/ f \in owed[c]
           \/ f = e /\ c \in Heard \cup At(w) /\ c # x /\ conn[c] = "open"
  BY <1>1, <1>2, <1>4, OweIs
<1>8. TypeOK'
  <2>1. job' \subseteq Job /\ unsure' \subseteq Events
    BY <1>1, <1>3, <1>4 DEF TypeOK
  <2>2. QED
    BY <1>1, <1>2, <1>3, <1>6, <1>7, <2>1 DEF TypeOK
<1>9. Published'
  <2>1. \A v \in Workers : \A p \in 1 .. Len(inbox'[v]) : inbox'[v][p] <= last'
    <3> SUFFICES ASSUME NEW v \in Workers, NEW p \in 1 .. Len(inbox'[v])
                 PROVE  inbox'[v][p] <= last'
      OBVIOUS
    <3>1. CASE p \in 1 .. Len(inbox[v]) /\ inbox'[v][p] = inbox[v][p]
      <4>1. inbox[v][p] \in Events /\ inbox[v][p] <= last
        BY <1>1, <1>5, <3>1, ElementOfSeq DEF Published
      <4>2. QED
        BY <1>3, <3>1, <4>1
    <3>2. CASE inbox'[v][p] = e
      BY <1>3, <1>4, <3>2
    <3>3. QED
      BY <1>6, <3>1, <3>2
  <2>2. \A j \in job' : j.event <= last'
    BY <1>1, <1>2, <1>3 DEF Published, TypeOK, Job
  <2>3. \A c \in Conns : \A i \in 1 .. Len(got'[c]) : got'[c][i][1] <= last'
    <3>1. \A c \in Conns : \A i \in 1 .. Len(got[c]) : got[c][i] \in Events \X {"listener", "local"}
      BY <1>1, ElementOfSeq DEF TypeOK
    <3>2. QED
      BY <1>1, <1>2, <1>3, <3>1 DEF Published
  <2>4. \A c \in Conns : \A f \in owed'[c] : f <= last'
    <3> SUFFICES ASSUME NEW c \in Conns, NEW f \in owed'[c] PROVE f <= last'
      OBVIOUS
    <3>1. CASE f \in owed[c]
      BY <1>1, <1>3, <3>1 DEF Published, TypeOK
    <3>2. CASE f = e
      BY <1>3, <1>4, <3>2
    <3>3. QED
      BY <1>7, <3>1, <3>2
  <2>5. \A f \in unsure' : f <= last'
    BY <1>1, <1>2, <1>3 DEF Published, TypeOK
  <2>6. QED
    BY <2>1, <2>2, <2>3, <2>4, <2>5 DEF Published
<1>10. Subscribed' /\ Waiting' /\ RegisteredHasHandler'
  BY <1>1, <1>2 DEF Subscribed, Waiting, Usable, RegisteredHasHandler
<1>11. Dispatches'
  BY <1>1, <1>2, <1>3 DEF Dispatches, Published, TypeOK, Job
<1>12. OwedIsOpen'
  <2> SUFFICES ASSUME NEW c \in Conns, NEW f \in owed'[c]
               PROVE  conn'[c] = "open" /\ origin'[f] # c
    BY DEF OwedIsOpen
  <2>1. CASE f \in owed[c]
    BY <1>1, <1>2, <1>3, <2>1 DEF OwedIsOpen, Published, TypeOK
  <2>2. CASE f = e /\ c # x /\ conn[c] = "open"
    BY <1>2, <1>3, <1>4, <2>2
  <2>3. QED
    BY <1>7, <2>1, <2>2
<1>13. NothingForgotten'
  <2> SUFFICES ASSUME NEW c \in Conns, NEW f \in owed'[c], bus'[Home[c]].listener # "stopped"
               PROVE  \/ \E p \in 1 .. Len(inbox'[Home[c]]) : inbox'[Home[c]][p] = f
                      \/ \E j \in job' : /\ j.worker = Home[c] /\ j.event = f
                                         /\ j.waiting \/ c \in j.targets
    BY Zenon DEF NothingForgotten
  <2>1. Home[c] \in Workers /\ bus[Home[c]].listener # "stopped"
    BY <1>2, HomeAssumption
  <2>2. CASE f \in owed[c]
    <3>1. CASE \E p \in 1 .. Len(inbox[Home[c]]) : inbox[Home[c]][p] = f
      BY <1>6, <2>1, <3>1
    <3>2. CASE \E j \in job : /\ j.worker = Home[c] /\ j.event = f
                              /\ j.waiting \/ c \in j.targets
      BY <3>2
    <3>3. QED
      BY <1>1, <2>2, <3>1, <3>2 DEF NothingForgotten
  <2>3. CASE f = e /\ c \in Heard \cup At(w)
    <3>1. Hearing(Home[c])
      BY <1>1, <1>2, <2>1, <2>3 DEF Heard, At, Hearing, Subscribed, TypeOK, Bus
    <3>2. QED
      BY <1>6, <2>1, <2>3, <3>1
  <2>4. QED
    BY <1>7, <2>2, <2>3
<1>14. Flow'
  BY <1>2, <1>3, <1>4, <1>5, PushedFlow
<1>15. QED
  BY <1>8, <1>9, <1>10, <1>11, <1>12, <1>13, <1>14 DEF IInv

LEMMA PublishRedisStep ==
  ASSUME IInv, NEW w \in Workers, NEW x \in Conns \cup {Nobody}, PublishRedis(w, x)
  PROVE  IInv'
<1>1. faults' \in 0 .. NFaults
  BY DEF PublishRedis, IInv, TypeOK
<1>2. QED
  BY <1>1, RedisPublication DEF PublishRedis, MayPublish

LEMMA PublishUnsureStep ==
  ASSUME IInv, NEW w \in Workers, NEW x \in Conns \cup {Nobody}, PublishUnsure(w, x)
  PROVE  IInv'
<1>1. /\ bus[w].started /\ last < NEvents /\ Usable(w) /\ NewEvent(x) /\ Fault
      /\ inbox' = Pushed(last + 1)
      /\ owed' = Owe(x, Heard \cup At(w))
      /\ unsure' = unsure \cup {last + 1}
      /\ UNCHANGED <<bus, conn, members, breaks, got>>
  BY DEF PublishUnsure, MayPublish
<1>2. TypeOK
  BY DEF IInv
<1>3. faults' \in 0 .. NFaults
  BY <1>1, <1>2, FaultsAssumption DEF Fault, TypeOK
<1>4. last + 1 \in Events
  BY <1>1, <1>2, PublishedIs
<1>5. PICK k : /\ k \in Job /\ k.worker = w /\ k.event = last + 1 /\ k.via = "local"
               /\ k.waiting /\ k.targets = {} /\ k.dead = {}
               /\ job' = job \cup {k}
  <2> DEFINE k == [worker |-> w, event |-> last + 1, via |-> "local", waiting |-> TRUE,
                   targets |-> {}, dead |-> {}]
  <2>1. job' = job \cup {k}
    BY DEF PublishUnsure
  <2>2. /\ k \in Job /\ k.worker = w /\ k.event = last + 1 /\ k.via = "local"
        /\ k.waiting /\ k.targets = {} /\ k.dead = {}
    BY <1>4 DEF Job
  <2>3. QED
    BY <2>1, <2>2
<1>6. QED
  BY <1>1, <1>3, <1>5, RedisPublication

LEMMA PublishLocalStep ==
  ASSUME IInv, NEW w \in Workers, NEW x \in Conns \cup {Nobody}, PublishLocal(w, x)
  PROVE  IInv'
<1>1. /\ TypeOK /\ Published /\ Subscribed /\ Dispatches /\ Waiting /\ OwedIsOpen
      /\ RegisteredHasHandler /\ NothingForgotten
  BY DEF IInv
<1>2. /\ last < NEvents /\ NewEvent(x)
      /\ owed' = Owe(x, At(w))
      /\ job' = job \cup Dispatch(w, last + 1, x, "local")
      /\ UNCHANGED <<bus, inbox, conn, members, breaks, got, unsure>>
  BY DEF PublishLocal, MayPublish
<1>3. faults' \in 0 .. NFaults
  BY <1>1, FaultsAssumption DEF PublishLocal, Fault, TypeOK
<1>4. /\ last' = last + 1 /\ last' \in Events /\ last' \in 0 .. NEvents /\ last < last'
      /\ last \in Nat
      /\ origin' \in [Events -> Conns \cup {Nobody}] /\ origin'[last'] = x
      /\ \A f \in Events : f <= last => origin'[f] = origin[f]
  BY <1>1, <1>2, PublishedIs
<1>5. PICK e \in Events : e = last + 1
  BY <1>4
<1>6. PICK D : D = Dispatch(w, e, x, "local")
  OBVIOUS
<1>7. /\ job' = job \cup D /\ D \subseteq Job
      /\ \A j \in D : /\ j.worker = w /\ j.event = e /\ j.via = "local" /\ ~j.waiting
                      /\ j.targets = Snapshot(w, x) /\ j.dead = {}
      /\ \A j, k \in D : j = k
      /\ Snapshot(w, x) # {} => \E j \in D : TRUE
  BY <1>1, <1>2, <1>5, <1>6, DispatchIs
<1>8. /\ \A c \in Snapshot(w, x) : Home[c] = w
      /\ x \notin Snapshot(w, x)
      /\ \A c \in Conns : conn[c] = "open" /\ Home[c] = w /\ c # x => c \in Snapshot(w, x)
  BY <1>1, SnapshotIs
<1>9. /\ owed' \in [Conns -> SUBSET Events]
      /\ \A c \in Conns : \A f \in owed'[c] :
           \/ f \in owed[c]
           \/ f = e /\ Home[c] = w /\ c # x /\ conn[c] = "open"
  BY <1>1, <1>2, <1>4, <1>5, OweIs DEF At
<1>10. TypeOK'
  <2>1. job' \subseteq Job
    BY <1>1, <1>7 DEF TypeOK
  <2>2. QED
    BY <1>1, <1>2, <1>3, <1>4, <1>9, <2>1 DEF TypeOK
<1>11. Published'
  <2>1. \A v \in Workers : \A p \in 1 .. Len(inbox[v]) : inbox[v][p] <= last'
    <3>1. \A v \in Workers : \A p \in 1 .. Len(inbox[v]) : inbox[v][p] \in Events
      BY <1>1, ElementOfSeq DEF TypeOK
    <3>2. QED
      BY <1>1, <1>4, <3>1 DEF Published
  <2>2. \A j \in job' : j.event <= last'
    BY <1>1, <1>4, <1>5, <1>7 DEF Published, TypeOK, Job
  <2>3. \A c \in Conns : \A i \in 1 .. Len(got[c]) : got[c][i][1] <= last'
    <3>1. \A c \in Conns : \A i \in 1 .. Len(got[c]) : got[c][i] \in Events \X {"listener", "local"}
      BY <1>1, ElementOfSeq DEF TypeOK
    <3>2. QED
      BY <1>1, <1>4, <3>1 DEF Published
  <2>4. \A c \in Conns : \A f \in owed'[c] : f <= last'
    <3> SUFFICES ASSUME NEW c \in Conns, NEW f \in owed'[c] PROVE f <= last'
      OBVIOUS
    <3>1. CASE f \in owed[c]
      BY <1>1, <1>4, <3>1 DEF Published, TypeOK
    <3>2. CASE f = e
      BY <1>4, <1>5, <3>2
    <3>3. QED
      BY <1>9, <3>1, <3>2
  <2>5. \A f \in unsure : f <= last'
    <3>1. \A f \in unsure : f \in Events /\ f <= last
      BY <1>1 DEF Published, TypeOK
    <3>2. QED
      BY <1>4, <3>1
  <2>6. QED
    BY <1>2, <2>1, <2>2, <2>3, <2>4, <2>5 DEF Published
<1>12. Subscribed' /\ Waiting' /\ RegisteredHasHandler'
  BY <1>1, <1>2, <1>7 DEF Subscribed, Waiting, Usable, RegisteredHasHandler
<1>13. Dispatches'
  <2> SUFFICES ASSUME NEW j \in job'
               PROVE  /\ \A c \in j.targets \cup j.dead : Home[c] = j.worker
                      /\ \A c \in j.dead : conn[c] # "open"
                      /\ origin'[j.event] \notin j.targets
    BY <1>2 DEF Dispatches
  <2>1. CASE j \in job
    BY <1>1, <1>4, <2>1 DEF Dispatches, Published, TypeOK, Job
  <2>2. CASE j \in D
    BY <1>4, <1>5, <1>7, <1>8, <2>2
  <2>3. QED
    BY <1>7, <2>1, <2>2
<1>14. OwedIsOpen'
  <2> SUFFICES ASSUME NEW c \in Conns, NEW f \in owed'[c]
               PROVE  conn'[c] = "open" /\ origin'[f] # c
    BY DEF OwedIsOpen
  <2>1. CASE f \in owed[c]
    BY <1>1, <1>2, <1>4, <2>1 DEF OwedIsOpen, Published, TypeOK
  <2>2. CASE f = e /\ c # x /\ conn[c] = "open"
    BY <1>2, <1>4, <1>5, <2>2
  <2>3. QED
    BY <1>9, <2>1, <2>2
<1>15. NothingForgotten'
  <2> SUFFICES ASSUME NEW c \in Conns, NEW f \in owed'[c], bus'[Home[c]].listener # "stopped"
               PROVE  \/ \E p \in 1 .. Len(inbox'[Home[c]]) : inbox'[Home[c]][p] = f
                      \/ \E j \in job' : /\ j.worker = Home[c] /\ j.event = f
                                         /\ j.waiting \/ c \in j.targets
    BY Zenon DEF NothingForgotten
  <2>1. CASE f \in owed[c]
    BY <1>1, <1>2, <2>1 DEF NothingForgotten
  <2>2. CASE f = e /\ Home[c] = w /\ c # x /\ conn[c] = "open"
    BY <1>7, <1>8, <2>2
  <2>3. QED
    BY <1>9, <2>1, <2>2
<1>16. Flow'
  BY <1>2, <1>4, <1>5, <1>7, LocalFlow
<1>17. QED
  BY <1>10, <1>11, <1>12, <1>13, <1>14, <1>15, <1>16 DEF IInv

LEMMA ResendStep == ASSUME IInv, NEW w \in Workers, Resend(w) PROVE IInv'
<1>1. /\ TypeOK /\ Published /\ Subscribed /\ Dispatches /\ Waiting /\ OwedIsOpen
      /\ RegisteredHasHandler /\ NothingForgotten
  BY DEF IInv
<1>2. PICK j \in job : /\ j.worker = w /\ j.waiting
                       /\ inbox' = Pushed(j.event)
                       /\ job' = job \ {j}
                       /\ UNCHANGED <<bus, conn, members, origin, last, faults, breaks,
                                      got, owed, unsure>>
  BY DEF Resend, history
<1>3. PICK e \in Events : e = j.event
  BY <1>1 DEF TypeOK, Job
<1>4. e \in unsure /\ e <= last /\ bus[w].started /\ Usable(w)
  BY <1>1, <1>2, <1>3 DEF Waiting, Published
<1>5. /\ inbox' \in [Workers -> Seq(Events)]
      /\ \A v \in Workers :
           /\ \A p \in 1 .. Len(inbox[v]) : p \in 1 .. Len(inbox'[v]) /\ inbox'[v][p] = inbox[v][p]
           /\ \A p \in 1 .. Len(inbox'[v]) :
                \/ p \in 1 .. Len(inbox[v]) /\ inbox'[v][p] = inbox[v][p]
                \/ inbox'[v][p] = e
           /\ Hearing(v) => \E p \in 1 .. Len(inbox'[v]) : inbox'[v][p] = e
  <2>1. inbox \in [Workers -> Seq(Events)] /\ inbox' = Pushed(e)
    BY <1>1, <1>2, <1>3 DEF TypeOK
  <2>2. PICK t : t = Pushed(e)
    OBVIOUS
  <2>3. /\ t \in [Workers -> Seq(Events)]
        /\ \A v \in Workers :
             /\ \A p \in 1 .. Len(inbox[v]) : p \in 1 .. Len(t[v]) /\ t[v][p] = inbox[v][p]
             /\ \A p \in 1 .. Len(t[v]) :
                  \/ p \in 1 .. Len(inbox[v]) /\ t[v][p] = inbox[v][p]
                  \/ t[v][p] = e
             /\ Hearing(v) => \E p \in 1 .. Len(t[v]) : t[v][p] = e
    <3>1. /\ Pushed(e) \in [Workers -> Seq(Events)]
          /\ \A v \in Workers :
               /\ \A p \in 1 .. Len(inbox[v]) : /\ p \in 1 .. Len(Pushed(e)[v])
                                                /\ Pushed(e)[v][p] = inbox[v][p]
               /\ \A p \in 1 .. Len(Pushed(e)[v]) :
                    \/ p \in 1 .. Len(inbox[v]) /\ Pushed(e)[v][p] = inbox[v][p]
                    \/ p = Len(inbox[v]) + 1 /\ Hearing(v) /\ Pushed(e)[v][p] = e
               /\ Hearing(v) => /\ Len(inbox[v]) + 1 \in 1 .. Len(Pushed(e)[v])
                                /\ Pushed(e)[v][Len(inbox[v]) + 1] = e
      BY <2>1, PushedIs, Zenon
    <3>2. QED
      BY <2>2, <3>1
  <2>4. inbox' = t
    BY <2>1, <2>2
  <2>5. QED
    BY <2>3, <2>4, Zenon
<1>6. TypeOK'
  BY <1>1, <1>2, <1>5 DEF TypeOK
<1>7. Published'
  BY <1>1, <1>2, <1>4, <1>5 DEF Published
<1>8. Subscribed' /\ Waiting' /\ RegisteredHasHandler' /\ Dispatches' /\ OwedIsOpen'
  BY <1>1, <1>2 DEF Subscribed, Waiting, Usable, RegisteredHasHandler, Dispatches, OwedIsOpen
<1>9. NothingForgotten'
  <2> SUFFICES ASSUME NEW c \in Conns, NEW f \in owed'[c], bus'[Home[c]].listener # "stopped"
               PROVE  \/ \E p \in 1 .. Len(inbox'[Home[c]]) : inbox'[Home[c]][p] = f
                      \/ \E k \in job' : /\ k.worker = Home[c] /\ k.event = f
                                         /\ k.waiting \/ c \in k.targets
    BY Zenon DEF NothingForgotten
  <2>1. Home[c] \in Workers /\ f \in owed[c] /\ bus[Home[c]].listener # "stopped"
    BY <1>2, HomeAssumption
  <2>2. CASE \E p \in 1 .. Len(inbox[Home[c]]) : inbox[Home[c]][p] = f
    BY <1>5, <2>1, <2>2
  <2>3. CASE \E k \in job : /\ k # j /\ k.worker = Home[c] /\ k.event = f
                            /\ k.waiting \/ c \in k.targets
    BY <1>2, <2>3
  <2>4. CASE Home[c] = w /\ f = e
    <3>1. Hearing(w)
      BY <1>1, <1>4, <2>1, <2>4 DEF Hearing, Subscribed, TypeOK, Bus
    <3>2. QED
      BY <1>5, <2>4, <3>1
  <2>5. QED
    BY <1>1, <1>2, <1>3, <2>1, <2>2, <2>3, <2>4 DEF NothingForgotten
<1>10. Flow'
  BY <1>2, <1>3, <1>4, PushedFlow
<1>11. QED
  BY <1>6, <1>7, <1>8, <1>9, <1>10 DEF IInv

LEMMA FallbackStep == ASSUME IInv, NEW w \in Workers, Fallback(w) PROVE IInv'
<1>1. /\ TypeOK /\ Published /\ Subscribed /\ Dispatches /\ Waiting /\ OwedIsOpen
      /\ RegisteredHasHandler /\ NothingForgotten
  BY DEF IInv
<1>2. PICK j \in job : /\ j.worker = w /\ j.waiting
                       /\ job' = (job \ {j}) \cup Dispatch(w, j.event, origin[j.event], "local")
                       /\ UNCHANGED <<bus, inbox, conn, members, origin, last, faults, breaks,
                                      got, owed, unsure>>
  BY DEF Fallback, history
<1>3. PICK e \in Events : e = j.event
  BY <1>1 DEF TypeOK, Job
<1>4. e \in unsure /\ e <= last
  BY <1>1, <1>2, <1>3 DEF Waiting, Published
<1>5. PICK x \in Conns \cup {Nobody} : x = origin[e]
  BY <1>1 DEF TypeOK
<1>6. PICK D : D = Dispatch(w, e, x, "local")
  OBVIOUS
<1>7. /\ job' = (job \ {j}) \cup D /\ D \subseteq Job
      /\ \A k \in D : /\ k.worker = w /\ k.event = e /\ k.via = "local" /\ ~k.waiting
                      /\ k.targets = Snapshot(w, x) /\ k.dead = {}
      /\ \A k, l \in D : k = l
      /\ Snapshot(w, x) # {} => \E k \in D : TRUE
  BY <1>1, <1>2, <1>3, <1>5, <1>6, DispatchIs
<1>8. /\ \A c \in Snapshot(w, x) : Home[c] = w
      /\ x \notin Snapshot(w, x)
      /\ \A c \in Conns : conn[c] = "open" /\ Home[c] = w /\ c # x => c \in Snapshot(w, x)
  BY <1>1, SnapshotIs
<1>9. TypeOK'
  <2>1. job' \subseteq Job
    BY <1>1, <1>7 DEF TypeOK
  <2>2. QED
    BY <1>1, <1>2, <2>1 DEF TypeOK
<1>10. Published'
  BY <1>1, <1>2, <1>4, <1>7 DEF Published
<1>11. Subscribed' /\ Waiting' /\ RegisteredHasHandler' /\ OwedIsOpen'
  BY <1>1, <1>2, <1>7 DEF Subscribed, Waiting, Usable, RegisteredHasHandler, OwedIsOpen
<1>12. Dispatches'
  BY <1>1, <1>2, <1>5, <1>7, <1>8 DEF Dispatches
<1>13. NothingForgotten'
  <2> SUFFICES ASSUME NEW c \in Conns, NEW f \in owed'[c], bus'[Home[c]].listener # "stopped"
               PROVE  \/ \E p \in 1 .. Len(inbox'[Home[c]]) : inbox'[Home[c]][p] = f
                      \/ \E k \in job' : /\ k.worker = Home[c] /\ k.event = f
                                         /\ k.waiting \/ c \in k.targets
    BY Zenon DEF NothingForgotten
  <2>1. f \in owed[c] /\ bus[Home[c]].listener # "stopped"
    BY <1>2
  <2>2. CASE \E p \in 1 .. Len(inbox[Home[c]]) : inbox[Home[c]][p] = f
    BY <1>2, <2>2
  <2>3. CASE \E k \in job : /\ k # j /\ k.worker = Home[c] /\ k.event = f
                            /\ k.waiting \/ c \in k.targets
    BY <1>7, <2>3
  <2>4. CASE Home[c] = w /\ f = e
    <3>1. conn[c] = "open" /\ c # x
      BY <1>1, <1>5, <2>1, <2>4 DEF OwedIsOpen
    <3>2. QED
      BY <1>7, <1>8, <2>4, <3>1
  <2>5. QED
    BY <1>1, <1>2, <1>3, <2>1, <2>2, <2>3, <2>4 DEF NothingForgotten
<1>14. Flow'
  BY <1>2, <1>4, <1>7, LocalFlow
<1>15. QED
  BY <1>9, <1>10, <1>11, <1>12, <1>13, <1>14 DEF IInv

-----------------------------------------------------------------------------
(***************************************************************************)
(* The listener and the sends                                              *)
(***************************************************************************)

LEMMA TakeStep == ASSUME IInv, NEW w \in Workers, Take(w) PROVE IInv'
<1>1. /\ TypeOK /\ Published /\ Subscribed /\ Dispatches /\ Waiting /\ OwedIsOpen
      /\ RegisteredHasHandler /\ NothingForgotten /\ Flow
  BY DEF IInv
<1>2. /\ inbox[w] # <<>>
      /\ \A j \in job : j.worker = w => j.via # "listener"
      /\ job' = job \cup Dispatch(w, Head(inbox[w]), origin[Head(inbox[w])], "listener")
      /\ inbox' = [inbox EXCEPT ![w] = Tail(@)]
      /\ UNCHANGED <<bus, conn, members, origin, last, faults, breaks, got, owed, unsure>>
  BY DEF Take, history
<1>3. inbox \in [Workers -> Seq(Events)]
  BY <1>1 DEF TypeOK
<1>4. /\ inbox' \in [Workers -> Seq(Events)]
      /\ 1 \in 1 .. Len(inbox[w]) /\ Head(inbox[w]) = inbox[w][1]
      /\ Head(inbox[w]) \in Events
      /\ \A p \in 1 .. Len(inbox[w]) : p # 1 => /\ p - 1 \in 1 .. Len(inbox'[w])
                                                /\ inbox'[w][p - 1] = inbox[w][p]
      /\ \A p \in 1 .. Len(inbox'[w]) : /\ p + 1 \in 1 .. Len(inbox[w])
                                        /\ p + 1 # 1
                                        /\ inbox'[w][p] = inbox[w][p + 1]
      /\ \A v \in Workers : v # w => inbox'[v] = inbox[v]
  <2>1. PICK t : t = [inbox EXCEPT ![w] = Tail(@)]
    OBVIOUS
  <2>2. /\ t \in [Workers -> Seq(Events)]
        /\ 1 \in 1 .. Len(inbox[w]) /\ Head(inbox[w]) = inbox[w][1]
        /\ Head(inbox[w]) \in Events
        /\ \A p \in 1 .. Len(inbox[w]) : p # 1 => /\ p - 1 \in 1 .. Len(t[w])
                                                  /\ t[w][p - 1] = inbox[w][p]
        /\ \A p \in 1 .. Len(t[w]) : /\ p + 1 \in 1 .. Len(inbox[w])
                                     /\ p + 1 # 1
                                     /\ t[w][p] = inbox[w][p + 1]
        /\ \A v \in Workers : v # w => t[v] = inbox[v]
    BY <1>2, <1>3, <2>1, TakenIs
  <2>3. inbox' = t
    BY <1>2, <2>1
  <2>4. QED
    BY <2>2, <2>3, Zenon
<1>5. PICK e \in Events : e = Head(inbox[w])
  BY <1>4
<1>6. e = inbox[w][1]
  BY <1>4, <1>5
<1>7. PICK x \in Conns \cup {Nobody} : x = origin[e]
  BY <1>1 DEF TypeOK
<1>8. PICK D : D = Dispatch(w, e, x, "listener")
  OBVIOUS
<1>9. /\ job' = job \cup D /\ D \subseteq Job
      /\ \A j \in D : /\ j.worker = w /\ j.event = e /\ j.via = "listener" /\ ~j.waiting
                      /\ j.targets = Snapshot(w, x) /\ j.dead = {}
      /\ \A j, k \in D : j = k
      /\ Snapshot(w, x) # {} => \E j \in D : TRUE
  BY <1>1, <1>2, <1>5, <1>7, <1>8, DispatchIs
<1>10. /\ \A c \in Snapshot(w, x) : Home[c] = w
       /\ Snapshot(w, x) \subseteq Conns
       /\ x \notin Snapshot(w, x)
       /\ \A c \in Conns : conn[c] = "open" /\ Home[c] = w /\ c # x => c \in Snapshot(w, x)
  BY <1>1, SnapshotIs DEF TypeOK
\* Whatever is left in a subscription was in it, behind the event taken if it is that of w.
<1>11. ASSUME NEW v \in Workers, NEW p \in 1 .. Len(inbox'[v])
       PROVE  \E q \in 1 .. Len(inbox[v]) : /\ inbox'[v][p] = inbox[v][q]
                                            /\ v = w => 1 < q
  <2>1. CASE v = w
    BY <1>4, <2>1
  <2>2. CASE v # w
    BY <1>4, <2>2
  <2>3. QED
    BY <2>1, <2>2
<1>12. \A j \in job : j.worker \in Workers
  BY <1>1 DEF TypeOK, Job
<1>13. \A c \in Conns : Home[c] \in Workers
  BY HomeAssumption
<1>14. ASSUME NEW p \in 1 .. Len(inbox'[w]) PROVE Later(e, inbox'[w][p])
  BY <1>1, <1>4, <1>6, <1>11 DEF Flow, InboxOrder
<1>15. TypeOK'
  <2>1. job' \subseteq Job
    BY <1>1, <1>9 DEF TypeOK
  <2>2. QED
    BY <1>1, <1>2, <1>4, <2>1 DEF TypeOK
<1>16. Published'
  <2>1. \A v \in Workers : \A p \in 1 .. Len(inbox'[v]) : inbox'[v][p] <= last
    BY <1>1, <1>11 DEF Published
  <2>2. e <= last
    BY <1>1, <1>4, <1>6 DEF Published
  <2>3. QED
    BY <1>1, <1>2, <1>9, <2>1, <2>2 DEF Published
<1>17. Subscribed' /\ Waiting' /\ RegisteredHasHandler' /\ OwedIsOpen'
  BY <1>1, <1>2, <1>9 DEF Subscribed, Waiting, Usable, RegisteredHasHandler, OwedIsOpen
<1>18. Dispatches'
  BY <1>1, <1>2, <1>7, <1>9, <1>10 DEF Dispatches
<1>19. NothingForgotten'
  <2> SUFFICES ASSUME NEW c \in Conns, NEW f \in owed'[c], bus'[Home[c]].listener # "stopped"
               PROVE  \/ \E p \in 1 .. Len(inbox'[Home[c]]) : inbox'[Home[c]][p] = f
                      \/ \E k \in job' : /\ k.worker = Home[c] /\ k.event = f
                                         /\ k.waiting \/ c \in k.targets
    BY Zenon DEF NothingForgotten
  <2>1. f \in owed[c] /\ bus[Home[c]].listener # "stopped"
    BY <1>2
  <2>2. CASE \E k \in job : /\ k.worker = Home[c] /\ k.event = f
                            /\ k.waiting \/ c \in k.targets
    BY <1>9, <2>2
  <2>3. ASSUME NEW p \in 1 .. Len(inbox[Home[c]]), inbox[Home[c]][p] = f
        PROVE  \/ \E q \in 1 .. Len(inbox'[Home[c]]) : inbox'[Home[c]][q] = f
               \/ \E k \in job' : /\ k.worker = Home[c] /\ k.event = f
                                  /\ k.waiting \/ c \in k.targets
    <3>1. CASE Home[c] # w
      BY <1>4, <1>13, <2>3, <3>1
    <3>2. CASE Home[c] = w /\ p # 1
      BY <1>4, <2>3, <3>2
    <3>3. CASE Home[c] = w /\ p = 1
      <4>1. f = e /\ conn[c] = "open" /\ c # x
        BY <1>1, <1>6, <1>7, <2>1, <2>3, <3>3 DEF OwedIsOpen
      <4>2. QED
        BY <1>9, <1>10, <3>3, <4>1
    <3>4. QED
      BY <3>1, <3>2, <3>3
  <2>4. QED
    BY <1>1, <2>1, <2>2, <2>3 DEF NothingForgotten
<1>20. NotEchoed'
  BY <1>1, <1>2 DEF Flow, NotEchoed
<1>21. OneListener'
  BY <1>1, <1>2, <1>9 DEF Flow, OneListener
<1>22. InboxOrder'
  <2> SUFFICES ASSUME NEW v \in Workers, NEW p \in 1 .. Len(inbox'[v]),
                      NEW q \in 1 .. Len(inbox'[v]), p < q
               PROVE  inbox'[v][p] < inbox'[v][q] \/ inbox'[v][q] \in unsure
    BY <1>2 DEF InboxOrder, Later
  <2>1. CASE v = w
    <3>1. p + 1 < q + 1
      BY <1>4, <2>1
    <3>2. QED
      BY <1>1, <1>4, <2>1, <3>1 DEF Flow, InboxOrder, Later
  <2>2. CASE v # w
    BY <1>1, <1>4, <2>2 DEF Flow, InboxOrder, Later
  <2>3. QED
    BY <2>1, <2>2
<1>23. JobOrder'
  <2> SUFFICES ASSUME NEW j \in job', j.via = "listener",
                      NEW p \in 1 .. Len(inbox'[j.worker])
               PROVE  Later(j.event, inbox'[j.worker][p])
    BY <1>2 DEF JobOrder, Later
  <2>1. CASE j \in job
    BY <1>1, <1>11, <1>12, <2>1 DEF Flow, JobOrder
  <2>2. CASE j \in D
    BY <1>9, <1>14, <2>2
  <2>3. QED
    BY <1>9, <2>1, <2>2
<1>24. GotOrder'
  <2>1. ASSUME NEW c \in Conns, NEW i \in 1 .. Len(got[c]), got[c][i][2] = "listener",
               NEW p \in 1 .. Len(inbox'[Home[c]])
        PROVE  Later(got[c][i][1], inbox'[Home[c]][p])
    BY <1>1, <1>11, <1>13, <2>1 DEF Flow, GotOrder
  <2>2. ASSUME NEW c \in Conns, NEW i \in 1 .. Len(got[c]), got[c][i][2] = "listener",
               NEW j \in job', j.via = "listener", c \in j.targets
        PROVE  Later(got[c][i][1], j.event)
    <3>1. CASE j \in job
      BY <1>1, <2>2, <3>1 DEF Flow, GotOrder
    <3>2. CASE j \in D
      <4>1. Home[c] = w /\ j.event = inbox[w][1]
        BY <1>6, <1>9, <1>10, <2>2, <3>2
      <4>2. QED
        BY <1>1, <1>4, <2>2, <4>1 DEF Flow, GotOrder
    <3>3. QED
      BY <1>9, <3>1, <3>2
  <2>3. QED
    BY <1>2, <2>1, <2>2 DEF GotOrder, Later
<1>25. ChannelOrder'
  BY <1>1, <1>2 DEF Flow, ChannelOrder
<1>26. JobOnce'
  <2>1. ASSUME NEW j \in job', NEW p \in 1 .. Len(inbox'[j.worker]),
               inbox'[j.worker][p] = j.event
        PROVE  j.event \in unsure
    <3>1. CASE j \in job
      BY <1>1, <1>11, <1>12, <2>1, <3>1 DEF Flow, JobOnce
    <3>2. CASE j \in D
      <4>1. Later(e, inbox'[w][p]) /\ inbox'[w][p] = e
        BY <1>9, <1>14, <2>1, <3>2
      <4>2. QED
        BY <1>9, <3>2, <4>1 DEF Later
    <3>3. QED
      BY <1>9, <3>1, <3>2
  <2>2. ASSUME NEW j \in job, j.worker = w, j.event = e
        PROVE  e \in unsure
    BY <1>1, <1>4, <1>6, <2>2 DEF Flow, JobOnce
  <2>3. ASSUME NEW j \in job', NEW k \in job', j # k, j.worker = k.worker, j.event = k.event
        PROVE  j.event \in unsure
    <3>1. CASE j \in job /\ k \in job
      BY <1>1, <2>3, <3>1 DEF Flow, JobOnce
    <3>2. CASE j \in D \/ k \in D
      BY <1>9, <2>2, <2>3, <3>2
    <3>3. QED
      BY <1>9, <3>1, <3>2
  <2>4. QED
    BY <1>2, <2>1, <2>3 DEF JobOnce
<1>27. GotOnce'
  <2>1. ASSUME NEW c \in Conns, NEW i \in 1 .. Len(got[c]),
               NEW p \in 1 .. Len(inbox'[Home[c]]), inbox'[Home[c]][p] = got[c][i][1]
        PROVE  got[c][i][1] \in unsure
    BY <1>1, <1>11, <1>13, <2>1 DEF Flow, GotOnce
  <2>2. ASSUME NEW c \in Conns, NEW i \in 1 .. Len(got[c]),
               NEW j \in job', c \in j.targets, j.event = got[c][i][1]
        PROVE  j.event \in unsure
    <3>1. CASE j \in job
      BY <1>1, <2>2, <3>1 DEF Flow, GotOnce
    <3>2. CASE j \in D
      <4>1. Home[c] = w /\ j.event = inbox[w][1]
        BY <1>6, <1>9, <1>10, <2>2, <3>2
      <4>2. QED
        BY <1>1, <1>4, <2>2, <4>1 DEF Flow, GotOnce
    <3>3. QED
      BY <1>9, <3>1, <3>2
  <2>3. QED
    BY <1>2, <2>1, <2>2 DEF GotOnce
<1>28. OnceUnlessUnsure'
  BY <1>1, <1>2 DEF Flow, OnceUnlessUnsure
<1>29. Flow'
  BY <1>20, <1>21, <1>22, <1>23, <1>24, <1>25, <1>26, <1>27, <1>28 DEF Flow
<1>30. QED
  BY <1>15, <1>16, <1>17, <1>18, <1>19, <1>29 DEF IInv

\* Of a send, whatever its outcome: the dispatch goes on without the connection, which
\* is taken for dead only if it is not open.
LEMMA SendIs ==
  ASSUME TypeOK, NEW j \in job, NEW c \in Conns, SendTo(j, c)
  PROVE  /\ c \in j.targets
         /\ UNCHANGED <<bus, inbox, conn, origin, last, faults, breaks, unsure>>
         /\ \E k \in Job :
              /\ k.worker = j.worker /\ k.event = j.event /\ k.via = j.via
              /\ k.waiting = j.waiting /\ k.targets = j.targets \ {c}
              /\ k.dead \subseteq j.dead \cup {c}
              /\ conn[c] = "open" => k.dead = j.dead
              /\ Advance(j, k)
         /\ \/ /\ conn[c] = "open"
               /\ got' = [got EXCEPT ![c] = Append(@, <<j.event, j.via>>)]
               /\ owed' = [owed EXCEPT ![c] = @ \ {j.event}]
            \/ conn[c] # "open" /\ got' = got /\ owed' = owed
<1>1. j \in Job
  BY DEF TypeOK
<1>2. /\ c \in j.targets
      /\ UNCHANGED <<bus, inbox, conn, origin, last, faults, breaks, unsure>>
      /\ \/ /\ conn[c] = "open"
            /\ got' = [got EXCEPT ![c] = Append(@, <<j.event, j.via>>)]
            /\ owed' = [owed EXCEPT ![c] = @ \ {j.event}]
         \/ conn[c] # "open" /\ got' = got /\ owed' = owed
  BY DEF SendTo
<1>3. CASE Advance(j, [j EXCEPT !.targets = @ \ {c}])
  <2>1. PICK k : k = [j EXCEPT !.targets = @ \ {c}]
    OBVIOUS
  <2>2. /\ k \in Job
        /\ k.worker = j.worker /\ k.event = j.event /\ k.via = j.via
        /\ k.waiting = j.waiting /\ k.targets = j.targets \ {c} /\ k.dead = j.dead
    BY <1>1, <2>1 DEF Job
  <2>3. Advance(j, k)
    BY <1>3, <2>1
  <2>4. QED
    BY <1>2, <2>2, <2>3
<1>4. CASE /\ conn[c] # "open"
           /\ Advance(j, [j EXCEPT !.targets = @ \ {c}, !.dead = @ \cup {c}])
  <2>1. PICK k : k = [j EXCEPT !.targets = @ \ {c}, !.dead = @ \cup {c}]
    OBVIOUS
  <2>2. /\ k \in Job
        /\ k.worker = j.worker /\ k.event = j.event /\ k.via = j.via
        /\ k.waiting = j.waiting /\ k.targets = j.targets \ {c} /\ k.dead = j.dead \cup {c}
    BY <1>1, <2>1 DEF Job
  <2>3. Advance(j, k)
    BY <1>4, <2>1
  <2>4. QED
    BY <1>2, <1>4, <2>2, <2>3
<1>5. QED
  BY <1>3, <1>4 DEF SendTo

LEMMA AdvanceIs ==
  ASSUME NEW j \in job, NEW k, Advance(j, k)
  PROVE  /\ job' \subseteq (job \ {j}) \cup {k}
         /\ \A l \in job : l # j => l \in job'
         /\ k.targets # {} => k \in job'
         /\ members' = members \/ members' = members \ k.dead
BY DEF Advance

\* What was received before a send is received after it, and at most the event of the
\* dispatch comes last.
LEMMA GotIs ==
  ASSUME TypeOK, NEW j \in job, NEW c \in Conns,
         \/ got' = [got EXCEPT ![c] = Append(@, <<j.event, j.via>>)]
         \/ got' = got
  PROVE  /\ got' \in [Conns -> Seq(Events \X {"listener", "local"})]
         /\ \A d \in Conns : \A i \in 1 .. Len(got'[d]) :
              \/ i \in 1 .. Len(got[d]) /\ got'[d][i] = got[d][i]
              \/ /\ d = c /\ i = Len(got[c]) + 1
                 /\ got'[d][i][1] = j.event /\ got'[d][i][2] = j.via
<1> DEFINE S == Events \X {"listener", "local"}
           g == <<j.event, j.via>>
<1>1. got \in [Conns -> Seq(S)] /\ j \in Job
  BY DEF TypeOK
<1>2. g \in S /\ g[1] = j.event /\ g[2] = j.via
  BY <1>1 DEF Job
<1>3. CASE got' = got
  BY <1>1, <1>3
<1>4. CASE got' = [got EXCEPT ![c] = Append(@, g)]
  <2> HIDE DEF g, S
  <2>1. got[c] \in Seq(S) /\ got'[c] = Append(got[c], g)
    BY <1>1, <1>4
  <2>2. /\ Append(got[c], g) \in Seq(S)
        /\ \A i \in 1 .. Len(Append(got[c], g)) :
             \/ i \in 1 .. Len(got[c]) /\ Append(got[c], g)[i] = got[c][i]
             \/ i = Len(got[c]) + 1 /\ Append(got[c], g)[i] = g
    BY <1>2, <2>1, AppendIs
  <2>3. PICK t : t = Append(got[c], g)
    OBVIOUS
  <2>4. got' = [got EXCEPT ![c] = t] /\ t \in Seq(S)
    BY <1>4, <2>2, <2>3
  <2>5. got' \in [Conns -> Seq(S)] /\ got'[c] = t /\ \A d \in Conns : d # c => got'[d] = got[d]
    BY <1>1, <2>4
  <2>6. \A i \in 1 .. Len(t) : \/ i \in 1 .. Len(got[c]) /\ t[i] = got[c][i]
                               \/ i = Len(got[c]) + 1 /\ t[i] = g
    BY <2>2, <2>3
  <2>7. ASSUME NEW d \in Conns, NEW i \in 1 .. Len(got'[d])
        PROVE  \/ i \in 1 .. Len(got[d]) /\ got'[d][i] = got[d][i]
               \/ /\ d = c /\ i = Len(got[c]) + 1
                  /\ got'[d][i][1] = j.event /\ got'[d][i][2] = j.via
    <3>1. CASE d = c
      BY <1>2, <2>5, <2>6, <3>1
    <3>2. CASE d # c
      BY <2>5, <3>2
    <3>3. QED
      BY <3>1, <3>2
  <2>8. QED
    BY <2>5, <2>7 DEF S
<1>5. QED
  BY <1>3, <1>4

LEMMA SendNextStep == ASSUME IInv, NEW w \in Workers, SendNext(w) PROVE IInv'
<1>1. /\ TypeOK /\ Published /\ Subscribed /\ Dispatches /\ Waiting /\ OwedIsOpen
      /\ RegisteredHasHandler /\ NothingForgotten /\ Flow
  BY DEF IInv
<1>2. PICK j \in job, c \in Conns : SendTo(j, c)
  BY DEF SendNext
<1>3. /\ c \in j.targets
      /\ UNCHANGED <<bus, inbox, conn, origin, last, faults, breaks, unsure>>
      /\ \/ /\ conn[c] = "open"
            /\ got' = [got EXCEPT ![c] = Append(@, <<j.event, j.via>>)]
            /\ owed' = [owed EXCEPT ![c] = @ \ {j.event}]
         \/ conn[c] # "open" /\ got' = got /\ owed' = owed
  BY <1>1, <1>2, SendIs, Zenon
<1>4. PICK k \in Job :
        /\ k.worker = j.worker /\ k.event = j.event /\ k.via = j.via
        /\ k.waiting = j.waiting /\ k.targets = j.targets \ {c}
        /\ k.dead \subseteq j.dead \cup {c}
        /\ conn[c] = "open" => k.dead = j.dead
        /\ Advance(j, k)
  BY <1>1, <1>2, SendIs, Zenon
<1>5. /\ job' \subseteq (job \ {j}) \cup {k}
      /\ \A l \in job : l # j => l \in job'
      /\ k.targets # {} => k \in job'
      /\ members' = members \/ members' = members \ k.dead
  BY <1>4, AdvanceIs
<1>6. /\ got' \in [Conns -> Seq(Events \X {"listener", "local"})]
      /\ \A d \in Conns : \A i \in 1 .. Len(got'[d]) :
           \/ i \in 1 .. Len(got[d]) /\ got'[d][i] = got[d][i]
           \/ /\ d = c /\ i = Len(got[c]) + 1
              /\ got'[d][i][1] = j.event /\ got'[d][i][2] = j.via
  <2>1. \/ got' = [got EXCEPT ![c] = Append(@, <<j.event, j.via>>)]
        \/ got' = got
    BY <1>3, Zenon
  <2>2. QED
    BY <1>1, <2>1, GotIs, Zenon
<1>7. /\ Home[c] = j.worker /\ ~j.waiting /\ origin[j.event] # c
      /\ j.event <= last /\ j.event \in Events
      /\ \A d \in j.dead : conn[d] # "open"
      /\ \A d \in j.targets \cup j.dead : Home[d] = j.worker
      /\ origin[j.event] \notin j.targets
  BY <1>1, <1>3 DEF Dispatches, Waiting, Published, TypeOK, Job
<1>8. \A d \in k.dead : conn[d] # "open"
  BY <1>4, <1>7
<1>9. owed' \in [Conns -> SUBSET Events] /\ \A d \in Conns : owed'[d] \subseteq owed[d]
  BY <1>1, <1>3 DEF TypeOK
<1>10. TypeOK'
  <2>1. job' \subseteq Job /\ members' \subseteq Conns
    BY <1>1, <1>5 DEF TypeOK
  <2>2. QED
    BY <1>1, <1>3, <1>6, <1>9, <2>1 DEF TypeOK
<1>11. Published'
  <2>1. \A d \in Conns : \A i \in 1 .. Len(got'[d]) : got'[d][i][1] <= last
    BY <1>1, <1>6, <1>7 DEF Published
  <2>2. \A l \in job' : l.event <= last
    BY <1>1, <1>4, <1>5, <1>7 DEF Published
  <2>3. QED
    BY <1>1, <1>3, <1>9, <2>1, <2>2 DEF Published
<1>12. Subscribed' /\ OwedIsOpen'
  BY <1>1, <1>3, <1>9 DEF Subscribed, Usable, OwedIsOpen
<1>13. RegisteredHasHandler'
  BY <1>1, <1>3, <1>5, <1>8 DEF RegisteredHasHandler
<1>14. Waiting'
  BY <1>1, <1>3, <1>4, <1>5, <1>7 DEF Waiting, Usable
<1>15. Dispatches'
  <2> SUFFICES ASSUME NEW l \in job'
               PROVE  /\ \A d \in l.targets \cup l.dead : Home[d] = l.worker
                      /\ \A d \in l.dead : conn[d] # "open"
                      /\ origin[l.event] \notin l.targets
    BY <1>3 DEF Dispatches
  <2>1. CASE l \in job
    BY <1>1, <2>1 DEF Dispatches
  <2>2. CASE l = k
    BY <1>3, <1>4, <1>7, <1>8, <2>2
  <2>3. QED
    BY <1>5, <2>1, <2>2
<1>16. NothingForgotten'
  <2> SUFFICES ASSUME NEW d \in Conns, NEW f \in owed'[d], bus'[Home[d]].listener # "stopped"
               PROVE  \/ \E p \in 1 .. Len(inbox'[Home[d]]) : inbox'[Home[d]][p] = f
                      \/ \E l \in job' : /\ l.worker = Home[d] /\ l.event = f
                                         /\ l.waiting \/ d \in l.targets
    BY Zenon DEF NothingForgotten
  <2>1. f \in owed[d] /\ bus[Home[d]].listener # "stopped"
    BY <1>3, <1>9
  <2>2. CASE \E p \in 1 .. Len(inbox[Home[d]]) : inbox[Home[d]][p] = f
    BY <1>3, <2>2
  <2>3. CASE \E l \in job : /\ l # j /\ l.worker = Home[d] /\ l.event = f
                            /\ l.waiting \/ d \in l.targets
    BY <1>5, <2>3
  <2>4. CASE j.worker = Home[d] /\ j.event = f /\ d \in j.targets
    <3>1. d # c
      <4> SUFFICES ASSUME d = c PROVE FALSE
        OBVIOUS
      <4>1. conn[c] = "open"
        BY <1>1, <2>1 DEF OwedIsOpen
      <4>2. owed'[c] = owed[c] \ {j.event}
        BY <1>1, <1>3, <4>1 DEF TypeOK
      <4>3. QED
        BY <2>4, <4>2
    <3>2. d \in k.targets /\ k \in job'
      BY <1>4, <1>5, <2>4, <3>1
    <3>3. QED
      BY <1>4, <2>4, <3>2
  <2>5. QED
    BY <1>1, <1>7, <2>1, <2>2, <2>3, <2>4 DEF NothingForgotten
\* A dispatch other than that of j with the same worker and kind, or for c, is not j's.
<1>17. \A l \in job' : \/ l \in job /\ l # j
                       \/ /\ l.worker = j.worker /\ l.event = j.event /\ l.via = j.via
                          /\ l.targets = j.targets \ {c} /\ l = k
  BY <1>4, <1>5
<1>18. NotEchoed'
  <2> SUFFICES ASSUME NEW d \in Conns, NEW i \in 1 .. Len(got'[d])
               PROVE  origin[got'[d][i][1]] # d
    BY <1>3 DEF NotEchoed
  <2>1. CASE i \in 1 .. Len(got[d]) /\ got'[d][i] = got[d][i]
    BY <1>1, <2>1 DEF Flow, NotEchoed
  <2>2. CASE d = c /\ got'[d][i][1] = j.event
    BY <1>7, <2>2
  <2>3. QED
    BY <1>6, <2>1, <2>2
<1>19. OneListener'
  <2> SUFFICES ASSUME NEW l \in job', NEW m \in job',
                      l.via = "listener", m.via = "listener", l.worker = m.worker
               PROVE  l = m
    BY DEF OneListener
  <2> QED
    BY <1>1, <1>17 DEF Flow, OneListener
<1>20. InboxOrder'
  BY <1>1, <1>3 DEF Flow, InboxOrder, Later
<1>21. JobOrder'
  <2> SUFFICES ASSUME NEW l \in job', l.via = "listener",
                      NEW p \in 1 .. Len(inbox[l.worker])
               PROVE  Later(l.event, inbox[l.worker][p])
    BY <1>3 DEF JobOrder, Later
  <2> QED
    BY <1>1, <1>17 DEF Flow, JobOrder
<1>22. GotOrder'
  <2>1. ASSUME NEW d \in Conns, NEW i \in 1 .. Len(got'[d]), got'[d][i][2] = "listener",
               NEW p \in 1 .. Len(inbox[Home[d]])
        PROVE  Later(got'[d][i][1], inbox[Home[d]][p])
    <3>1. CASE i \in 1 .. Len(got[d]) /\ got'[d][i] = got[d][i]
      BY <1>1, <2>1, <3>1 DEF Flow, GotOrder
    <3>2. CASE d = c /\ got'[d][i][1] = j.event /\ got'[d][i][2] = j.via
      BY <1>1, <1>7, <2>1, <3>2 DEF Flow, JobOrder
    <3>3. QED
      BY <1>6, <3>1, <3>2
  <2>2. ASSUME NEW d \in Conns, NEW i \in 1 .. Len(got'[d]), got'[d][i][2] = "listener",
               NEW l \in job', l.via = "listener", d \in l.targets
        PROVE  Later(got'[d][i][1], l.event)
    <3>1. CASE i \in 1 .. Len(got[d]) /\ got'[d][i] = got[d][i]
      BY <1>1, <1>17, <2>2, <3>1 DEF Flow, GotOrder
    <3>2. CASE d = c /\ got'[d][i][1] = j.event /\ got'[d][i][2] = j.via
      <4>1. l \in job /\ l # j
        BY <1>17, <2>2, <3>2
      <4>2. l.worker = j.worker
        BY <1>1, <1>7, <2>2, <3>2, <4>1 DEF Dispatches
      <4>3. QED
        BY <1>1, <2>2, <3>2, <4>1, <4>2 DEF Flow, OneListener
    <3>3. QED
      BY <1>6, <3>1, <3>2
  <2>3. QED
    BY <1>3, <2>1, <2>2 DEF GotOrder, Later
<1>23. ChannelOrder'
  <2> SUFFICES ASSUME NEW d \in Conns, NEW i \in 1 .. Len(got'[d]),
                      NEW m \in 1 .. Len(got'[d]), i < m,
                      got'[d][i][2] = "listener", got'[d][m][2] = "listener"
               PROVE  got'[d][i][1] < got'[d][m][1] \/ got'[d][m][1] \in unsure
    BY <1>3 DEF ChannelOrder
  <2>1. Len(got[d]) \in Nat
    BY <1>1 DEF TypeOK
  <2>2. i \in 1 .. Len(got[d]) /\ got'[d][i] = got[d][i]
    <3>1. m <= Len(got[d]) + 1
      BY <1>6, <2>1
    <3>2. QED
      BY <1>6, <2>1, <3>1
  <2>3. CASE m \in 1 .. Len(got[d]) /\ got'[d][m] = got[d][m]
    BY <1>1, <2>2, <2>3 DEF Flow, ChannelOrder
  <2>4. CASE d = c /\ got'[d][m][1] = j.event /\ got'[d][m][2] = j.via
    <3>1. Later(got[c][i][1], j.event)
      BY <1>1, <1>3, <2>2, <2>4 DEF Flow, GotOrder
    <3>2. QED
      BY <2>2, <2>4, <3>1 DEF Later
  <2>5. QED
    BY <1>6, <2>3, <2>4
<1>24. JobOnce'
  <2>1. ASSUME NEW l \in job', NEW p \in 1 .. Len(inbox[l.worker]),
               inbox[l.worker][p] = l.event
        PROVE  l.event \in unsure
    BY <1>1, <1>17, <2>1 DEF Flow, JobOnce
  <2>2. ASSUME NEW l \in job', NEW m \in job', l # m, l.worker = m.worker, l.event = m.event
        PROVE  l.event \in unsure
    BY <1>1, <1>17, <2>2 DEF Flow, JobOnce
  <2>3. QED
    BY <1>3, <2>1, <2>2 DEF JobOnce
<1>25. GotOnce'
  <2>1. ASSUME NEW d \in Conns, NEW i \in 1 .. Len(got'[d]),
               NEW p \in 1 .. Len(inbox[Home[d]]), inbox[Home[d]][p] = got'[d][i][1]
        PROVE  got'[d][i][1] \in unsure
    <3>1. CASE i \in 1 .. Len(got[d]) /\ got'[d][i] = got[d][i]
      BY <1>1, <2>1, <3>1 DEF Flow, GotOnce
    <3>2. CASE d = c /\ got'[d][i][1] = j.event
      BY <1>1, <1>7, <2>1, <3>2 DEF Flow, JobOnce
    <3>3. QED
      BY <1>6, <3>1, <3>2
  <2>2. ASSUME NEW d \in Conns, NEW i \in 1 .. Len(got'[d]),
               NEW l \in job', d \in l.targets, l.event = got'[d][i][1]
        PROVE  l.event \in unsure
    <3>1. CASE i \in 1 .. Len(got[d]) /\ got'[d][i] = got[d][i]
      BY <1>1, <1>3, <1>17, <2>2, <3>1 DEF Flow, GotOnce
    <3>2. CASE d = c /\ got'[d][i][1] = j.event
      <4>1. l \in job /\ l # j
        BY <1>17, <2>2, <3>2
      <4>2. l.worker = j.worker
        BY <1>1, <1>7, <2>2, <3>2, <4>1 DEF Dispatches
      <4>3. QED
        BY <1>1, <2>2, <3>2, <4>1, <4>2 DEF Flow, JobOnce
    <3>3. QED
      BY <1>6, <3>1, <3>2
  <2>3. QED
    BY <1>3, <2>1, <2>2 DEF GotOnce
<1>26. OnceUnlessUnsure'
  <2> SUFFICES ASSUME NEW d \in Conns, NEW i \in 1 .. Len(got'[d]),
                      NEW m \in 1 .. Len(got'[d]), i # m, got'[d][i][1] = got'[d][m][1]
               PROVE  got'[d][i][1] \in unsure
    BY <1>3 DEF OnceUnlessUnsure
  <2>1. CASE /\ i \in 1 .. Len(got[d]) /\ got'[d][i] = got[d][i]
             /\ m \in 1 .. Len(got[d]) /\ got'[d][m] = got[d][m]
    BY <1>1, <2>1 DEF Flow, OnceUnlessUnsure
  <2>2. ASSUME NEW n \in 1 .. Len(got[c]), got[c][n][1] = j.event
        PROVE  j.event \in unsure
    BY <1>1, <1>3, <2>2 DEF Flow, GotOnce
  <2>3. CASE d = c /\ i = Len(got[c]) + 1 /\ got'[d][i][1] = j.event
    <3>1. m \in 1 .. Len(got[c]) /\ got'[c][m] = got[c][m]
      BY <1>6, <2>3
    <3>2. QED
      BY <2>2, <2>3, <3>1
  <2>4. CASE d = c /\ m = Len(got[c]) + 1 /\ got'[d][m][1] = j.event
    <3>1. i \in 1 .. Len(got[c]) /\ got'[c][i] = got[c][i]
      BY <1>6, <2>4
    <3>2. QED
      BY <2>2, <2>4, <3>1
  <2>5. QED
    BY <1>6, <2>1, <2>3, <2>4
<1>27. Flow'
  BY <1>18, <1>19, <1>20, <1>21, <1>22, <1>23, <1>24, <1>25, <1>26 DEF Flow
<1>28. QED
  BY <1>10, <1>11, <1>12, <1>13, <1>14, <1>15, <1>16, <1>27 DEF IInv

-----------------------------------------------------------------------------
(***************************************************************************)
(* Theorems                                                                *)
(***************************************************************************)

LEMMA NextIInv == IInv /\ [Next]_vars => IInv'
<1> SUFFICES ASSUME IInv, [Next]_vars PROVE IInv'
  OBVIOUS
<1>1. ASSUME NEW w \in Workers, Start(w) PROVE IInv'
  BY <1>1, StartStep
<1>2. ASSUME NEW w \in Workers, ListenerStops(w) PROVE IInv'
  BY <1>2, ListenerStopsStep
<1>3. ASSUME NEW w \in Workers, WorkerStops(w) PROVE IInv'
  BY <1>3, WorkerStopsStep
<1>4. ASSUME NEW w \in Workers, Publish(w) PROVE IInv'
  <2>1. PICK x \in Conns \cup {Nobody} :
          PublishRedis(w, x) \/ PublishUnsure(w, x) \/ PublishLocal(w, x)
    BY <1>4, SpeakersAssumption DEF Publish
  <2>2. QED
    BY <2>1, PublishRedisStep, PublishUnsureStep, PublishLocalStep
<1>5. ASSUME NEW w \in Workers, Resend(w) PROVE IInv'
  BY <1>5, ResendStep
<1>6. ASSUME NEW w \in Workers, Fallback(w) PROVE IInv'
  BY <1>6, FallbackStep
<1>7. ASSUME NEW w \in Workers, Take(w) PROVE IInv'
  BY <1>7, TakeStep
<1>8. ASSUME NEW w \in Workers, SendNext(w) PROVE IInv'
  BY <1>8, SendNextStep
<1>9. ASSUME NEW c \in Conns, Connect(c) PROVE IInv'
  BY <1>9, ConnectStep
<1>10. ASSUME NEW c \in Conns, Break(c) PROVE IInv'
  BY <1>10, BreakStep
<1>11. ASSUME NEW c \in Conns, Disconnect(c) PROVE IInv'
  BY <1>11, DisconnectStep
<1>12. CASE UNCHANGED vars
  <2>1. UNCHANGED <<bus, inbox, conn, members, job, origin, last, faults, breaks,
                    got, owed, unsure>>
    BY <1>12 DEF vars, history
  <2>2. TypeOK' /\ Published' /\ Subscribed' /\ Dispatches' /\ Waiting' /\ OwedIsOpen'
    BY <2>1 DEF IInv, TypeOK, Published, Subscribed, Dispatches, Waiting, Usable, OwedIsOpen
  <2>3. RegisteredHasHandler' /\ NothingForgotten'
    BY <2>1 DEF IInv, RegisteredHasHandler, NothingForgotten
  <2>4. Flow'
    BY <2>1, LostFlow
  <2>5. QED
    BY <2>2, <2>3, <2>4 DEF IInv
<1>13. QED
  BY <1>1, <1>2, <1>3, <1>4, <1>5, <1>6, <1>7, <1>8, <1>9, <1>10, <1>11, <1>12 DEF Next

\* Workers may start, stop and lose their listener, clients come and go, Redis take,
\* refuse or repeat an event: all of the invariant holds in every reachable state.
THEOREM Invariance == Spec => []IInv
<1>1. Init => IInv
  BY InitIInv
<1>2. IInv /\ [Next]_vars => IInv'
  BY NextIInv
<1>3. QED
  BY <1>1, <1>2, PTL DEF Spec

\* The bus, the registry, the dispatches and the histories keep their types.
THEOREM TypeCorrect == Spec => []TypeOK
<1>1. IInv => TypeOK
  BY DEF IInv
<1>2. QED
  BY <1>1, Invariance, PTL

\* An event owed to a connection is always on its way to it: no death of another
\* connection, no id() used twice and no change from Redis to local delivery loses it.
THEOREM NothingIsForgotten == Spec => []NothingForgotten
<1>1. IInv => NothingForgotten
  BY DEF IInv
<1>2. QED
  BY <1>1, Invariance, PTL

\* What comes through the listener comes in the order of publication, apart from an event
\* that was sent to Redis again.
THEOREM ChannelIsOrdered == Spec => []ChannelOrder
<1>1. IInv => ChannelOrder
  BY DEF IInv, Flow
<1>2. QED
  BY <1>1, Invariance, PTL

\* An event comes once to a connection, unless its publication had no answer.
THEOREM ComesOnce == Spec => []OnceUnlessUnsure
<1>1. IInv => OnceUnlessUnsure
  BY DEF IInv, Flow
<1>2. QED
  BY <1>1, Invariance, PTL

\* The author of a frame does not get the event of it.
THEOREM AuthorIsExcluded == Spec => []NotEchoed
<1>1. IInv => NotEchoed
  BY DEF IInv, Flow
<1>2. QED
  BY <1>1, Invariance, PTL

\* The registry holds the open connections, and only connections whose handler will
\* unregister them.
THEOREM RegistryMatchesHandlers == Spec => []RegisteredHasHandler
<1>1. IInv => RegisteredHasHandler
  BY DEF IInv
<1>2. QED
  BY <1>1, Invariance, PTL
=============================================================================
