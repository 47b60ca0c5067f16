------------------------------- MODULE Server -------------------------------
(***************************************************************************)
(* How subscription traffic crosses the two threads of the firmware: the   *)
(* HTTP task, which runs the handlers of server.rs one after the other,    *)
(* and the main loop of main.rs, which dispatches the deliveries.          *)
(*                                                                         *)
(* They share the engine, the delivery queue and the WebSocket senders,    *)
(* each behind a lock of its own, and no thread holds two of them at once  *)
(* (server.rs:3-4); a step is one critical section.  fd_map is used by the *)
(* HTTP task alone, so its lock makes no step.                             *)
(*                                                                         *)
(* The clock stands still here: lifetimes, interval subscriptions and the  *)
(* tick are in Subscriptions.  A callback by HTTP POST leaves no state and *)
(* is not told apart from a script that writes nothing.                    *)
(***************************************************************************)
EXTENDS SubscriptionRegistry

CONSTANTS Conn,           \* socket descriptors
          NoSession,      \* what fd_map holds for a descriptor it does not know
          ScriptWrites,   \* url of a script -> the paths it writes, {} or one
          CallbackAsked,  \* callback subscriptions clients ask for: <<path, url>>
          PortalMayOpen,  \* deny_api_during_provisioning is built in
          SendsMayFail,   \* a send may fail while its connection is up
          MaxSession,     \* bound: WebSocket sessions in a behaviour
          MaxWrites,      \* bound: writes over HTTP
          MaxRid          \* bound: subscriptions created

\* Session 0 is the one process() is given when fd_map has no entry.  A value
\* is known by the write over HTTP that it comes from, and by who wrote it.
ASSUME ServerAssumption ==
  /\ MaxSession \in Nat /\ MaxWrites \in Nat /\ MaxRid \in Nat
  /\ Session = 0 .. MaxSession
  /\ NoSession \notin Session
  /\ Value = [n : 1 .. MaxWrites, by : {"http", "script"}]
  /\ ScriptWrites \in [Url -> SUBSET Path]
  /\ \A u \in Url : Cardinality(ScriptWrites[u]) <= 1
  /\ CallbackAsked \subseteq Path \X Url
  /\ PortalMayOpen \in BOOLEAN /\ SendsMayFail \in BOOLEAN

VARIABLES registry,      \* engine: see SubscriptionRegistry
          pending,       \* deliveries queued for the main loop
          senders,       \* sessions with a sender in ws_senders
          fd_map,        \* fd_to_session
          next_session,  \* NEXT_WS_SESSION
          denied,        \* is_api_denied()
          peer,          \* the far end of a descriptor: "none", "up" or "gone"
          http,          \* the handler in progress: where it is, and its data
          stack,         \* calls of dispatch_deliveries in progress
          written,       \* history: how many writes over HTTP there were
          newest,        \* history: the last of them to each path
          seen           \* history: the last of those that each rid was sent,
                         \* or that was there before it subscribed

vars == <<registry, pending, senders, fd_map, next_session, denied, peer, http,
          stack, written, newest, seen>>

connection == <<fd_map, next_session, peer>>
history == <<written, newest, seen>>
-----------------------------------------------------------------------------
Idle == [at |-> "idle", deliveries |-> <<>>, session |-> NoSession]

Delivery == [rid : Rid, path : Path, values : {<<v>> : v \in Value}, target : Target]

\* One call of dispatch_deliveries: what it has still to send or to run, the
\* sessions it failed to reach, and whether it holds the engine just now.
Call == [at : {"send", "script"}, todo : Seq(Delivery), failed : SUBSET Session,
         locks : BOOLEAN]

Called(deliveries) ==
  [at |-> "send", todo |-> deliveries, failed |-> {}, locks |-> FALSE]

Top == stack[Len(stack)]

Below == SubSeq(stack, 1, Len(stack) - 1)

EngineFree == stack # <<>> => ~Top.locks

\* The sequence of the deliveries in ds by their rids, the order of the event
\* index: the one element of this set
InRidOrder(ds) ==
  {q \in UNION {[1 .. n -> ds] : n \in 0 .. MaxSubscriptions} :
     /\ Range(q) = ds
     /\ \A i, j \in DOMAIN q : i < j => q[i].rid < q[j].rid}

Init == /\ registry = EmptyRegistry
        /\ pending = <<>>
        /\ senders = {}
        /\ fd_map = [c \in Conn |-> NoSession]
        /\ next_session = 1
        /\ denied = FALSE
        /\ peer = [c \in Conn |-> "none"]
        /\ http = Idle
        /\ stack = <<>>
        /\ written = 0
        /\ newest = [p \in Path |-> 0]
        /\ seen = [r \in 1 .. MaxRid |-> 0]
-----------------------------------------------------------------------------
(* The HTTP task.                                                          *)

\* A handler starts; those of /omi refuse while the API is denied
Handles == http = Idle

Serves == Handles /\ ~denied

\* POST /omi, a write: engine first, then its deliveries are queued
HttpWrite(path) ==
  /\ Serves /\ EngineFree
  /\ written < MaxWrites
  /\ written' = written + 1
  /\ newest' = [newest EXCEPT ![path] = written']
  /\ LET values == <<[n |-> written', by |-> "http"]>>
     IN  /\ registry' = Notified(registry, path, values, 0)
         /\ \E ds \in InRidOrder(NotifyDeliveries(registry, path, values, 0)) :
              http' = IF ds = <<>> THEN Idle
                      ELSE [Idle EXCEPT !.at = "queue", !.deliveries = ds]
  /\ UNCHANGED <<pending, senders, connection, denied, stack, seen>>

\* Mutant of HttpQueue: the queue is replaced, not extended
HttpQueueReplaces == /\ http.at = "queue"
                     /\ pending' = http.deliveries
                     /\ http' = Idle
                     /\ UNCHANGED <<registry, senders, connection, denied, stack, history>>

HttpQueue == /\ http.at = "queue"
             /\ pending' = pending \o http.deliveries
             /\ http' = Idle
             /\ UNCHANGED <<registry, senders, connection, denied, stack, history>>

\* A subscription to the events of path, for a target
Accept(path, target) ==
  /\ EngineFree
  /\ registry.next_id <= MaxRid
  /\ CanCreate(registry, OnEvent)
  /\ registry' = Created(registry, path, OnEvent, target, 1, 0)
  /\ seen' = [seen EXCEPT ![registry.next_id] = newest[path]]
  /\ UNCHANGED <<pending, senders, connection, denied, http, stack, written,
                 newest>>

\* A request that POST /omi and a WebSocket message can both make
Asked == Handles /\ (denied => \E c \in Conn : peer[c] # "none")

\* A subscription with a callback
CallbackSubscribe(path, url) == /\ Asked
                                /\ Accept(path, [kind |-> "callback", to |-> url])

\* A subscription over a WebSocket, without a callback.  The handler does not
\* ask again whether the API is denied, and what the peer sent before it went
\* is still read.
WsSubscribe(c, path) ==
  /\ Handles /\ peer[c] # "none"
  /\ LET session == IF fd_map[c] = NoSession THEN 0 ELSE fd_map[c]
     IN  Accept(path, [kind |-> "websocket", to |-> session])

Cancel(rid) ==
  /\ Asked /\ EngineFree
  /\ rid \in DOMAIN registry.subscriptions
  /\ registry' = Cancelled(registry, {rid})
  /\ UNCHANGED <<pending, senders, connection, denied, http, stack, history>>

\* A WebSocket opens: its session first, then its sender.  While the API is
\* denied the handler returns at once, and the connection stays.
Connect(c) ==
  /\ Handles /\ peer[c] = "none"
  /\ peer' = [peer EXCEPT ![c] = "up"]
  /\ \/ denied /\ UNCHANGED <<fd_map, next_session, http>>
     \/ /\ ~denied /\ next_session <= MaxSession
        /\ fd_map' = [fd_map EXCEPT ![c] = next_session]
        /\ next_session' = next_session + 1
        /\ http' = [Idle EXCEPT !.at = "join", !.session = next_session]
  /\ UNCHANGED <<registry, pending, senders, denied, stack, history>>

HttpJoin == /\ http.at = "join"
            /\ senders' = senders \cup {http.session}
            /\ http' = Idle
            /\ UNCHANGED <<registry, pending, connection, denied, stack, history>>

\* A WebSocket is closed: out of fd_map, then its subscriptions, then its sender
Close(c) ==
  /\ Handles /\ peer[c] # "none"
  /\ peer' = [peer EXCEPT ![c] = "none"]
  /\ fd_map' = [fd_map EXCEPT ![c] = NoSession]
  /\ http' = IF fd_map[c] = NoSession THEN Idle
             ELSE [Idle EXCEPT !.at = "cancel", !.session = fd_map[c]]
  /\ UNCHANGED <<registry, pending, senders, next_session, denied, stack, history>>

\* Mutant of HttpCancel: the subscriptions stay
HttpCancelNone == /\ http.at = "cancel" /\ EngineFree
                  /\ http' = [http EXCEPT !.at = "leave"]
                  /\ UNCHANGED <<registry, pending, senders, connection, denied, stack,
                                 history>>

\* Mutant of HttpCancel: the handler ends here, and the sender stays
HttpCancelReturns == /\ http.at = "cancel" /\ EngineFree
                     /\ registry' = CancelledBySession(registry, http.session)
                     /\ http' = Idle
                     /\ UNCHANGED <<pending, senders, connection, denied, stack, history>>

HttpCancel == /\ http.at = "cancel" /\ EngineFree
              /\ registry' = CancelledBySession(registry, http.session)
              /\ http' = [http EXCEPT !.at = "leave"]
              /\ UNCHANGED <<pending, senders, connection, denied, stack, history>>

HttpLeave == /\ http.at = "leave"
             /\ senders' = senders \ {http.session}
             /\ http' = Idle
             /\ UNCHANGED <<registry, pending, connection, denied, stack, history>>
-----------------------------------------------------------------------------
(* The main loop: dispatch_deliveries, a stack of calls.                   *)

\* Mutant of MainDrain: the deliveries are copied out, and stay in the queue
MainDrainCopies == /\ stack = <<>> /\ pending # <<>>
                   /\ stack' = <<Called(pending)>>
                   /\ UNCHANGED <<registry, pending, senders, connection, denied, http,
                                  history>>

\* Mutant of MainDrain: one delivery is taken and the queue emptied
MainDrainFirst == /\ stack = <<>> /\ pending # <<>>
                  /\ stack' = <<Called(<<Head(pending)>>)>>
                  /\ pending' = <<>>
                  /\ UNCHANGED <<registry, senders, connection, denied, http, history>>

MainDrain == /\ stack = <<>> /\ pending # <<>>
             /\ stack' = <<Called(pending)>>
             /\ pending' = <<>>
             /\ UNCHANGED <<registry, senders, connection, denied, http, history>>

\* A send to session may fail
MayFail(session) ==
  \/ SendsMayFail
  \/ \A c \in Conn : fd_map[c] = session => peer[c] # "up"

\* seen, once the deliveries of todo at the places in sent are out
SeenAfter(todo, sent) ==
  [r \in DOMAIN seen |->
     LET heard == {i \in sent : todo[i].rid = r /\ todo[i].values[1].by = "http"}
     IN  IF heard = {} THEN seen[r] ELSE todo[Max(heard)].values[1].n]

\* The senders' lock: every delivery for a session with a sender is sent, and
\* the senders that failed are dropped.  What is left to do are the scripts.
MainSend ==
  /\ stack # <<>> /\ Top.at = "send"
  /\ LET todo == Top.todo
         sends == {i \in DOMAIN todo : /\ todo[i].target.kind = "websocket"
                                       /\ todo[i].target.to \in senders}
     IN  \E lost \in SUBSET {i \in sends : MayFail(todo[i].target.to)} :
           LET failed == {todo[i].target.to : i \in lost}
               scripts == Retained(todo, {d \in Range(todo) : d.target.kind # "callback"})
           IN  /\ senders' = senders \ failed
               /\ seen' = SeenAfter(todo, sends \ lost)
               /\ stack' = Below \o <<[at |-> "script", todo |-> scripts,
                                       failed |-> failed, locks |-> FALSE]>>
  /\ UNCHANGED <<registry, pending, connection, denied, http, written,
                 newest>>

\* run_callback_script: the script writes its path.  If that notifies anyone
\* the lock is released and the deliveries dispatched by a call of its own;
\* otherwise the lock is kept for the next script.
MainScript ==
  /\ stack # <<>> /\ Top.at = "script" /\ Top.todo # <<>>
  /\ LET d == Head(Top.todo)
         value == <<[n |-> d.values[1].n, by |-> "script"]>>
         rest == [Top EXCEPT !.todo = Tail(@)]
     IN  \/ /\ ScriptWrites[d.target.to] = {}
            /\ stack' = Below \o <<[rest EXCEPT !.locks = rest.todo # <<>>]>>
            /\ UNCHANGED registry
         \/ \E path \in ScriptWrites[d.target.to] :
              /\ registry' = Notified(registry, path, value, 0)
              /\ \E ds \in InRidOrder(NotifyDeliveries(registry, path, value, 0)) :
                   stack' = IF ds = <<>>
                     THEN Below \o <<[rest EXCEPT !.locks = rest.todo # <<>>]>>
                     ELSE Below \o <<[rest EXCEPT !.locks = FALSE], Called(ds)>>
  /\ UNCHANGED <<pending, senders, connection, denied, http, history>>

\* Mutant of MainReturn: failed sessions keep their subscriptions
MainReturnForgets ==
  /\ stack # <<>> /\ Top.at = "script" /\ Top.todo = <<>>
  /\ stack' = Below
  /\ UNCHANGED <<registry, pending, senders, connection, denied, http, history>>

\* The end of a call: the sessions it failed to reach lose their subscriptions
MainReturn ==
  /\ stack # <<>> /\ Top.at = "script" /\ Top.todo = <<>>
  /\ registry' = Cancelled(registry, UNION {BoundTo(registry, s) : s \in Top.failed})
  /\ stack' = Below
  /\ UNCHANGED <<pending, senders, connection, denied, http, history>>
-----------------------------------------------------------------------------
\* The far end vanishes, and no one is told
PeerGoes(c) == /\ peer[c] = "up"
               /\ peer' = [peer EXCEPT ![c] = "gone"]
               /\ UNCHANGED <<registry, pending, senders, fd_map, next_session,
                              denied, http, stack, history>>

\* The portal opens or closes
PortalTurns == /\ PortalMayOpen
               /\ denied' = ~denied
               /\ UNCHANGED <<registry, pending, senders, connection, http, stack,
                              history>>

HttpTask ==
  \/ \E p \in Path : HttpWrite(p)
  \/ \E asked \in CallbackAsked : CallbackSubscribe(asked[1], asked[2])
  \/ \E c \in Conn : Connect(c) \/ Close(c) \/ \E p \in Path : WsSubscribe(c, p)
  \/ \E r \in 1 .. MaxRid : Cancel(r)
  \/ HttpQueue \/ HttpJoin \/ HttpCancel \/ HttpLeave

MainLoop == MainDrain \/ MainSend \/ MainScript \/ MainReturn

Next == HttpTask \/ MainLoop \/ PortalTurns \/ \E c \in Conn : PeerGoes(c)

Spec == Init /\ [][Next]_vars

\* Both threads run on: a handler that started finishes, and the main loop comes
\* round every 100 ms.
FairSpec == /\ Spec
            /\ WF_vars(HttpQueue) /\ WF_vars(HttpJoin)
            /\ WF_vars(HttpCancel) /\ WF_vars(HttpLeave)
            /\ WF_vars(MainLoop)
-----------------------------------------------------------------------------
TypeOK ==
  /\ RegistryOK(registry)
  /\ pending \in Seq(Delivery)
  /\ senders \subseteq Session
  /\ fd_map \in [Conn -> Session \cup {NoSession}]
  /\ next_session \in 1 .. MaxSession + 1
  /\ denied \in BOOLEAN
  /\ peer \in [Conn -> {"none", "up", "gone"}]
  /\ http \in [at : {"idle", "queue", "join", "cancel", "leave"},
               deliveries : Seq(Delivery), session : Session \cup {NoSession}]
  /\ stack \in Seq(Call)
  /\ written \in 0 .. MaxWrites
  /\ newest \in [Path -> 0 .. MaxWrites]
  /\ seen \in [1 .. MaxRid -> 0 .. MaxWrites]

Open == Range(fd_map) \ {NoSession}

\* The subscriptions of WebSocket sessions
OverWs == {r \in DOMAIN registry.subscriptions :
             registry.subscriptions[r].target.kind = "websocket"}

SessionOf(r) == registry.subscriptions[r].target.to

\* No WebSocket subscription outlives its connection: its session is open, or
\* its close handler is just about to cancel it (server.rs:659-668); whatever
\* the main loop is doing to the same session meanwhile.  Session 0 stands for
\* no connection: a subscription made over a WebSocket that opened while the API
\* was denied (server.rs:647).
NoOrphans ==
  \A r \in OverWs :
    \/ SessionOf(r) \in Open \cup {0}
    \/ http.at = "cancel" /\ http.session = SessionOf(r)

\* A sender belongs to an open session, or to the one whose close handler is
\* just about to drop it: none is left behind (server.rs:655-656, 667).
NoLeakedSenders ==
  \A s \in senders : \/ s \in Open
                     \/ http.at \in {"cancel", "leave"} /\ http.session = s

\* What is written over HTTP and not sent yet, in the order it will be sent.
\* The calls of scripts, above the bottom of the stack, hold none of it.
Outgoing == (IF stack # <<>> /\ stack[1].at = "send" THEN stack[1].todo ELSE <<>>)
              \o pending \o http.deliveries

\* Each subscriber is sent the values written over HTTP in the order they were
\* written, each at most once, though engine and queue are locked separately
\* (server.rs:606-614, main.rs:412-420).
InWriteOrder ==
  \A i \in DOMAIN Outgoing :
    /\ Outgoing[i].values[1].n > seen[Outgoing[i].rid]
    /\ \A j \in 1 .. i - 1 :
         Outgoing[j].rid = Outgoing[i].rid
           => Outgoing[j].values[1].n < Outgoing[i].values[1].n

Quiet == pending = <<>> /\ stack = <<>> /\ http = Idle

\* Once nothing is under way, every WebSocket subscriber that still has a sender
\* has been sent the last value written over HTTP to its path: no delivery falls
\* between the engine, the queue and the senders.
SubscribersUpToDate ==
  Quiet => \A r \in OverWs :
             SessionOf(r) \in senders => seen[r] = newest[registry.subscriptions[r].path]

Queued(r, n) == \E i \in DOMAIN pending :
                  pending[i].rid = r /\ pending[i].values[1] = [n |-> n, by |-> "http"]

\* dispatch_deliveries calls itself for what a script's write sets off, without a
\* limit: it comes to an end only if scripts do not set each other off in a circle.
NoCircle ==
  \E rank \in [Path -> 0 .. Cardinality(Path)] :
    \A asked \in CallbackAsked : \A p \in ScriptWrites[asked[2]] : rank[asked[1]] < rank[p]

\* A queued delivery is sent in the end, unless its session has lost its sender,
\* or scripts that go on in a circle keep the main loop.
QueuedIsServed ==
  NoCircle => \A r \in 1 .. MaxRid, n \in 1 .. MaxWrites :
    Queued(r, n) /\ r \in OverWs ~> \/ seen[r] >= n
                                    \/ r \notin OverWs
                                    \/ SessionOf(r) \notin senders

\* A session that a send failed to reach loses the subscriptions it has, in the
\* end, though dispatch first gets through the scripts and all that their writes
\* set off (server.rs:337, 353-358). Where scripts go on in a circle it never does.
FailedAreCancelled ==
  NoCircle => \A r \in 1 .. MaxRid :
    (r \in OverWs /\ \E i \in DOMAIN stack : SessionOf(r) \in stack[i].failed)
      ~> r \notin OverWs
-----------------------------------------------------------------------------
=============================================================================
