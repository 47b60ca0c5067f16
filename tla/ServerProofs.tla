---------------------------- MODULE ServerProofs ----------------------------
(***************************************************************************)
(* Theorems about Server, for every set of connections, paths and scripts  *)
(* and every bound: what a closed WebSocket leaves behind on the HTTP task *)
(* and on the main loop, the order in which what is written over HTTP is   *)
(* sent, and that the last of it reaches every subscriber with a sender.   *)
(***************************************************************************)
EXTENDS Server, SubscriptionRegistryProofs, SequenceTheorems

\* A handler that is about to add a sender does so for an open session: no
\* other handler runs in between (server.rs:655-656).
JoinsOpen == http.at = "join" => http.session \in Open

\* A descriptor that is not connected has no session, so none is overwritten
\* when it connects (server.rs:655, 661).
FreshDescriptors == \A c \in Conn : peer[c] = "none" => fd_map[c] = NoSession

\* The inductive invariant.  NoLeakedSenders rests on JoinsOpen, and both it and
\* NoOrphans on FreshDescriptors; what the steps of both threads do to the
\* registry is known only while it is well kept.
Inv == /\ TypeOK /\ WellKept(registry, {})
       /\ JoinsOpen /\ FreshDescriptors
       /\ NoOrphans /\ NoLeakedSenders
-----------------------------------------------------------------------------
(* Types of the data that travels.                                         *)

\* A non-empty set of places of a sequence has a last one.
LEMMA MaxOfPlaces ==
  ASSUME NEW n \in Nat, NEW S \in SUBSET (1 .. n), S # {}
  PROVE  Max(S) \in S /\ \A x \in S : Max(S) >= x
<1>. DEFINE T == {n - x : x \in S}
<1>1. T \in SUBSET Nat /\ T # {}
  <2>1. \A x \in S : n - x \in Nat
    OBVIOUS
  <2>. QED
    BY <2>1
<1>2. PICK m \in T : \A t \in T : m <= t
  <2>. HIDE DEF T
  <2>. QED
    BY <1>1, MinOfNaturals
<1>3. n - m \in S /\ \A x \in S : n - m >= x
  BY <1>2
<1>. QED
  BY <1>3 DEF Max

\* What a notification of one value hands over are deliveries of that value.
LEMMA NotifyType ==
  ASSUME NEW reg, RegistryOK(reg), NEW path, NEW v \in Value, NEW now
  PROVE  NotifyDeliveries(reg, path, <<v>>, now) \subseteq Delivery
<1>1. \A r \in DOMAIN reg.subscriptions :
        /\ r \in Rid
        /\ reg.subscriptions[r].path \in Path
        /\ reg.subscriptions[r].target \in Target
  BY DEF RegistryOK, Subscription
<1>2. \A r \in DOMAIN reg.subscriptions :
        DeliveryOf(r, reg.subscriptions[r], <<v>>) \in Delivery
  BY <1>1 DEF DeliveryOf, Delivery
<1>. QED
  BY <1>2 DEF NotifyDeliveries, Watching

\* Ordering deliveries makes a sequence of them.
LEMMA InRidOrderType ==
  ASSUME NEW ds \in SUBSET Delivery, NEW q \in InRidOrder(ds)
  PROVE  q \in Seq(Delivery)
<1>1. PICK n \in 0 .. MaxSubscriptions : q \in [1 .. n -> ds]
  BY DEF InRidOrder
<1>2. n \in Nat
  BY <1>1, RegistryAssumption
<1>. QED
  BY <1>1, <1>2

\* The top of a stack of calls is a call, what is below it a stack.
LEMMA StackType ==
  ASSUME stack \in Seq(Call), stack # <<>>
  PROVE  /\ Top \in Call
         /\ Below \in Seq(Call)
         /\ \A c \in Call : Below \o <<c>> \in Seq(Call)
         /\ \A c, d \in Call : Below \o <<c, d>> \in Seq(Call)
<1>1. Len(stack) \in 1 .. Len(stack) /\ Len(stack) \in Nat
  OBVIOUS
<1>2. Top \in Call
  BY <1>1 DEF Top
<1>3. Below \in Seq(Call)
  BY <1>1 DEF Below
<1>. HIDE DEF Below
<1>. QED
  BY <1>2, <1>3

\* A value of a write over HTTP that is within the bound is a value.
LEMMA ValueType ==
  ASSUME NEW n \in 1 .. MaxWrites
  PROVE  [n |-> n, by |-> "http"] \in Value /\ [n |-> n, by |-> "script"] \in Value
  BY ServerAssumption

\* What was seen stays a count of writes.
LEMMA SeenType ==
  ASSUME seen \in [1 .. MaxRid -> 0 .. MaxWrites],
         NEW todo \in Seq(Delivery), NEW sent \in SUBSET DOMAIN todo
  PROVE  SeenAfter(todo, sent) \in [1 .. MaxRid -> 0 .. MaxWrites]
<1>. DEFINE heard(r) == {i \in sent : todo[i].rid = r /\ todo[i].values[1].by = "http"}
<1>1. \A i \in DOMAIN todo : todo[i].values[1].n \in 0 .. MaxWrites
  <2>1. \A d \in Delivery : d.values[1] \in Value
    BY DEF Delivery
  <2>2. \A v \in Value : v.n \in 0 .. MaxWrites
    BY ServerAssumption
  <2>. QED
    BY <2>1, <2>2
<1>2. ASSUME NEW r, heard(r) # {}
      PROVE  Max(heard(r)) \in DOMAIN todo
  <2>1. heard(r) \in SUBSET (1 .. Len(todo)) /\ Len(todo) \in Nat
    OBVIOUS
  <2>. HIDE DEF heard
  <2>2. Max(heard(r)) \in heard(r)
    BY <1>2, <2>1, MaxOfPlaces
  <2>. QED
    BY <2>1, <2>2
<1>. QED
  BY <1>1, <1>2 DEF SeenAfter
-----------------------------------------------------------------------------
(* Steps that only take subscriptions away.                                *)

Shrinks == /\ WellKept(registry', {})
           /\ IsRestriction(registry'.subscriptions, registry.subscriptions)

\* Cancelling, by any of the ways it comes about, only takes away.
LEMMA CancelShrinks ==
  ASSUME WellKept(registry, {}), NEW rids, registry' = Cancelled(registry, rids)
  PROVE  Shrinks
<1>1. WellKept(Cancelled(registry, rids), {} \ rids) /\ {} \ rids = {}
  BY CancelledKept
<1>2. RegistryOK(registry)
  BY DEF WellKept
<1>. QED
  BY <1>1, <1>2, CancelledSubscriptions DEF Shrinks

\* So does a write, by a client or a script.
LEMMA NotifyShrinks ==
  ASSUME WellKept(registry, {}), NEW path, NEW v \in Value,
         registry' = Notified(registry, path, <<v>>, 0)
  PROVE  Shrinks
<1>1. <<v>> \in Seq(Value) /\ Len(<<v>>) <= 1
  OBVIOUS
<1>. QED
  BY <1>1, NotifiedKept, NotifiedSubscriptions DEF Shrinks

\* And a step that leaves the engine alone.
LEMMA StillShrinks ==
  ASSUME WellKept(registry, {}), registry' = registry
  PROVE  Shrinks
BY DEF Shrinks, IsRestriction

\* A step that opens and closes nothing and only takes subscriptions and
\* senders away disturbs none of the four: the main loop in particular, at
\* whatever point of a handler it comes.
LEMMA TakingAwayKeeps ==
  ASSUME Inv, Shrinks, fd_map' = fd_map, senders' \subseteq senders,
         \A c \in Conn : peer'[c] = "none" => peer[c] = "none",
         http' = http \/ {http.at, http'.at} \subseteq {"idle", "queue"}
  PROVE  JoinsOpen' /\ FreshDescriptors' /\ NoOrphans' /\ NoLeakedSenders'
<1>1. JoinsOpen'
  BY DEF Inv, JoinsOpen, Open
<1>2. NoOrphans'
  <2>. SUFFICES ASSUME NEW r \in OverWs'
                PROVE  \/ SessionOf(r)' \in Open' \cup {0}
                       \/ http'.at = "cancel" /\ http'.session = SessionOf(r)'
    BY DEF NoOrphans
  <2>1. r \in OverWs /\ SessionOf(r)' = SessionOf(r)
    BY DEF Shrinks, IsRestriction, OverWs, SessionOf
  <2>. QED
    BY <2>1 DEF Inv, NoOrphans, Open
<1>3. NoLeakedSenders'
  BY DEF Inv, NoLeakedSenders, Open
<1>4. FreshDescriptors'
  BY DEF Inv, FreshDescriptors
<1>. QED
  BY <1>1, <1>2, <1>3, <1>4
-----------------------------------------------------------------------------
\* A server that has just started (server.rs:367-386) satisfies the invariant.
LEMMA InitInv == Init => Inv
<1>. SUFFICES ASSUME Init PROVE Inv
  OBVIOUS
<1>1. WellKept(registry, {})
  BY EmptyKept DEF Init
<1>2. TypeOK
  <2>1. RegistryOK(registry)
    BY <1>1 DEF WellKept
  <2>2. pending \in Seq(Delivery) /\ stack \in Seq(Call)
    BY DEF Init
  <2>3. http \in [at : {"idle", "queue", "join", "cancel", "leave"},
                  deliveries : Seq(Delivery), session : Session \cup {NoSession}]
    BY DEF Init, Idle
  <2>4. /\ fd_map \in [Conn -> Session \cup {NoSession}]
        /\ next_session \in 1 .. MaxSession + 1
        /\ written \in 0 .. MaxWrites
        /\ newest \in [Path -> 0 .. MaxWrites]
        /\ seen \in [1 .. MaxRid -> 0 .. MaxWrites]
    BY ServerAssumption DEF Init
  <2>. QED
    BY <2>1, <2>2, <2>3, <2>4 DEF Init, TypeOK
<1>3. JoinsOpen /\ FreshDescriptors /\ NoOrphans /\ NoLeakedSenders
  BY DEF Init, Idle, JoinsOpen, FreshDescriptors, NoOrphans, NoLeakedSenders, OverWs, EmptyRegistry
<1>. QED
  BY <1>1, <1>2, <1>3 DEF Inv

\* A subscription accepted for an open session, or for none, keeps the
\* invariant.
LEMMA AcceptInv ==
  ASSUME Inv, http = Idle, NEW path \in Path, NEW target \in Target, Accept(path, target),
         target.kind = "websocket" => target.to \in Open \cup {0}
  PROVE  Inv'
<1>. DEFINE rid == registry.next_id
<1>1. WellKept(registry, {}) /\ RegistryOK(registry) /\ Indexed(registry, {}) /\ TypeOK
  BY DEF Inv, WellKept
<1>2. WellKept(registry', {})
  <2>1. OnEvent \in Int /\ 1 \in Nat /\ 0 \in Nat
    BY DEF OnEvent
  <2>. QED
    BY <1>1, <2>1, CreatedKept DEF Accept
<1>3. TypeOK'
  <2>1. rid \in 1 .. MaxRid
    BY <1>1 DEF Accept, RegistryOK, Rid
  <2>2. seen' \in [1 .. MaxRid -> 0 .. MaxWrites]
    BY <1>1, <2>1 DEF Accept, TypeOK
  <2>. QED
    BY <1>1, <1>2, <2>2 DEF Accept, TypeOK, WellKept, connection
<1>4. /\ DOMAIN registry'.subscriptions = DOMAIN registry.subscriptions \cup {rid}
      /\ registry'.subscriptions[rid].target = target
      /\ \A r \in DOMAIN registry.subscriptions :
           registry'.subscriptions[r] = registry.subscriptions[r]
  <2>1. \A r \in DOMAIN registry.subscriptions : r # rid
    BY <1>1 DEF Indexed, RegistryOK, Rid
  <2>. QED
    BY <2>1 DEF Accept, Created
<1>5. fd_map' = fd_map /\ http' = http /\ senders' = senders
  BY DEF Accept, connection
<1>6. NoOrphans'
  <2>. SUFFICES ASSUME NEW r \in OverWs'
                PROVE  SessionOf(r)' \in Open' \cup {0}
    BY DEF NoOrphans
  <2>1. CASE r = rid
    BY <1>4, <1>5, <2>1 DEF OverWs, SessionOf, Open
  <2>2. CASE r # rid
    <3>1. r \in OverWs /\ SessionOf(r)' = SessionOf(r)
      BY <1>4, <2>2 DEF OverWs, SessionOf
    <3>. QED
      BY <1>5, <3>1 DEF Inv, NoOrphans, Open, Idle
  <2>. QED
    BY <2>1, <2>2
<1>7. JoinsOpen' /\ FreshDescriptors' /\ NoLeakedSenders'
  BY <1>5 DEF Accept, connection, Inv, JoinsOpen, FreshDescriptors, NoLeakedSenders, Open
<1>. QED
  BY <1>2, <1>3, <1>6, <1>7 DEF Inv

\* Every handler of the HTTP task keeps the invariant.
LEMMA HttpInv == Inv /\ HttpTask => Inv'
<1>. SUFFICES ASSUME Inv, HttpTask PROVE Inv'
  OBVIOUS
<1>1. /\ WellKept(registry, {}) /\ RegistryOK(registry) /\ TypeOK
      /\ JoinsOpen /\ FreshDescriptors /\ NoOrphans /\ NoLeakedSenders
  BY DEF Inv, WellKept
<1>2. ASSUME NEW path \in Path, HttpWrite(path)
      PROVE  Inv'
  <2>. DEFINE v == [n |-> written', by |-> "http"]
              ds == NotifyDeliveries(registry, path, <<v>>, 0)
  <2>1. written' \in 1 .. MaxWrites /\ v \in Value
    <3>1. written' \in 1 .. MaxWrites
      BY <1>1, <1>2, ServerAssumption DEF HttpWrite, TypeOK
    <3>. QED
      BY <3>1, ValueType
  <2>2. Shrinks
    BY <1>1, <1>2, <2>1, NotifyShrinks DEF HttpWrite
  <2>3. ds \in SUBSET Delivery
    BY <1>1, <2>1, NotifyType
  <2>4. PICK q \in InRidOrder(ds) :
          http' = IF q = <<>> THEN Idle ELSE [Idle EXCEPT !.at = "queue", !.deliveries = q]
    BY <1>2 DEF HttpWrite
  <2>5. q \in Seq(Delivery)
    BY <2>3, <2>4, InRidOrderType
  <2>6. /\ http = Idle
        /\ newest' = [newest EXCEPT ![path] = written']
        /\ UNCHANGED <<pending, senders, fd_map, next_session, peer, denied, stack, seen>>
    BY <1>2 DEF HttpWrite, Serves, Handles, connection
  <2>. HIDE DEF ds, v
  <2>7. TypeOK'
    <3>1. http' \in [at : {"idle", "queue", "join", "cancel", "leave"},
                     deliveries : Seq(Delivery), session : Session \cup {NoSession}]
      BY <2>4, <2>5 DEF Idle
    <3>2. newest' \in [Path -> 0 .. MaxWrites]
      BY <1>1, <2>1, <2>6 DEF TypeOK
    <3>3. written' \in 0 .. MaxWrites
      BY <2>1
    <3>. QED
      BY <1>1, <2>2, <2>6, <3>1, <3>2, <3>3 DEF TypeOK, Shrinks, WellKept
  <2>8. {http.at, http'.at} \subseteq {"idle", "queue"}
    BY <2>4, <2>6 DEF Idle
  <2>. QED
    BY <2>2, <2>6, <2>7, <2>8, TakingAwayKeeps DEF Inv, Shrinks
<1>3. ASSUME NEW asked \in CallbackAsked, CallbackSubscribe(asked[1], asked[2])
      PROVE  Inv'
  <2>. DEFINE target == [kind |-> "callback", to |-> asked[2]]
  <2>1. asked[1] \in Path /\ target \in Target /\ target.kind # "websocket"
    BY ServerAssumption DEF Target
  <2>2. Accept(asked[1], target) /\ http = Idle
    BY <1>3 DEF CallbackSubscribe, Asked, Handles
  <2>. HIDE DEF target
  <2>. QED
    BY <2>1, <2>2, AcceptInv
<1>4. ASSUME NEW c \in Conn, NEW path \in Path, WsSubscribe(c, path)
      PROVE  Inv'
  <2>. DEFINE session == IF fd_map[c] = NoSession THEN 0 ELSE fd_map[c]
              target == [kind |-> "websocket", to |-> session]
  <2>1. Accept(path, target) /\ http = Idle
    BY <1>4 DEF WsSubscribe, Handles
  <2>2. target \in Target /\ target.to \in Open \cup {0}
    BY <1>1, ServerAssumption DEF TypeOK, Target, Open, Range
  <2>. HIDE DEF target
  <2>. QED
    BY <2>1, <2>2, AcceptInv
<1>5. ASSUME NEW r \in 1 .. MaxRid, Cancel(r)
      PROVE  Inv'
  <2>1. /\ Shrinks
        /\ UNCHANGED <<pending, senders, fd_map, next_session, peer, denied, http, stack,
                       written, newest, seen>>
    BY <1>1, <1>5, CancelShrinks DEF Cancel, connection, history
  <2>2. TypeOK'
    BY <1>1, <2>1 DEF TypeOK, Shrinks, WellKept
  <2>. QED
    BY <2>1, <2>2, TakingAwayKeeps DEF Inv, Shrinks
<1>6. ASSUME NEW c \in Conn, Connect(c)
      PROVE  Inv'
  <2>1. /\ registry' = registry /\ http = Idle
        /\ UNCHANGED <<pending, senders, denied, stack, written, newest, seen>>
        /\ peer' = [peer EXCEPT ![c] = "up"]
    BY <1>6 DEF Connect, Handles, history
  <2>2. CASE denied
    <3>1. UNCHANGED <<fd_map, next_session, http>>
      BY <1>6, <2>2 DEF Connect
    <3>2. TypeOK'
      BY <1>1, <2>1, <3>1 DEF TypeOK
    <3>3. Shrinks /\ \A d \in Conn : peer'[d] = "none" => peer[d] = "none"
      BY <1>1, <2>1, StillShrinks DEF TypeOK
    <3>. QED
      BY <2>1, <3>1, <3>2, <3>3, TakingAwayKeeps DEF Inv, Shrinks
  <2>3. CASE ~denied
    <3>1. /\ next_session <= MaxSession
          /\ fd_map' = [fd_map EXCEPT ![c] = next_session]
          /\ next_session' = next_session + 1
          /\ http' = [Idle EXCEPT !.at = "join", !.session = next_session]
      BY <1>6, <2>3 DEF Connect
    <3>2. next_session \in Session /\ next_session' \in 1 .. MaxSession + 1
      BY <1>1, <3>1, ServerAssumption DEF TypeOK
    <3>3. TypeOK'
      BY <1>1, <2>1, <3>1, <3>2 DEF TypeOK, Idle
    <3>4. fd_map[c] = NoSession
      BY <1>1, <1>6 DEF Connect, FreshDescriptors
    <3>5. Open' = Open \cup {next_session}
      BY <1>1, <3>1, <3>2, <3>4, ServerAssumption DEF TypeOK, Open, Range
    <3>6. NoOrphans'
      BY <1>1, <2>1, <3>5 DEF NoOrphans, OverWs, SessionOf, Idle
    <3>7. NoLeakedSenders'
      BY <1>1, <2>1, <3>5 DEF NoLeakedSenders, Idle
    <3>8. JoinsOpen' /\ FreshDescriptors'
      BY <1>1, <2>1, <3>1, <3>5 DEF JoinsOpen, FreshDescriptors, TypeOK, Idle
    <3>. QED
      BY <1>1, <2>1, <3>3, <3>6, <3>7, <3>8 DEF Inv
  <2>. QED
    BY <2>2, <2>3
<1>7. ASSUME NEW c \in Conn, Close(c)
      PROVE  Inv'
  <2>1. /\ registry' = registry /\ http = Idle
        /\ UNCHANGED <<pending, senders, next_session, denied, stack, written, newest, seen>>
        /\ peer' = [peer EXCEPT ![c] = "none"]
        /\ fd_map' = [fd_map EXCEPT ![c] = NoSession]
        /\ http' = IF fd_map[c] = NoSession THEN Idle
                   ELSE [Idle EXCEPT !.at = "cancel", !.session = fd_map[c]]
    BY <1>7 DEF Close, Handles, history
  <2>2. TypeOK'
    <3>1. http' \in [at : {"idle", "queue", "join", "cancel", "leave"},
                     deliveries : Seq(Delivery), session : Session \cup {NoSession}]
      BY <1>1, <2>1 DEF TypeOK, Idle
    <3>. QED
      BY <1>1, <2>1, <3>1 DEF TypeOK
  <2>3. \A s \in Open : s \in Open' \/ (http'.at = "cancel" /\ http'.session = s)
    <3>. SUFFICES ASSUME NEW d \in Conn, fd_map[d] # NoSession
                  PROVE  \/ fd_map[d] \in Open'
                         \/ http'.at = "cancel" /\ http'.session = fd_map[d]
      BY <1>1 DEF Open, Range, TypeOK
    <3>1. CASE d = c
      BY <2>1, <3>1 DEF Idle
    <3>2. CASE d # c
      <4>1. fd_map'[d] = fd_map[d] /\ d \in DOMAIN fd_map'
        BY <1>1, <2>1, <3>2 DEF TypeOK
      <4>. QED
        BY <4>1 DEF Open, Range
    <3>. QED
      BY <3>1, <3>2
  <2>4. NoOrphans'
    BY <1>1, <2>1, <2>3 DEF NoOrphans, OverWs, SessionOf, Idle
  <2>5. NoLeakedSenders'
    BY <1>1, <2>1, <2>3 DEF NoLeakedSenders, Idle
  <2>6. JoinsOpen' /\ FreshDescriptors'
    BY <1>1, <2>1 DEF JoinsOpen, FreshDescriptors, TypeOK, Idle
  <2>. QED
    BY <1>1, <2>1, <2>2, <2>4, <2>5, <2>6 DEF Inv
<1>8. CASE HttpQueue
  <2>1. /\ registry' = registry /\ http.at = "queue" /\ http' = Idle
        /\ pending' = pending \o http.deliveries
        /\ UNCHANGED <<senders, fd_map, next_session, peer, denied, stack, written, newest,
                       seen>>
    BY <1>8 DEF HttpQueue, connection, history
  <2>2. pending' \in Seq(Delivery)
    BY <1>1, <2>1 DEF TypeOK
  <2>3. TypeOK'
    BY <1>1, <2>1, <2>2 DEF TypeOK, Idle
  <2>4. Shrinks /\ {http.at, http'.at} \subseteq {"idle", "queue"}
    BY <1>1, <2>1, StillShrinks DEF Idle
  <2>. QED
    BY <2>1, <2>3, <2>4, TakingAwayKeeps DEF Inv, Shrinks
<1>9. CASE HttpJoin
  <2>1. /\ http.at = "join" /\ http' = Idle
        /\ senders' = senders \cup {http.session}
        /\ UNCHANGED <<registry, pending, fd_map, next_session, peer, denied, stack,
                       written, newest, seen>>
    BY <1>9 DEF HttpJoin, connection, history
  <2>2. http.session \in Open /\ Open' = Open
    BY <1>1, <2>1 DEF JoinsOpen, Open
  <2>3. http.session \in Session
    BY <1>1, <2>2 DEF Open, Range, TypeOK
  <2>4. TypeOK'
    BY <1>1, <2>1, <2>3 DEF TypeOK, Idle
  <2>5. NoOrphans' /\ NoLeakedSenders'
    BY <1>1, <2>1, <2>2 DEF NoOrphans, NoLeakedSenders, OverWs, SessionOf
  <2>6. JoinsOpen' /\ FreshDescriptors'
    BY <1>1, <2>1 DEF JoinsOpen, FreshDescriptors, Idle
  <2>. QED
    BY <1>1, <2>1, <2>4, <2>5, <2>6 DEF Inv
<1>10. CASE HttpCancel
  <2>1. /\ http.at = "cancel" /\ http' = [http EXCEPT !.at = "leave"]
        /\ registry' = CancelledBySession(registry, http.session)
        /\ UNCHANGED <<pending, senders, fd_map, next_session, peer, denied, stack,
                       written, newest, seen>>
    BY <1>10 DEF HttpCancel, connection, history
  <2>2. http'.at = "leave" /\ http'.session = http.session
    BY <1>1, <2>1 DEF TypeOK
  <2>3. Shrinks
    BY <1>1, <2>1, CancelShrinks DEF CancelledBySession
  <2>4. TypeOK'
    BY <1>1, <2>1, <2>3 DEF TypeOK, Shrinks, WellKept
  <2>5. registry'.subscriptions
          = [r \in DOMAIN registry.subscriptions \ BoundTo(registry, http.session) |->
               registry.subscriptions[r]]
    BY <1>1, <2>1, CancelledSubscriptions DEF CancelledBySession
  <2>6. NoOrphans'
    <3>. SUFFICES ASSUME NEW r \in OverWs'
                  PROVE  SessionOf(r)' \in Open' \cup {0}
      BY DEF NoOrphans
    <3>1. /\ r \in OverWs /\ SessionOf(r)' = SessionOf(r)
          /\ r \notin BoundTo(registry, http.session)
      BY <2>5 DEF OverWs, SessionOf
    <3>2. SessionOf(r) # http.session
      <4>1. registry.subscriptions[r].target \in Target
        BY <1>1, <3>1 DEF RegistryOK, OverWs, Subscription
      <4>2. registry.subscriptions[r].target
              = [kind |-> "websocket", to |-> SessionOf(r)]
        BY <3>1, <4>1 DEF OverWs, SessionOf, Target, Poll
      <4>. QED
        BY <3>1, <4>2 DEF BoundTo, OverWs
    <3>. QED
      BY <1>1, <2>1, <3>1, <3>2 DEF NoOrphans, Open
  <2>7. NoLeakedSenders'
    BY <1>1, <2>1, <2>2 DEF NoLeakedSenders, Open
  <2>8. JoinsOpen' /\ FreshDescriptors'
    BY <1>1, <2>1, <2>2 DEF JoinsOpen, FreshDescriptors
  <2>. QED
    BY <2>3, <2>4, <2>6, <2>7, <2>8 DEF Inv, Shrinks
<1>11. CASE HttpLeave
  <2>1. /\ http.at = "leave" /\ http' = Idle
        /\ senders' = senders \ {http.session}
        /\ UNCHANGED <<registry, pending, fd_map, next_session, peer, denied, stack,
                       written, newest, seen>>
    BY <1>11 DEF HttpLeave, connection, history
  <2>2. TypeOK'
    BY <1>1, <2>1 DEF TypeOK, Idle
  <2>3. NoOrphans' /\ NoLeakedSenders'
    BY <1>1, <2>1 DEF NoOrphans, NoLeakedSenders, OverWs, SessionOf, Open
  <2>4. JoinsOpen' /\ FreshDescriptors'
    BY <1>1, <2>1 DEF JoinsOpen, FreshDescriptors, Idle
  <2>. QED
    BY <1>1, <2>1, <2>2, <2>3, <2>4 DEF Inv
<1>. QED
  BY <1>2, <1>3, <1>4, <1>5, <1>6, <1>7, <1>8, <1>9, <1>10, <1>11 DEF HttpTask

\* Every step of dispatch_deliveries keeps the invariant: it may cancel
\* subscriptions and drop senders, at any point of a handler.
LEMMA MainInv == Inv /\ MainLoop => Inv' /\ Shrinks /\ senders' \subseteq senders
<1>. DEFINE Goal == Inv' /\ Shrinks /\ senders' \subseteq senders
<1>. SUFFICES ASSUME Inv, MainLoop PROVE Goal
  OBVIOUS
<1>1. WellKept(registry, {}) /\ RegistryOK(registry) /\ TypeOK /\ stack \in Seq(Call)
  BY DEF Inv, WellKept, TypeOK
<1>2. ASSUME Shrinks, senders' \subseteq senders, pending' \in Seq(Delivery),
             stack' \in Seq(Call), seen' \in [1 .. MaxRid -> 0 .. MaxWrites],
             UNCHANGED <<fd_map, next_session, peer, denied, http, written, newest>>
      PROVE  Goal
  <2>1. TypeOK'
    BY <1>1, <1>2 DEF TypeOK, Shrinks, WellKept
  <2>. QED
    BY <1>2, <2>1, TakingAwayKeeps DEF Inv, Shrinks
<1>3. CASE MainDrain
  <2>1. Called(pending) \in Call
    BY <1>1 DEF Called, Call, TypeOK
  <2>2. stack' \in Seq(Call) /\ pending' \in Seq(Delivery)
    BY <1>3, <2>1 DEF MainDrain
  <2>3. Shrinks
    BY <1>1, <1>3, StillShrinks DEF MainDrain
  <2>. QED
    BY <1>1, <1>2, <1>3, <2>2, <2>3 DEF MainDrain, connection, history, TypeOK
<1>4. CASE MainSend
  <2>. DEFINE todo == Top.todo
              sends == {i \in DOMAIN todo : /\ todo[i].target.kind = "websocket"
                                            /\ todo[i].target.to \in senders}
              scripts == Retained(todo, {d \in Range(todo) : d.target.kind # "callback"})
              failed(lost) == {todo[i].target.to : i \in lost}
              call(lost) == [at |-> "script", todo |-> scripts, failed |-> failed(lost),
                             locks |-> FALSE]
  <2>1. PICK lost \in SUBSET {i \in sends : MayFail(todo[i].target.to)} :
          /\ senders' = senders \ failed(lost)
          /\ seen' = SeenAfter(todo, sends \ lost)
          /\ stack' = Below \o <<call(lost)>>
    BY <1>4, Zenon DEF MainSend
  <2>2. Top \in Call /\ todo \in Seq(Delivery)
    BY <1>1, <1>4, StackType DEF MainSend, Call
  <2>3. call(lost) \in Call
    <3>1. scripts \in Seq(Delivery)
      BY <2>2, RetainedType
    <3>2. failed(lost) \subseteq Session
      BY <1>1, <2>1 DEF TypeOK
    <3>. HIDE DEF scripts, failed
    <3>. QED
      BY <3>1, <3>2 DEF Call
  <2>4. stack' \in Seq(Call)
    <3>. HIDE DEF call
    <3>. QED
      BY <1>1, <1>4, <2>1, <2>3, StackType DEF MainSend
  <2>5. seen' \in [1 .. MaxRid -> 0 .. MaxWrites]
    <3>1. sends \ lost \in SUBSET DOMAIN todo
      OBVIOUS
    <3>. HIDE DEF todo, sends
    <3>. QED
      BY <1>1, <2>1, <2>2, <3>1, SeenType DEF TypeOK
  <2>6. senders' \subseteq senders
    BY <2>1
  <2>7. Shrinks
    BY <1>1, <1>4, StillShrinks DEF MainSend
  <2>. QED
    BY <1>1, <1>2, <1>4, <2>4, <2>5, <2>6, <2>7 DEF MainSend, connection, TypeOK
<1>5. CASE MainScript
  <2>. DEFINE d == Head(Top.todo)
              v == [n |-> d.values[1].n, by |-> "script"]
              rest == [Top EXCEPT !.todo = Tail(@)]
  <2>1. /\ Top \in Call /\ Top.todo \in Seq(Delivery) /\ Top.todo # <<>>
        /\ d \in Delivery /\ Tail(Top.todo) \in Seq(Delivery)
    <3>1. Top \in Call /\ Top.todo # <<>>
      BY <1>1, <1>5, StackType DEF MainScript
    <3>2. Top.todo \in Seq(Delivery)
      BY <3>1 DEF Call
    <3>. QED
      BY <3>1, <3>2, HeadTailProperties
  <2>2. v \in Value
    <3>1. d.values[1] \in Value
      BY <2>1 DEF Delivery
    <3>. HIDE DEF d
    <3>2. d.values[1].n \in 1 .. MaxWrites
      BY <3>1, ServerAssumption
    <3>. QED
      BY <3>2, ValueType
  <2>3. \A b \in BOOLEAN : [rest EXCEPT !.locks = b] \in Call
    BY <2>1 DEF Call
  <2>4. \A q \in Seq(Delivery) : Called(q) \in Call
    BY DEF Called, Call
  <2>5. /\ Below \in Seq(Call)
        /\ \A c \in Call : Below \o <<c>> \in Seq(Call)
        /\ \A c, e \in Call : Below \o <<c, e>> \in Seq(Call)
    BY <1>1, <1>5, StackType DEF MainScript
  <2>6. CASE /\ stack' = Below \o <<[rest EXCEPT !.locks = rest.todo # <<>>]>>
             /\ registry' = registry
    <3>1. (rest.todo # <<>>) \in BOOLEAN
      OBVIOUS
    <3>2. stack' \in Seq(Call)
      BY <2>3, <2>5, <2>6, <3>1
    <3>3. Shrinks
      BY <1>1, <2>6, StillShrinks
    <3>. QED
      BY <1>1, <1>2, <1>5, <3>2, <3>3 DEF MainScript, connection, history, TypeOK
  <2>7. ASSUME NEW path, registry' = Notified(registry, path, <<v>>, 0),
               NEW q \in InRidOrder(NotifyDeliveries(registry, path, <<v>>, 0)),
               stack' = IF q = <<>>
                          THEN Below \o <<[rest EXCEPT !.locks = rest.todo # <<>>]>>
                          ELSE Below \o <<[rest EXCEPT !.locks = FALSE], Called(q)>>
        PROVE  Goal
    <3>1. Shrinks
      BY <1>1, <2>2, <2>7, NotifyShrinks
    <3>2. q \in Seq(Delivery)
      BY <1>1, <2>2, <2>7, NotifyType, InRidOrderType
    <3>3. (rest.todo # <<>>) \in BOOLEAN /\ FALSE \in BOOLEAN
      OBVIOUS
    <3>4. stack' \in Seq(Call)
      BY <2>3, <2>4, <2>5, <2>7, <3>2, <3>3
    <3>. QED
      BY <1>1, <1>2, <1>5, <3>1, <3>4 DEF MainScript, connection, history, TypeOK
  <2>. QED
    BY <1>5, <2>6, <2>7 DEF MainScript
<1>6. CASE MainReturn
  <2>1. stack' \in Seq(Call)
    BY <1>1, <1>6, StackType DEF MainReturn
  <2>2. Shrinks
    BY <1>1, <1>6, CancelShrinks DEF MainReturn
  <2>. QED
    BY <1>1, <1>2, <1>6, <2>1, <2>2 DEF MainReturn, connection, history, TypeOK
<1>. HIDE DEF Goal
<1>. QED
  BY <1>3, <1>4, <1>5, <1>6 DEF MainLoop

\* Every step of either thread, of the portal and of a peer keeps the invariant.
LEMMA NextInv == Inv /\ [Next]_vars => Inv'
<1>. SUFFICES ASSUME Inv, [Next]_vars PROVE Inv'
  OBVIOUS
<1>1. WellKept(registry, {}) /\ TypeOK
  BY DEF Inv
<1>2. ASSUME NEW c \in Conn, PeerGoes(c)
      PROVE  Inv'
  <2>1. TypeOK'
    BY <1>1, <1>2 DEF PeerGoes, TypeOK, history
  <2>2. Shrinks /\ \A d \in Conn : peer'[d] = "none" => peer[d] = "none"
    BY <1>1, <1>2, StillShrinks DEF PeerGoes, TypeOK
  <2>. QED
    BY <1>2, <2>1, <2>2, TakingAwayKeeps DEF PeerGoes, Inv, Shrinks
<1>3. CASE PortalTurns
  <2>1. TypeOK'
    BY <1>1, <1>3 DEF PortalTurns, TypeOK, connection, history
  <2>2. Shrinks
    BY <1>1, <1>3, StillShrinks DEF PortalTurns
  <2>. QED
    BY <1>3, <2>1, <2>2, TakingAwayKeeps DEF PortalTurns, connection, Inv, Shrinks
<1>4. CASE UNCHANGED vars
  <2>1. TypeOK'
    BY <1>1, <1>4 DEF vars, TypeOK
  <2>2. Shrinks
    BY <1>1, <1>4, StillShrinks DEF vars
  <2>. QED
    BY <1>4, <2>1, <2>2, TakingAwayKeeps DEF vars, Inv, Shrinks
<1>. QED
  BY HttpInv, MainInv, <1>2, <1>3, <1>4 DEF Next
-----------------------------------------------------------------------------
\* The invariant holds in every reachable state.
THEOREM InvHolds == Spec => []Inv
  BY InitInv, NextInv, PTL DEF Spec

\* The state has the types that the code declares.
THEOREM TypeCorrect == Spec => []TypeOK
  BY InvHolds, PTL DEF Inv

\* No WebSocket subscription outlives its connection (server.rs:659-668),
\* wherever the main loop is in dispatching to it when it closes.
THEOREM NoneOrphaned == Spec => []NoOrphans
  BY InvHolds, PTL DEF Inv

\* No sender outlives its connection, nor is one registered for a connection
\* that has gone (server.rs:655-656, 667).
THEOREM NoSenderLeaks == Spec => []NoLeakedSenders
  BY InvHolds, PTL DEF Inv
-----------------------------------------------------------------------------
(* The order in which what is written over HTTP is sent.                   *)

N(d) == d.values[1].n

\* Numbers grow: what was seen, or is under way, is no later than the last
\* write and for a rid already given out.
Numbered ==
  /\ registry.next_id <= MaxRid + 1
  /\ \A r \in 1 .. MaxRid : seen[r] <= written
  /\ \A p \in Path : newest[p] <= written
  /\ \A i \in DOMAIN Outgoing : /\ Outgoing[i].values[1].by = "http"
                                /\ N(Outgoing[i]) <= written
                                /\ Outgoing[i].rid < registry.next_id

\* Only the call at the bottom of the stack dispatches writes over HTTP, and
\* while another is above it, it has sent them.
ScriptsAbove ==
  \A k \in DOMAIN stack :
    /\ k < Len(stack) => stack[k].at = "script"
    /\ k > 1 => \A i \in DOMAIN stack[k].todo : stack[k].todo[i].values[1].by = "script"

\* Only a handler about to queue deliveries has any.
OnlyQueued == http.at # "queue" => http.deliveries = <<>>

\* The inductive invariant: the order says nothing of the next write unless
\* numbers grow, and nothing of a cascade unless scripts are told apart.
OrderInv == Inv /\ Numbered /\ ScriptsAbove /\ OnlyQueued /\ InWriteOrder
-----------------------------------------------------------------------------
\* What is under way is a sequence of deliveries.
LEMMA OutgoingType ==
  ASSUME TypeOK
  PROVE  Outgoing \in Seq(Delivery)
<1>1. pending \in Seq(Delivery) /\ http.deliveries \in Seq(Delivery)
  BY DEF TypeOK
<1>2. stack # <<>> => stack[1].todo \in Seq(Delivery)
  <2>1. stack # <<>> => stack[1] \in Call
    BY DEF TypeOK
  <2>. QED
    BY <2>1 DEF Call
<1>. QED
  BY <1>1, <1>2 DEF Outgoing

\* Deliveries carry the number of a write.
LEMMA NumberType ==
  ASSUME NEW q \in Seq(Delivery), NEW i \in DOMAIN q
  PROVE  N(q[i]) \in 1 .. MaxWrites /\ q[i].rid \in Rid
<1>1. \A d \in Delivery : d.values[1] \in Value /\ d.rid \in Rid
  BY DEF Delivery
<1>2. \A v \in Value : v.n \in 1 .. MaxWrites
  BY ServerAssumption
<1>. QED
  BY <1>1, <1>2 DEF N

\* A step that leaves alone what is under way and what was seen keeps the order.
LEMMA StillOrdered ==
  ASSUME Numbered, InWriteOrder, Outgoing' = Outgoing, UNCHANGED history,
         registry'.next_id = registry.next_id
  PROVE  Numbered' /\ InWriteOrder'
BY DEF Numbered, InWriteOrder, history

\* Deliveries in the order of their rids have one for each.
LEMMA OnePerRid ==
  ASSUME NEW ds \in SUBSET Delivery, NEW q \in InRidOrder(ds)
  PROVE  /\ q \in Seq(Delivery)
         /\ \A i \in DOMAIN q : q[i] \in ds
         /\ \A i, j \in DOMAIN q : j < i => q[j].rid # q[i].rid
<1>1. PICK n \in 0 .. MaxSubscriptions : q \in [1 .. n -> ds]
  BY DEF InRidOrder
<1>2. n \in Nat /\ q \in Seq(Delivery)
  BY <1>1, RegistryAssumption
<1>3. \A d \in Delivery : d.rid \in Int
  BY DEF Delivery, Rid
<1>4. \A i, j \in DOMAIN q : i < j => q[i].rid < q[j].rid
  BY DEF InRidOrder
<1>5. \A i \in DOMAIN q : q[i] \in ds /\ q[i].rid \in Int
  BY <1>1, <1>3
<1>. QED
  BY <1>2, <1>4, <1>5

\* A write numbered above all that came before may join what is under way, once
\* for each subscriber.
LEMMA WriteOrdered ==
  ASSUME OrderInv, NEW q \in Seq(Delivery), Outgoing' = Outgoing \o q,
         registry'.next_id = registry.next_id, seen' = seen,
         written' = written + 1, NEW path \in Path,
         newest' = [newest EXCEPT ![path] = written'],
         \A i \in DOMAIN q : /\ q[i].values[1] = [n |-> written', by |-> "http"]
                             /\ q[i].rid < registry.next_id,
         \A i, j \in DOMAIN q : j < i => q[j].rid # q[i].rid
  PROVE  Numbered' /\ InWriteOrder'
<1>. DEFINE out == Outgoing
            new == Outgoing'
            m == Len(out)
<1>1. /\ out \in Seq(Delivery) /\ m \in Nat /\ Len(q) \in Nat
      /\ written \in Nat /\ MaxRid \in Nat
      /\ seen \in [1 .. MaxRid -> Nat] /\ \A r \in 1 .. MaxRid : seen[r] <= written
      /\ newest \in [Path -> Nat] /\ \A p \in Path : newest[p] <= written
      /\ registry.next_id \in Nat /\ registry.next_id <= MaxRid + 1
  <2>1. TypeOK /\ Numbered /\ RegistryOK(registry)
    BY DEF OrderInv, Inv, TypeOK
  <2>2. MaxRid \in Nat /\ MaxWrites \in Nat
    BY ServerAssumption
  <2>3. /\ written \in Nat /\ seen \in [1 .. MaxRid -> Nat]
        /\ newest \in [Path -> Nat] /\ registry.next_id \in Nat
    BY <2>1, <2>2 DEF TypeOK, RegistryOK, Rid
  <2>4. out \in Seq(Delivery)
    BY <2>1, OutgoingType
  <2>. HIDE DEF out
  <2>. QED
    BY <2>1, <2>2, <2>3, <2>4 DEF Numbered
<1>2. /\ DOMAIN new = 1 .. m + Len(q)
      /\ \A i \in 1 .. m : new[i] = out[i]
      /\ \A i \in m + 1 .. m + Len(q) : new[i] = q[i - m] /\ i - m \in DOMAIN q
  BY <1>1
<1>3. \A i \in 1 .. m : /\ out[i].values[1].by = "http"
                        /\ N(out[i]) <= written /\ N(out[i]) \in Nat
                        /\ out[i].rid < registry.next_id /\ out[i].rid \in Rid
                        /\ N(out[i]) > seen[out[i].rid]
                        /\ \A j \in 1 .. i - 1 : out[j].rid = out[i].rid => N(out[j]) < N(out[i])
  <2>1. Numbered /\ InWriteOrder /\ DOMAIN out = 1 .. m
    BY <1>1 DEF OrderInv
  <2>2. \A i \in DOMAIN out : N(out[i]) \in 1 .. MaxWrites /\ out[i].rid \in Rid
    BY <1>1, NumberType
  <2>3. \A i \in DOMAIN out : /\ out[i].values[1].by = "http"
                              /\ N(out[i]) <= written
                              /\ out[i].rid < registry.next_id
    BY <2>1 DEF Numbered
  <2>4. \A i \in DOMAIN out :
          /\ N(out[i]) > seen[out[i].rid]
          /\ \A j \in 1 .. i - 1 : out[j].rid = out[i].rid => N(out[j]) < N(out[i])
    BY <2>1 DEF InWriteOrder, N
  <2>. HIDE DEF out, m
  <2>. QED
    BY <2>1, <2>2, <2>3, <2>4
<1>4. \A i \in m + 1 .. m + Len(q) : /\ new[i].values[1].by = "http"
                                     /\ N(new[i]) = written + 1
                                     /\ new[i].rid < registry.next_id
                                     /\ new[i].rid \in Rid
  BY <1>2, NumberType DEF N
<1>. HIDE DEF out, new, m
<1>5. Numbered'
  <2>1. \A i \in DOMAIN new : /\ new[i].values[1].by = "http"
                                    /\ N(new[i]) <= written'
                                    /\ new[i].rid < registry'.next_id
    <3>. SUFFICES ASSUME NEW i \in DOMAIN new
                  PROVE  /\ new[i].values[1].by = "http"
                         /\ N(new[i]) <= written + 1
                         /\ new[i].rid < registry.next_id
      OBVIOUS
    <3>1. CASE i \in 1 .. m
      <4>1. new[i] = out[i] /\ N(out[i]) \in Int /\ N(out[i]) <= written
        BY <1>2, <1>3, <3>1
      <4>2. N(new[i]) <= written + 1
        BY <1>1, <4>1
      <4>. QED
        BY <1>3, <3>1, <4>1, <4>2
    <3>2. CASE i \in m + 1 .. m + Len(q)
      BY <1>1, <1>4, <3>2
    <3>. QED
      BY <1>1, <1>2, <3>1, <3>2
  <2>2. \A p \in Path : newest'[p] <= written'
    BY <1>1
  <2>3. \A r \in 1 .. MaxRid : seen'[r] <= written'
    BY <1>1
  <2>. QED
    BY <1>1, <2>1, <2>2, <2>3 DEF Numbered, N, new
<1>6. ASSUME NEW i \in DOMAIN new
      PROVE  /\ N(new[i]) > seen'[new[i].rid]
             /\ \A j \in 1 .. i - 1 : new[j].rid = new[i].rid
                                        => N(new[j]) < N(new[i])
  <2>1. CASE i \in 1 .. m
    <3>1. new[i] = out[i] /\ N(out[i]) > seen[out[i].rid]
      BY <1>2, <1>3, <2>1
    <3>2. ASSUME NEW j \in 1 .. i - 1, new[j].rid = new[i].rid
          PROVE  N(new[j]) < N(new[i])
      <4>1. j \in 1 .. m /\ new[j] = out[j]
        BY <1>1, <1>2, <2>1
      <4>. QED
        BY <1>3, <2>1, <3>1, <3>2, <4>1
    <3>. QED
      BY <3>1, <3>2
  <2>2. CASE i \in m + 1 .. m + Len(q)
    <3>1. new[i].rid \in 1 .. MaxRid
      BY <1>1, <1>4, <2>2 DEF Rid
    <3>2. N(new[i]) > seen'[new[i].rid]
      BY <1>1, <1>4, <2>2, <3>1
    <3>3. ASSUME NEW j \in 1 .. i - 1, new[j].rid = new[i].rid
          PROVE  N(new[j]) < N(new[i])
      <4>1. CASE j \in 1 .. m
        <5>1. N(new[j]) <= written /\ N(new[j]) \in Nat
          BY <1>2, <1>3, <4>1
        <5>. QED
          BY <1>1, <1>4, <2>2, <5>1
      <4>2. CASE j \notin 1 .. m
        <5>1. /\ j \in m + 1 .. m + Len(q)
              /\ j - m < i - m /\ j - m \in DOMAIN q /\ i - m \in DOMAIN q
          BY <1>1, <1>2, <2>2, <4>2, SMTT(30)
        <5>2. q[j - m].rid # q[i - m].rid
          BY <5>1
        <5>. QED
          BY <1>2, <2>2, <3>3, <5>1, <5>2
      <4>. QED
        BY <4>1, <4>2
    <3>. QED
      BY <3>2, <3>3
  <2>. QED
    BY <1>1, <1>2, <2>1, <2>2
<1>. QED
  BY <1>5, <1>6 DEF InWriteOrder, N, new

\* What is left once the oldest part of what is under way has been sent, to
\* whomever it could be, comes after all of that part.
LEMMA SendOrdered ==
  ASSUME OrderInv, NEW todo \in Seq(Delivery), NEW sent \in SUBSET DOMAIN todo,
         Outgoing = todo \o Outgoing', Outgoing' \in Seq(Delivery),
         seen' = SeenAfter(todo, sent), UNCHANGED <<registry, written, newest>>
  PROVE  Numbered' /\ InWriteOrder'
<1>. DEFINE out == Outgoing
            new == Outgoing'
            m == Len(todo)
            heard(r) == {i \in sent : todo[i].rid = r /\ todo[i].values[1].by = "http"}
<1>1. /\ out \in Seq(Delivery) /\ out = todo \o new
      /\ new \in Seq(Delivery) /\ m \in Nat /\ Len(new) \in Nat
      /\ DOMAIN seen = 1 .. MaxRid
      /\ Numbered /\ InWriteOrder
  BY OutgoingType DEF OrderInv, Inv, TypeOK
<1>2. \A i \in DOMAIN out :
        /\ out[i].values[1].by = "http" /\ out[i].rid < registry.next_id
        /\ N(out[i]) <= written
        /\ N(out[i]) > seen[out[i].rid]
        /\ \A j \in 1 .. i - 1 : out[j].rid = out[i].rid => N(out[j]) < N(out[i])
  BY <1>1 DEF Numbered, InWriteOrder, N
<1>. HIDE DEF out, new, m
<1>3. \A i \in DOMAIN todo : i \in 1 .. m /\ i \in DOMAIN out /\ out[i] = todo[i]
  BY <1>1 DEF m
<1>4. \A i \in DOMAIN new : /\ i \in 1 .. Len(new)
                            /\ m + i \in DOMAIN out /\ out[m + i] = new[i]
  BY <1>1 DEF m
<1>5. \A r \in 1 .. MaxRid :
        \/ seen'[r] = seen[r]
        \/ \E k \in DOMAIN todo : todo[k].rid = r /\ seen'[r] = N(todo[k])
  <2>. SUFFICES ASSUME NEW r \in 1 .. MaxRid, seen'[r] # seen[r]
                PROVE  \E k \in DOMAIN todo : todo[k].rid = r /\ seen'[r] = N(todo[k])
    OBVIOUS
  <2>1. heard(r) # {} /\ seen'[r] = N(todo[Max(heard(r))])
    BY <1>1 DEF SeenAfter, N
  <2>2. heard(r) \in SUBSET (1 .. Len(todo)) /\ Len(todo) \in Nat
    OBVIOUS
  <2>3. Max(heard(r)) \in heard(r)
    <3>. HIDE DEF heard
    <3>. QED
      BY <2>1, <2>2, MaxOfPlaces
  <2>. QED
    BY <2>1, <2>3
<1>6. Numbered'
  <2>1. \A r \in 1 .. MaxRid : seen'[r] <= written'
    <3>. SUFFICES ASSUME NEW r \in 1 .. MaxRid PROVE seen'[r] <= written
      OBVIOUS
    <3>1. CASE seen'[r] = seen[r]
      BY <1>1, <3>1 DEF Numbered
    <3>2. ASSUME NEW k \in DOMAIN todo, seen'[r] = N(todo[k])
          PROVE  seen'[r] <= written
      <4>1. N(out[k]) <= written /\ out[k] = todo[k]
        BY <1>2, <1>3
      <4>. QED
        BY <3>2, <4>1
    <3>. QED
      BY <1>5, <3>1, <3>2
  <2>2. \A i \in DOMAIN new : /\ new[i].values[1].by = "http"
                              /\ N(new[i]) <= written
                              /\ new[i].rid < registry.next_id
    <3>. SUFFICES ASSUME NEW i \in DOMAIN new
                  PROVE  /\ new[i].values[1].by = "http"
                         /\ N(new[i]) <= written
                         /\ new[i].rid < registry.next_id
      OBVIOUS
    <3>1. m + i \in DOMAIN out /\ out[m + i] = new[i]
      BY <1>4
    <3>2. N(out[m + i]) <= written /\ N(out[m + i]) = N(new[i])
      BY <1>2, <3>1
    <3>. QED
      BY <1>2, <3>1, <3>2
  <2>. QED
    BY <1>1, <2>1, <2>2 DEF Numbered, N, new
<1>7. ASSUME NEW i \in DOMAIN new
      PROVE  /\ N(new[i]) > seen'[new[i].rid]
             /\ \A j \in 1 .. i - 1 : new[j].rid = new[i].rid => N(new[j]) < N(new[i])
  <2>1. /\ i \in 1 .. Len(new) /\ m + i \in DOMAIN out /\ out[m + i] = new[i]
        /\ \A k \in 1 .. m : k \in 1 .. (m + i) - 1
        /\ \A j \in 1 .. i - 1 : j \in 1 .. Len(new) /\ m + j \in 1 .. (m + i) - 1
    <3>1. i \in 1 .. Len(new) /\ m + i \in DOMAIN out /\ out[m + i] = new[i]
      BY <1>4
    <3>2. i \in Nat /\ i >= 1 /\ i <= Len(new)
      BY <1>1, <3>1
    <3>3. \A k \in 1 .. m : k \in 1 .. (m + i) - 1
      BY <1>1, <3>2
    <3>4. \A j \in 1 .. i - 1 : j \in 1 .. Len(new) /\ m + j \in 1 .. (m + i) - 1
      BY <1>1, <3>2
    <3>. QED
      BY <3>1, <3>3, <3>4
  <2>2. new[i].rid \in 1 .. MaxRid
    <3>1. new[i].rid \in Rid /\ new[i].rid < registry.next_id
      BY <1>1, <1>2, <2>1, NumberType
    <3>2. registry.next_id \in Nat /\ registry.next_id <= MaxRid + 1 /\ MaxRid \in Nat
      BY <1>1, ServerAssumption DEF OrderInv, Inv, TypeOK, RegistryOK, Rid, Numbered
    <3>. QED
      BY <3>1, <3>2 DEF Rid
  <2>3. N(new[i]) > seen'[new[i].rid]
    <3>1. CASE seen'[new[i].rid] = seen[new[i].rid]
      BY <1>2, <2>1, <3>1
    <3>2. ASSUME NEW k \in DOMAIN todo, todo[k].rid = new[i].rid,
                 seen'[new[i].rid] = N(todo[k])
          PROVE  N(new[i]) > seen'[new[i].rid]
      <4>1. k \in 1 .. (m + i) - 1 /\ out[k] = todo[k] /\ k \in DOMAIN out
        BY <1>3, <2>1
      <4>2. N(out[k]) < N(out[m + i])
        BY <1>2, <2>1, <3>2, <4>1
      <4>3. N(out[k]) \in Int /\ N(out[m + i]) \in Int
        BY <1>1, <2>1, <4>1, NumberType
      <4>. QED
        BY <2>1, <3>2, <4>1, <4>2, <4>3
    <3>. QED
      BY <1>5, <2>2, <3>1, <3>2
  <2>4. ASSUME NEW j \in 1 .. i - 1, new[j].rid = new[i].rid
        PROVE  N(new[j]) < N(new[i])
    <3>1. j \in DOMAIN new
      BY <1>1, <2>1
    <3>2. out[m + j] = new[j] /\ m + j \in 1 .. (m + i) - 1
      BY <1>4, <2>1, <2>4, <3>1
    <3>. QED
      BY <1>2, <2>1, <2>4, <3>2
  <2>. QED
    BY <2>3, <2>4
<1>. QED
  BY <1>6, <1>7 DEF InWriteOrder, N, new
-----------------------------------------------------------------------------
\* A server that has just started has nothing under way.
LEMMA InitOrder == Init => OrderInv
<1>. SUFFICES ASSUME Init PROVE OrderInv
  OBVIOUS
<1>1. Outgoing = <<>>
  BY DEF Init, Idle, Outgoing
<1>2. MaxRid \in Nat
  BY ServerAssumption
<1>3. Numbered
  BY <1>1, <1>2 DEF Init, EmptyRegistry, Numbered
<1>4. ScriptsAbove /\ OnlyQueued /\ InWriteOrder
  BY <1>1 DEF Init, Idle, ScriptsAbove, OnlyQueued, InWriteOrder
<1>. QED
  BY InitInv, <1>3, <1>4 DEF OrderInv

\* Numbers of subscriptions already given out are below the next.
LEMMA RidBelowNext ==
  ASSUME WellKept(registry, {}), NEW path, NEW values,
         NEW d \in NotifyDeliveries(registry, path, values, 0)
  PROVE  d.rid < registry.next_id /\ d.values = values
BY DEF NotifyDeliveries, DeliveryOf, Watching, WellKept, Indexed

\* A stack that is not empty has one call or more.
LEMMA OneOrMore ==
  ASSUME NEW S, NEW s \in Seq(S), s # <<>>
  PROVE  Len(s) = 1 \/ Len(s) > 1
<1>1. \A n \in Nat : n = 0 \/ n = 1 \/ n > 1
  OBVIOUS
<1>2. Len(s) \in Nat /\ Len(s) # 0
  OBVIOUS
<1>. QED
  BY <1>1, <1>2

\* A sequence without its last element.
LEMMA FrontOf ==
  ASSUME NEW S, NEW s \in Seq(S), Len(s) >= 1
  PROVE  /\ Len(SubSeq(s, 1, Len(s) - 1)) = Len(s) - 1
         /\ \A k \in 1 .. Len(s) - 1 : SubSeq(s, 1, Len(s) - 1)[k] = s[k]
<1>1. /\ Len(s) - 1 \in Int /\ 1 \in Int
      /\ \A i \in 1 .. Len(s) - 1 : s[i] \in S
  OBVIOUS
<1>2. /\ Len(SubSeq(s, 1, Len(s) - 1)) = IF 1 <= Len(s) - 1 THEN (Len(s) - 1) - 1 + 1 ELSE 0
      /\ \A i \in 1 .. (Len(s) - 1) - 1 + 1 : SubSeq(s, 1, Len(s) - 1)[i] = s[1 + i - 1]
  BY <1>1, SubSeqProperties
<1>. QED
  BY <1>2

\* What a push, a replacement and a pop do to the stack.
LEMMA StackShape ==
  ASSUME stack \in Seq(Call), stack # <<>>
  PROVE  /\ Len(stack) \in Nat /\ Len(stack) >= 1 /\ Top = stack[Len(stack)]
         /\ Len(Below) = Len(stack) - 1
         /\ \A k \in 1 .. Len(stack) - 1 : Below[k] = stack[k]
         /\ \A c : /\ Len(Below \o <<c>>) = Len(stack)
                   /\ (Below \o <<c>>)[Len(stack)] = c
                   /\ \A k \in 1 .. Len(stack) - 1 : (Below \o <<c>>)[k] = stack[k]
         /\ \A c, d : /\ Len(Below \o <<c, d>>) = Len(stack) + 1
                      /\ (Below \o <<c, d>>)[Len(stack)] = c
                      /\ (Below \o <<c, d>>)[Len(stack) + 1] = d
                      /\ \A k \in 1 .. Len(stack) - 1 : (Below \o <<c, d>>)[k] = stack[k]
<1>1. Len(stack) \in Nat /\ Len(stack) >= 1 /\ Top = stack[Len(stack)]
  BY DEF Top
<1>2. /\ Below \in Seq(Call) /\ Len(Below) = Len(stack) - 1
      /\ \A k \in 1 .. Len(stack) - 1 : Below[k] = stack[k]
  BY <1>1, StackType, FrontOf DEF Below
<1>. HIDE DEF Below
<1>3. ASSUME NEW c
      PROVE  /\ Len(Below \o <<c>>) = Len(stack)
             /\ (Below \o <<c>>)[Len(stack)] = c
             /\ \A k \in 1 .. Len(stack) - 1 : (Below \o <<c>>)[k] = stack[k]
  BY <1>1, <1>2
<1>4. ASSUME NEW c, NEW d
      PROVE  /\ Len(Below \o <<c, d>>) = Len(stack) + 1
             /\ (Below \o <<c, d>>)[Len(stack)] = c
             /\ (Below \o <<c, d>>)[Len(stack) + 1] = d
             /\ \A k \in 1 .. Len(stack) - 1 : (Below \o <<c, d>>)[k] = stack[k]
  BY <1>1, <1>2
<1>. QED
  BY <1>1, <1>2, <1>3, <1>4

\* A subscription is given a number no delivery carries.
LEMMA AcceptOrder ==
  ASSUME OrderInv, http = Idle, NEW path \in Path, NEW target, Accept(path, target)
  PROVE  Numbered' /\ ScriptsAbove' /\ OnlyQueued' /\ InWriteOrder'
<1>. DEFINE rid == registry.next_id
<1>1. /\ Numbered /\ InWriteOrder /\ ScriptsAbove /\ OnlyQueued
      /\ rid \in Nat /\ rid <= MaxRid /\ rid \in 1 .. MaxRid /\ MaxRid \in Nat
      /\ seen \in [1 .. MaxRid -> 0 .. MaxWrites]
  BY ServerAssumption DEF OrderInv, Inv, TypeOK, RegistryOK, Rid, Accept
<1>2. /\ registry'.next_id = rid + 1
      /\ seen' = [seen EXCEPT ![rid] = newest[path]]
      /\ UNCHANGED <<pending, http, stack, written, newest>>
  BY DEF Accept, Created
<1>3. Outgoing' = Outgoing
  BY <1>2 DEF Outgoing
<1>4. \A i \in DOMAIN Outgoing : Outgoing[i].rid < rid /\ Outgoing[i].rid \in Nat
  BY <1>1, OutgoingType, NumberType DEF Numbered, OrderInv, Inv, Rid
<1>5. \A i \in DOMAIN Outgoing : Outgoing[i].rid < rid + 1
                                 /\ seen'[Outgoing[i].rid] = seen[Outgoing[i].rid]
  BY <1>1, <1>2, <1>4
<1>6. Numbered'
  <2>1. \A r \in 1 .. MaxRid : seen'[r] <= written
    BY <1>1, <1>2 DEF Numbered
  <2>2. rid + 1 <= MaxRid + 1
    BY <1>1
  <2>. QED
    BY <1>1, <1>2, <1>3, <1>5, <2>1, <2>2 DEF Numbered
<1>7. InWriteOrder'
  BY <1>1, <1>3, <1>5 DEF InWriteOrder
<1>. QED
  BY <1>1, <1>2, <1>6, <1>7 DEF ScriptsAbove, OnlyQueued

\* Handlers that neither write nor subscribe leave the order alone.
LEMMA QuietOrder ==
  ASSUME OrderInv, UNCHANGED <<pending, stack, written, newest, seen>>,
         registry'.next_id = registry.next_id,
         http'.deliveries = http.deliveries, OnlyQueued'
  PROVE  Numbered' /\ ScriptsAbove' /\ OnlyQueued' /\ InWriteOrder'
<1>1. Outgoing' = Outgoing
  BY DEF Outgoing
<1>2. Numbered' /\ InWriteOrder'
  BY <1>1, StillOrdered DEF OrderInv, history
<1>. QED
  BY <1>2 DEF OrderInv, ScriptsAbove, OnlyQueued

\* A write joins what is under way, in one delivery for each subscriber.
LEMMA WriteOutgoing ==
  ASSUME TypeOK, OnlyQueued, NEW path, HttpWrite(path)
  PROVE  \E q \in InRidOrder(NotifyDeliveries(registry, path,
                                <<[n |-> written', by |-> "http"]>>, 0)) :
           /\ http'.deliveries = q /\ (http'.at # "queue" => q = <<>>)
           /\ q \in Seq(Delivery) => Outgoing' = Outgoing \o q
<1>. DEFINE bottom == IF stack # <<>> /\ stack[1].at = "send" THEN stack[1].todo ELSE <<>>
<1>1. PICK q \in InRidOrder(NotifyDeliveries(registry, path,
                              <<[n |-> written', by |-> "http"]>>, 0)) :
        http' = IF q = <<>> THEN Idle ELSE [Idle EXCEPT !.at = "queue", !.deliveries = q]
  BY DEF HttpWrite
<1>2. http'.deliveries = q /\ (http'.at # "queue" => q = <<>>)
  BY <1>1 DEF Idle
<1>3. ASSUME q \in Seq(Delivery)
      PROVE  Outgoing' = Outgoing \o q
  <2>1. bottom \in Seq(Delivery) /\ pending \in Seq(Delivery)
    <3>1. stack # <<>> => stack[1] \in Call
      BY DEF TypeOK
    <3>. QED
      BY <3>1 DEF TypeOK, Call
  <2>2. Outgoing = bottom \o pending \o <<>> /\ Outgoing' = bottom \o pending \o q
    BY <1>2 DEF HttpWrite, Serves, Handles, Outgoing, Idle
  <2>. HIDE DEF bottom
  <2>. QED
    BY <1>3, <2>1, <2>2
<1>. QED
  BY <1>2, <1>3

\* Queueing moves deliveries from the handler's hands to the end of the queue.
LEMMA QueueOutgoing ==
  ASSUME TypeOK, HttpQueue
  PROVE  Outgoing' = Outgoing
<1>. DEFINE bottom == IF stack # <<>> /\ stack[1].at = "send" THEN stack[1].todo ELSE <<>>
            last == http.deliveries
<1>1. /\ bottom \in Seq(Delivery) /\ pending \in Seq(Delivery)
      /\ last \in Seq(Delivery)
  <2>1. stack # <<>> => stack[1] \in Call
    BY DEF TypeOK
  <2>. QED
    BY <2>1 DEF TypeOK, Call
<1>2. /\ Outgoing = (bottom \o pending) \o last
      /\ Outgoing' = (bottom \o (pending \o last)) \o <<>>
  BY DEF HttpQueue, Outgoing, Idle
<1>. HIDE DEF bottom, last
<1>3. (bottom \o pending) \o last = bottom \o (pending \o last)
  BY <1>1, ConcatAssociative, SMTT(30)
<1>4. (bottom \o pending) \o last \in Seq(Delivery)
  BY <1>1
<1>. QED
  BY <1>2, <1>3, <1>4

\* The HTTP task keeps the order: writes join at the end, and queueing them
\* moves them from the handler's hands to the end of the queue.
LEMMA HttpOrder ==
  OrderInv /\ HttpTask => Numbered' /\ ScriptsAbove' /\ OnlyQueued' /\ InWriteOrder'
<1>. DEFINE Goal == Numbered' /\ ScriptsAbove' /\ OnlyQueued' /\ InWriteOrder'
<1>. SUFFICES ASSUME OrderInv, HttpTask PROVE Goal
  OBVIOUS
<1>1. /\ WellKept(registry, {}) /\ RegistryOK(registry) /\ TypeOK
      /\ Numbered /\ ScriptsAbove /\ OnlyQueued /\ InWriteOrder
  BY DEF OrderInv, Inv, WellKept
<1>2. ASSUME NEW path \in Path, HttpWrite(path)
      PROVE  Goal
  <2>. DEFINE v == [n |-> written', by |-> "http"]
              ds == NotifyDeliveries(registry, path, <<v>>, 0)
  <2>1. v \in Value
    <3>1. written' \in 1 .. MaxWrites
      BY <1>1, <1>2, ServerAssumption DEF HttpWrite, TypeOK
    <3>. QED
      BY <3>1, ValueType
  <2>2. ds \in SUBSET Delivery
    BY <1>1, <2>1, NotifyType
  <2>3. PICK q \in InRidOrder(ds) :
          /\ http'.deliveries = q /\ (http'.at # "queue" => q = <<>>)
          /\ q \in Seq(Delivery) => Outgoing' = Outgoing \o q
    BY <1>1, <1>2, WriteOutgoing
  <2>4. /\ q \in Seq(Delivery)
        /\ \A i \in DOMAIN q : q[i] \in ds
        /\ \A i, j \in DOMAIN q : j < i => q[j].rid # q[i].rid
    BY <2>2, <2>3, OnePerRid
  <2>5. \A d \in ds : d.rid < registry.next_id /\ d.values = <<v>>
    BY <1>1, RidBelowNext
  <2>6. /\ http = Idle
        /\ newest' = [newest EXCEPT ![path] = written'] /\ written' = written + 1
        /\ registry' = Notified(registry, path, <<v>>, 0)
        /\ UNCHANGED <<pending, stack, seen>>
    BY <1>2 DEF HttpWrite, Serves, Handles
  <2>7. registry'.next_id = registry.next_id
    BY <1>1, <2>6, NextIdKept
  <2>8. \A i \in DOMAIN q : /\ q[i].values[1] = [n |-> written', by |-> "http"]
                            /\ q[i].rid < registry.next_id
    BY <2>4, <2>5
  <2>. HIDE DEF ds, v
  <2>9. Outgoing' = Outgoing \o q
    BY <2>3, <2>4
  <2>10. Numbered' /\ InWriteOrder'
    BY <2>4, <2>6, <2>7, <2>8, <2>9, WriteOrdered
  <2>. QED
    BY <1>1, <2>3, <2>6, <2>10 DEF ScriptsAbove, OnlyQueued
<1>3. ASSUME NEW asked \in CallbackAsked, CallbackSubscribe(asked[1], asked[2])
      PROVE  Goal
  <2>1. asked[1] \in Path
    BY ServerAssumption
  <2>2. /\ Accept(asked[1], [kind |-> "callback", to |-> asked[2]])
        /\ http = Idle
    BY <1>3 DEF CallbackSubscribe, Asked, Handles
  <2>. QED
    BY <2>1, <2>2, AcceptOrder
<1>4. ASSUME NEW c \in Conn, NEW path \in Path, WsSubscribe(c, path)
      PROVE  Goal
  BY <1>4, AcceptOrder DEF WsSubscribe, Handles
<1>5. ASSUME NEW r \in 1 .. MaxRid, Cancel(r)
      PROVE  Goal
  <2>1. registry'.next_id = registry.next_id
    BY <1>1, <1>5, NextIdKept DEF Cancel
  <2>. QED
    BY <1>1, <1>5, <2>1, QuietOrder DEF Cancel, history, OnlyQueued
<1>6. ASSUME NEW c \in Conn, Connect(c)
      PROVE  Goal
  <2>1. /\ http = Idle /\ registry' = registry
        /\ UNCHANGED <<pending, stack, written, newest, seen>>
        /\ http' = http \/ http' = [Idle EXCEPT !.at = "join", !.session = next_session]
    BY <1>6 DEF Connect, Handles, history
  <2>2. http'.deliveries = http.deliveries /\ OnlyQueued'
    <3>1. http.deliveries = <<>> /\ http'.deliveries = <<>>
      <4>1. \A a, b : [Idle EXCEPT !.at = a, !.session = b].deliveries = <<>>
        BY DEF Idle
      <4>. QED
        BY <2>1, <4>1 DEF Idle
    <3>. QED
      BY <3>1 DEF OnlyQueued
  <2>. QED
    BY <2>1, <2>2, QuietOrder
<1>7. ASSUME NEW c \in Conn, Close(c)
      PROVE  Goal
  <2>1. /\ http = Idle /\ registry' = registry
        /\ UNCHANGED <<pending, stack, written, newest, seen>>
        /\ http' = Idle \/ http' = [Idle EXCEPT !.at = "cancel", !.session = fd_map[c]]
    BY <1>7 DEF Close, Handles, history
  <2>2. http'.deliveries = http.deliveries /\ OnlyQueued'
    <3>1. http.deliveries = <<>> /\ http'.deliveries = <<>>
      <4>1. \A a, b : [Idle EXCEPT !.at = a, !.session = b].deliveries = <<>>
        BY DEF Idle
      <4>. QED
        BY <2>1, <4>1 DEF Idle
    <3>. QED
      BY <3>1 DEF OnlyQueued
  <2>. QED
    BY <2>1, <2>2, QuietOrder
<1>8. CASE HttpQueue
  <2>1. /\ registry' = registry /\ http' = Idle /\ pending' = pending \o http.deliveries
        /\ UNCHANGED history /\ UNCHANGED stack
    BY <1>8 DEF HttpQueue
  <2>2. Outgoing' = Outgoing
    BY <1>1, <1>8, QueueOutgoing
  <2>3. Numbered' /\ InWriteOrder'
    BY <1>1, <2>1, <2>2, StillOrdered
  <2>. QED
    BY <1>1, <2>1, <2>3 DEF ScriptsAbove, OnlyQueued, Idle
<1>9. CASE HttpJoin \/ HttpLeave
  <2>1. /\ registry' = registry /\ http' = Idle /\ http.at # "queue"
        /\ UNCHANGED <<pending, stack, written, newest, seen>>
    BY <1>9 DEF HttpJoin, HttpLeave, history
  <2>2. http'.deliveries = http.deliveries /\ OnlyQueued'
    BY <1>1, <2>1 DEF Idle, OnlyQueued
  <2>. QED
    BY <2>1, <2>2, QuietOrder
<1>10. CASE HttpCancel
  <2>1. /\ registry' = CancelledBySession(registry, http.session)
        /\ http' = [http EXCEPT !.at = "leave"] /\ http.at = "cancel"
        /\ UNCHANGED <<pending, stack, written, newest, seen>>
    BY <1>10 DEF HttpCancel, history
  <2>2. http'.deliveries = http.deliveries /\ OnlyQueued'
    BY <1>1, <2>1 DEF TypeOK, OnlyQueued
  <2>3. registry'.next_id = registry.next_id
    BY <1>1, <2>1, NextIdKept DEF CancelledBySession
  <2>. QED
    BY <2>1, <2>2, <2>3, QuietOrder
<1>. HIDE DEF Goal
<1>. QED
  BY <1>2, <1>3, <1>4, <1>5, <1>6, <1>7, <1>8, <1>9, <1>10 DEF HttpTask

\* Sending the deliveries of scripts says nothing of the writes over HTTP.
LEMMA ScriptsUnseen ==
  ASSUME TypeOK, NEW todo, NEW sent \in SUBSET DOMAIN todo,
         \A i \in DOMAIN todo : todo[i].values[1].by = "script"
  PROVE  SeenAfter(todo, sent) = seen
<1>1. \A r : {i \in sent : todo[i].rid = r /\ todo[i].values[1].by = "http"} = {}
  OBVIOUS
<1>2. SeenAfter(todo, sent) = [r \in DOMAIN seen |-> seen[r]]
  BY <1>1 DEF SeenAfter
<1>. QED
  BY <1>2 DEF TypeOK

\* What is under way stays as it is; or its front is sent.
NoneSent == Outgoing' = Outgoing /\ seen' = seen
FrontSent == /\ MainSend /\ Top.todo \in Seq(Delivery)
             /\ Outgoing = Top.todo \o Outgoing' /\ Outgoing' \in Seq(Delivery)

\* The main loop keeps the order: draining moves the queue to the bottom of the
\* stack, where it is sent before anything is put above it.
LEMMA MainOrder ==
  OrderInv /\ Inv' /\ MainLoop =>
    /\ Numbered' /\ ScriptsAbove' /\ OnlyQueued' /\ InWriteOrder'
    /\ NoneSent \/ FrontSent
<1>. DEFINE Goal == /\ Numbered' /\ ScriptsAbove' /\ OnlyQueued' /\ InWriteOrder'
                    /\ NoneSent \/ FrontSent
<1>. SUFFICES ASSUME OrderInv, Inv', MainLoop PROVE Goal
  OBVIOUS
<1>1. /\ WellKept(registry, {}) /\ RegistryOK(registry) /\ TypeOK /\ stack \in Seq(Call)
      /\ Numbered /\ ScriptsAbove /\ OnlyQueued /\ InWriteOrder
      /\ pending \in Seq(Delivery) /\ http.deliveries \in Seq(Delivery)
  BY DEF OrderInv, Inv, WellKept, TypeOK
<1>2. CASE MainDrain
  <2>1. /\ stack = <<>> /\ stack' = <<Called(pending)>> /\ pending' = <<>>
        /\ UNCHANGED history /\ UNCHANGED <<registry, http>>
    BY <1>2 DEF MainDrain
  <2>2. stack'[1].at = "send" /\ stack'[1].todo = pending /\ stack' # <<>>
        /\ DOMAIN stack' = {1} /\ Len(stack') = 1
    BY <2>1 DEF Called
  <2>3. Outgoing' = Outgoing
    <3>1. Outgoing = <<>> \o pending \o http.deliveries
      BY <2>1 DEF Outgoing
    <3>2. Outgoing' = pending \o <<>> \o http.deliveries
      BY <2>1, <2>2 DEF Outgoing
    <3>3. pending \o <<>> = pending /\ <<>> \o pending = pending
      BY <1>1
    <3>. QED
      BY <3>1, <3>2, <3>3
  <2>4. Numbered' /\ InWriteOrder'
    BY <1>1, <2>1, <2>3, StillOrdered
  <2>5. ScriptsAbove'
    BY <2>2 DEF ScriptsAbove
  <2>. QED
    BY <1>1, <2>1, <2>3, <2>4, <2>5 DEF OnlyQueued, NoneSent, history
<1>3. CASE MainSend
  <2>. DEFINE todo == Top.todo
              sends == {i \in DOMAIN todo : /\ todo[i].target.kind = "websocket"
                                            /\ todo[i].target.to \in senders}
              gone == {d \in Range(todo) : d.target.kind # "callback"}
              scripts == Retained(todo, gone)
              failed(lost) == {todo[i].target.to : i \in lost}
              call(lost) == [at |-> "script", todo |-> scripts, failed |-> failed(lost),
                             locks |-> FALSE]
  <2>1. PICK lost \in SUBSET {i \in sends : MayFail(todo[i].target.to)} :
          /\ seen' = SeenAfter(todo, sends \ lost)
          /\ stack' = Below \o <<call(lost)>>
    BY <1>3, Zenon DEF MainSend
  <2>2. /\ stack # <<>> /\ Top.at = "send"
        /\ UNCHANGED <<registry, pending, http, written, newest>>
    BY <1>3 DEF MainSend
  <2>3. Top \in Call /\ todo \in Seq(Delivery) /\ sends \ lost \in SUBSET DOMAIN todo
    BY <1>1, <2>2, StackType DEF Call
  <2>4. /\ call(lost).at = "script" /\ call(lost).todo = scripts
        /\ \A k \in DOMAIN scripts : \E i \in DOMAIN todo : scripts[k] = todo[i]
    <3>. HIDE DEF todo, gone
    <3>1. \A k \in DOMAIN scripts : \E i \in DOMAIN todo : scripts[k] = todo[i]
      BY <2>3, RetainedType
    <3>. QED
      BY <3>1
  <2>. HIDE DEF call, scripts, todo, sends
  <2>5. /\ Len(stack) \in Nat /\ Len(stack) >= 1 /\ Top = stack[Len(stack)]
        /\ Len(stack') = Len(stack) /\ stack'[Len(stack)] = call(lost)
        /\ \A k \in 1 .. Len(stack) - 1 : stack'[k] = stack[k]
        /\ DOMAIN stack' = 1 .. Len(stack) /\ stack' # <<>>
    <3>1. stack' \in Seq(Call)
      BY DEF Inv, TypeOK
    <3>2. /\ Len(stack') = Len(stack) /\ stack'[Len(stack)] = call(lost)
          /\ \A k \in 1 .. Len(stack) - 1 : stack'[k] = stack[k]
      BY <1>1, <2>1, <2>2, StackShape
    <3>. QED
      BY <1>1, <2>2, <3>1, <3>2, StackShape
  <2>6. ScriptsAbove'
    <3>. SUFFICES ASSUME NEW k \in 1 .. Len(stack)
                  PROVE  /\ k < Len(stack) => stack'[k].at = "script"
                         /\ k > 1 => \A i \in DOMAIN stack'[k].todo :
                                       stack'[k].todo[i].values[1].by = "script"
      BY <2>5 DEF ScriptsAbove
    <3>0. k < Len(stack) \/ k = Len(stack)
      <4>1. \A n \in Nat : \A x \in 1 .. n : x < n \/ x = n
        OBVIOUS
      <4>. QED
        BY <2>5, <4>1
    <3>1. CASE k < Len(stack)
      BY <1>1, <2>5, <3>1 DEF ScriptsAbove
    <3>2. CASE k = Len(stack)
      <4>1. k > 1 => \A i \in DOMAIN todo : todo[i].values[1].by = "script"
        BY <1>1, <2>5, <3>2 DEF ScriptsAbove, todo
      <4>. QED
        BY <2>4, <2>5, <3>2, <4>1
    <3>. QED
      BY <3>0, <3>1, <3>2
  <2>7. CASE Len(stack) = 1
    <3>1. stack[1].at = "send" /\ stack[1].todo = todo /\ stack'[1].at = "script"
      BY <2>2, <2>4, <2>5, <2>7 DEF todo
    <3>2. /\ Outgoing = todo \o pending \o http.deliveries
          /\ Outgoing' = <<>> \o pending \o http.deliveries
      BY <2>2, <2>5, <3>1 DEF Outgoing
    <3>3. /\ Outgoing' = pending \o http.deliveries
          /\ (todo \o pending) \o http.deliveries = todo \o (pending \o http.deliveries)
          /\ pending \o http.deliveries \in Seq(Delivery)
      <4>1. <<>> \o pending = pending /\ pending \o http.deliveries \in Seq(Delivery)
        BY <1>1
      <4>2. (todo \o pending) \o http.deliveries = todo \o (pending \o http.deliveries)
        <5>. DEFINE last == http.deliveries
        <5>1. last \in Seq(Delivery)
          BY <1>1
        <5>. HIDE DEF last
        <5>2. (todo \o pending) \o last = todo \o (pending \o last)
          BY <1>1, <2>3, <5>1, ConcatAssociative, SMTT(30)
        <5>. QED
          BY <5>2 DEF last
      <4>. QED
        BY <3>2, <4>1, <4>2
    <3>4. Outgoing = todo \o Outgoing' /\ Outgoing' \in Seq(Delivery)
      BY <3>2, <3>3
    <3>5. Numbered' /\ InWriteOrder'
      BY <2>1, <2>2, <2>3, <3>4, SendOrdered
    <3>6. FrontSent
      BY <1>3, <2>3, <3>4 DEF FrontSent, todo
    <3>. QED
      BY <1>1, <2>2, <2>6, <3>5, <3>6 DEF OnlyQueued
  <2>8. CASE Len(stack) > 1
    <3>1. Len(stack) > 1 /\ stack'[1] = stack[1]
      BY <2>5, <2>8
    <3>2. Outgoing' = Outgoing
      BY <2>2, <2>5, <3>1 DEF Outgoing
    <3>3. \A i \in DOMAIN todo : todo[i].values[1].by = "script"
      BY <1>1, <2>5, <3>1 DEF ScriptsAbove, todo
    <3>4. seen' = seen
      BY <1>1, <2>1, <2>3, <3>3, ScriptsUnseen
    <3>5. Numbered' /\ InWriteOrder'
      BY <1>1, <2>2, <3>2, <3>4, StillOrdered DEF history
    <3>. QED
      BY <1>1, <2>2, <2>6, <3>2, <3>4, <3>5 DEF OnlyQueued, NoneSent
  <2>. QED
    BY <1>1, <2>2, <2>7, <2>8, OneOrMore
<1>4. CASE MainScript
  <2>. DEFINE d == Head(Top.todo)
              v == [n |-> d.values[1].n, by |-> "script"]
              rest == [Top EXCEPT !.todo = Tail(@)]
              ended == [rest EXCEPT !.locks = rest.todo # <<>>]
              paused == [rest EXCEPT !.locks = FALSE]
  <2>1. /\ stack # <<>> /\ Top.at = "script" /\ Top.todo # <<>> /\ Top \in Call
        /\ UNCHANGED <<pending, http>> /\ UNCHANGED history
        /\ stack' \in Seq(Call)
    BY <1>1, <1>4, StackType DEF MainScript, Inv, TypeOK
  <2>2. Top.todo \in Seq(Delivery) /\ d \in Delivery
    BY <2>1, HeadTailProperties DEF Call
  <2>3. v \in Value
    <3>1. d.values[1] \in Value
      BY <2>2 DEF Delivery
    <3>. HIDE DEF d
    <3>2. d.values[1].n \in 1 .. MaxWrites
      BY <3>1, ServerAssumption
    <3>. QED
      BY <3>2, ValueType
  <2>4. /\ ended.at = "script" /\ ended.todo = Tail(Top.todo)
        /\ paused.at = "script" /\ paused.todo = Tail(Top.todo)
    BY <2>1 DEF Call
  <2>5. \A i \in DOMAIN Tail(Top.todo) : \E j \in DOMAIN Top.todo : Tail(Top.todo)[i] = Top.todo[j]
    <3>1. /\ Tail(Top.todo) \in Seq(Delivery)
          /\ Len(Tail(Top.todo)) = Len(Top.todo) - 1
          /\ \A i \in 1 .. Len(Tail(Top.todo)) : Tail(Top.todo)[i] = Top.todo[i + 1]
      BY <2>1, <2>2, HeadTailProperties
    <3>2. \A i \in 1 .. Len(Top.todo) - 1 : i + 1 \in DOMAIN Top.todo
      BY <2>2
    <3>. QED
      BY <3>1, <3>2
  <2>. HIDE DEF d, v, rest, ended, paused
  <2>6. /\ \/ registry' = registry /\ stack' = Below \o <<ended>>
           \/ \E path : /\ registry' = Notified(registry, path, <<v>>, 0)
                        /\ \E q \in InRidOrder(NotifyDeliveries(registry, path, <<v>>, 0)) :
                             stack' = IF q = <<>> THEN Below \o <<ended>>
                                                  ELSE Below \o <<paused, Called(q)>>
    BY <1>4 DEF MainScript, d, v, rest, ended, paused
  <2>7. registry'.next_id = registry.next_id
    BY <1>1, <2>6, NextIdKept
  <2>8. \/ stack' = Below \o <<ended>>
        \/ \E q : /\ stack' = Below \o <<paused, Called(q)>>
                  /\ \A i \in DOMAIN q : q[i].values[1].by = "script"
    <3>. SUFFICES ASSUME NEW path,
                         NEW q \in InRidOrder(NotifyDeliveries(registry, path, <<v>>, 0))
                  PROVE  \A i \in DOMAIN q : q[i].values[1].by = "script"
      BY <2>6
    <3>1. \A i \in DOMAIN q : q[i] \in NotifyDeliveries(registry, path, <<v>>, 0)
      BY <1>1, <2>3, NotifyType, OnePerRid
    <3>2. \A i \in DOMAIN q : q[i].values = <<v>>
      BY <1>1, <3>1, RidBelowNext
    <3>3. v.by = "script"
      BY DEF v
    <3>. QED
      BY <3>2, <3>3
  <2>9. /\ Len(stack) \in Nat /\ Len(stack) >= 1 /\ Top = stack[Len(stack)]
        /\ \A k \in 1 .. Len(stack) - 1 : stack'[k] = stack[k]
        /\ stack'[Len(stack)] \in {ended, paused}
        /\ \/ Len(stack') = Len(stack)
           \/ /\ Len(stack') = Len(stack) + 1
              /\ \A i \in DOMAIN stack'[Len(stack) + 1].todo :
                   stack'[Len(stack) + 1].todo[i].values[1].by = "script"
    <3>1. CASE stack' = Below \o <<ended>>
      BY <1>1, <2>1, <3>1, StackShape
    <3>2. ASSUME NEW q, stack' = Below \o <<paused, Called(q)>>,
                 \A i \in DOMAIN q : q[i].values[1].by = "script"
          PROVE  /\ Len(stack) \in Nat /\ Len(stack) >= 1 /\ Top = stack[Len(stack)]
                 /\ \A k \in 1 .. Len(stack) - 1 : stack'[k] = stack[k]
                 /\ stack'[Len(stack)] = paused
                 /\ Len(stack') = Len(stack) + 1
                 /\ \A i \in DOMAIN stack'[Len(stack) + 1].todo :
                      stack'[Len(stack) + 1].todo[i].values[1].by = "script"
      <4>1. Called(q).todo = q
        BY DEF Called
      <4>2. /\ Len(stack) \in Nat /\ Len(stack) >= 1 /\ Top = stack[Len(stack)]
            /\ \A k \in 1 .. Len(stack) - 1 : stack'[k] = stack[k]
            /\ stack'[Len(stack)] = paused
            /\ Len(stack') = Len(stack) + 1
            /\ stack'[Len(stack) + 1] = Called(q)
        BY <1>1, <2>1, <3>2, StackShape
      <4>. QED
        BY <3>2, <4>1, <4>2
    <3>. QED
      BY <2>8, <3>1, <3>2
  <2>10. ScriptsAbove'
    <3>. SUFFICES ASSUME NEW k \in DOMAIN stack'
                  PROVE  /\ k < Len(stack') => stack'[k].at = "script"
                         /\ k > 1 => \A i \in DOMAIN stack'[k].todo :
                                       stack'[k].todo[i].values[1].by = "script"
      BY DEF ScriptsAbove
    <3>1. k \in 1 .. Len(stack')
      BY <2>1
    <3>2. CASE k < Len(stack)
      BY <1>1, <2>1, <2>9, <3>1, <3>2 DEF ScriptsAbove
    <3>3. CASE k = Len(stack)
      <4>1. k > 1 => \A i \in DOMAIN Top.todo : Top.todo[i].values[1].by = "script"
        BY <1>1, <2>1, <2>9, <3>3 DEF ScriptsAbove
      <4>2. stack'[k].at = "script" /\ stack'[k].todo = Tail(Top.todo)
        BY <2>4, <2>9, <3>3
      <4>. QED
        BY <2>5, <4>1, <4>2
    <3>4. CASE k = Len(stack) + 1 /\ Len(stack') = Len(stack) + 1
      BY <2>9, <3>4
    <3>. QED
      BY <2>9, <3>1, <3>2, <3>3, <3>4
  <2>11. Outgoing' = Outgoing
    <3>1. stack[1].at = "script"
      <4>1. CASE Len(stack) = 1
        BY <2>1, <2>9, <4>1
      <4>2. CASE Len(stack) > 1
        <5>1. 1 \in DOMAIN stack
          BY <1>1, <4>2
        <5>. QED
          BY <1>1, <4>2, <5>1 DEF ScriptsAbove
      <4>. QED
        BY <1>1, <2>1, <4>1, <4>2, OneOrMore
    <3>2. stack'[1].at = "script"
      <4>1. CASE Len(stack) = 1
        BY <2>4, <2>9, <4>1
      <4>2. CASE Len(stack) > 1
        <5>1. 1 \in 1 .. Len(stack) - 1
          BY <2>9, <4>2
        <5>. QED
          BY <2>9, <3>1, <5>1
      <4>. QED
        BY <1>1, <2>1, <4>1, <4>2, OneOrMore
    <3>. QED
      BY <2>1, <3>1, <3>2 DEF Outgoing
  <2>12. Numbered' /\ InWriteOrder'
    BY <1>1, <2>1, <2>7, <2>11, StillOrdered
  <2>. QED
    BY <1>1, <2>1, <2>10, <2>11, <2>12 DEF OnlyQueued, NoneSent, history
<1>5. CASE MainReturn
  <2>1. /\ stack # <<>> /\ Top.at = "script" /\ stack' = Below
        /\ UNCHANGED <<pending, http>> /\ UNCHANGED history
        /\ stack' \in Seq(Call)
    BY <1>5 DEF MainReturn, Inv, TypeOK
  <2>2. registry'.next_id = registry.next_id
    BY <1>1, <1>5, NextIdKept DEF MainReturn
  <2>3. /\ Len(stack) \in Nat /\ Len(stack) >= 1 /\ Top = stack[Len(stack)]
        /\ Len(stack') = Len(stack) - 1
        /\ \A k \in 1 .. Len(stack) - 1 : stack'[k] = stack[k]
        /\ DOMAIN stack' = 1 .. Len(stack) - 1
    BY <1>1, <2>1, StackShape
  <2>4. ScriptsAbove'
    BY <1>1, <2>1, <2>3 DEF ScriptsAbove
  <2>5. Outgoing' = Outgoing
    <3>1. stack[1].at = "script"
      <4>1. CASE Len(stack) = 1
        BY <2>1, <2>3, <4>1
      <4>2. CASE Len(stack) > 1
        <5>1. 1 \in DOMAIN stack
          BY <1>1, <4>2
        <5>. QED
          BY <1>1, <4>2, <5>1 DEF ScriptsAbove
      <4>. QED
        BY <1>1, <2>1, <4>1, <4>2, OneOrMore
    <3>2. stack' # <<>> => stack'[1] = stack[1]
      BY <2>1, <2>3
    <3>. QED
      BY <2>1, <3>1, <3>2 DEF Outgoing
  <2>6. Numbered' /\ InWriteOrder'
    BY <1>1, <2>1, <2>2, <2>5, StillOrdered
  <2>. QED
    BY <1>1, <2>1, <2>4, <2>5, <2>6 DEF OnlyQueued, NoneSent, history
<1>. HIDE DEF Goal
<1>. QED
  BY <1>2, <1>3, <1>4, <1>5 DEF MainLoop

\* Every step keeps the order.
LEMMA NextOrder == OrderInv /\ [Next]_vars => OrderInv'
<1>. SUFFICES ASSUME OrderInv, [Next]_vars PROVE OrderInv'
  OBVIOUS
<1>1. Inv'
  BY NextInv DEF OrderInv
<1>2. CASE HttpTask
  BY <1>1, <1>2, HttpOrder DEF OrderInv
<1>3. CASE MainLoop
  BY <1>1, <1>3, MainOrder DEF OrderInv
<1>4. CASE PortalTurns \/ (\E c \in Conn : PeerGoes(c)) \/ UNCHANGED vars
  <2>1. UNCHANGED <<registry, pending, stack, http, written, newest, seen>>
    BY <1>4 DEF PortalTurns, PeerGoes, vars, history
  <2>. QED
    BY <1>1, <2>1, QuietOrder DEF OrderInv, OnlyQueued
<1>. QED
  BY <1>2, <1>3, <1>4 DEF Next
-----------------------------------------------------------------------------
\* Each subscriber is sent the values written over HTTP in the order they were
\* written, none twice, though a write leaves the engine before it is queued and
\* is taken from the queue before it is sent (server.rs:606-614, main.rs:412-420).
THEOREM WritesSentInOrder == Spec => []InWriteOrder
<1>1. Init => OrderInv
  BY InitOrder
<1>2. OrderInv /\ [Next]_vars => OrderInv'
  BY NextOrder
<1>3. OrderInv => InWriteOrder
  BY DEF OrderInv
<1>. QED
  BY <1>1, <1>2, <1>3, PTL DEF Spec
-----------------------------------------------------------------------------
(* That nothing falls between the engine, the queue and the senders.       *)

Subs == registry.subscriptions

\* Every subscription watches events, so a write finds it in the index.
OnlyEvents == \A r \in DOMAIN Subs : IsEvent(Subs[r])

\* Sessions are numbered as connections come, and never again.
SessionsGiven ==
  /\ \A c \in Conn : fd_map[c] # NoSession => fd_map[c] < next_session
  /\ \A r \in OverWs : SessionOf(r) < next_session

\* A session has no subscription before it has its sender: no message is served
\* between the two steps of connecting (server.rs:655-656).
NoneJoining == http.at = "join" => \A r \in OverWs : SessionOf(r) # http.session

\* A delivery under way goes to the target of its subscription, and is no newer
\* than the last write to the path.
NotAhead ==
  \A i \in DOMAIN Outgoing :
    Outgoing[i].rid \in DOMAIN Subs =>
      /\ Outgoing[i].target = Subs[Outgoing[i].rid].target
      /\ N(Outgoing[i]) <= newest[Subs[Outgoing[i].rid].path]

UnderWay(r, n) == \E i \in DOMAIN Outgoing : Outgoing[i].rid = r /\ N(Outgoing[i]) = n

\* The last write to its path was sent to a subscriber, or is on its way to it.
Informed ==
  \A r \in OverWs :
    SessionOf(r) \in senders =>
      \/ seen[r] = newest[Subs[r].path]
      \/ UnderWay(r, newest[Subs[r].path])

\* The inductive invariant: that a subscriber is informed outlives a send because
\* what was sent last to it is the newest there is (NotAhead, InWriteOrder), and
\* the coming of a sender because it comes before the subscriptions it serves.
CurrentInv == /\ OrderInv
              /\ OnlyEvents /\ SessionsGiven /\ NoneJoining /\ NotAhead /\ Informed

\* The subscriptions there are.
LEMMA SubscriptionTypes ==
  ASSUME OrderInv, NEW r \in DOMAIN Subs
  PROVE  /\ r \in 1 .. MaxRid /\ r < registry.next_id
         /\ Subs[r] \in Subscription /\ Subs[r].path \in Path
         /\ newest[Subs[r].path] \in Nat /\ seen[r] \in Nat
<1>1. /\ RegistryOK(registry) /\ TypeOK /\ registry.next_id <= MaxRid + 1
      /\ r < registry.next_id
  BY DEF OrderInv, Inv, WellKept, Indexed, Numbered, Subs
<1>2. r \in Nat \ {0} /\ registry.next_id \in Nat /\ Subs[r] \in Subscription
  BY <1>1 DEF RegistryOK, Rid, Subs
<1>3. r \in 1 .. MaxRid
  BY <1>1, <1>2, ServerAssumption
<1>4. Subs[r].path \in Path
  BY <1>2 DEF Subscription
<1>. QED
  BY <1>1, <1>2, <1>3, <1>4, ServerAssumption DEF TypeOK

\* Where the elements of two sequences are in their concatenation.
LEMMA AppendPlaces ==
  ASSUME NEW S, NEW s \in Seq(S), NEW t \in Seq(S)
  PROVE  /\ \A i \in DOMAIN s : i \in DOMAIN (s \o t) /\ (s \o t)[i] = s[i]
         /\ \A k \in DOMAIN t : /\ Len(s) + k \in DOMAIN (s \o t)
                                /\ (s \o t)[Len(s) + k] = t[k]
         /\ \A i \in DOMAIN (s \o t) : \/ i \in DOMAIN s
                                       \/ \E k \in DOMAIN t : i = Len(s) + k
<1>1. \A i \in DOMAIN s : i \in DOMAIN (s \o t) /\ (s \o t)[i] = s[i]
  OBVIOUS
<1>2. \A k \in DOMAIN t : Len(s) + k \in DOMAIN (s \o t) /\ (s \o t)[Len(s) + k] = t[k]
  OBVIOUS
<1>3. \A i \in DOMAIN (s \o t) : i \in DOMAIN s \/ \E k \in DOMAIN t : i = Len(s) + k
  <2>. SUFFICES ASSUME NEW i \in DOMAIN (s \o t), i \notin DOMAIN s
                PROVE  \E k \in DOMAIN t : i = Len(s) + k
    OBVIOUS
  <2>1. i - Len(s) \in DOMAIN t /\ i = Len(s) + (i - Len(s))
    OBVIOUS
  <2>. QED
    BY <2>1
<1>. QED
  BY <1>1, <1>2, <1>3
-----------------------------------------------------------------------------
\* A step that only takes subscriptions away, and moves what is under way without
\* losing any of it, keeps subscribers informed.
LEMMA StillInformed ==
  ASSUME CurrentInv, Shrinks, NoneSent, newest' = newest,
         \A r \in OverWs : SessionOf(r) \in senders' => SessionOf(r) \in senders
  PROVE  OnlyEvents' /\ NotAhead' /\ Informed'
<1>1. OnlyEvents /\ NotAhead /\ Informed
  BY DEF CurrentInv
<1>2. \A r \in DOMAIN Subs' : r \in DOMAIN Subs /\ Subs'[r] = Subs[r]
  BY DEF Shrinks, IsRestriction, Subs
<1>3. OnlyEvents' /\ NotAhead'
  BY <1>1, <1>2 DEF OnlyEvents, NotAhead, NoneSent
<1>4. \A r \in OverWs' : r \in OverWs /\ SessionOf(r)' = SessionOf(r)
  BY <1>2 DEF OverWs, SessionOf, Subs
<1>5. Informed'
  <2>. SUFFICES ASSUME NEW r \in OverWs', SessionOf(r)' \in senders'
                PROVE  \/ seen'[r] = newest'[Subs'[r].path]
                       \/ \E i \in DOMAIN Outgoing' :
                            /\ Outgoing'[i].rid = r
                            /\ N(Outgoing'[i]) = newest'[Subs'[r].path]
    BY DEF Informed, UnderWay, N
  <2>1. r \in OverWs /\ SessionOf(r) \in senders
    BY <1>4
  <2>2. Subs'[r] = Subs[r]
    BY <1>2 DEF OverWs, Subs
  <2>. QED
    BY <1>1, <2>1, <2>2 DEF Informed, UnderWay, NoneSent
<1>. QED
  BY <1>3, <1>5

\* Nor does it make a session known that was not given out.
LEMMA StillGiven ==
  ASSUME CurrentInv, Shrinks, fd_map' = fd_map, next_session' = next_session,
         http'.at = "join" => http' = http
  PROVE  SessionsGiven' /\ NoneJoining'
<1>1. \A r \in OverWs' : r \in OverWs /\ SessionOf(r)' = SessionOf(r)
  BY DEF Shrinks, IsRestriction, OverWs, SessionOf
<1>. QED
  BY <1>1 DEF CurrentInv, SessionsGiven, NoneJoining

\* A write puts a delivery under way for every subscriber of its path: the index
\* of the engine holds each of them, and none has expired.
LEMMA WriteInforms ==
  ASSUME CurrentInv, NEW path \in Path, HttpWrite(path)
  PROVE  /\ Shrinks /\ OnlyEvents' /\ NotAhead' /\ Informed'
<1>. DEFINE v == [n |-> written', by |-> "http"]
            ds == NotifyDeliveries(registry, path, <<v>>, 0)
<1>1. /\ OrderInv /\ WellKept(registry, {}) /\ RegistryOK(registry) /\ TypeOK
      /\ Indexed(registry, {}) /\ OnlyQueued /\ Numbered
      /\ OnlyEvents /\ NotAhead /\ Informed
  BY DEF CurrentInv, OrderInv, Inv, WellKept
<1>2. v \in Value
  <2>1. written' \in 1 .. MaxWrites
    BY <1>1, ServerAssumption DEF HttpWrite, TypeOK
  <2>. QED
    BY <2>1, ValueType
<1>3. /\ newest' = [newest EXCEPT ![path] = written'] /\ written' = written + 1
      /\ registry' = Notified(registry, path, <<v>>, 0)
      /\ senders' = senders /\ seen' = seen
  BY DEF HttpWrite
<1>4. Shrinks
  BY <1>1, <1>2, <1>3, NotifyShrinks
<1>5. \A r \in DOMAIN Subs' : r \in DOMAIN Subs /\ Subs'[r] = Subs[r]
  BY <1>4 DEF Shrinks, IsRestriction, Subs
<1>6. PICK q \in InRidOrder(ds) : q \in Seq(Delivery) => Outgoing' = Outgoing \o q
  BY <1>1, WriteOutgoing
<1>7. q \in Seq(Delivery) /\ Range(q) = ds /\ Outgoing \in Seq(Delivery)
  <2>1. ds \in SUBSET Delivery
    BY <1>1, <1>2, NotifyType
  <2>2. q \in Seq(Delivery)
    BY <1>6, <2>1, OnePerRid
  <2>. QED
    BY <1>1, <1>6, <2>2, OutgoingType DEF InRidOrder
<1>8. Outgoing' = Outgoing \o q
  BY <1>6, <1>7
<1>9. \A k \in DOMAIN q :
        /\ q[k].rid \in DOMAIN Subs
        /\ q[k].target = Subs[q[k].rid].target
        /\ Subs[q[k].rid].path = path
        /\ N(q[k]) = written'
  <2>1. \A d \in ds : /\ d.rid \in DOMAIN Subs /\ d.target = Subs[d.rid].target
                      /\ Subs[d.rid].path = path /\ N(d) = written'
    BY <1>1 DEF NotifyDeliveries, DeliveryOf, Watching, Indexed, EventsOn, Subs, N
  <2>2. \A k \in DOMAIN q : q[k] \in ds
    BY <1>7 DEF Range
  <2>. HIDE DEF ds
  <2>. QED
    BY <2>1, <2>2
<1>10. \A r \in OverWs : Subs[r].path = path =>
         \E k \in DOMAIN q : q[k].rid = r /\ N(q[k]) = written'
  <2>. SUFFICES ASSUME NEW r \in OverWs, Subs[r].path = path
                PROVE  \E k \in DOMAIN q : q[k].rid = r /\ N(q[k]) = written'
    OBVIOUS
  <2>1. /\ r \in DOMAIN registry.subscriptions
        /\ registry.subscriptions[r].target.kind = "websocket"
        /\ registry.subscriptions[r] \in Subscription
    BY <1>1 DEF OverWs, RegistryOK
  <2>2. r \in Watching(registry, path)
    BY <1>1, <2>1 DEF Watching, Indexed, EventsOn, OnlyEvents, Subs
  <2>3. ~IsExpired(registry.subscriptions[r], 0)
    BY <2>1 DEF IsExpired, Subscription
  <2>4. registry.subscriptions[r].target # Poll
    BY <2>1 DEF Poll
  <2>5. DeliveryOf(r, registry.subscriptions[r], <<v>>) \in ds
    BY <2>2, <2>3, <2>4 DEF NotifyDeliveries, ExpiredOf
  <2>6. /\ DeliveryOf(r, registry.subscriptions[r], <<v>>).rid = r
        /\ N(DeliveryOf(r, registry.subscriptions[r], <<v>>)) = written'
    BY DEF DeliveryOf, N
  <2>7. PICK k \in DOMAIN q : q[k] = DeliveryOf(r, registry.subscriptions[r], <<v>>)
    BY <1>7, <2>5 DEF Range
  <2>. QED
    BY <2>6, <2>7
<1>. HIDE DEF ds, v
<1>11. /\ \A i \in DOMAIN Outgoing : i \in DOMAIN Outgoing' /\ Outgoing'[i] = Outgoing[i]
       /\ \A k \in DOMAIN q : /\ Len(Outgoing) + k \in DOMAIN Outgoing'
                              /\ Outgoing'[Len(Outgoing) + k] = q[k]
       /\ \A i \in DOMAIN Outgoing' :
            \/ i \in DOMAIN Outgoing
            \/ \E k \in DOMAIN q : i = Len(Outgoing) + k
  <2>. DEFINE out == Outgoing
              new == Outgoing'
  <2>1. new = out \o q /\ out \in Seq(Delivery)
    BY <1>7, <1>8
  <2>. HIDE DEF out, new
  <2>2. /\ \A i \in DOMAIN out : i \in DOMAIN new /\ new[i] = out[i]
        /\ \A k \in DOMAIN q : Len(out) + k \in DOMAIN new /\ new[Len(out) + k] = q[k]
        /\ \A i \in DOMAIN new : i \in DOMAIN out \/ \E k \in DOMAIN q : i = Len(out) + k
    BY <1>7, <2>1, AppendPlaces
  <2>. QED
    BY <2>2 DEF out, new
<1>12. ASSUME NEW r \in DOMAIN Subs
       PROVE  /\ newest[Subs[r].path] \in Nat /\ newest[Subs[r].path] <= written'
              /\ newest'[Subs[r].path]
                   = IF Subs[r].path = path THEN written' ELSE newest[Subs[r].path]
              /\ written' \in Nat
  <2>1. Subs[r].path \in Path /\ newest \in [Path -> 0 .. MaxWrites] /\ written \in Nat
    BY <1>1, SubscriptionTypes, ServerAssumption DEF TypeOK
  <2>2. newest[Subs[r].path] <= written /\ newest[Subs[r].path] \in Nat
    BY <1>1, <2>1, SubscriptionTypes DEF Numbered
  <2>. QED
    BY <1>3, <2>1, <2>2
<1>13. OnlyEvents'
  BY <1>1, <1>5 DEF OnlyEvents
<1>14. NotAhead'
  <2>. SUFFICES ASSUME NEW i \in DOMAIN Outgoing', Outgoing'[i].rid \in DOMAIN Subs'
                PROVE  /\ Outgoing'[i].target = Subs'[Outgoing'[i].rid].target
                       /\ N(Outgoing'[i]) <= newest'[Subs'[Outgoing'[i].rid].path]
    BY DEF NotAhead, N
  <2>. DEFINE r == Outgoing'[i].rid
  <2>1. r \in DOMAIN Subs /\ Subs'[r] = Subs[r]
    BY <1>5
  <2>2. CASE i \in DOMAIN Outgoing
    <3>1. Outgoing'[i] = Outgoing[i] /\ N(Outgoing[i]) \in Nat
      BY <1>7, <1>11, <2>2, NumberType
    <3>2. Outgoing[i].target = Subs[r].target /\ N(Outgoing[i]) <= newest[Subs[r].path]
      BY <1>1, <2>1, <2>2, <3>1 DEF NotAhead
    <3>. QED
      BY <1>12, <2>1, <3>1, <3>2
  <2>3. ASSUME NEW k \in DOMAIN q, i = Len(Outgoing) + k
        PROVE  /\ Outgoing'[i].target = Subs'[r].target
               /\ N(Outgoing'[i]) <= newest'[Subs'[r].path]
    <3>1. Outgoing'[i] = q[k]
      BY <1>11, <2>3
    <3>. QED
      BY <1>9, <1>12, <2>1, <3>1
  <2>. QED
    BY <1>11, <2>2, <2>3
<1>15. Informed'
  <2>. SUFFICES ASSUME NEW r \in OverWs', SessionOf(r)' \in senders'
                PROVE  \/ seen'[r] = newest'[Subs'[r].path]
                       \/ \E i \in DOMAIN Outgoing' :
                            /\ Outgoing'[i].rid = r
                            /\ N(Outgoing'[i]) = newest'[Subs'[r].path]
    BY DEF Informed, UnderWay, N
  <2>1. r \in DOMAIN Subs /\ Subs'[r] = Subs[r] /\ r \in OverWs /\ SessionOf(r) \in senders
    BY <1>3, <1>5 DEF OverWs, SessionOf, Subs
  <2>2. CASE Subs[r].path = path
    <3>1. PICK k \in DOMAIN q : q[k].rid = r /\ N(q[k]) = written'
      BY <1>10, <2>1, <2>2
    <3>. QED
      BY <1>11, <1>12, <2>1, <2>2, <3>1
  <2>3. CASE Subs[r].path # path
    <3>1. \/ seen[r] = newest[Subs[r].path]
          \/ \E i \in DOMAIN Outgoing :
               Outgoing[i].rid = r /\ N(Outgoing[i]) = newest[Subs[r].path]
      BY <1>1, <2>1 DEF Informed, UnderWay
    <3>2. newest'[Subs'[r].path] = newest[Subs[r].path]
      BY <1>12, <2>1, <2>3
    <3>. QED
      BY <1>3, <1>11, <3>1, <3>2
  <2>. QED
    BY <2>2, <2>3
<1>. QED
  BY <1>4, <1>13, <1>14, <1>15

\* A new subscription has been told all there is, and no delivery is for it.
LEMMA AcceptInforms ==
  ASSUME CurrentInv, NEW path \in Path, NEW target \in Target, Accept(path, target)
  PROVE  /\ OnlyEvents' /\ NotAhead' /\ Informed'
         /\ \A r \in OverWs' : \/ r \in OverWs /\ SessionOf(r)' = SessionOf(r)
                               \/ /\ target.kind = "websocket"
                                  /\ SessionOf(r)' = target.to
<1>. DEFINE rid == registry.next_id
            sub == [path |-> path, interval |-> OnEvent, target |-> target,
                    created_at |-> 0, ttl |-> 1, trigger_time |-> 0]
<1>1. /\ OrderInv /\ RegistryOK(registry) /\ TypeOK /\ Indexed(registry, {}) /\ Numbered
      /\ OnlyEvents /\ NotAhead /\ Informed
  BY DEF CurrentInv, OrderInv, Inv, WellKept
<1>2. /\ seen' = [seen EXCEPT ![rid] = newest[path]] /\ rid <= MaxRid
      /\ UNCHANGED <<pending, senders, http, stack, newest>>
      /\ registry' = Created(registry, path, OnEvent, target, 1, 0)
  BY DEF Accept
<1>3. Outgoing' = Outgoing
  BY <1>2 DEF Outgoing
<1>4. rid \in Rid /\ rid \in 1 .. MaxRid /\ seen \in [1 .. MaxRid -> 0 .. MaxWrites]
  BY <1>1, <1>2, ServerAssumption DEF RegistryOK, Rid, TypeOK
<1>5. \A r \in DOMAIN Subs : r # rid
  BY <1>1, <1>4 DEF Indexed, RegistryOK, Rid, Subs
<1>6. /\ DOMAIN Subs' = DOMAIN Subs \cup {rid} /\ Subs'[rid] = sub
      /\ \A r \in DOMAIN Subs : Subs'[r] = Subs[r]
  BY <1>2, <1>5 DEF Created, OnEvent, Subs
<1>7. \A i \in DOMAIN Outgoing : Outgoing[i].rid # rid
  BY <1>1, <1>4, OutgoingType, NumberType DEF Numbered, Rid
<1>8. OnlyEvents'
  BY <1>1, <1>6 DEF OnlyEvents, IsEvent, OnEvent
<1>9. NotAhead'
  BY <1>1, <1>2, <1>3, <1>6, <1>7 DEF NotAhead, N
<1>10. Informed'
  <2>. SUFFICES ASSUME NEW r \in OverWs', SessionOf(r)' \in senders'
                PROVE  \/ seen'[r] = newest'[Subs'[r].path]
                       \/ \E i \in DOMAIN Outgoing' :
                            /\ Outgoing'[i].rid = r
                            /\ N(Outgoing'[i]) = newest'[Subs'[r].path]
    BY DEF Informed, UnderWay, N
  <2>1. CASE r = rid
    BY <1>2, <1>4, <1>6, <2>1
  <2>2. CASE r # rid
    <3>1. /\ r \in DOMAIN Subs /\ Subs'[r] = Subs[r]
          /\ r \in OverWs /\ SessionOf(r) \in senders
      BY <1>2, <1>6, <2>2 DEF OverWs, SessionOf, Subs
    <3>2. seen'[r] = seen[r]
      BY <1>1, <1>2, <1>4, <2>2, <3>1, SubscriptionTypes
    <3>. QED
      BY <1>1, <1>2, <1>3, <3>1, <3>2 DEF Informed, UnderWay
  <2>. QED
    BY <2>1, <2>2
<1>11. \A r \in OverWs' : \/ r \in OverWs /\ SessionOf(r)' = SessionOf(r)
                          \/ target.kind = "websocket" /\ SessionOf(r)' = target.to
  BY <1>6 DEF OverWs, SessionOf, Subs
<1>. QED
  BY <1>8, <1>9, <1>10, <1>11

\* Sending the front of what is under way, to those it can reach, tells them the
\* newest of it: what comes later to the same subscriber carries a greater number,
\* and none carries one beyond the last write.  Who is not reached has no sender.
LEMMA SendInforms ==
  ASSUME CurrentInv, FrontSent
  PROVE  OnlyEvents' /\ NotAhead' /\ Informed'
<1>. DEFINE todo == Top.todo
            sends == {i \in DOMAIN todo : /\ todo[i].target.kind = "websocket"
                                          /\ todo[i].target.to \in senders}
            heard(r, lost) == {i \in sends \ lost :
                                 todo[i].rid = r /\ todo[i].values[1].by = "http"}
            out == Outgoing
            new == Outgoing'
<1>1. /\ OrderInv /\ TypeOK /\ Numbered /\ InWriteOrder
      /\ OnlyEvents /\ NotAhead /\ Informed
  BY DEF CurrentInv, OrderInv, Inv
<1>2. /\ MainSend /\ todo \in Seq(Delivery) /\ out = todo \o new /\ new \in Seq(Delivery)
      /\ registry' = registry /\ newest' = newest /\ Subs' = Subs
  BY DEF FrontSent, MainSend, Subs
<1>3. PICK lost \in SUBSET {i \in sends : MayFail(todo[i].target.to)} :
        /\ senders' = senders \ {todo[i].target.to : i \in lost}
        /\ seen' = SeenAfter(todo, sends \ lost)
  BY <1>2, Zenon DEF MainSend
<1>4. \A r \in DOMAIN seen :
        seen'[r] = IF heard(r, lost) = {} THEN seen[r]
                   ELSE N(todo[Max(heard(r, lost))])
  BY <1>3 DEF SeenAfter, N
<1>. HIDE DEF out, new
<1>5. out \in Seq(Delivery)
  BY <1>1, OutgoingType DEF out
<1>6. /\ \A i \in DOMAIN todo : i \in DOMAIN out /\ out[i] = todo[i]
      /\ \A k \in DOMAIN new : /\ Len(todo) + k \in DOMAIN out
                               /\ out[Len(todo) + k] = new[k]
      /\ \A i \in DOMAIN out : \/ i \in DOMAIN todo
                               \/ \E k \in DOMAIN new : i = Len(todo) + k
  <2>. HIDE DEF todo
  <2>. QED
    BY <1>2, AppendPlaces
<1>7. \A i \in DOMAIN out :
        /\ out[i].values[1].by = "http"
        /\ N(out[i]) > seen[out[i].rid] /\ N(out[i]) \in Nat
        /\ \A j \in 1 .. i - 1 : out[j].rid = out[i].rid => N(out[j]) < N(out[i])
        /\ out[i].rid \in DOMAIN Subs =>
             /\ out[i].target = Subs[out[i].rid].target
             /\ N(out[i]) <= newest[Subs[out[i].rid].path]
  BY <1>1, <1>5, NumberType DEF Numbered, InWriteOrder, NotAhead, N, out
<1>8. OnlyEvents'
  BY <1>1, <1>2 DEF OnlyEvents
<1>9. NotAhead'
  <2>1. \A k \in DOMAIN new : new[k].rid \in DOMAIN Subs =>
          /\ new[k].target = Subs[new[k].rid].target
          /\ N(new[k]) <= newest[Subs[new[k].rid].path]
    <3>. SUFFICES ASSUME NEW k \in DOMAIN new, new[k].rid \in DOMAIN Subs
                  PROVE  /\ new[k].target = Subs[new[k].rid].target
                         /\ N(new[k]) <= newest[Subs[new[k].rid].path]
      OBVIOUS
    <3>1. Len(todo) + k \in DOMAIN out /\ out[Len(todo) + k] = new[k]
      BY <1>6
    <3>2. /\ out[Len(todo) + k].target = Subs[out[Len(todo) + k].rid].target
          /\ N(out[Len(todo) + k]) <= newest[Subs[out[Len(todo) + k].rid].path]
      BY <1>7, <3>1
    <3>. QED
      BY <3>1, <3>2
  <2>. QED
    BY <1>2, <2>1 DEF NotAhead, N, new
<1>10. Informed'
  <2>. SUFFICES ASSUME NEW r \in OverWs', SessionOf(r)' \in senders'
                PROVE  \/ seen'[r] = newest[Subs[r].path]
                       \/ \E k \in DOMAIN new :
                            new[k].rid = r /\ N(new[k]) = newest[Subs[r].path]
    BY <1>2 DEF Informed, UnderWay, N, new
  <2>. DEFINE n == newest[Subs[r].path]
  <2>1. /\ r \in OverWs /\ r \in DOMAIN Subs /\ SessionOf(r)' = SessionOf(r)
        /\ SessionOf(r) \in senders
        /\ \A i \in lost : todo[i].target.to # SessionOf(r)
        /\ Subs[r].target.kind = "websocket" /\ Subs[r].target.to = SessionOf(r)
    BY <1>2, <1>3 DEF OverWs, SessionOf, Subs
  <2>2. n \in Nat /\ seen[r] \in Nat /\ r \in DOMAIN seen
    BY <1>1, <2>1, SubscriptionTypes DEF TypeOK
  <2>3. CASE seen[r] = n
    <3>1. heard(r, lost) = {}
      BY <1>6, <1>7, <2>1, <2>2, <2>3
    <3>. QED
      BY <1>4, <2>2, <2>3, <3>1
  <2>4. ASSUME NEW i \in DOMAIN todo, todo[i].rid = r, N(todo[i]) = n
        PROVE  seen'[r] = n
    <3>1. i \in heard(r, lost)
      BY <1>6, <1>7, <2>1, <2>4
    <3>2. heard(r, lost) \in SUBSET (1 .. Len(todo)) /\ Len(todo) \in Nat
      BY <1>2
    <3>. DEFINE H == heard(r, lost)
                m == Max(H)
    <3>3. /\ H \in SUBSET (1 .. Len(todo)) /\ i \in H /\ seen'[r] = N(todo[m])
          /\ \A k \in H : k \in DOMAIN todo /\ todo[k].rid = r
      BY <1>4, <2>2, <3>1, <3>2
    <3>. HIDE DEF H
    <3>4. m \in H /\ m >= i
      BY <3>2, <3>3, MaxOfPlaces
    <3>5. N(out[m]) <= n /\ out[m] = todo[m] /\ N(out[m]) \in Nat
      BY <1>6, <1>7, <2>1, <3>3, <3>4
    <3>6. m > i => N(out[i]) < N(out[m])
      <4>1. m > i => i \in 1 .. m - 1
        BY <3>2, <3>3, <3>4
      <4>2. out[i].rid = out[m].rid /\ m \in DOMAIN out
        BY <1>6, <2>4, <3>3, <3>4
      <4>. QED
        BY <1>7, <4>1, <4>2
    <3>7. m > i \/ m = i
      BY <3>2, <3>3, <3>4
    <3>. QED
      BY <1>6, <2>2, <2>4, <3>3, <3>5, <3>6, <3>7
  <2>5. ASSUME NEW k \in DOMAIN new, out[Len(todo) + k].rid = r,
               N(out[Len(todo) + k]) = n
        PROVE  new[k].rid = r /\ N(new[k]) = n
    BY <1>6, <2>5
  <2>6. seen[r] = n \/ \E i \in DOMAIN out : out[i].rid = r /\ N(out[i]) = n
    BY <1>1, <2>1 DEF Informed, UnderWay, out
  <2>. HIDE DEF todo
  <2>. QED
    BY <1>6, <2>3, <2>4, <2>5, <2>6
<1>. QED
  BY <1>8, <1>9, <1>10

\* A server that has just started has no subscriber.
LEMMA InitCurrent == Init => CurrentInv
<1>. SUFFICES ASSUME Init PROVE CurrentInv
  OBVIOUS
<1>1. Outgoing = <<>> /\ DOMAIN Subs = {} /\ OverWs = {}
  BY DEF Init, Idle, Outgoing, EmptyRegistry, Subs, OverWs
<1>2. OnlyEvents /\ NotAhead /\ Informed
  BY <1>1 DEF OnlyEvents, NotAhead, Informed
<1>3. SessionsGiven /\ NoneJoining
  BY <1>1 DEF Init, SessionsGiven, NoneJoining
<1>. QED
  BY InitOrder, <1>2, <1>3 DEF CurrentInv

\* Subscriptions over WebSockets are bound to sessions.
LEMMA SessionType ==
  ASSUME RegistryOK(registry), NEW r \in OverWs
  PROVE  SessionOf(r) \in Session
BY DEF RegistryOK, Subscription, Target, Poll, OverWs, SessionOf

\* The HTTP task keeps subscribers informed.
LEMMA HttpInforms ==
  CurrentInv /\ HttpTask =>
    OnlyEvents' /\ SessionsGiven' /\ NoneJoining' /\ NotAhead' /\ Informed'
<1>. DEFINE Goal == OnlyEvents' /\ SessionsGiven' /\ NoneJoining' /\ NotAhead' /\ Informed'
<1>. SUFFICES ASSUME CurrentInv, HttpTask PROVE Goal
  OBVIOUS
<1>1. /\ OrderInv /\ WellKept(registry, {}) /\ RegistryOK(registry) /\ TypeOK
      /\ OnlyQueued /\ SessionsGiven /\ NoneJoining
      /\ next_session \in Nat /\ next_session >= 1 /\ NoSession \notin Session
  BY ServerAssumption DEF CurrentInv, OrderInv, Inv, WellKept, TypeOK
<1>2. ASSUME Outgoing' = Outgoing, seen' = seen, newest' = newest, Shrinks,
             senders' \subseteq senders,
             fd_map' = fd_map, next_session' = next_session, http'.at # "join"
      PROVE  Goal
  BY <1>2, StillInformed, StillGiven DEF NoneSent
<1>3. ASSUME NEW path \in Path, HttpWrite(path)
      PROVE  Goal
  <2>1. /\ fd_map' = fd_map /\ next_session' = next_session
        /\ http'.at # "join"
    <3>1. \A q : [Idle EXCEPT !.at = "queue", !.deliveries = q].at # "join"
                 /\ Idle.at # "join"
      BY DEF Idle
    <3>2. \E q : http' = IF q = <<>> THEN Idle
                         ELSE [Idle EXCEPT !.at = "queue", !.deliveries = q]
      BY <1>3 DEF HttpWrite
    <3>. QED
      BY <1>3, <3>1, <3>2 DEF HttpWrite, connection
  <2>. QED
    BY <1>3, <2>1, WriteInforms, StillGiven
<1>4. ASSUME NEW path \in Path, NEW target \in Target, Accept(path, target), http = Idle,
             target.kind = "websocket" => target.to < next_session
      PROVE  Goal
  <2>1. /\ OnlyEvents' /\ NotAhead' /\ Informed'
        /\ \A r \in OverWs' : \/ r \in OverWs /\ SessionOf(r)' = SessionOf(r)
                              \/ /\ target.kind = "websocket"
                                 /\ SessionOf(r)' = target.to
    BY <1>4, AcceptInforms
  <2>2. fd_map' = fd_map /\ next_session' = next_session /\ http'.at # "join"
    BY <1>4 DEF Accept, connection, Idle
  <2>. QED
    BY <1>1, <1>4, <2>1, <2>2 DEF SessionsGiven, NoneJoining
<1>5. ASSUME NEW asked \in CallbackAsked, CallbackSubscribe(asked[1], asked[2])
      PROVE  Goal
  <2>. DEFINE target == [kind |-> "callback", to |-> asked[2]]
  <2>1. asked[1] \in Path /\ target \in Target /\ target.kind # "websocket"
    BY ServerAssumption DEF Target
  <2>2. Accept(asked[1], target) /\ http = Idle
    BY <1>5 DEF CallbackSubscribe, Asked, Handles
  <2>. HIDE DEF target, Goal
  <2>. QED
    BY <1>4, <2>1, <2>2
<1>6. ASSUME NEW c \in Conn, NEW path \in Path, WsSubscribe(c, path)
      PROVE  Goal
  <2>. DEFINE session == IF fd_map[c] = NoSession THEN 0 ELSE fd_map[c]
              target == [kind |-> "websocket", to |-> session]
  <2>1. Accept(path, target) /\ http = Idle
    BY <1>6 DEF WsSubscribe, Handles
  <2>2. target \in Target /\ target.to < next_session
    BY <1>1, ServerAssumption DEF TypeOK, Target, SessionsGiven
  <2>. HIDE DEF target, Goal
  <2>. QED
    BY <1>4, <2>1, <2>2
<1>7. ASSUME NEW r \in 1 .. MaxRid, Cancel(r)
      PROVE  Goal
  <2>1. Shrinks
    BY <1>1, <1>7, CancelShrinks DEF Cancel
  <2>2. http'.at # "join" /\ Outgoing' = Outgoing
    BY <1>7 DEF Cancel, Asked, Handles, Idle, Outgoing
  <2>. QED
    BY <1>2, <1>7, <2>1, <2>2 DEF Cancel, connection, history
<1>8. ASSUME NEW c \in Conn, Connect(c)
      PROVE  Goal
  <2>1. /\ registry' = registry /\ http = Idle
        /\ UNCHANGED <<pending, senders, stack, newest, seen>>
    BY <1>8 DEF Connect, Handles, history
  <2>2. Shrinks
    BY <1>1, <2>1, StillShrinks
  <2>3. CASE denied
    <3>1. UNCHANGED <<fd_map, next_session, http>>
      BY <1>8, <2>3 DEF Connect
    <3>2. Outgoing' = Outgoing /\ http'.at # "join"
      BY <2>1, <3>1 DEF Outgoing, Idle
    <3>. QED
      BY <1>2, <2>1, <2>2, <3>1, <3>2
  <2>4. CASE ~denied
    <3>1. /\ fd_map' = [fd_map EXCEPT ![c] = next_session]
          /\ next_session' = next_session + 1
          /\ http' = [Idle EXCEPT !.at = "join", !.session = next_session]
      BY <1>8, <2>4 DEF Connect
    <3>2. http'.deliveries = http.deliveries /\ http'.session = next_session
      BY <2>1, <3>1 DEF Idle
    <3>3. Outgoing' = Outgoing
      BY <2>1, <3>2 DEF Outgoing
    <3>4. \A r \in OverWs : SessionOf(r) \in Int /\ SessionOf(r) < next_session
      BY <1>1, SessionType, ServerAssumption DEF SessionsGiven
    <3>5. \A d \in Conn : fd_map[d] # NoSession => fd_map[d] \in Int
      BY <1>1, ServerAssumption DEF TypeOK
    <3>6. SessionsGiven'
      <4>1. \A d \in Conn : fd_map'[d] # NoSession => fd_map'[d] < next_session'
        BY <1>1, <3>1, <3>5 DEF TypeOK, SessionsGiven
      <4>2. \A r \in OverWs' : SessionOf(r)' < next_session'
        BY <1>1, <2>1, <3>1, <3>4 DEF OverWs, SessionOf
      <4>. QED
        BY <4>1, <4>2 DEF SessionsGiven
    <3>7. NoneJoining'
      BY <1>1, <2>1, <3>2, <3>4 DEF NoneJoining, OverWs, SessionOf
    <3>. QED
      BY <2>1, <2>2, <3>3, <3>6, <3>7, StillInformed DEF NoneSent
  <2>. QED
    BY <2>3, <2>4
<1>9. ASSUME NEW c \in Conn, Close(c)
      PROVE  Goal
  <2>1. /\ registry' = registry /\ http = Idle
        /\ UNCHANGED <<pending, senders, next_session, stack, newest, seen>>
        /\ fd_map' = [fd_map EXCEPT ![c] = NoSession]
        /\ http' = Idle \/ http' = [Idle EXCEPT !.at = "cancel", !.session = fd_map[c]]
    BY <1>9 DEF Close, Handles, history
  <2>2. Shrinks
    BY <1>1, <2>1, StillShrinks
  <2>3. http'.deliveries = http.deliveries /\ http'.at # "join"
    <3>1. /\ Idle.deliveries = <<>> /\ Idle.at = "idle"
          /\ \A s : /\ [Idle EXCEPT !.at = "cancel", !.session = s].deliveries = <<>>
                    /\ [Idle EXCEPT !.at = "cancel", !.session = s].at = "cancel"
      BY DEF Idle
    <3>2. http.deliveries = <<>> /\ http'.deliveries = <<>>
      BY <2>1, <3>1
    <3>3. http'.at \in {"idle", "cancel"}
      BY <2>1, <3>1
    <3>. QED
      BY <3>2, <3>3
  <2>4. Outgoing' = Outgoing
    BY <2>1, <2>3 DEF Outgoing
  <2>5. SessionsGiven' /\ NoneJoining'
    BY <1>1, <2>1, <2>3 DEF TypeOK, SessionsGiven, NoneJoining, OverWs, SessionOf
  <2>. QED
    BY <2>1, <2>2, <2>4, <2>5, StillInformed DEF NoneSent
<1>10. CASE HttpQueue
  <2>1. Shrinks
    BY <1>1, <1>10, StillShrinks DEF HttpQueue
  <2>2. Outgoing' = Outgoing
    BY <1>1, <1>10, QueueOutgoing
  <2>3. http'.at # "join"
    BY <1>10 DEF HttpQueue, Idle
  <2>. QED
    BY <1>2, <1>10, <2>1, <2>2, <2>3 DEF HttpQueue, connection, history
<1>11. CASE HttpJoin \/ HttpLeave
  <2>1. /\ http' = Idle /\ http.at # "queue" /\ registry' = registry
        /\ UNCHANGED <<pending, fd_map, next_session, stack, newest, seen>>
        /\ \/ http.at = "join" /\ senders' = senders \cup {http.session}
           \/ senders' \subseteq senders
    BY <1>11 DEF HttpJoin, HttpLeave, connection, history
  <2>2. Shrinks
    BY <1>1, <2>1, StillShrinks
  <2>3. http'.deliveries = http.deliveries /\ http'.at # "join"
    BY <1>1, <2>1 DEF Idle, OnlyQueued
  <2>4. Outgoing' = Outgoing
    BY <2>1, <2>3 DEF Outgoing
  <2>5. \A r \in OverWs : SessionOf(r) \in senders' => SessionOf(r) \in senders
    BY <1>1, <2>1 DEF NoneJoining
  <2>. QED
    BY <2>1, <2>2, <2>3, <2>4, <2>5, StillInformed, StillGiven DEF NoneSent
<1>12. CASE HttpCancel
  <2>1. /\ registry' = CancelledBySession(registry, http.session)
        /\ http' = [http EXCEPT !.at = "leave"]
        /\ UNCHANGED <<pending, senders, fd_map, next_session, stack, newest, seen>>
    BY <1>12 DEF HttpCancel, connection, history
  <2>2. Shrinks
    BY <1>1, <2>1, CancelShrinks DEF CancelledBySession
  <2>3. http'.deliveries = http.deliveries /\ http'.at # "join"
    BY <1>1, <2>1 DEF TypeOK
  <2>4. Outgoing' = Outgoing
    BY <2>1, <2>3 DEF Outgoing
  <2>. QED
    BY <1>2, <2>1, <2>2, <2>3, <2>4
<1>. HIDE DEF Goal
<1>. QED
  BY <1>3, <1>5, <1>6, <1>7, <1>8, <1>9, <1>10, <1>11, <1>12 DEF HttpTask

\* So does the main loop.
LEMMA MainInforms ==
  CurrentInv /\ Inv' /\ MainLoop =>
    OnlyEvents' /\ SessionsGiven' /\ NoneJoining' /\ NotAhead' /\ Informed'
<1>. DEFINE Goal == OnlyEvents' /\ SessionsGiven' /\ NoneJoining' /\ NotAhead' /\ Informed'
<1>. SUFFICES ASSUME CurrentInv, Inv', MainLoop PROVE Goal
  OBVIOUS
<1>1. OrderInv /\ Inv
  BY DEF CurrentInv, OrderInv
<1>2. Shrinks /\ senders' \subseteq senders /\ (NoneSent \/ FrontSent)
  BY <1>1, MainInv, MainOrder
<1>3. UNCHANGED <<fd_map, next_session, http, newest>>
  BY DEF MainLoop, MainDrain, MainSend, MainScript, MainReturn, connection, history
<1>4. SessionsGiven' /\ NoneJoining'
  BY <1>2, <1>3, StillGiven
<1>5. OnlyEvents' /\ NotAhead' /\ Informed'
  BY <1>2, <1>3, StillInformed, SendInforms
<1>. QED
  BY <1>4, <1>5

\* Every step keeps subscribers informed.
LEMMA NextCurrent == CurrentInv /\ [Next]_vars => CurrentInv'
<1>. SUFFICES ASSUME CurrentInv, [Next]_vars PROVE CurrentInv'
  OBVIOUS
<1>1. OrderInv' /\ Inv'
  BY NextOrder DEF CurrentInv, OrderInv
<1>2. CASE HttpTask
  BY <1>1, <1>2, HttpInforms DEF CurrentInv
<1>3. CASE MainLoop
  BY <1>1, <1>3, MainInforms DEF CurrentInv
<1>4. CASE PortalTurns \/ (\E c \in Conn : PeerGoes(c)) \/ UNCHANGED vars
  <2>1. UNCHANGED <<registry, pending, senders, stack, http, newest, seen, fd_map,
                    next_session>>
    BY <1>4 DEF PortalTurns, PeerGoes, vars, history, connection
  <2>2. Shrinks /\ Outgoing' = Outgoing
    BY <2>1, StillShrinks DEF CurrentInv, OrderInv, Inv, Outgoing
  <2>. QED
    BY <1>1, <2>1, <2>2, StillInformed, StillGiven DEF CurrentInv, NoneSent
<1>. QED
  BY <1>2, <1>3, <1>4 DEF Next
-----------------------------------------------------------------------------
\* Once nothing is under way, every WebSocket subscriber that has its sender has
\* been sent the last write to its path, whatever the two threads did between the
\* locks of the engine, the queue and the senders (server.rs:606-614,
\* main.rs:412-420).
THEOREM SubscribersKeptUpToDate == Spec => []SubscribersUpToDate
<1>1. Init => CurrentInv
  BY InitCurrent
<1>2. CurrentInv /\ [Next]_vars => CurrentInv'
  BY NextCurrent
<1>3. CurrentInv => SubscribersUpToDate
  <2>. SUFFICES ASSUME Informed, Quiet PROVE SubscribersUpToDate
    BY DEF CurrentInv, SubscribersUpToDate
  <2>1. Outgoing = <<>>
    BY DEF Quiet, Outgoing, Idle
  <2>. QED
    BY <2>1 DEF Informed, UnderWay, SubscribersUpToDate, Quiet, Subs
<1>. QED
  BY <1>1, <1>2, <1>3, PTL DEF Spec
=============================================================================
