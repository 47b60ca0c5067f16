------------------------- MODULE SubscriptionsProofs -------------------------
(***************************************************************************)
(* Theorems about Subscriptions, for every set of paths, urls, sessions    *)
(* and values, every limit and every clock.                                *)
(***************************************************************************)
EXTENDS Subscriptions, SubscriptionRegistryProofs

\* The inductive invariant: none of the first three is inductive alone.  The
\* queue stays sorted only while it has no repeats, and a tick finds a
\* subscription behind every entry of the queue only while the indexes agree;
\* a write that announces itself disturbs no tick because none is running.
Inv == TypeOK /\ IndexesAgree /\ QueueSorted /\ OneHolder

\* With the type invariant the index and order invariants say that the registry is
\* well kept, which is what the lemmas about its operators speak of.
LEMMA InvIsWellKept ==
  Inv <=> /\ WellKept(registry, tick.expired)
          /\ TypeOK /\ OneHolder
          /\ tick.expired \subseteq TimedIn(registry.subscriptions)
          /\ ~tick.running => tick.expired = {}
  BY DEF Inv, TypeOK, IndexesAgree, QueueSorted, WellKept

\* Counting firings keeps the count's type.
LEMMA TallyType ==
  ASSUME TypeOK, NEW rids, Tally(rids)
  PROVE  /\ DOMAIN fired' = Live'
         /\ \A r \in Live' : fired'[r] \in Nat
  BY DEF TypeOK, Tally, Live

\* What the tree has of an item is a list of at most one value.
LEMMA TreeHolds ==
  ASSUME TypeOK, NEW path \in Path
  PROVE  tree[ItemOf[path]] \in Seq(Value) /\ Len(tree[ItemOf[path]]) <= 1
<1>1. tree[ItemOf[path]] \in {<<>>} \cup {<<v>> : v \in Value}
  BY ItemAssumption DEF TypeOK
<1>2. <<>> \in Seq(Value) /\ Len(<<>>) <= 1
  OBVIOUS
<1>3. \A v \in Value : <<v>> \in Seq(Value) /\ Len(<<v>>) <= 1
  OBVIOUS
<1>. QED
  BY <1>1, <1>2, <1>3

\* A write in progress has a text to announce, and no tick disturbs it.
LEMMA AnnounceFinds ==
  ASSUME Inv, writing.todo # <<>>
  PROVE  /\ Head(writing.todo) \in Path /\ Tail(writing.todo) \in Seq(Path)
         /\ tree[ItemOf[Head(writing.todo)]] \in Seq(Value)
         /\ Len(tree[ItemOf[Head(writing.todo)]]) <= 1
         /\ ~tick.running /\ tick.expired = {}
<1>1. writing.todo \in Seq(Path) /\ ~tick.running /\ tick.expired = {}
  BY DEF Inv, TypeOK, OneHolder, IndexesAgree
<1>2. Head(writing.todo) \in Path /\ Tail(writing.todo) \in Seq(Path)
  BY <1>1
<1>. QED
  BY <1>1, <1>2, TreeHolds DEF Inv

-----------------------------------------------------------------------------
\* A request leaves the tick alone and finds it idle.
LEMMA UpdateKeepsInv ==
  ASSUME Inv, Unlocked, NEW reg, Update(reg), WellKept(reg, {})
  PROVE  Inv'
<1>1. /\ registry' = reg /\ Tally({})
      /\ tree' = tree /\ clock' = clock /\ tick' = tick /\ writing' = writing
      /\ tick.expired = {} /\ ~tick.running
      /\ TypeOK
  BY DEF Update, Unlocked, Inv, IndexesAgree
<1>2. DOMAIN fired' = Live' /\ \A r \in Live' : fired'[r] \in Nat
  BY <1>1, TallyType
<1>3. TypeOK'
  BY <1>1, <1>2 DEF TypeOK, WellKept
<1>. QED
  BY <1>1, <1>3 DEF Inv, IndexesAgree, QueueSorted, WellKept, TypeOK, OneHolder

\* A new engine (engine.rs:30-40) satisfies the invariant.
LEMMA InitInv == Init => Inv
<1>. SUFFICES ASSUME Init PROVE Inv
  OBVIOUS
<1>1. WellKept(registry, tick.expired)
  BY EmptyKept DEF Init, NoTick
<1>2. TypeOK
  BY <1>1 DEF Init, NoTick, NoWriting, TypeOK, WellKept, Live, EmptyRegistry
<1>. QED
  BY <1>1, <1>2, InvIsWellKept DEF Init, NoTick, NoWriting, OneHolder

\* Every request, every turn of the tick and the clock keep the invariant.
LEMMA NextInv == Inv /\ [Next]_vars => Inv'
<1>. SUFFICES ASSUME Inv, [Next]_vars PROVE Inv'
  OBVIOUS
<1>1. /\ WellKept(registry, tick.expired) /\ TypeOK /\ OneHolder
      /\ tick.expired \subseteq TimedIn(registry.subscriptions)
      /\ ~tick.running => tick.expired = {}
  BY InvIsWellKept
<1>2. CASE Advance
  <2>1. /\ registry' = registry /\ tree' = tree /\ tick' = tick /\ fired' = fired
        /\ writing' = writing /\ clock' \in Nat
    BY <1>1, <1>2, BoundsAssumption DEF Advance, TypeOK
  <2>. QED
    BY <2>1 DEF Inv, TypeOK, IndexesAgree, QueueSorted, OneHolder, Live
<1>3. ASSUME NEW p \in Path, NEW i \in Intervals, NEW t \in Target, NEW l \in Ttls,
             Subscribe(p, i, t, l)
      PROVE  Inv'
  <2>1. l \in Nat /\ i \in Int /\ clock \in Nat
    BY <1>1, <1>3, BoundsAssumption DEF Subscribe, TypeOK
  <2>2. WellKept(Created(registry, p, i, t, l, clock), {})
    BY <1>1, <1>3, <2>1, CreatedKept DEF Subscribe, Unlocked
  <2>. QED
    BY <1>3, <2>2, UpdateKeepsInv DEF Subscribe
<1>4. ASSUME NEW r, Cancel({r})
      PROVE  Inv'
  <2>1. WellKept(Cancelled(registry, {r}), {} \ {r}) /\ {} \ {r} = {}
    BY <1>1, <1>4, CancelledKept DEF Cancel, Unlocked
  <2>. QED
    BY <1>4, <2>1, UpdateKeepsInv DEF Cancel
<1>5. ASSUME NEW r, PollRead(r)
      PROVE  Inv'
  <2>1. WellKept(Polled(registry, r, clock), {})
    BY <1>1, <1>5, PolledKept DEF PollRead, Unlocked
  <2>. QED
    BY <1>5, <2>1, UpdateKeepsInv DEF PollRead
<1>6. ASSUME NEW s \in Session, EndSession(s)
      PROVE  Inv'
  <2>. DEFINE gone == BoundTo(registry, s)
  <2>1. WellKept(Cancelled(registry, gone), {} \ gone) /\ {} \ gone = {}
    BY <1>1, <1>6, CancelledKept DEF EndSession, Unlocked
  <2>. QED
    BY <1>6, <2>1, UpdateKeepsInv DEF EndSession, CancelledBySession
<1>7. ASSUME NEW p \in Path, Delete(p)
      PROVE  Inv'
  <2>1. /\ registry' = registry /\ clock' = clock /\ tick' = tick /\ fired' = fired
        /\ writing' = writing
        /\ tree' \in [Item -> {<<>>} \cup {<<v>> : v \in Value}]
    BY <1>1, <1>7 DEF Delete, TypeOK
  <2>. QED
    BY <2>1 DEF Inv, TypeOK, IndexesAgree, QueueSorted, OneHolder, Live
<1>8. ASSUME NEW p \in Path, NEW v \in Value, Write(p, v) \/ ScriptWrite(p, v)
      PROVE  Inv'
  <2>1. /\ registry' = registry /\ clock' = clock /\ tick' = tick /\ fired' = fired
        /\ tree' \in [Item -> {<<>>} \cup {<<w>> : w \in Value}]
    <3>1. Stored(p, v)
      BY <1>8 DEF Write, ScriptWrite
    <3>2. tree \in [Item -> {<<>>} \cup {<<w>> : w \in Value}] /\ ItemOf[p] \in Item
      BY <1>1, ItemAssumption DEF TypeOK
    <3>. QED
      BY <3>1, <3>2 DEF Stored
  <2>2. ~tick.running
    BY <1>1, <1>8 DEF Write, ScriptWrite, Unlocked, OneHolder
  <2>3. writing' \in [todo : Seq(Path), now : Nat, left : Nat]
    <3>1. CASE Write(p, v)
      BY <1>1, <3>1, BoundsAssumption DEF Write, TypeOK
    <3>2. CASE ScriptWrite(p, v)
      <4>1. writing.todo \in Seq(Path) /\ writing.left - 1 \in Nat
        BY <1>1, <3>2 DEF ScriptWrite, TypeOK
      <4>2. <<p>> \o writing.todo \in Seq(Path)
        BY <4>1
      <4>. QED
        BY <1>1, <3>2, <4>1, <4>2 DEF ScriptWrite, TypeOK
    <3>. QED
      BY <1>8, <3>1, <3>2
  <2>. QED
    BY <2>1, <2>2, <2>3 DEF Inv, TypeOK, IndexesAgree, QueueSorted, OneHolder, Live
<1>14. CASE Announce
  <2>. DEFINE path == Head(writing.todo)
              values == tree[ItemOf[path]]
  <2>1. /\ registry' = Notified(registry, path, values, writing.now)
        /\ tree' = tree /\ clock' = clock /\ tick' = tick /\ Tally({})
        /\ writing.todo # <<>>
    BY <1>14 DEF Announce
  <2>2. /\ path \in Path /\ Tail(writing.todo) \in Seq(Path)
        /\ values \in Seq(Value) /\ Len(values) <= 1
        /\ ~tick.running /\ tick.expired = {}
    BY <2>1, AnnounceFinds
  <2>3. WellKept(registry', {})
    BY <1>1, <2>1, <2>2, NotifiedKept
  <2>4. writing' \in [todo : Seq(Path), now : Nat, left : Nat]
    <3>1. <<>> \in Seq(Path)
      OBVIOUS
    <3>. QED
      BY <1>1, <1>14, <2>2, <3>1 DEF Announce, TypeOK, NoWriting
  <2>. HIDE DEF path, values
  <2>5. TypeOK'
    BY <1>1, <2>1, <2>3, <2>4, TallyType DEF TypeOK, WellKept
  <2>. QED
    BY <2>1, <2>2, <2>3, <2>5 DEF Inv, IndexesAgree, QueueSorted, OneHolder, WellKept
<1>9. CASE TickBegin
  <2>1. /\ registry' = registry /\ tree' = tree /\ clock' = clock /\ fired' = fired
        /\ tick' = [running |-> TRUE, now |-> clock, expired |-> {}]
        /\ tick.expired = {} /\ writing' = writing /\ writing.todo = <<>>
    BY <1>1, <1>9 DEF TickBegin, Unlocked
  <2>. QED
    BY <2>1 DEF Inv, TypeOK, IndexesAgree, QueueSorted, OneHolder, Live
<1>10. CASE TickDrop
  <2>. DEFINE rid == Head(registry.interval_queue)
  <2>1. registry.interval_queue # <<>> /\ tick.running
    BY <1>10 DEF TickDrop, DueFront
  <2>2. /\ WellKept(WithoutFront(registry), tick.expired \cup {rid})
        /\ rid \in TimedIn(registry.subscriptions) \ tick.expired
    BY <1>1, <2>1, WithoutFrontKept
  <2>3. rid \in Live /\ rid \in Rid
    BY <1>1, <2>2 DEF TimedIn, Live, TypeOK, RegistryOK
  <2>4. /\ registry' = WithoutFront(registry)
        /\ registry'.subscriptions = registry.subscriptions
        /\ tree' = tree /\ clock' = clock /\ writing' = writing /\ Tally({})
        /\ tick' = [tick EXCEPT !.expired = tick.expired \cup {rid}]
    BY <1>1, <1>10, <2>3, ZenonT(60) DEF TickDrop, WithoutFront, TypeOK, RegistryOK, Fields
  <2>5. /\ tick' \in [running : BOOLEAN, now : Nat, expired : SUBSET Rid]
        /\ tick'.expired = tick.expired \cup {rid} /\ tick'.running
    BY <1>1, <2>1, <2>3, <2>4 DEF TypeOK
  <2>. HIDE DEF rid
  <2>6. TypeOK'
    BY <1>1, <2>2, <2>4, <2>5, TallyType DEF TypeOK, WellKept
  <2>. QED
    BY <1>1, <2>1, <2>2, <2>4, <2>5, <2>6
    DEF Inv, IndexesAgree, QueueSorted, OneHolder, WellKept
<1>11. CASE TickFire
  <2>. DEFINE rid == Head(registry.interval_queue)
              values == tree[ItemOf[Sub(rid).path]]
              done == IF IsExpired(Sub(rid), NextTrigger(Sub(rid))) THEN {rid} ELSE {}
  <2>1. registry.interval_queue # <<>> /\ tick.running
    BY <1>11 DEF TickFire, DueFront
  <2>2. rid \in TimedIn(registry.subscriptions) \ tick.expired
    BY <1>1, <2>1, WithoutFrontKept
  <2>3. rid \in Live /\ rid \in Rid /\ Sub(rid) \in Subscription
    BY <1>1, <2>2 DEF TimedIn, Live, TypeOK, RegistryOK, Sub
  <2>4. values \in Seq(Value) /\ Len(values) <= 1
    <3>1. Sub(rid).path \in Path
      BY <2>3 DEF Subscription
    <3>. QED
      BY <1>1, <3>1, TreeHolds
  <2>5. WellKept(Fired(registry, values), tick.expired \cup done)
    BY <1>1, <2>1, <2>4, FiredKept DEF Sub
  <2>6. /\ registry' = Fired(registry, values)
        /\ tree' = tree /\ clock' = clock /\ writing' = writing /\ Tally({rid})
        /\ tick' = [tick EXCEPT !.expired = tick.expired \cup done]
    BY <1>11 DEF TickFire
  <2>7. /\ tick' \in [running : BOOLEAN, now : Nat, expired : SUBSET Rid]
        /\ tick'.expired = tick.expired \cup done /\ tick'.running
    BY <1>1, <2>1, <2>3, <2>6 DEF TypeOK
  <2>8. TimedIn(registry'.subscriptions) = TimedIn(registry.subscriptions)
    <3>1. \/ registry'.subscriptions = registry.subscriptions
          \/ registry'.subscriptions = [registry.subscriptions EXCEPT
                  ![rid].trigger_time = NextTrigger(registry.subscriptions[rid])]
      BY <1>1, <2>6 DEF Fired, WithBuffered, WithoutFront, TypeOK, RegistryOK, Fields
    <3>2. DOMAIN Sub(rid) = {"path", "interval", "target", "created_at", "ttl",
                             "trigger_time"}
      BY <2>3 DEF Subscription
    <3>. QED
      BY <3>1, <3>2 DEF TimedIn, IsEvent, Sub
  <2>. HIDE DEF rid, values, done
  <2>9. TypeOK'
    BY <1>1, <2>5, <2>6, <2>7, TallyType DEF TypeOK, WellKept
  <2>10. done \subseteq TimedIn(registry.subscriptions)
    BY <2>2 DEF done
  <2>. QED
    BY <1>1, <2>1, <2>5, <2>6, <2>7, <2>8, <2>9, <2>10
    DEF Inv, IndexesAgree, QueueSorted, OneHolder, WellKept
<1>12. CASE TickEnd
  <2>1. /\ registry' = Cancelled(registry, tick.expired)
        /\ tree' = tree /\ clock' = clock /\ writing' = writing
        /\ tick' = NoTick /\ Tally({})
    BY <1>12 DEF TickEnd
  <2>2. WellKept(registry', {})
    BY <1>1, <2>1, CancelledKept
  <2>3. TypeOK'
    BY <1>1, <2>1, <2>2, TallyType DEF TypeOK, WellKept, NoTick
  <2>. QED
    BY <2>1, <2>2, <2>3
    DEF Inv, IndexesAgree, QueueSorted, OneHolder, WellKept, NoTick
<1>13. CASE UNCHANGED vars
  BY <1>13 DEF vars, Inv, TypeOK, IndexesAgree, QueueSorted, OneHolder, Live
<1>. QED
  BY <1>2, <1>3, <1>4, <1>5, <1>6, <1>7, <1>8, <1>9, <1>10, <1>11, <1>12, <1>13, <1>14
  DEF Next, Request, MainLoop

-----------------------------------------------------------------------------
\* The inductive invariant holds throughout: types, indexes and queue order.
THEOREM InvHolds == Spec => []Inv
  BY InitInv, NextInv, PTL DEF Spec

\* The registry keeps its types through every request and tick.
THEOREM TypeCorrect == Spec => []TypeOK
  BY InvHolds, PTL DEF Inv

\* However creations, cancellations, expiries and ticks interleave, every
\* subscription is where the code looks for it, and only there.
THEOREM IndexesAlwaysAgree == Spec => []IndexesAgree
  BY InvHolds, PTL DEF Inv

\* The interval queue is sorted at every moment tick_intervals relies on it.
THEOREM QueueAlwaysSorted == Spec => []QueueSorted
  BY InvHolds, PTL DEF Inv

-----------------------------------------------------------------------------
\* A step that only removes subscriptions and counts no firing leaves the
\* firing count of the others where it has to be.
LEMMA RemovalKeepsSlots ==
  ASSUME Inv, OneFiringPerSlot, Tally({}),
         IsRestriction(registry'.subscriptions, registry.subscriptions),
         \A r \in Timed' \ tick'.expired : r \notin tick.expired
  PROVE  OneFiringPerSlot'
<1>. SUFFICES ASSUME NEW r \in Timed' \ tick'.expired
              PROVE  Sub(r)'.trigger_time
                       = Sub(r)'.created_at + (fired'[r] + 1) * Sub(r)'.interval
  BY DEF OneFiringPerSlot, Timed, Sub
<1>1. r \in DOMAIN registry'.subscriptions /\ ~IsEvent(registry'.subscriptions[r])
  BY DEF Timed, TimedIn
<1>2. r \in Live /\ registry'.subscriptions[r] = registry.subscriptions[r]
  BY <1>1 DEF IsRestriction, Live
<1>3. fired[r] \in Nat /\ fired'[r] = fired[r]
  BY <1>1, <1>2 DEF Inv, TypeOK, Tally
<1>4. r \in Timed \ tick.expired
  BY <1>1, <1>2 DEF Timed, TimedIn, Live
<1>. QED
  BY <1>2, <1>3, <1>4 DEF OneFiringPerSlot, Sub

\* At first nothing is queued, so no slot can be missed.
LEMMA InitSlots == Init => OneFiringPerSlot
  BY DEF Init, OneFiringPerSlot, Timed, TimedIn, EmptyRegistry

\* Every step keeps the count of firings in line with the next trigger.
LEMMA NextSlots == Inv /\ Inv' /\ OneFiringPerSlot /\ [Next]_vars => OneFiringPerSlot'
<1>. SUFFICES ASSUME Inv, Inv', OneFiringPerSlot, [Next]_vars PROVE OneFiringPerSlot'
  OBVIOUS
<1>1. /\ WellKept(registry, tick.expired) /\ RegistryOK(registry)
      /\ ~tick.running => tick.expired = {}
  BY InvIsWellKept DEF WellKept
<1>2. ASSUME UNCHANGED <<registry, fired>>, tick'.expired = tick.expired
      PROVE  OneFiringPerSlot'
  BY <1>2 DEF OneFiringPerSlot, Timed, Sub
<1>3. CASE \/ Advance \/ UNCHANGED vars
           \/ \E p \in Path : Delete(p) \/ \E v \in Value : Write(p, v) \/ ScriptWrite(p, v)
  BY <1>2, <1>3 DEF Advance, Delete, Write, ScriptWrite, Stored, vars
<1>4. CASE TickBegin
  BY <1>1, <1>2, <1>4 DEF TickBegin, Unlocked
<1>5. ASSUME NEW p \in Path, NEW i \in Intervals, NEW t \in Target, NEW l \in Ttls,
             Subscribe(p, i, t, l)
      PROVE  OneFiringPerSlot'
  <2>. DEFINE rid == registry.next_id
  <2>1. /\ registry' = Created(registry, p, i, t, l, clock) /\ Tally({})
        /\ tick' = tick /\ tick.expired = {}
        /\ i \in Int /\ clock \in Nat /\ (i = -1 \/ i >= 1)
    BY <1>1, <1>5, BoundsAssumption
    DEF Subscribe, Update, Unlocked, CanCreate, OnEvent, Inv, TypeOK
  <2>2. /\ DOMAIN registry'.subscriptions = Live \cup {rid}
        /\ \A r \in Live : r # rid => registry'.subscriptions[r] = registry.subscriptions[r]
        /\ registry'.subscriptions[rid].interval = i
        /\ registry'.subscriptions[rid].created_at = clock
        /\ registry'.subscriptions[rid].trigger_time = IF i > 0 THEN clock + i ELSE 0
    BY <2>1 DEF Created, Live
  <2>3. \A r \in Live : r # rid /\ fired[r] \in Nat /\ fired'[r] = fired[r]
    BY <1>1, <2>1, <2>2 DEF Inv, TypeOK, IndexesAgree, Indexed, Live, RegistryOK, Rid, Tally
  <2>4. fired'[rid] = 0
    BY <2>1, <2>2, <2>3 DEF Inv, TypeOK, Tally
  <2>. SUFFICES ASSUME NEW r \in Timed'
                PROVE  Sub(r)'.trigger_time
                         = Sub(r)'.created_at + (fired'[r] + 1) * Sub(r)'.interval
    BY DEF OneFiringPerSlot, Timed, Sub
  <2>5. CASE r = rid
    <3>1. i >= 1
      BY <2>1, <2>2, <2>5 DEF Timed, TimedIn, IsEvent
    <3>2. \A k \in Int : (0 + 1) * k = k
      OBVIOUS
    <3>3. /\ Sub(r)'.trigger_time = clock + i /\ Sub(r)'.created_at = clock
          /\ Sub(r)'.interval = i /\ fired'[r] = 0
      BY <2>1, <2>2, <2>4, <2>5, <3>1 DEF Sub
    <3>. QED
      BY <2>1, <3>2, <3>3
  <2>6. CASE r # rid
    <3>1. r \in Timed \ tick.expired
      BY <2>1, <2>2, <2>6 DEF Timed, TimedIn, Live
    <3>. QED
      BY <2>2, <2>3, <2>6, <3>1 DEF OneFiringPerSlot, Sub, Timed, TimedIn, Live
  <2>. QED
    BY <2>5, <2>6
<1>6. ASSUME NEW r, Cancel({r}) \/ PollRead(r)
      PROVE  OneFiringPerSlot'
  <2>1. /\ registry' \in {Cancelled(registry, {r}), Polled(registry, r, clock)}
        /\ Tally({}) /\ tick.expired = {}
    BY <1>1, <1>6 DEF Cancel, PollRead, Update, Unlocked
  <2>2. IsRestriction(registry'.subscriptions, registry.subscriptions)
    BY <1>1, <2>1, PolledSubscriptions, CancelledSubscriptions, ZenonT(60)
  <2>. QED
    BY <2>1, <2>2, RemovalKeepsSlots
<1>7. ASSUME NEW s \in Session, EndSession(s)
      PROVE  OneFiringPerSlot'
  <2>1. /\ registry' = Cancelled(registry, BoundTo(registry, s))
        /\ Tally({}) /\ tick.expired = {}
    BY <1>1, <1>7 DEF EndSession, CancelledBySession, Update, Unlocked
  <2>2. IsRestriction(registry'.subscriptions, registry.subscriptions)
    BY <1>1, <2>1, CancelledSubscriptions
  <2>. QED
    BY <2>1, <2>2, RemovalKeepsSlots
<1>8. CASE Announce
  <2>1. /\ registry' = Notified(registry, Head(writing.todo),
                                tree[ItemOf[Head(writing.todo)]], writing.now)
        /\ Tally({}) /\ writing.todo # <<>>
    BY <1>8 DEF Announce
  <2>2. /\ tree[ItemOf[Head(writing.todo)]] \in Seq(Value)
        /\ Len(tree[ItemOf[Head(writing.todo)]]) <= 1 /\ tick.expired = {}
    BY <2>1, AnnounceFinds
  <2>3. IsRestriction(registry'.subscriptions, registry.subscriptions)
    BY <1>1, <2>1, <2>2, NotifiedSubscriptions
  <2>. QED
    BY <2>1, <2>2, <2>3, RemovalKeepsSlots
<1>9. CASE TickDrop
  <2>1. /\ registry'.subscriptions = registry.subscriptions
        /\ Tally({}) /\ tick.expired \subseteq tick'.expired
    BY <1>1, <1>9 DEF TickDrop, WithoutFront, RegistryOK, Fields, Inv, TypeOK
  <2>. QED
    BY <2>1, RemovalKeepsSlots DEF IsRestriction
<1>10. CASE TickEnd
  <2>1. /\ registry' = Cancelled(registry, tick.expired) /\ Tally({})
        /\ registry'.subscriptions
             = [r \in DOMAIN registry.subscriptions \ tick.expired |-> registry.subscriptions[r]]
    BY <1>1, <1>10, CancelledSubscriptions DEF TickEnd
  <2>2. \A r \in Timed' : r \notin tick.expired
    BY <2>1 DEF Timed, TimedIn
  <2>. QED
    BY <2>1, <2>2, RemovalKeepsSlots DEF IsRestriction
<1>11. CASE TickFire
  <2>. DEFINE rid == Head(registry.interval_queue)
              sub == registry.subscriptions[rid]
  <2>1. registry.interval_queue # <<>>
    BY <1>11 DEF TickFire, DueFront
  <2>2. rid \in TimedIn(registry.subscriptions) \ tick.expired
    BY <1>1, <2>1, WithoutFrontKept
  <2>3. rid \in Live /\ sub \in Subscription /\ rid \in Timed \ tick.expired
    BY <1>1, <2>2 DEF TimedIn, Live, RegistryOK, Timed
  <2>4. /\ registry' = Fired(registry, tree[ItemOf[sub.path]]) /\ Tally({rid})
        /\ tick'.expired = tick.expired \cup
             (IF IsExpired(sub, NextTrigger(sub)) THEN {rid} ELSE {})
    BY <1>11 DEF TickFire, Sub, Inv, TypeOK
  <2>5. CASE IsExpired(sub, NextTrigger(sub))
    <3>1. registry'.subscriptions = registry.subscriptions
      BY <1>1, <2>4, <2>5 DEF Fired, WithBuffered, WithoutFront, RegistryOK, Fields
    <3>. HIDE DEF rid
    <3>. SUFFICES ASSUME NEW r \in Timed' \ tick'.expired
                  PROVE  Sub(r)'.trigger_time
                           = Sub(r)'.created_at + (fired'[r] + 1) * Sub(r)'.interval
      BY DEF OneFiringPerSlot, Timed, Sub
    <3>2. r # rid /\ r \in Timed \ tick.expired /\ r \in Live
      BY <2>4, <2>5, <3>1 DEF Timed, TimedIn, Live
    <3>3. fired'[r] = fired[r]
      BY <2>4, <3>1, <3>2 DEF Tally, Inv, TypeOK, Live
    <3>. QED
      BY <3>1, <3>2, <3>3 DEF OneFiringPerSlot, Sub
  <2>6. CASE ~IsExpired(sub, NextTrigger(sub))
    <3>1. registry'.subscriptions
            = [registry.subscriptions EXCEPT ![rid].trigger_time = NextTrigger(sub)]
      BY <1>1, <2>4, <2>6 DEF Fired, WithBuffered, WithoutFront, RegistryOK, Fields
    <3>. HIDE DEF rid
    <3>2. /\ DOMAIN registry'.subscriptions = Live
          /\ registry'.subscriptions[rid] = [sub EXCEPT !.trigger_time = NextTrigger(sub)]
          /\ \A r \in Live \ {rid} : registry'.subscriptions[r] = registry.subscriptions[r]
      BY <2>3, <3>1 DEF Live
    <3>3. /\ \A r \in Live \ {rid} : fired'[r] = fired[r]
          /\ fired'[rid] = fired[rid] + 1 /\ fired[rid] \in Nat
      <4>1. DOMAIN fired = Live /\ \A r \in Live : fired[r] \in Nat
        BY DEF Inv, TypeOK
      <4>. QED
        <5>1. fired' = [r \in Live |-> fired[r] + (IF r \in {rid} THEN 1 ELSE 0)]
          BY <2>4, <3>2, <4>1, Zenon DEF Tally
        <5>. QED
          BY <2>3, <4>1, <5>1
    <3>. SUFFICES ASSUME NEW r \in Timed' \ tick'.expired
                  PROVE  Sub(r)'.trigger_time
                           = Sub(r)'.created_at + (fired'[r] + 1) * Sub(r)'.interval
      BY DEF OneFiringPerSlot, Timed, Sub
    <3>4. CASE r # rid
      <4>1. r \in Live \ {rid} /\ r \in Timed \ tick.expired
        BY <2>4, <3>2, <3>4 DEF Timed, TimedIn, Live
      <4>. QED
        BY <3>2, <3>3, <4>1 DEF OneFiringPerSlot, Sub
    <3>5. CASE r = rid
      <4>. DEFINE next == [sub EXCEPT !.trigger_time = NextTrigger(sub)]
      <4>0. Sub(r)' = next
        BY <3>2, <3>5 DEF Sub
      <4>1. /\ next.trigger_time = sub.trigger_time + sub.interval
            /\ next.created_at = sub.created_at
            /\ next.interval = sub.interval
            /\ sub.created_at \in Int /\ sub.interval \in Int
        <5>1. sub \in Subscription
          BY <2>3
        <5>. HIDE DEF sub
        <5>. QED
          BY <5>1 DEF NextTrigger, Subscription
      <4>2. sub.trigger_time = sub.created_at + (fired[rid] + 1) * sub.interval
        BY <2>3 DEF OneFiringPerSlot, Sub
      <4>3. \A n \in Nat, k \in Int : (n + 1) * k + k = ((n + 1) + 1) * k
        OBVIOUS
      <4>. HIDE DEF sub, next
      <4>4. (fired[rid] + 1) * sub.interval + sub.interval
              = (fired'[rid] + 1) * sub.interval
        BY <3>3, <4>1, <4>3
      <4>5. (fired[rid] + 1) * sub.interval \in Int
        BY <3>3, <4>1
      <4>. QED
        BY <3>5, <4>0, <4>1, <4>2, <4>4, <4>5
    <3>. QED
      BY <3>4, <3>5
  <2>. QED
    BY <2>5, <2>6
<1>. QED
  BY <1>3, <1>4, <1>5, <1>6, <1>7, <1>8, <1>9, <1>10, <1>11 DEF Next, Request, MainLoop

\* However late a tick comes, an interval subscription has fired once per slot
\* of its interval: rescheduling from the time it was due loses none.
THEOREM EverySlotFiresOnce == Spec => []OneFiringPerSlot
<1>1. Init => Inv /\ OneFiringPerSlot
  BY InitInv, InitSlots
<1>2. Inv /\ OneFiringPerSlot /\ [Next]_vars => Inv' /\ OneFiringPerSlot'
  BY NextInv, NextSlots
<1>. QED
  BY <1>1, <1>2, PTL DEF Spec

-----------------------------------------------------------------------------
\* When the tick's loop stops (subscriptions.rs:383-386), nothing due is left.
LEMMA TickEndServes == Inv /\ TickEnd => NothingLeftDue
<1>. SUFFICES ASSUME Inv, TickEnd,
                     NEW r \in DOMAIN registry'.subscriptions,
                     ~IsEvent(registry'.subscriptions[r])
              PROVE  registry'.subscriptions[r].trigger_time > tick.now
  BY DEF NothingLeftDue
<1>. DEFINE queue == registry.interval_queue
            due(x) == registry.subscriptions[x].trigger_time
<1>1. WellKept(registry, tick.expired) /\ RegistryOK(registry)
      /\ Indexed(registry, tick.expired) /\ SortedByTrigger(registry.subscriptions, queue)
      /\ tick.now \in Int
  BY InvIsWellKept DEF WellKept, Inv, TypeOK
<1>2. /\ r \in TimedIn(registry.subscriptions) \ tick.expired
      /\ registry'.subscriptions[r] = registry.subscriptions[r]
  <2>1. registry'.subscriptions
          = [x \in DOMAIN registry.subscriptions \ tick.expired |-> registry.subscriptions[x]]
    BY <1>1, CancelledSubscriptions DEF TickEnd
  <2>. QED
    BY <2>1 DEF TimedIn
<1>3. PICK k \in DOMAIN queue : queue[k] = r
  BY <1>1, <1>2 DEF Indexed, Ids
<1>4. queue # <<>> /\ Head(queue) = queue[1] /\ 1 \in DOMAIN queue
      /\ Head(queue) \in Ids(queue) /\ k \in Nat /\ k >= 1
  BY <1>1, <1>3 DEF RegistryOK, Ids
<1>5. Head(queue) \in DOMAIN registry.subscriptions
  BY <1>1, <1>4 DEF Indexed, TimedIn
<1>6. due(Head(queue)) \in Int /\ due(r) \in Int
  <2>1. \A x \in Subscription : x.trigger_time \in Int
    BY DEF Subscription
  <2>. QED
    BY <1>1, <1>2, <1>5, <2>1 DEF RegistryOK, TimedIn
<1>7. due(Head(queue)) > tick.now
  BY <1>1, <1>4, <1>5, <1>6 DEF TickEnd, DueFront
<1>8. due(Head(queue)) <= due(r)
  <2>1. CASE k = 1
    BY <1>3, <1>4, <1>6, <2>1
  <2>2. CASE k > 1
    BY <1>1, <1>3, <1>4, <2>2 DEF SortedByTrigger
  <2>. QED
    BY <1>4, <2>1, <2>2
<1>. HIDE DEF due
<1>9. due(r) > tick.now
  BY <1>1, <1>6, <1>7, <1>8
<1>. QED
  BY <1>2, <1>9 DEF due

\* A tick leaves nothing due behind, in whatever state the registry was: the
\* loop may stop at the first entry not yet due because the queue is sorted.
THEOREM TicksServeAllDue == Spec => TickServesAllDue
<1>1. Inv /\ [Next]_vars => [tick.running /\ ~tick'.running => NothingLeftDue]_vars
  <2>. SUFFICES ASSUME Inv, Next, tick.running, ~tick'.running
                PROVE  NothingLeftDue
    OBVIOUS
  <2>1. TickEnd
    BY DEF Next, Advance, Request, Subscribe, Cancel, PollRead, EndSession, Delete,
           Write, ScriptWrite, Stored, Announce, Unlocked, MainLoop, TickBegin, TickDrop, TickFire, Inv, TypeOK
  <2>. QED
    BY <2>1, TickEndServes
<1>. QED
  BY <1>1, InvHolds, PTL DEF Spec, TickServesAllDue

-----------------------------------------------------------------------------
\* notify_event finds a live event subscription of the written path in the
\* index, and cleaning up the expired ones does not touch it.
LEMMA WriteReaches == Inv => TellsItsText
<1>. DEFINE p == Head(writing.todo)
            now == writing.now
            values == tree[ItemOf[p]]
<1>. SUFFICES ASSUME Inv, Announce, NEW r \in Live, NEW v \in Value,
                     IsEvent(Sub(r)), Sub(r).path = p,
                     ~IsExpired(Sub(r), now), values = <<v>>
              PROVE  HearsOf(r, v)
  BY DEF TellsItsText
<1>. DEFINE expired == ExpiredOf(registry, Watching(registry, p), now)
            live == Watching(registry, p) \ expired
            buffered == WithBuffered(registry, live, <<v>>)
<1>0. p \in Path /\ tick.expired = {}
  BY AnnounceFinds DEF Announce
<1>1. WellKept(registry, {}) /\ RegistryOK(registry) /\ Indexed(registry, {})
  BY <1>0, InvIsWellKept DEF WellKept
<1>2. r \in live /\ r \notin expired
  BY <1>0, <1>1 DEF Indexed, EventsOn, Watching, ExpiredOf, Live, Sub
<1>3. CASE Sub(r).target = Poll
  <2>1. r \in DOMAIN registry.poll_buffers
    BY <1>1, <1>3 DEF Indexed, Live, Sub
  <2>2. /\ DOMAIN buffered.poll_buffers = DOMAIN registry.poll_buffers
        /\ buffered.poll_buffers[r] = Buffered(registry.poll_buffers[r], <<v>>)
    BY <1>1, <1>2, <2>1 DEF WithBuffered, RegistryOK, Fields
  <2>3. registry' = Cancelled(buffered, expired)
    BY DEF Announce, Notified
  <2>4. DOMAIN buffered = Fields
    BY <1>1 DEF WithBuffered, RegistryOK, Fields
  <2>. HIDE DEF buffered, expired, live
  <2>5. registry'.poll_buffers[r] = buffered.poll_buffers[r]
    BY <1>2, <2>1, <2>2, <2>3, <2>4 DEF Cancelled, Restrict, Fields
  <2>6. LET buffer == Buffered(registry.poll_buffers[r], <<v>>)
        IN  buffer # <<>> /\ buffer[Len(buffer)] = v
    <3>. DEFINE old == registry.poll_buffers[r]
    <3>1. old \in Seq(Value) /\ Len(old) \in Nat /\ Len(old) <= PollCapacity
          /\ PollCapacity \in Nat \ {0}
      BY <1>1, <2>1, RegistryAssumption DEF RegistryOK
    <3>. HIDE DEF old
    <3>2. PICK kept \in Seq(Value) : Buffered(old, <<v>>) = kept \o <<v>>
      <4>1. CASE Len(old) < PollCapacity
        BY <3>1, <4>1 DEF Buffered
      <4>2. CASE ~(Len(old) < PollCapacity)
        <5>1. old # <<>> /\ Tail(old) \in Seq(Value)
          BY <3>1, <4>2
        <5>. QED
          BY <4>2, <5>1 DEF Buffered
      <4>. QED
        BY <4>1, <4>2
    <3>3. Len(kept \o <<v>>) = Len(kept) + 1 /\ Len(kept) \in Nat
          /\ (kept \o <<v>>)[Len(kept) + 1] = v /\ kept \o <<v>> # <<>>
      OBVIOUS
    <3>. QED
      BY <3>2, <3>3 DEF old
  <2>. QED
    BY <1>3, <2>2, <2>5, <2>6 DEF HearsOf
<1>4. CASE Sub(r).target # Poll
  <2>1. DeliveryOf(r, registry.subscriptions[r], <<v>>) \in deliveries'
    BY <1>2, <1>4 DEF Announce, NotifyDeliveries, Sub
  <2>. QED
    BY <1>4, <2>1 DEF HearsOf, DeliveryOf
<1>. QED
  BY <1>3, <1>4

\* No history of creations, cancellations and expiries makes a write miss a
\* live event subscription on its text, and whatever the scripts it sets off
\* write, what is heard is what the item holds when the write is over.
THEOREM WritesNotifyAll == Spec => WriteNotifiesAll
<1>1. Inv /\ [Next]_vars => [TellsItsText]_vars
  BY WriteReaches
<1>. QED
  BY <1>1, InvHolds, PTL DEF Spec, WriteNotifiesAll

-----------------------------------------------------------------------------
\* cancel only drops poll buffers.
LEMMA CancelledBuffers ==
  ASSUME NEW reg, RegistryOK(reg), NEW rids
  PROVE  IsRestriction(Cancelled(reg, rids).poll_buffers, reg.poll_buffers)
<1>1. Cancelled(reg, rids).poll_buffers
        = [r \in DOMAIN reg.poll_buffers \ (rids \cap DOMAIN reg.subscriptions) |->
             reg.poll_buffers[r]]
  BY DEF Cancelled, Restrict, RegistryOK, Fields
<1>. HIDE DEF Cancelled
<1>. QED
  BY <1>1 DEF IsRestriction

\* Dropping poll buffers makes none of the others longer.
LEMMA NoneGrowsInRestriction ==
  ASSUME IsRestriction(registry'.poll_buffers, registry.poll_buffers), RegistryOK(registry)
  PROVE  BufferedWhileAlive
<1>1. \A r \in DOMAIN registry.poll_buffers : Len(registry.poll_buffers[r]) \in Nat
  BY DEF RegistryOK
<1>. QED
  BY <1>1 DEF BufferedWhileAlive, IsRestriction

\* What a write or a tick delivers and buffers is for live subscriptions only.
LEMMA DeliveriesAlive ==
  Inv /\ Next => DeliveredWhileAlive /\ BufferedWhileAlive
<1>. SUFFICES ASSUME Inv, Next
              PROVE  DeliveredWhileAlive /\ BufferedWhileAlive
  OBVIOUS
<1>1. /\ WellKept(registry, tick.expired) /\ RegistryOK(registry)
      /\ Indexed(registry, tick.expired)
      /\ ~tick.running => tick.expired = {}
  BY InvIsWellKept DEF WellKept
<1>2. ASSUME deliveries' = {},
             IsRestriction(registry'.poll_buffers, registry.poll_buffers)
      PROVE  DeliveredWhileAlive /\ BufferedWhileAlive
  BY <1>1, <1>2, NoneGrowsInRestriction DEF DeliveredWhileAlive
<1>3. ASSUME NEW rids, registry' = Cancelled(registry, rids), deliveries' = {}
      PROVE  DeliveredWhileAlive /\ BufferedWhileAlive
  BY <1>1, <1>2, <1>3, CancelledBuffers
<1>4. CASE \/ Advance \/ TickBegin
           \/ \E p \in Path : Delete(p) \/ \E v \in Value : Write(p, v) \/ ScriptWrite(p, v)
  <2>1. registry' = registry /\ deliveries' = {}
    BY <1>4 DEF Advance, TickBegin, Delete, Write, ScriptWrite, Stored
  <2>. QED
    BY <1>2, <2>1 DEF IsRestriction
<1>5. CASE \E r \in 1 .. MaxRid : Cancel({r})
  BY <1>3, <1>5 DEF Cancel, Update
<1>6. CASE \E s \in Session : EndSession(s)
  BY <1>3, <1>6 DEF EndSession, Update, CancelledBySession
<1>7. CASE TickEnd
  BY <1>3, <1>7 DEF TickEnd
<1>8. CASE TickDrop
  <2>1. registry'.poll_buffers = registry.poll_buffers /\ deliveries' = {}
    BY <1>1, <1>8 DEF TickDrop, WithoutFront, RegistryOK, Fields
  <2>. QED
    BY <1>2, <2>1 DEF IsRestriction
<1>9. CASE \E p \in Path, i \in Intervals, t \in Target, l \in Ttls : Subscribe(p, i, t, l)
  <2>1. /\ deliveries' = {}
        /\ \A r \in DOMAIN registry.poll_buffers :
             /\ r < registry.next_id /\ r \in Nat
             /\ Len(registry.poll_buffers[r]) \in Nat
    BY <1>1, <1>9 DEF Subscribe, Indexed, RegistryOK, Rid
  <2>2. \A r \in DOMAIN registry.poll_buffers :
          registry'.poll_buffers[r] = registry.poll_buffers[r]
    <3>1. \A r \in DOMAIN registry.poll_buffers : r # registry.next_id
      BY <1>1, <2>1 DEF RegistryOK, Rid
    <3>. QED
      BY <1>9, <3>1 DEF Subscribe, Update, Created
  <2>. QED
    BY <2>1, <2>2 DEF DeliveredWhileAlive, BufferedWhileAlive
<1>10. ASSUME NEW r \in 1 .. MaxRid, PollRead(r)
       PROVE  DeliveredWhileAlive /\ BufferedWhileAlive
  <2>1. registry' = Polled(registry, r, clock) /\ deliveries' = {}
    BY <1>10 DEF PollRead, Update
  <2>2. CASE PollOutcome(registry, r, clock) = "NotFound"
    BY <1>3, <2>1, <2>2 DEF Polled
  <2>3. CASE PollOutcome(registry, r, clock) = "Ok"
    <3>1. r \in DOMAIN registry.poll_buffers
      BY <2>3 DEF PollOutcome
    <3>2. registry' = [registry EXCEPT !.poll_buffers[r] = <<>>]
      BY <2>1, <2>3 DEF Polled
    <3>3. /\ registry'.poll_buffers[r] = <<>>
          /\ \A x \in DOMAIN registry.poll_buffers \ {r} :
               registry'.poll_buffers[x] = registry.poll_buffers[x]
      BY <1>1, <3>1, <3>2 DEF RegistryOK, Fields
    <3>4. \A x \in DOMAIN registry.poll_buffers : Len(registry.poll_buffers[x]) \in Nat
      BY <1>1 DEF RegistryOK
    <3>. QED
      BY <2>1, <3>3, <3>4 DEF DeliveredWhileAlive, BufferedWhileAlive
  <2>4. CASE PollOutcome(registry, r, clock) \notin {"Ok", "NotFound"}
    <3>1. registry' = registry
      BY <2>1, <2>4 DEF Polled
    <3>. QED
      BY <1>2, <2>1, <3>1 DEF IsRestriction
  <2>. QED
    BY <2>2, <2>3, <2>4
<1>11. CASE Announce
  <2>. DEFINE p == Head(writing.todo)
              values == tree[ItemOf[p]]
              now == writing.now
              expired == ExpiredOf(registry, Watching(registry, p), now)
              live == Watching(registry, p) \ expired
              buffered == WithBuffered(registry, live, values)
  <2>0. /\ values \in Seq(Value) /\ Len(values) <= 1
        /\ ~tick.running /\ tick.expired = {}
    BY <1>11, AnnounceFinds DEF Announce
  <2>1. /\ registry' = Cancelled(buffered, expired)
        /\ deliveries' = NotifyDeliveries(registry, p, values, now)
        /\ StepTime = now
    BY <1>11, <2>0 DEF Announce, Notified, StepTime
  <2>2. \A r \in live : r \in Live /\ ~IsExpired(Sub(r), now)
    BY DEF ExpiredOf, Watching, Live, Sub
  <2>3. DeliveredWhileAlive
    BY <2>1, <2>2 DEF DeliveredWhileAlive, NotifyDeliveries, DeliveryOf, Sub
  <2>4. RegistryOK(buffered)
    BY <1>1, <2>0, BufferedKept DEF WellKept
  <2>5. IsRestriction(registry'.poll_buffers, buffered.poll_buffers)
    BY <2>1, <2>4, CancelledBuffers
  <2>6. \A r \in DOMAIN registry.poll_buffers \ live :
          buffered.poll_buffers[r] = registry.poll_buffers[r]
    BY <1>1 DEF WithBuffered, RegistryOK, Fields
  <2>7. \A r \in DOMAIN registry.poll_buffers : Len(registry.poll_buffers[r]) \in Nat
    BY <1>1 DEF RegistryOK
  <2>8. DOMAIN buffered.poll_buffers = DOMAIN registry.poll_buffers
    BY <1>1 DEF WithBuffered, RegistryOK, Fields
  <2>. HIDE DEF buffered, live
  <2>9. BufferedWhileAlive
    BY <2>1, <2>2, <2>5, <2>6, <2>7, <2>8 DEF BufferedWhileAlive, IsRestriction
  <2>. QED
    BY <2>3, <2>9
<1>12. CASE TickFire
  <2>. DEFINE rid == Head(registry.interval_queue)
              values == tree[ItemOf[Sub(rid).path]]
  <2>1. /\ registry' = Fired(registry, values)
        /\ rid \in Live /\ ~IsExpired(Sub(rid), tick.now)
        /\ deliveries' \subseteq {DeliveryOf(rid, Sub(rid), values)}
        /\ StepTime = tick.now
    BY <1>12 DEF TickFire, StepTime
  <2>2. \A r \in DOMAIN registry.poll_buffers \ {rid} :
          registry'.poll_buffers[r] = registry.poll_buffers[r]
    BY <1>1, <2>1 DEF Fired, WithBuffered, WithoutFront, RegistryOK, Fields
  <2>3. \A r \in DOMAIN registry.poll_buffers : Len(registry.poll_buffers[r]) \in Nat
    BY <1>1 DEF RegistryOK
  <2>. HIDE DEF rid, values
  <2>. QED
    BY <2>1, <2>2, <2>3 DEF DeliveredWhileAlive, BufferedWhileAlive, DeliveryOf
<1>. QED
  BY <1>4, <1>5, <1>6, <1>7, <1>8, <1>9, <1>10, <1>11, <1>12
  DEF Next, Request, MainLoop

\* Nothing is delivered or buffered for a subscription past its lifetime, even
\* when the tick or write that comes first after its expiry is late.
THEOREM NoneDeliveredAfterExpiry == Spec => NoDeliveryAfterExpiry
<1>1. Inv /\ [Next]_vars => [DeliveredWhileAlive /\ BufferedWhileAlive]_vars
  BY DeliveriesAlive
<1>. QED
  BY <1>1, InvHolds, PTL DEF Spec, NoDeliveryAfterExpiry
=============================================================================
