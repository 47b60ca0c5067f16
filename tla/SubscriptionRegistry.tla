------------------------ MODULE SubscriptionRegistry ------------------------
(***************************************************************************)
(* omi/subscriptions.rs: the registry of O-MI subscriptions, as the value  *)
(* each of its methods leaves behind.  A registry is a record with the     *)
(* fields of the Rust struct:                                              *)
(*                                                                         *)
(*   subscriptions   rid -> subscription                                   *)
(*   event_index     path -> rids of its event subscriptions.  The code    *)
(*                   keeps a list; rids are appended as they are generated *)
(*                   and only ever removed, so the list is the set in      *)
(*                   ascending order, and an absent list is the empty set. *)
(*   interval_queue  rids of the interval subscriptions, next to fire      *)
(*                   first                                                 *)
(*   poll_buffers    rid of a poll subscription -> values not yet polled   *)
(*   next_id         the number of the next rid                            *)
(*                                                                         *)
(* Times are integers, in units of the shortest interval accepted, 0.1 s.  *)
(***************************************************************************)
EXTENDS Integers, Sequences, FiniteSets, FiniteSetsExt, Functions

CONSTANTS Path,              \* O-DF paths that can be subscribed to
          Url,               \* callback addresses
          Session,           \* WebSocket sessions
          Value,             \* values of InfoItems
          MaxSubscriptions,  \* how many subscriptions the registry admits
          PollCapacity       \* how many values a poll buffer keeps

ASSUME RegistryAssumption == /\ MaxSubscriptions \in Nat \ {0}
                             /\ PollCapacity \in Nat \ {0}
-----------------------------------------------------------------------------
Rid == Nat \ {0}

OnEvent == -1     \* the interval of an event subscription

Poll == [kind |-> "poll"]
Target == {Poll} \cup [kind : {"callback"}, to : Url]
                 \cup [kind : {"websocket"}, to : Session]

\* A subscription; trigger_time is the next firing, 0 for event subscriptions.
Subscription == [path : Path, interval : Int, target : Target,
                 created_at : Nat, ttl : Nat, trigger_time : Nat]

IsExpired(sub, now) == now > sub.created_at + sub.ttl

IsEvent(sub) == sub.interval < 0

\* What is handed to the transport for one subscription.
DeliveryOf(rid, sub, values) ==
  [rid |-> rid, path |-> sub.path, values |-> values, target |-> sub.target]
-----------------------------------------------------------------------------
EmptyRegistry == [subscriptions  |-> [r \in {} |-> {}],
                  event_index    |-> [p \in Path |-> {}],
                  interval_queue |-> <<>>,
                  poll_buffers   |-> [r \in {} |-> <<>>],
                  next_id        |-> 1]

\* Mutant of Buffered: a full buffer refuses the new value
BufferedRefuses(buffer, values) ==
  IF Len(buffer) < PollCapacity THEN buffer \o values ELSE buffer

\* The registry's poll buffer, as the FIFO that PollBuffer.tla implements; a
\* notification carries at most one value.
Buffered(buffer, values) ==
  IF values = <<>> THEN buffer
  ELSE IF Len(buffer) < PollCapacity THEN buffer \o values
       ELSE Tail(buffer) \o values

\* reg after values are pushed to the poll buffers of those in rids that have one
WithBuffered(reg, rids, values) ==
  [reg EXCEPT !.poll_buffers =
     [r \in DOMAIN @ |-> IF r \in rids THEN Buffered(@[r], values) ELSE @[r]]]

\* The queue with rid put in front of the first entry that fires later than it
\* does, or last.  An entry without a subscription counts as firing never.
InsertedSorted(subs, queue, rid) ==
  LET later == {i \in DOMAIN queue :
                  \/ queue[i] \notin DOMAIN subs
                  \/ subs[queue[i]].trigger_time > subs[rid].trigger_time}
      pos == IF later = {} THEN Len(queue) + 1 ELSE Min(later)
  IN  [i \in 1 .. Len(queue) + 1 |->
         IF i < pos THEN queue[i] ELSE IF i = pos THEN rid ELSE queue[i - 1]]

\* The queue without the rids in gone, in the same order: its k-th entry is
\* the k-th one kept.  (SelectSeq by counting, which can be reasoned about.)
Retained(queue, gone) ==
  LET kept == {i \in DOMAIN queue : queue[i] \notin gone}
      rank(i) == Cardinality({j \in kept : j <= i})
  IN  [k \in 1 .. Cardinality(kept) |-> queue[CHOOSE i \in kept : rank(i) = k]]
-----------------------------------------------------------------------------
\* create: refused for a bad interval or a full registry
CanCreate(reg, interval) ==
  /\ interval = OnEvent \/ interval >= 1
  /\ Cardinality(DOMAIN reg.subscriptions) < MaxSubscriptions

Created(reg, path, interval, target, ttl, now) ==
  LET rid == reg.next_id
      sub == [path |-> path, interval |-> interval, target |-> target,
              created_at |-> now, ttl |-> ttl,
              trigger_time |-> IF interval > 0 THEN now + interval ELSE 0]
      subs == [r \in DOMAIN reg.subscriptions \cup {rid} |->
                 IF r = rid THEN sub ELSE reg.subscriptions[r]]
  IN  [subscriptions |-> subs,
       event_index |-> IF interval < 0
                         THEN [reg.event_index EXCEPT ![path] = @ \cup {rid}]
                         ELSE reg.event_index,
       interval_queue |-> IF interval < 0
                            THEN reg.interval_queue
                            ELSE InsertedSorted(subs, reg.interval_queue, rid),
       poll_buffers |-> IF target = Poll
                          THEN [r \in DOMAIN reg.poll_buffers \cup {rid} |->
                                  IF r = rid THEN <<>> ELSE reg.poll_buffers[r]]
                          ELSE reg.poll_buffers,
       next_id |-> rid + 1]

\* Mutant of Cancelled: the queue is not searched
CancelledKeepsQueue(reg, rids) ==
  LET subs == reg.subscriptions
      gone == rids \cap DOMAIN subs
  IN  [reg EXCEPT
         !.subscriptions = Restrict(subs, DOMAIN subs \ gone),
         !.event_index = [p \in Path |-> @[p] \ gone],
         !.poll_buffers = Restrict(@, DOMAIN @ \ gone)]

\* cancel: unknown rids are skipped; an event subscription leaves the index of
\* its path, an interval subscription the queue
Cancelled(reg, rids) ==
  LET subs == reg.subscriptions
      gone == rids \cap DOMAIN subs
      timed == {r \in gone : ~IsEvent(subs[r])}
  IN  [reg EXCEPT
         !.subscriptions = Restrict(subs, DOMAIN subs \ gone),
         !.event_index = [p \in Path |->
            @[p] \ {r \in gone : IsEvent(subs[r]) /\ subs[r].path = p}],
         !.interval_queue = Retained(@, timed),
         !.poll_buffers = Restrict(@, DOMAIN @ \ gone)]

\* cancel_by_ws_session
BoundTo(reg, session) ==
  {r \in DOMAIN reg.subscriptions :
     reg.subscriptions[r].target = [kind |-> "websocket", to |-> session]}

CancelledBySession(reg, session) == Cancelled(reg, BoundTo(reg, session))

\* notify_event: the subscriptions indexed under path and, of these, the ones
\* past their lifetime
Watching(reg, path) == reg.event_index[path] \cap DOMAIN reg.subscriptions

\* Mutant of ExpiredOf: off by one
ExpiredOfLate(reg, rids, now) ==
  {r \in rids : IsExpired(reg.subscriptions[r], now - 1)}

ExpiredOf(reg, rids, now) == {r \in rids : IsExpired(reg.subscriptions[r], now)}

NotifyDeliveries(reg, path, values, now) ==
  LET subs == reg.subscriptions
      live == Watching(reg, path) \ ExpiredOf(reg, Watching(reg, path), now)
  IN  {DeliveryOf(r, subs[r], values) : r \in {x \in live : subs[x].target # Poll}}

Notified(reg, path, values, now) ==
  LET expired == ExpiredOf(reg, Watching(reg, path), now)
      live == Watching(reg, path) \ expired
  IN  Cancelled(WithBuffered(reg, live, values), expired)

\* Mutant of DueFront: what comes due at this instant is left for later
DueFrontStrict(reg, now) ==
  /\ reg.interval_queue # <<>>
  /\ LET rid == Head(reg.interval_queue)
     IN  \/ rid \notin DOMAIN reg.subscriptions
         \/ reg.subscriptions[rid].trigger_time < now

\* tick_intervals, one turn of its loop: what becomes of the front of the
\* queue once its trigger_time has come.  Rescheduling counts from the time it
\* was due, and only while the subscription lives that long.
DueFront(reg, now) ==
  /\ reg.interval_queue # <<>>
  /\ LET rid == Head(reg.interval_queue)
     IN  \/ rid \notin DOMAIN reg.subscriptions
         \/ reg.subscriptions[rid].trigger_time <= now

WithoutFront(reg) == [reg EXCEPT !.interval_queue = Tail(@)]

\* Mutant of NextTrigger: counted from the creation each time
NextTriggerFromStart(sub) == sub.created_at + sub.interval

NextTrigger(sub) == sub.trigger_time + sub.interval

\* The front fired with values: buffered if it is polled, then back in the
\* queue, unless it expires before it is due again.
Fired(reg, values) ==
  LET rid == Head(reg.interval_queue)
      sub == reg.subscriptions[rid]
      subs == [reg.subscriptions EXCEPT ![rid].trigger_time = NextTrigger(sub)]
      buffered == WithBuffered(WithoutFront(reg), {rid}, values)
  IN  IF IsExpired(sub, NextTrigger(sub))
        THEN buffered
        ELSE [buffered EXCEPT
                !.subscriptions = subs,
                !.interval_queue = InsertedSorted(subs, @, rid)]

\* poll: an expired subscription is cancelled and not found, a subscription
\* without a buffer is not pollable
PollOutcome(reg, rid, now) ==
  IF rid \notin DOMAIN reg.subscriptions \/ IsExpired(reg.subscriptions[rid], now)
    THEN "NotFound"
    ELSE IF rid \in DOMAIN reg.poll_buffers THEN "Ok" ELSE "NotPollable"

Polled(reg, rid, now) ==
  CASE PollOutcome(reg, rid, now) = "Ok" -> [reg EXCEPT !.poll_buffers[rid] = <<>>]
    [] PollOutcome(reg, rid, now) = "NotFound" -> Cancelled(reg, {rid})
    [] OTHER -> reg
-----------------------------------------------------------------------------
(* What holds of every registry the methods can leave behind.              *)

Fields == {"subscriptions", "event_index", "interval_queue", "poll_buffers",
           "next_id"}

RegistryOK(reg) ==
  /\ DOMAIN reg = Fields
  /\ DOMAIN reg.subscriptions \in SUBSET Rid
  /\ \A r \in DOMAIN reg.subscriptions : reg.subscriptions[r] \in Subscription
  /\ reg.event_index \in [Path -> SUBSET Rid]
  /\ reg.interval_queue \in Seq(Rid)
  /\ DOMAIN reg.poll_buffers \in SUBSET Rid
  /\ \A r \in DOMAIN reg.poll_buffers :
       /\ reg.poll_buffers[r] \in Seq(Value)
       /\ Len(reg.poll_buffers[r]) <= PollCapacity
  /\ reg.next_id \in Rid

Ids(queue) == {queue[i] : i \in DOMAIN queue}

NoRepeats(queue) == \A i, j \in DOMAIN queue : queue[i] = queue[j] => i = j

TimedIn(subs) == {r \in DOMAIN subs : ~IsEvent(subs[r])}

EventsOn(subs, path) == {r \in DOMAIN subs : IsEvent(subs[r]) /\ subs[r].path = path}

\* Every subscription, and nothing else, is where notify_event, tick_intervals
\* and poll look for it; popped are the interval subscriptions a tick has taken
\* out of the queue for good.
Indexed(reg, popped) ==
  LET subs == reg.subscriptions
  IN  /\ \A p \in Path : reg.event_index[p] = EventsOn(subs, p)
      /\ Ids(reg.interval_queue) = TimedIn(subs) \ popped
      /\ NoRepeats(reg.interval_queue)
      /\ DOMAIN reg.poll_buffers = {r \in DOMAIN subs : subs[r].target = Poll}
      /\ \A r \in DOMAIN subs : r < reg.next_id

\* Of two entries of the queue the one in front comes due no later.
SortedByTrigger(subs, queue) ==
  \A i, j \in DOMAIN queue :
    i < j => subs[queue[i]].trigger_time <= subs[queue[j]].trigger_time
=============================================================================
