---------------------------- MODULE Subscriptions ----------------------------
(***************************************************************************)
(* The life of O-MI subscriptions behind the engine lock: the requests     *)
(* Engine::process hands to the registry (omi/engine.rs), the main loop's  *)
(* interval tick, and the wall clock, which runs on its own.               *)
(*                                                                         *)
(* The engine lock makes each request one step, but for two that take      *)
(* several, the lock held throughout: tick_intervals is a loop of unknown  *)
(* length, one step per turn from TickBegin to TickEnd; and a write stores *)
(* its value, lets the onwrite script of the item write others, or the     *)
(* same item again, and announces itself last, with the value it then      *)
(* reads back from the tree (Write, ScriptWrite, Announce).                *)
(*                                                                         *)
(* Path holds the texts clients send.  The registry keys everything by the *)
(* text; the tree trims the segments of a text before it looks them up     *)
(* (odf/tree.rs:61-64), so that several texts may name one item.           *)
(***************************************************************************)
EXTENDS SubscriptionRegistry

CONSTANTS Item,        \* InfoItems of the tree
          ItemOf,      \* the item a path text names, once parsed
          Intervals,   \* intervals asked for, OnEvent among them
          Ttls,        \* lifetimes asked for
          MAX_SCRIPT_DEPTH,   \* how deep onwrite scripts may set each other off
          MaxScriptWrites,    \* bound: writes by the scripts of one request
          MaxRid,      \* bound: subscriptions created in a behaviour
          MaxTime      \* bound: the last instant of the clock

ASSUME ItemAssumption == ItemOf \in [Path -> Item]

ASSUME BoundsAssumption == /\ Intervals \subseteq Int
                           /\ Ttls \subseteq Int
                           /\ MAX_SCRIPT_DEPTH \in Nat
                           /\ MaxScriptWrites \in Nat
                           /\ MaxRid \in Nat
                           /\ MaxTime \in Nat

VARIABLES registry,    \* see SubscriptionRegistry
          tree,        \* newest value of each item: <<v>>, or <<>> if there is none
          clock,       \* now_secs()
          tick,        \* the tick in progress: its now and the rids found expired
          writing,     \* the write in progress: its now, the texts stored and not
                       \* yet announced, innermost first, and the writes its
                       \* scripts may still make
          deliveries,  \* what the last step handed to the transport
          fired        \* history: how often each interval subscription fired

vars == <<registry, tree, clock, tick, writing, deliveries, fired>>
-----------------------------------------------------------------------------
NoTick == [running |-> FALSE, now |-> 0, expired |-> {}]

NoWriting == [todo |-> <<>>, now |-> 0, left |-> 0]

Live == DOMAIN registry.subscriptions

Sub(r) == registry.subscriptions[r]

\* The engine lock is free
Unlocked == ~tick.running /\ writing.todo = <<>>

\* fired after a step in which the subscriptions in rids fired
Tally(rids) ==
  fired' = [r \in DOMAIN registry'.subscriptions |->
              (IF r \in DOMAIN fired THEN fired[r] ELSE 0)
                + (IF r \in rids THEN 1 ELSE 0)]

\* A step that changes the registry, and only that
Update(reg) == /\ registry' = reg
               /\ Tally({})
               /\ UNCHANGED <<tree, clock, tick, writing>>

Init == /\ registry = EmptyRegistry
        /\ tree = [i \in Item |-> <<>>]
        /\ clock = 0
        /\ tick = NoTick
        /\ writing = NoWriting
        /\ deliveries = {}
        /\ fired = [r \in {} |-> 0]

\* The clock goes on, whoever holds the lock; it may jump, as when SNTP sets it.
Advance == /\ \E t \in clock + 1 .. MaxTime : clock' = t
           /\ deliveries' = {}
           /\ UNCHANGED <<registry, tree, tick, writing, fired>>

\* process_read_subscription: no lifetime, no subscription
Subscribe(path, interval, target, ttl) ==
  /\ Unlocked
  /\ registry.next_id <= MaxRid
  /\ clock + interval <= MaxTime    \* bound: it comes due within the clock
  /\ ttl > 0
  /\ CanCreate(registry, interval)
  /\ Update(Created(registry, path, interval, target, ttl, clock))
  /\ deliveries' = {}

\* process_cancel
Cancel(rids) == /\ Unlocked
                /\ Update(Cancelled(registry, rids))
                /\ deliveries' = {}

\* The server on the close of a WebSocket, and on a failed send to it
EndSession(session) == /\ Unlocked
                       /\ Update(CancelledBySession(registry, session))
                       /\ deliveries' = {}

\* The value goes into the tree
Stored(path, v) == /\ tree' = [tree EXCEPT ![ItemOf[path]] = <<v>>]
                   /\ deliveries' = {}
                   /\ UNCHANGED <<registry, clock, tick, fired>>

\* A successful write of an InfoItem, up to the run of its onwrite script
Write(path, v) ==
  /\ Unlocked
  /\ Stored(path, v)
  /\ writing' = [todo |-> <<path>>, now |-> clock, left |-> MaxScriptWrites]

\* A write the script of the innermost write asked for; at the depth limit the
\* script does not run
ScriptWrite(path, v) ==
  /\ writing.todo # <<>> /\ writing.left > 0
  /\ Len(writing.todo) <= MAX_SCRIPT_DEPTH
  /\ Stored(path, v)
  /\ writing' = [writing EXCEPT !.todo = <<path>> \o @, !.left = @ - 1]

\* The innermost write is done: notify_write_event announces it under the text
\* it was made under, with the newest value, read back from the tree
Announce ==
  /\ writing.todo # <<>>
  /\ LET path == Head(writing.todo)
         values == tree[ItemOf[path]]
     IN  /\ registry' = Notified(registry, path, values, writing.now)
         /\ deliveries' = NotifyDeliveries(registry, path, values, writing.now)
  /\ writing' = IF Tail(writing.todo) = <<>>
                  THEN NoWriting ELSE [writing EXCEPT !.todo = Tail(@)]
  /\ Tally({})
  /\ UNCHANGED <<tree, clock, tick>>

\* process_delete: the registry is not told
Delete(path) == /\ Unlocked
                /\ tree[ItemOf[path]] # <<>>
                /\ tree' = [tree EXCEPT ![ItemOf[path]] = <<>>]
                /\ deliveries' = {}
                /\ UNCHANGED <<registry, clock, tick, writing, fired>>

\* process_read_poll
PollRead(rid) == /\ Unlocked
                 /\ Update(Polled(registry, rid, clock))
                 /\ deliveries' = {}

TickBegin == /\ Unlocked
             /\ tick' = [running |-> TRUE, now |-> clock, expired |-> {}]
             /\ deliveries' = {}
             /\ UNCHANGED <<registry, tree, clock, writing, fired>>

\* One turn of the loop: an entry without a subscription or past its lifetime
\* only leaves the queue
TickDrop ==
  /\ tick.running /\ DueFront(registry, tick.now)
  /\ LET rid == Head(registry.interval_queue)
     IN  /\ rid \in Live => IsExpired(Sub(rid), tick.now)
         /\ tick' = [tick EXCEPT !.expired = @ \cup ({rid} \cap Live)]
  /\ registry' = WithoutFront(registry)
  /\ deliveries' = {}
  /\ Tally({})
  /\ UNCHANGED <<tree, clock, writing>>

\* and a live one fires with the newest value of its path
TickFire ==
  /\ tick.running /\ DueFront(registry, tick.now)
  /\ LET rid == Head(registry.interval_queue)
         values == tree[ItemOf[Sub(rid).path]]
     IN  /\ rid \in Live /\ ~IsExpired(Sub(rid), tick.now)
         /\ registry' = Fired(registry, values)
         /\ deliveries' = IF Sub(rid).target = Poll
                            THEN {} ELSE {DeliveryOf(rid, Sub(rid), values)}
         /\ tick' = [tick EXCEPT !.expired =
              @ \cup (IF IsExpired(Sub(rid), NextTrigger(Sub(rid)))
                        THEN {rid} ELSE {})]
         /\ Tally({rid})
  /\ UNCHANGED <<tree, clock, writing>>

\* Mutant of TickEnd: what expired is not cancelled
TickEndForgets == /\ tick.running /\ ~DueFront(registry, tick.now)
                  /\ tick' = NoTick
                  /\ deliveries' = {}
                  /\ UNCHANGED <<registry, tree, clock, writing, fired>>

\* The queue holds nothing due: what expired is cancelled and the lock released
TickEnd == /\ tick.running /\ ~DueFront(registry, tick.now)
           /\ registry' = Cancelled(registry, tick.expired)
           /\ tick' = NoTick
           /\ deliveries' = {}
           /\ Tally({})
           /\ UNCHANGED <<tree, clock, writing>>

Request ==
  \/ \E p \in Path, i \in Intervals, t \in Target, l \in Ttls : Subscribe(p, i, t, l)
  \/ \E r \in 1 .. MaxRid : Cancel({r}) \/ PollRead(r)
  \/ \E s \in Session : EndSession(s)
  \/ \E p \in Path : Delete(p) \/ \E v \in Value : Write(p, v) \/ ScriptWrite(p, v)
  \/ Announce

MainLoop == TickBegin \/ TickDrop \/ TickFire \/ TickEnd

Next == Advance \/ Request \/ MainLoop

Spec == Init /\ [][Next]_vars

\* The main loop ticks for ever, a request gets through and time does not stand
\* still.  However many writes come, the main loop gets the engine lock now and
\* then: a FreeRTOS mutex wakes the tasks that wait for it (SF).
FairSpec == /\ Spec
            /\ WF_vars(Announce)
            /\ SF_vars(TickBegin) /\ WF_vars(TickDrop \/ TickFire \/ TickEnd)
            /\ WF_vars(Advance)
-----------------------------------------------------------------------------
TypeOK ==
  /\ RegistryOK(registry)
  /\ tree \in [Item -> {<<>>} \cup {<<v>> : v \in Value}]
  /\ clock \in Nat
  /\ tick \in [running : BOOLEAN, now : Nat, expired : SUBSET Rid]
  /\ writing \in [todo : Seq(Path), now : Nat, left : Nat]
  /\ DOMAIN fired = Live
  /\ \A r \in Live : fired[r] \in Nat

\* A tick and a write never hold the engine lock at once.
OneHolder == tick.running => writing.todo = <<>>

\* Every subscription, and nothing else, is where notify_event, tick_intervals
\* and poll look for it: event subscriptions in the index of their own path,
\* interval subscriptions once in the queue (or in the expired list of the tick
\* that popped them), poll subscriptions with a buffer.  cancel, called from
\* five places (subscriptions.rs:243-266, 279, 328, 436, 457), has to keep this.
IndexesAgree == /\ Indexed(registry, tick.expired)
                /\ tick.expired \subseteq TimedIn(registry.subscriptions)
                /\ ~tick.running => tick.expired = {}

\* The queue is sorted by trigger time, through every insertion, cancellation
\* and rescheduling: tick_intervals stops at the first entry not yet due
\* (subscriptions.rs:383-386), so one entry out of place would silence others.
QueueSorted == SortedByTrigger(registry.subscriptions, registry.interval_queue)

Timed == TimedIn(registry.subscriptions)

\* However late the ticks come, a queued interval subscription has fired once
\* for each multiple of its interval since it was created and before its next
\* trigger (subscriptions.rs:422-427): no slot is skipped and none repeated.
OneFiringPerSlot ==
  \A r \in Timed \ tick.expired :
    Sub(r).trigger_time = Sub(r).created_at + (fired[r] + 1) * Sub(r).interval
-----------------------------------------------------------------------------
\* The time by which a step judges lifetimes
StepTime == IF tick.running THEN tick.now
            ELSE IF writing.todo # <<>> THEN writing.now ELSE clock

DeliveredWhileAlive ==
  \A d \in deliveries' : /\ d.rid \in Live
                         /\ ~IsExpired(Sub(d.rid), StepTime)
                         /\ d.target = Sub(d.rid).target

BufferedWhileAlive ==
  \A r \in DOMAIN registry.poll_buffers \cap DOMAIN registry'.poll_buffers :
    Len(registry'.poll_buffers[r]) > Len(registry.poll_buffers[r])
      => ~IsExpired(Sub(r), StepTime)

\* Nothing is handed to the transport, and nothing buffered for a poll, for a
\* subscription that is cancelled or past its lifetime: "After expiry, the
\* server stops delivering updates" (doc/omi-lite.md:297).
NoDeliveryAfterExpiry == [][DeliveredWhileAlive /\ BufferedWhileAlive]_vars

NothingLeftDue ==
  \A r \in DOMAIN registry'.subscriptions :
    LET sub == registry'.subscriptions[r]
    IN  IsEvent(sub) \/ sub.trigger_time > tick.now

\* A tick leaves no interval subscription due, and none that has already
\* expired by its next trigger: whatever was due was fired or cancelled.
TickServesAllDue == [][tick.running /\ ~tick'.running => NothingLeftDue]_vars

\* r hears of v: last in its poll buffer, or in a delivery of this step
HearsOf(r, v) ==
  IF Sub(r).target = Poll
    THEN LET buffer == registry'.poll_buffers[r]
         IN  buffer # <<>> /\ buffer[Len(buffer)] = v
    ELSE \E d \in deliveries' : d.rid = r /\ d.values = <<v>>

\* A finished write tells the live event subscriptions on its text of the newest
\* value of its item
TellsItsText ==
  Announce =>
    \A r \in Live, v \in Value :
      /\ IsEvent(Sub(r)) /\ Sub(r).path = Head(writing.todo)
      /\ ~IsExpired(Sub(r), writing.now)
      /\ tree[ItemOf[Sub(r).path]] = <<v>>
      => HearsOf(r, v)

\* Every write of a request, those of scripts included, is announced to every
\* live event subscription on the text it was made under, with the value its
\* item has by then: however many scripts wrote the item again in between, the
\* subscriber never hears an older value last.  notify_event finds them all
\* through the index and hands on what notify_write_event reads back
\* (engine.rs:273-281, 367-381).  Subscriptions on other texts of the item are not
\* told, since the index is keyed by the text (subscriptions.rs:290), although
\* doc/omi-lite.md:526 has the server respond "when a subscribed value changes".
WriteNotifiesAll == [][TellsItsText]_vars

\* An interval subscription past its lifetime is eventually forgotten: the tick
\* cancels it when it next comes due (subscriptions.rs:397, 423-431).
TimedEventuallyForgotten ==
  \A r \in 1 .. MaxRid :
    (r \in Timed /\ IsExpired(Sub(r), clock)) ~> (r \notin Live)
=============================================================================
