------------------------------ MODULE ValueFlow ------------------------------
(***************************************************************************)
(* The way a written value takes from an InfoItem to a polling subscriber: *)
(* InfoItem.add_value pushes it into the item's history ring, and          *)
(* notify_write_event then queries the newest value of that ring and       *)
(* pushes it into the poll buffer, both under the engine lock.             *)
(***************************************************************************)
EXTENDS Integers, Sequences, FiniteSets

CONSTANTS Value, NoTime, NotGiven, Blank,
          HistoryCapacity, PollCapacity,
          Counts, Times      \* the options the properties try queries with

\* RingBuffer::new and PollBuffer::new assert a capacity; an option that is not
\* given is no number.
ASSUME CapacityAssumption == /\ HistoryCapacity \in Nat \ {0}
                             /\ PollCapacity \in Nat \ {0}
                             /\ NotGiven \notin Nat

ASSUME CountsAssumption == Counts \subseteq Nat

VARIABLES buf, head, len,              \* the item's history
          pbuf, phead, plen, drained   \* the subscription's poll buffer

flowVars == <<buf, head, len, pbuf, phead, plen, drained>>

History == INSTANCE ValueRing WITH Capacity <- HistoryCapacity

Poll == INSTANCE PollBuffer WITH Capacity <- PollCapacity,
                                 buf <- pbuf, head <- phead, len <- plen
-----------------------------------------------------------------------------
FlowInit == History!Init /\ Poll!Init

\* what notify_write_event passes on: the newest value of the item
Notified == History!QueryResult(1, NotGiven, NotGiven, NotGiven)

Write(v) == /\ History!Push(v)
            /\ Poll!Push(Notified'[1])

PollRead == Poll!Drain /\ UNCHANGED <<buf, head, len>>

FlowNext == PollRead \/ \E v \in Value : Write(v)

FlowSpec == FlowInit /\ [][FlowNext]_flowVars
-----------------------------------------------------------------------------
\* Indices of s that a query may return: those stamped within the bounds given.
Eligible(s, begin, end) ==
  IF begin = NotGiven /\ end = NotGiven
    THEN DOMAIN s
    ELSE {i \in DOMAIN s : /\ s[i].t # NoTime
                           /\ begin = NotGiven \/ begin <= s[i].t
                           /\ end = NotGiven \/ s[i].t <= end}

\* What a query of the history s is specified to return, stated without the
\* ring: the eligible values, at most newest of the last ones or else at most
\* oldest of the first ones, latest first.
Promised(s, newest, oldest, begin, end) ==
  LET all == Eligible(s, begin, end)
      After(i) == Cardinality({j \in all : j > i})
      Before(i) == Cardinality({j \in all : j < i})
      chosen == CASE newest # NotGiven -> {i \in all : After(i) < newest}
                  [] newest = NotGiven /\ oldest # NotGiven -> {i \in all : Before(i) < oldest}
                  [] OTHER -> all
      later(i) == Cardinality({j \in chosen : j > i})
  IN  [k \in 1 .. Cardinality(chosen) |->
         s[CHOOSE i \in chosen : later(i) = k - 1]]

\* Every query of an item's history (RingBuffer::query, value.rs:134-172)
\* returns what the promise says of the values the ring stands for, whether
\* the ring is still growing or has wrapped.
QueryKeepsPromise ==
  \A newest, oldest \in Counts \cup {NotGiven}, begin, end \in Times \cup {NotGiven} :
    History!QueryResult(newest, oldest, begin, end)
      = Promised(History!OldestToNewest, newest, oldest, begin, end)

\* The history ring (value.rs:43-101) implements a bounded FIFO: what it keeps
\* are the last HistoryCapacity values written, in order.
HistoryIsFifo == History!Fifo!Spec

\* The poll buffer (subscriptions.rs:87-133) implements a bounded FIFO: a poll
\* hands over the last PollCapacity values notified since the previous poll.
PollIsFifo == Poll!Fifo!Spec
=============================================================================
