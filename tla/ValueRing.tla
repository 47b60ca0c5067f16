------------------------------ MODULE ValueRing ------------------------------
(***************************************************************************)
(* odf/value.rs RingBuffer: the value history of one InfoItem.  buf grows  *)
(* by appending until it holds Capacity values and is overwritten in place *)
(* from then on; head is the slot the next push writes, which is the       *)
(* oldest value once the ring is full.  A query reads the ring and leaves  *)
(* it unchanged, so it is an operator, QueryResult.                        *)
(***************************************************************************)
EXTENDS Integers, Sequences, FiniteSets

CONSTANTS Value,      \* records with a field t, the timestamp
          NoTime,     \* t of a value that carries no timestamp
          Capacity,
          NotGiven      \* a query option the client left out

VARIABLES buf, head, len

ringVars == <<buf, head, len>>
-----------------------------------------------------------------------------
\* Mutant of OldestIndex: the first slot is the oldest, wrapped or not
OldestIndexFixed == 0

OldestIndex == IF len < Capacity THEN 0 ELSE head

\* the value at a logical index: 0 is the oldest, len-1 the newest
Get(logical) == buf[((OldestIndex + logical) % Capacity) + 1]

OldestToNewest == [i \in 1 .. len |-> Get(i - 1)]

Init == buf = <<>> /\ head = 0 /\ len = 0

Push(v) ==
  \/ /\ len < Capacity
     /\ buf' = Append(buf, v)
     /\ len' = len + 1
     /\ head' = (len + 1) % Capacity
  \/ /\ len >= Capacity
     /\ buf' = [buf EXCEPT ![head + 1] = v]
     /\ head' = (head + 1) % Capacity
     /\ UNCHANGED len

\* Mutant of InWindow: a value without a timestamp passes any filter
InWindowUnstamped(v, begin, end) ==
  v.t # NoTime => /\ begin # NotGiven => v.t >= begin
                  /\ end # NotGiven => v.t <= end

\* the time filter of a query: no value without a timestamp passes
InWindow(v, begin, end) == /\ v.t # NoTime
                           /\ begin # NotGiven => v.t >= begin
                           /\ end # NotGiven => v.t <= end

\* retain: the values in the window, in their order
Retained(values, begin, end) ==
  LET kept[n \in 0 .. Len(values)] ==
        IF n = 0 THEN <<>>
        ELSE IF InWindow(values[n], begin, end) THEN Append(kept[n - 1], values[n])
        ELSE kept[n - 1]
  IN  kept[Len(values)]

\* newest takes precedence over oldest
Limited(values, newest, oldest) ==
  IF newest # NotGiven
    THEN LET skip == IF Len(values) > newest THEN Len(values) - newest ELSE 0
         IN  SubSeq(values, skip + 1, Len(values))
    ELSE IF oldest # NotGiven /\ oldest < Len(values)
           THEN SubSeq(values, 1, oldest)
           ELSE values

NewestFirst(values) == [i \in 1 .. Len(values) |-> values[Len(values) + 1 - i]]

\* time filter first, if any bound is given, then the count limit, newest value
\* first
QueryResult(newest, oldest, begin, end) ==
  LET values == IF begin = NotGiven /\ end = NotGiven
                  THEN OldestToNewest
                  ELSE Retained(OldestToNewest, begin, end)
  IN  NewestFirst(Limited(values, newest, oldest))

Next == \E v \in Value : Push(v)

Spec == Init /\ [][Next]_ringVars

TypeOK == /\ buf \in Seq(Value)
          /\ len \in 0 .. Capacity
          /\ head \in 0 .. Capacity - 1
          /\ Len(buf) = len
-----------------------------------------------------------------------------
Fifo == INSTANCE BoundedFifo WITH contents <- OldestToNewest, taken <- <<>>
=============================================================================
