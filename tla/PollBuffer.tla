----------------------------- MODULE PollBuffer -----------------------------
(***************************************************************************)
(* omi/subscriptions.rs: the ring that accumulates the values of one poll  *)
(* subscription between two polls.  The slots are filled with Blank at      *)
(* construction; head is the slot of the oldest value held.                *)
(***************************************************************************)
EXTENDS Integers, Sequences

CONSTANTS Value, Capacity, Blank

VARIABLES buf,       \* 0 .. Capacity-1 -> Value, or Blank where never written
          head,      \* slot of the oldest value
          len,       \* number of values held
          drained    \* what the last drain returned

pollVars == <<buf, head, len, drained>>
-----------------------------------------------------------------------------
Slot == 0 .. Capacity - 1

SlotOf(i) == (head + i) % Capacity

\* the values held, oldest first
Held == [i \in 1 .. len |-> buf[SlotOf(i - 1)]]

Init == /\ buf = [s \in Slot |-> Blank]
        /\ head = 0
        /\ len = 0
        /\ drained = <<>>

\* Mutant of Push: an overflow does not move head on
PushKeepsHead(v) == /\ buf' = [buf EXCEPT ![SlotOf(len)] = v]
                    /\ len' = IF len < Capacity THEN len + 1 ELSE len
                    /\ UNCHANGED <<head, drained>>

\* one value of a push: into the next free slot, or over the oldest when full
Push(v) ==
  /\ buf' = [buf EXCEPT ![SlotOf(len)] = v]
  /\ \/ len < Capacity /\ len' = len + 1 /\ UNCHANGED head
     \/ len >= Capacity /\ head' = (head + 1) % Capacity /\ UNCHANGED len
  /\ UNCHANGED drained

Drain ==
  /\ drained' = Held
  /\ head' = 0
  /\ len' = 0
  /\ UNCHANGED buf

Next == Drain \/ \E v \in Value : Push(v)

Spec == Init /\ [][Next]_pollVars

TypeOK == /\ buf \in [Slot -> Value \cup {Blank}]
          /\ head \in Slot
          /\ len \in 0 .. Capacity
          /\ drained \in Seq(Value)

-----------------------------------------------------------------------------
Fifo == INSTANCE BoundedFifo WITH contents <- Held, taken <- drained
=============================================================================
