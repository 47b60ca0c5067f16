---------------------------- MODULE BoundedFifo ----------------------------
(***************************************************************************)
(* What a bounded value buffer of the firmware promises: it holds the last *)
(* Capacity values pushed since it was last drained, oldest first, and a   *)
(* drain hands over exactly those.  The two ring buffers of the code,      *)
(* PollBuffer (omi/subscriptions.rs) and RingBuffer (odf/value.rs), are    *)
(* shown to implement it; RingBuffer is never drained.                     *)
(***************************************************************************)
EXTENDS Integers, Sequences

CONSTANTS Value,      \* the values pushed
          Capacity    \* how many of them are kept

VARIABLES contents,   \* the values held, oldest first
          taken       \* what the last drain handed over

fifoVars == <<contents, taken>>
-----------------------------------------------------------------------------
\* s with v added, the oldest value given up when s is full
Kept(s, v) == IF Len(s) < Capacity THEN Append(s, v) ELSE Append(Tail(s), v)

Init == contents = <<>> /\ taken = <<>>

Push(v) == contents' = Kept(contents, v) /\ UNCHANGED taken

Drain == taken' = contents /\ contents' = <<>>

Next == Drain \/ \E v \in Value : Push(v)

Spec == Init /\ [][Next]_fifoVars
=============================================================================
