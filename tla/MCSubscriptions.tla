---- MODULE MCSubscriptions ----
(* Subscriptions with two places in the registry, so that it fills up, and *)
(* one item, named by every path text.                                     *)
EXTENDS Subscriptions

MCItemOf == [p \in Path |-> CHOOSE i \in Item : TRUE]

MCIntervals == {OnEvent, 0, 1, 2}
MCTtls == {0, 1, 3}
====
