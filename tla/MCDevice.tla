------------------------------- MODULE MCDevice -------------------------------
(* A sensor, a PWM pin of at most 2, an item whose script writes the pin and  *)
(* itself, and two that clients may create.                                   *)
EXTENDS Device

MCNoValue == -9
MCNoLimit == -1
MCSensor == <<"sys", "temp">>
MCPwm == <<"gpio", "pwm">>
MCFolder == <<"sys", "peers">>
Lamp == <<"room", "lamp">>
Loop == <<"room", "loop">>
\* Other texts of the lamp and of the room.
LampText == <<"room", " lamp">>
RoomText == <<" room">>
MCTrimmed == (" lamp" :> "lamp") @@ (" room" :> "room") @@ (" " :> "")

Item(vals, writable, limit, onwrite) ==
  [vals |-> vals, writable |-> writable, limit |-> limit, onwrite |-> onwrite]

MCBuiltIn ==
  [objects |-> {<<"sys">>, <<"gpio">>},
   items |-> (MCSensor :> Item(<<>>, FALSE, MCNoLimit, <<>>))
             @@ (MCPwm :> Item(<<0>>, TRUE, 2, <<>>))]

\* The script of the tree's item writes itself and the pin.
Scripted ==
  [objects |-> {},
   items |-> <<"loop">> :> Item(<<0>>, TRUE, 3,
               <<[path |-> Loop, add |-> 1], [path |-> MCPwm, add |-> 1]>>)]

MCHosts == {"lamp"}
MCSubscribed == {Loop, MCPwm, LampText}
MCRequests ==
  {[op |-> "write", path |-> Lamp, v |-> 1],
   [op |-> "write", path |-> MCSensor, v |-> 1],
   [op |-> "write", path |-> Loop, v |-> 1],
   [op |-> "batch", items |-> <<[path |-> MCPwm, v |-> 5], [path |-> LampText, v |-> 2]>>],
   [op |-> "tree", base |-> RoomText, sub |-> Scripted],
   [op |-> "tree", base |-> <<" ">>, sub |-> Scripted],
   [op |-> "delete", path |-> RoomText],
   [op |-> "delete", path |-> MCPwm]}
MCCallbackWrites == <<[path |-> Loop, v |-> 2]>>
=============================================================================
