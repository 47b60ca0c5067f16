---- MODULE MCServer ----
(* Server with three paths. A write of the first may set off a script that  *)
(* writes the second, and that one a script that writes the third.         *)
EXTENDS Server
CONSTANTS a, b, c, u, w

MCPath == {a, b, c}
MCUrl == {u, w}
MCSession == 0 .. MaxSession
MCValue == [n : 1 .. MaxWrites, by : {"http", "script"}]
MCScriptWrites == [x \in {u, w} |-> IF x = u THEN {b} ELSE {c}]
MCCallbackAsked == {<<a, u>>, <<b, w>>}
====
