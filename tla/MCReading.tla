------------------------------ MODULE MCReading ------------------------------
(***************************************************************************)
(* What readers get. Scripts that read one another's items, in cycles and   *)
(* up to the limit of depth, and requests that set them off; and the values *)
(* that pass through a history of three and a poll buffer of two.          *)
(*                                                                         *)
(* No script changes the history of an item while it runs, and the rings   *)
(* know nothing of scripts. So the rings move where no script can run: when *)
(* the request is a plain read of a tree that has none.                    *)
(***************************************************************************)
EXTENDS ScriptMeaning, ValueFlow

ItemA == <<"D", "a">>
ItemB == <<"D", "b">>
ItemC == <<"D", "c">>
SpacedB == <<"D", " b">>
MCTrimmed == " b" :> "b"
ValueOf(p) == Append(p, "value")
V(n) == <<"v", n>>

Script(calls, gives) == [calls |-> calls, gives |-> gives, expression |-> TRUE]
Statements(calls, gives) == [calls |-> calls, gives |-> gives, expression |-> FALSE]

Scripts == {
  NoScript,
  Script(<<>>, "saw"),
  Script(<<Read(ValueOf(ItemB))>>, "saw"),
  Script(<<Read(ValueOf(ItemC)), Read(ItemB)>>, "saw"),
  Script(<<Read(ItemA), Read(ValueOf(ItemC))>>, "last"),
  Script(<<Read(ItemB), Read(ValueOf(ItemB))>>, "null"),
  Script(<<Read(ValueOf(SpacedB))>>, "saw"),
  Script(<<WriteItem(ItemA, V(9), FALSE)>>, "saw"),
  Statements(<<Read(ValueOf(ItemB))>>, "last"),
  Script(<<>>, "error")}

CallbackScript ==
  Script(<<WriteItem(ItemA, V(6), FALSE), Read(ValueOf(ItemA)), Read(ValueOf(ItemB))>>, "null")
Meta(name) == <<"D", "MetaData", name>>

Item(vals, readable, onread) ==
  [vals |-> vals, readable |-> readable, onread |-> onread]

\* In the second family there is an item that is named value.
PlainTree(a, b, c, n, readable) ==
  [objects |-> {<<"D">>},
   items |-> ItemA :> Item(<<V(1), V(2)>>, TRUE, a) @@ ItemB :> Item(<<V(3)>>, TRUE, b)
             @@ ItemC :> Item(SubSeq(<<V(4)>>, 1, n), readable, c)]
NamedTree(a, b) ==
  [objects |-> {<<"D">>, ItemB, <<"D", "MetaData">>},
   items |-> ItemA :> Item(<<V(1)>>, TRUE, a) @@ ItemB :> Item(<<V(3)>>, TRUE, b)
             @@ ValueOf(ItemB) :> Item(<<V(5)>>, TRUE, NoScript)
             @@ Meta("script") :> Item(<<<<"source", CallbackScript>>>>, TRUE, NoScript)
             @@ Meta("unit") :> Item(<<V(1)>>, TRUE, NoScript)]

MCTrees ==
  {PlainTree(a, b, c, 1, TRUE) : a \in Scripts, b \in Scripts, c \in Scripts}
    \cup {PlainTree(a, b, c, 0, TRUE) : a \in Scripts, b \in Scripts, c \in Scripts}
    \cup {PlainTree(a, b, NoScript, 1, FALSE) : a \in Scripts, b \in Scripts}
    \cup {NamedTree(a, b) : a \in Scripts, b \in Scripts}

Query(kind, p, newest, slow) ==
  [kind |-> kind, path |-> p, newest |-> newest, slow |-> slow]
WriterRun(depth, calls) ==
  [kind |-> "onwrite", path |-> ItemB, depth |-> depth, v |-> V(7),
   script |-> Script(calls, "saw")]
CallbackRun(url) ==
  [kind |-> "callback", path |-> ItemB, url |-> url, values |-> <<V(7)>>]

MCRequests == {
  Query("read", ItemA, 9, FALSE), Query("read", ItemB, 0, FALSE),
  Query("read", ItemC, 9, FALSE), Query("read", <<"D">>, 9, FALSE),
  Query("read", SpacedB, 9, FALSE),
  Query("interval", ItemA, 1, FALSE), Query("interval", ItemC, 1, FALSE),
  Query("read", ItemA, 9, TRUE),
  WriterRun(0, <<WriteItem(ItemA, V(7), FALSE), WriteItem(ItemA, <<"hex", 8>>, TRUE),
                 Read(ValueOf(ItemA)), Read(ItemA), Read(ValueOf(ItemC))>>),
  WriterRun(2, <<WriteItem(ItemC, Object(<<>>, Null), FALSE), Read(ValueOf(ItemC)),
                 Read(ItemC), WriteItem(ItemC, V(6), FALSE), Read(ValueOf(ItemC))>>),
  WriterRun(3, <<WriteItem(ItemA, V(8), FALSE), Read(ValueOf(ItemA))>>), WriterRun(4, <<>>),
  CallbackRun(Meta("script")), CallbackRun(Meta("unit")), CallbackRun(ItemA)}

-----------------------------------------------------------------------------
CONSTANT none

MCValue == {[v |-> "a", t |-> 1], [v |-> "b", t |-> none]}
MCCounts == 0 .. 2
MCTimes == 0 .. 2

ScriptsMayRun ==
  request # Query("read", ItemA, 9, FALSE) \/ tree # NamedTree(NoScript, NoScript)

ReadingInit == Init /\ FlowInit
ReadingNext == \/ ScriptsMayRun /\ Next /\ UNCHANGED flowVars
               \/ ~ScriptsMayRun /\ FlowNext /\ UNCHANGED vars
ReadingSpec == ReadingInit /\ [][ReadingNext]_<<vars, flowVars>>
=============================================================================
