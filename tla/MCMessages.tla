----------------------------- MODULE MCMessages -----------------------------
(***************************************************************************)
(* Documents: every choice of up to two fields for each operation, from    *)
(* pools that hold sound, unsound, null, repeated and unknown ones, in     *)
(* envelopes with and without their fields; and trees at the nesting       *)
(* limits.                                                                 *)
(***************************************************************************)
EXTENDS Messages

Str(s) == Atom("string", s)
Integer(s) == Atom("int", s)
Num(s) == Atom("num", s)
Null == Atom("null", "")

UpTo2(pool) == {<<>>} \cup {<<a>> : a \in pool} \cup {<<a, b>> : a, b \in pool}

Values == {<<"v", Integer("1")>>, <<"v", Null>>, <<"v", Arr(<<>>)>>, <<"t", Num("1.5")>>, <<"t", Null>>}
Rings == {Arr(<<>>), Arr(<<Obj(<<<<"v", Integer("1")>>>>), Obj(<<<<"v", Integer("2")>>, <<"t", Integer("2")>>>>)>>)}
          \cup {Arr(<<Obj(v)>>) : v \in UpTo2(Values)}

InfoItem(ring) == Obj(<<<<"values", ring>>, <<"desc", Null>>>>)
Annotated == Obj(<<<<"meta", Obj(<<<<"unit", Str("C")>>, <<"x", Obj(<<>>)>>>>)>>,
                  <<"values", Arr(<<Obj(<<<<"v", Str("on")>>>>)>>)>>>>)

Object(fields) == Obj(<<<<"id", Str("A")>>>> \o fields)
Tree(object) == Obj(<<<<"path", Str("/")>>, <<"objects", Obj(<<<<"A", object>>>>)>>>>)

Inner(item) == Object(<<<<"items", Obj(<<<<"i", item>>>>)>>>>)
Outer(object) == Object(<<<<"objects", Obj(<<<<"B", object>>>>)>>>>)

Trees ==
  {Tree(Inner(InfoItem(r))) : r \in Rings}
    \cup {Tree(Inner(Annotated)), Tree(Outer(Inner(Annotated))), Tree(Outer(Outer(Object(<<>>)))),
          Tree(Outer(Inner(InfoItem(Arr(<<>>))))), Tree(Obj(<<<<"desc", Str("on")>>>>)), Tree(Object(<<<<"items", Null>>, <<"x", Arr(<<Null>>)>>>>)),
          Tree(Object(<<<<"x", Arr(<<>>)>>, <<"y", Arr(<<>>)>>, <<"objects", Obj(<<>>)>>>>))}

ReadPool == {<<"path", Str("/a")>>, <<"rid", Str("1")>>, <<"newest", Integer("-1")>>, <<"newest", Num("2")>>,
             <<"begin", Num("1.5")>>, <<"depth", Num("1.5")>>, <<"interval", Integer("2")>>, <<"rid", Null>>}
WritePool == {<<"path", Str("/a")>>, <<"v", Integer("1")>>, <<"v", Obj(<<>>)>>, <<"t", Num("1.5")>>,
              <<"items", Arr(<<>>)>>, <<"objects", Obj(<<>>)>>,
              <<"items", Arr(<<Obj(<<<<"path", Str("/a")>>, <<"v", Null>>>>),
                               Obj(<<<<"v", Integer("1")>>, <<"path", Str("/b")>>, <<"t", Integer("2")>>>>)>>)>>,
              <<"items", Arr(<<Obj(<<<<"path", Str("/a")>>>>)>>)>>}
DeletePool == {<<"path", Str("/a")>>, <<"path", Str("/")>>, <<"x", Arr(<<Arr(<<>>), Obj(<<<<"y", Null>>>>)>>)>>,
               <<"x", Arr([i \in 1 .. 9 |-> Arr(<<>>)])>>}
CancelPool == {<<"rid", Arr(<<>>)>>, <<"rid", Arr(<<Str("1"), Str("2")>>)>>, <<"rid", Str("1")>>}
ResponsePool == {<<"status", Integer("200")>>, <<"status", Integer("70000")>>, <<"desc", Str("on")>>,
                 <<"result", Null>>, <<"result", Obj(<<<<"path", Str("/a")>>>>)>>, <<"result", Arr(<<>>)>>,
                 <<"result", Arr(<<Obj(<<<<"path", Str("/a")>>, <<"status", Integer("200")>>>>)>>)>>}

Operations ==
  {<<"read", Obj(f)>> : f \in UpTo2(ReadPool)} \cup {<<"write", Obj(f)>> : f \in UpTo2(WritePool)}
    \cup {<<"delete", Obj(f)>> : f \in UpTo2(DeletePool)}
    \cup {<<"cancel", Obj(f)>> : f \in UpTo2(CancelPool)}
    \cup {<<"response", Obj(f)>> : f \in UpTo2(ResponsePool)} \cup {<<"write", t>> : t \in Trees}

Sound == {<<"omi", Str("1.0")>>, <<"ttl", Integer("2")>>}
ReadOp == <<"read", Obj(<<<<"path", Str("/a")>>>>)>>
DeleteOp == <<"delete", Obj(<<<<"path", Str("/a")>>>>)>>
EnvelopePool == Sound \cup {<<"omi", Str("2.0")>>, <<"ttl", Num("1.5")>>, <<"ttl", Num("2")>>, ReadOp, DeleteOp,
                            <<"x", Obj(<<<<"y", Arr(<<>>)>>>>)>>}

Documents ==
  {Obj(<<<<"omi", Str("1.0")>>, <<"ttl", Integer("2")>>, op>>) : op \in Operations}
    \cup {Obj(<<a, b, c>>) : a, b, c \in EnvelopePool}
    \cup {Obj(<<a, b, c, d>>) : a \in {ReadOp, DeleteOp}, b, c, d \in EnvelopePool}
    \cup {Arr(<<>>)}
=============================================================================
