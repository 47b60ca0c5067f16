----------------------------- MODULE JsonWriter -----------------------------
(***************************************************************************)
(* The message serializer (src/json/serializer.rs): the calls each type    *)
(* makes of JsonWriter, and the tokens that JsonWriter writes for them,    *)
(* with the commas it puts between them. Values are those of JsonParser.   *)
(***************************************************************************)
EXTENDS JsonParser

-----------------------------------------------------------------------------
(* JsonWriter: what is written, whether the open containers are still empty, *)
(* and whether a key has just been written.                                 *)

EmptyWriter == [buf |-> <<>>, first |-> <<>>, afterKey |-> FALSE]

PreValue(w) ==
  IF w.afterKey THEN [w EXCEPT !.afterKey = FALSE]
  ELSE IF w.first = <<>> THEN w
  ELSE [w EXCEPT !.buf = IF Last(w.first) THEN @ ELSE Append(@, Mark(",")),
                 !.first[Len(w.first)] = FALSE]

Emit(w, tok) == [w EXCEPT !.buf = Append(@, tok)]

Call(w, tok) ==
  CASE tok.t \in {"{", "["} -> [Emit(PreValue(w), tok) EXCEPT !.first = Append(@, TRUE)]
    [] tok.t \in {"}", "]"} -> [Emit(w, tok) EXCEPT !.first = Front(@)]
    [] tok.t = "key" ->
         [Emit(Emit(PreValue(w), Tok("string", tok.s)), Mark(":")) EXCEPT !.afterKey = TRUE]
    [] OTHER -> Emit(PreValue(w), tok)

Tokens(calls) == FoldLeft(Call, EmptyWriter, calls).buf

-----------------------------------------------------------------------------
(* The calls of the types.                                                  *)

Key(k) == <<Tok("key", k)>>
Braced(calls) == <<Mark("{")>> \o calls \o <<Mark("}")>>
Bracketed(calls) == <<Mark("[")>> \o calls \o <<Mark("]")>>

WriteAtom(v) == <<Tok(v[1], v[2])>>
WriteInt(v) == <<Tok("int", v[2])>>

\* field_*_opt: a field that is None is left out.
Field(got, k, written) == IF k \in DOMAIN got THEN Key(k) \o written ELSE <<>>

Elements(s, W(_)) == FlattenSeq([i \in DOMAIN s |-> W(s[i])])

Entries(map, W(_)) ==
  LET keys == SetToSeq(DOMAIN map)
  IN FlattenSeq([i \in DOMAIN keys |-> Key(keys[i]) \o W(map[keys[i]])])

WriteValue(x) == Braced(Key("v") \o WriteAtom(x.v) \o Field(x, "t", WriteAtom(x.t)))

\* newest(len): the newest value first.
WriteRing(x) == Bracketed(Elements(Reverse(x), WriteValue))

WriteMeta(x) == Braced(Entries(x, WriteAtom))

WriteInfoItem(x) ==
  Braced(Field(x, "type", WriteAtom(x.type)) \o Field(x, "desc", WriteAtom(x.desc)) \o Field(x, "meta", WriteMeta(x.meta))
    \o IF x.values = <<>> THEN <<>> ELSE Key("values") \o WriteRing(x.values))

RECURSIVE WriteObject(_)
WriteObject(x) ==
  LET items(m) == Braced(Entries(m, WriteInfoItem))
      objects(m) == Braced(Entries(m, WriteObject))
  IN Braced(Field(x, "id", WriteAtom(x.id)) \o Field(x, "type", WriteAtom(x.type)) \o Field(x, "desc", WriteAtom(x.desc))
       \o Field(x, "items", items(x.items)) \o Field(x, "objects", objects(x.objects)))

WriteWriteItem(x) ==
  Braced(Field(x, "path", WriteAtom(x.path)) \o Key("v") \o WriteAtom(x.v) \o Field(x, "t", WriteAtom(x.t)))

WriteRead(x) ==
  Braced(Field(x, "path", WriteAtom(x.path)) \o Field(x, "rid", WriteAtom(x.rid)) \o Field(x, "newest", WriteInt(x.newest))
    \o Field(x, "oldest", WriteInt(x.oldest)) \o Field(x, "begin", WriteAtom(x.begin)) \o Field(x, "end", WriteAtom(x.end))
    \o Field(x, "depth", WriteInt(x.depth)) \o Field(x, "interval", WriteAtom(x.interval))
    \o Field(x, "callback", WriteAtom(x.callback)))

WriteWrite(x) ==
  IF Has(x, {"v"}) THEN WriteWriteItem(x)
  ELSE IF Has(x, {"items"}) THEN Braced(Key("items") \o Bracketed(Elements(x.items, WriteWriteItem)))
  ELSE Braced(Field(x, "path", WriteAtom(x.path))
         \o Key("objects") \o Braced(Entries(x.objects, WriteObject)))

WriteDelete(x) == Braced(Field(x, "path", WriteAtom(x.path)))

WriteCancel(x) == Braced(Key("rid") \o Bracketed(Elements(x.rid, WriteAtom)))

WriteStatus(x) ==
  Braced(Field(x, "path", WriteAtom(x.path)) \o Field(x, "status", WriteInt(x.status)) \o Field(x, "desc", WriteAtom(x.desc)))

WriteResult(x) == IF DOMAIN x = {"single"} THEN WriteAtom(x.single) ELSE Bracketed(Elements(x.batch, WriteStatus))

WriteResponse(x) ==
  Braced(Field(x, "status", WriteInt(x.status)) \o Field(x, "rid", WriteAtom(x.rid)) \o Field(x, "desc", WriteAtom(x.desc))
    \o Field(x, "result", WriteResult(x.result)))

WriteMessage(x) ==
  Braced(Field(x, "omi", WriteAtom(x.omi)) \o Field(x, "ttl", WriteInt(x.ttl)) \o Field(x, "read", WriteRead(x.read))
    \o Field(x, "write", WriteWrite(x.write)) \o Field(x, "delete", WriteDelete(x.delete))
    \o Field(x, "cancel", WriteCancel(x.cancel)) \o Field(x, "response", WriteResponse(x.response)))

Written(message) == Tokens(WriteMessage(message))
=============================================================================
