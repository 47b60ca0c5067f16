----------------------------- MODULE JsonParser -----------------------------
(***************************************************************************)
(* The OMI message parser (src/json/parser.rs) as the push-down automaton  *)
(* its recursive functions are: a frame for each function whose brackets   *)
(* are open. A token of src/json/lexer.rs is its kind and its text; what   *)
(* the functions build are atoms <<type, text>>, functions from keys, and  *)
(* sequences. All errors are one.                                          *)
(***************************************************************************)
EXTENDS Integers, FiniteSets, SequencesExt, TLC

CONSTANTS
  MAX_DEPTH,          \* brackets the counted functions may nest
  MAX_OBJECT_DEPTH,   \* objects a written tree may nest
  Whole, Negative,    \* number texts that are integers; those below zero
  TooLarge,           \* integer texts beyond a status code
  Rooted              \* path texts below the root: a slash and more

ASSUME ParserAssumption ==
  {MAX_DEPTH, MAX_OBJECT_DEPTH} \subseteq Nat \ {0} /\ Negative \cup TooLarge \subseteq Whole

Tok(t, s) == [t |-> t, s |-> s]
Mark(t) == Tok(t, "")
NullAtom == <<"null", "">>

\* A result that is no batch is not kept.
SingleResult == [single |-> NullAtom]

-----------------------------------------------------------------------------
(* What each function reads under which key.                                *)

Req(want) == [want |-> want, orNull |-> FALSE]
Opt(want) == [want |-> want, orNull |-> TRUE]

EnvelopeFields ==
  [omi |-> Req("string"), ttl |-> Req("i64"), read |-> Req("read"), write |-> Req("write"),
   delete |-> Req("delete"), cancel |-> Req("cancel"), response |-> Req("response")]

ReadFields ==
  [path |-> Req("string"), rid |-> Req("string"), newest |-> Req("u64"), oldest |-> Req("u64"),
   begin |-> Req("f64"), end |-> Req("f64"), depth |-> Req("u64"), interval |-> Req("f64"),
   callback |-> Req("string")]

WriteFields ==
  [path |-> Req("string"), v |-> Req("omi"), t |-> Req("f64"),
   items |-> Req("writeItems"), objects |-> Req("objects")]

WriteItemFields == [path |-> Req("string"), v |-> Req("omi"), t |-> Req("f64")]

DeleteFields == [path |-> Req("string")]

CancelFields == [rid |-> Req("rids")]

ResponseFields ==
  [status |-> Req("u16"), rid |-> Req("string"), desc |-> Req("string"), result |-> Req("result")]

StatusFields == [path |-> Req("string"), status |-> Req("u16"), desc |-> Req("string")]

ValueFields == [v |-> Req("omi"), t |-> Opt("f64")]

InfoItemFields ==
  [type |-> Opt("string"), desc |-> Opt("string"), meta |-> Opt("meta"), values |-> Req("ring")]

ObjectFields ==
  [id |-> Req("string"), type |-> Opt("string"), desc |-> Opt("string"),
   items |-> Opt("items"), objects |-> Opt("objects")]

Fields ==
  [envelope |-> EnvelopeFields, read |-> ReadFields, write |-> WriteFields,
   writeItem |-> WriteItemFields, delete |-> DeleteFields, cancel |-> CancelFields,
   response |-> ResponseFields, status |-> StatusFields, value |-> ValueFields,
   infoItem |-> InfoItemFields, object |-> ObjectFields]

MapOf == [objects |-> "object", items |-> "infoItem", meta |-> "omi", skipObject |-> "skip"]
ArrayOf == [ring |-> "value", writeItems |-> "writeItem", rids |-> "string",
            batch |-> "status", skipArray |-> "skip"]

Arrays == DOMAIN ArrayOf
Kinds == DOMAIN Fields \cup DOMAIN MapOf \cup Arrays

Wanted(kind, key) ==
  IF kind \in Arrays THEN Req(ArrayOf[kind])
  ELSE IF kind \in DOMAIN MapOf THEN Req(MapOf[kind])
  ELSE IF key \in DOMAIN Fields[kind] THEN Fields[kind][key]
  ELSE Req("skip")

\* The functions that call enter and leave.
DepthCounted == {"value", "ring", "meta", "infoItem", "items", "object", "objects",
            "skipObject", "skipArray"}

-----------------------------------------------------------------------------
(* What each function checks at its closing bracket. got is what it has     *)
(* read: the last value of each key, or all elements.                       *)

Has(got, keys) == keys \subseteq DOMAIN got

RECURSIVE TreeDepth(_)
TreeDepth(objects) ==
  IF DOMAIN objects = {} THEN 0
  ELSE LET below(o) == IF Has(o, {"objects"}) THEN TreeDepth(o.objects) ELSE 0
           depths == {below(objects[k]) : k \in DOMAIN objects}
       IN 1 + CHOOSE d \in depths : \A e \in depths : e <= d

ReadIsSound(got) == Has(got, {"path"}) # Has(got, {"rid"})

WriteIsSound(got) ==
  LET forms == {"v", "items", "objects"} \cap DOMAIN got
  IN /\ Cardinality(forms) = 1
     /\ Has(got, {"items"}) => got.items # <<>>
     /\ Has(got, {"objects"}) => TreeDepth(got.objects) <= MAX_OBJECT_DEPTH
     /\ ~Has(got, {"items"}) => Has(got, {"path"})

DeleteIsSound(got) == Has(got, {"path"}) /\ got.path[2] \in Rooted

CancelIsSound(got) == Has(got, {"rid"}) /\ got.rid # <<>>

EnvelopeIsSound(got) ==
  /\ Has(got, {"omi", "ttl"}) /\ got.omi[2] = "1.0"
  /\ Cardinality(DOMAIN got \ {"omi", "ttl"}) = 1

IsSound(kind, got) ==
  CASE kind = "read" -> ReadIsSound(got)
    [] kind = "write" -> WriteIsSound(got)
    [] kind = "delete" -> DeleteIsSound(got)
    [] kind = "cancel" -> CancelIsSound(got)
    [] kind = "envelope" -> EnvelopeIsSound(got)
    [] kind = "response" -> Has(got, {"status"})
    [] kind = "writeItem" -> Has(got, {"path", "v"})
    [] kind = "status" -> Has(got, {"path", "status"})
    [] kind = "value" -> Has(got, {"v"})
    [] kind = "infoItem" -> Has(got, {"values"})
    [] kind = "object" -> Has(got, {"id"})
    [] OTHER -> TRUE

\* A ring is filled from its oldest value, the array's last; an operation keeps the
\* fields of its form only, and a batch result is marked as one.
Built(kind, got) ==
  CASE kind = "ring" -> Reverse(got)
    [] kind = "batch" -> [batch |-> got]
    [] kind = "write" /\ Has(got, {"items"}) -> [items |-> got.items]
    [] kind = "write" /\ Has(got, {"objects"}) -> [path |-> got.path, objects |-> got.objects]
    [] OTHER -> got

-----------------------------------------------------------------------------
(* The automaton.                                                           *)

Open(kind) == IF kind \in Arrays THEN "[" ELSE "{"
Shut(kind) == IF kind \in Arrays THEN "]" ELSE "}"

Frame(kind) == [kind |-> kind, at |-> "first", key |-> "", got |-> <<>>]

Failed == [verdict |-> "error", stack |-> <<>>, depth |-> 0, result |-> <<>>]
Start == [verdict |-> "parsing", stack |-> <<>>, depth |-> 0, result |-> <<>>]

Top(p) == p.stack[Len(p.stack)]
Replaced(p, frame) == [p EXCEPT !.stack[Len(p.stack)] = frame]

\* enter.
Push(p, kind) ==
  LET depth == IF kind \in DepthCounted THEN p.depth + 1 ELSE p.depth
  IN IF depth > MAX_DEPTH THEN Failed
     ELSE [p EXCEPT !.stack = Append(@, Frame(kind)), !.depth = depth]

\* A value read by one function is kept by the one that called it.
Deliver(p, value) ==
  LET f == Top(p)
      kept == IF f.kind \in Arrays THEN Append(f.got, value) ELSE (f.key :> value) @@ f.got
  IN Replaced(p, [f EXCEPT !.at = "after", !.got = kept])

Ignore(p) == Replaced(p, [Top(p) EXCEPT !.at = "after"])

AtomOf(tok) == IF tok.t = "int" THEN <<"num", tok.s>> ELSE <<tok.t, tok.s>>

Scalars == {"string", "int", "num", "bool", "null"}

Fits(tok, want) ==
  CASE want = "string" -> tok.t = "string"
    [] want = "f64" -> tok.t \in {"int", "num"}
    [] want = "i64" -> tok.t \in {"int", "num"} /\ tok.s \in Whole
    [] want = "u64" -> tok.t \in {"int", "num"} /\ tok.s \in Whole \ Negative
    [] want = "u16" -> tok.t \in {"int", "num"} /\ tok.s \in Whole \ (Negative \cup TooLarge)
    [] want = "omi" -> tok.t \in Scalars
    [] OTHER -> FALSE

Skipped(tok) == IF tok.t = "{" THEN "skipObject" ELSE "skipArray"

\* A value is due and tok begins it.
TakeValue(p, tok) ==
  LET w == Wanted(Top(p).kind, Top(p).key)
  IN IF w.orNull /\ tok.t = "null" THEN Ignore(p)
     ELSE IF Fits(tok, w.want) THEN Deliver(p, AtomOf(tok))
     ELSE IF w.want \in Kinds THEN IF tok.t = Open(w.want) THEN Push(p, w.want) ELSE Failed
     ELSE IF w.want = "result" /\ tok.t = "[" THEN Push(p, "batch")
     ELSE IF w.want \in {"omi", "skip", "result"} /\ tok.t \in {"{", "["} THEN Push(p, Skipped(tok))
     ELSE IF w.want = "result" /\ tok.t \in Scalars THEN Deliver(p, SingleResult)
     ELSE IF w.want = "skip" /\ tok.t \in Scalars THEN Ignore(p)
     ELSE Failed

\* Mutant: leave is forgotten where a skipped container returns early, being empty.
CloseNoLeave(p) ==
  LET f == Top(p)
      q == [p EXCEPT !.stack = Front(@),
                     !.depth = IF f.kind \in DepthCounted /\ f.at = "after" THEN @ - 1 ELSE @]
  IN IF ~IsSound(f.kind, f.got) THEN Failed
     ELSE IF q.stack = <<>> THEN [q EXCEPT !.verdict = "ok", !.result = Built(f.kind, f.got)]
     ELSE IF f.kind \in {"skipObject", "skipArray"}
     THEN CASE Wanted(Top(q).kind, Top(q).key).want = "omi" -> Deliver(q, NullAtom)
            [] Wanted(Top(q).kind, Top(q).key).want = "result" -> Deliver(q, SingleResult)
            [] OTHER -> Ignore(q)
     ELSE Deliver(q, Built(f.kind, f.got))

\* The function of the innermost frame returns.
Close(p) ==
  LET f == Top(p)
      q == [p EXCEPT !.stack = Front(@), !.depth = IF f.kind \in DepthCounted THEN @ - 1 ELSE @]
  IN IF ~IsSound(f.kind, f.got) THEN Failed
     ELSE IF q.stack = <<>> THEN [q EXCEPT !.verdict = "ok", !.result = Built(f.kind, f.got)]
     ELSE IF f.kind \in {"skipObject", "skipArray"}
     THEN CASE Wanted(Top(q).kind, Top(q).key).want = "omi" -> Deliver(q, NullAtom)
            [] Wanted(Top(q).kind, Top(q).key).want = "result" -> Deliver(q, SingleResult)
            [] OTHER -> Ignore(q)
     ELSE Deliver(q, Built(f.kind, f.got))

\* One token.
Step(p, tok) ==
  IF p.verdict = "ok" THEN Failed
  ELSE IF p.stack = <<>> THEN IF tok.t = "{" THEN Push(p, "envelope") ELSE Failed
  ELSE LET f == Top(p)
       IN CASE f.at \in {"first", "after"} /\ tok.t = Shut(f.kind) -> Close(p)
            [] f.at = "after" /\ tok.t = "," -> Replaced(p, [f EXCEPT !.at = "element"])
            [] f.at \in {"first", "element"} /\ f.kind \in Arrays -> TakeValue(p, tok)
            [] f.at \in {"first", "element"} /\ f.kind \notin Arrays /\ tok.t = "string" ->
                 Replaced(p, [f EXCEPT !.at = "colon", !.key = tok.s])
            [] f.at = "colon" /\ tok.t = ":" -> Replaced(p, [f EXCEPT !.at = "value"])
            [] f.at = "value" -> TakeValue(p, tok)
            [] OTHER -> Failed
=============================================================================
