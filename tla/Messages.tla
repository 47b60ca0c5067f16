------------------------------ MODULE Messages ------------------------------
(***************************************************************************)
(* JSON documents, and the OMI message each one means. A document is an    *)
(* atom, a sequence of key-document pairs or a sequence of documents, and  *)
(* what it means is told from that tree, with no regard to the tokens and  *)
(* the stack of the parser.                                                *)
(***************************************************************************)
EXTENDS JsonWriter

Atom(t, s) == [d |-> "atom", tok |-> Tok(t, s)]
Obj(pairs) == [d |-> "obj", of |-> pairs]
Arr(elements) == [d |-> "arr", of |-> elements]

-----------------------------------------------------------------------------
RECURSIVE Render(_)
Render(x) ==
  LET part(i) == IF x.d = "obj" THEN <<Tok("string", x.of[i][1]), Mark(":")>> \o Render(x.of[i][2])
                 ELSE Render(x.of[i])
      parts == FlattenSeq([i \in DOMAIN x.of |->
                 IF i = 1 THEN part(i) ELSE <<Mark(",")>> \o part(i)])
  IN CASE x.d = "atom" -> <<x.tok>>
       [] x.d = "obj" -> <<Mark("{")>> \o parts \o <<Mark("}")>>
       [] x.d = "arr" -> <<Mark("[")>> \o parts \o <<Mark("]")>>

Child(x, i) == IF x.d = "obj" THEN x.of[i][2] ELSE x.of[i]

RECURSIVE Height(_)
Height(x) ==
  IF x.d = "atom" THEN 0
  ELSE LET heights == {Height(Child(x, i)) : i \in DOMAIN x.of} \cup {0}
       IN 1 + CHOOSE h \in heights : \A g \in heights : g <= h

-----------------------------------------------------------------------------
(* Meaning: a set that is empty when the document has none, and otherwise   *)
(* holds what is kept of it, if anything is. left is how many counted       *)
(* brackets may still open.                                                 *)

Kept(v) == {[kept |-> TRUE, v |-> v]}
Omitted == {[kept |-> FALSE]}

Kind(x, want) == IF want = "result" /\ x.d = "arr" THEN "batch" ELSE want

RECURSIVE Means(_, _, _), MeansAs(_, _, _)

Means(x, w, left) ==
  LET kind == Kind(x, w.want)
      isNull == x.d = "atom" /\ x.tok.t = "null"
  IN CASE w.orNull /\ isNull -> Omitted
       [] kind \in Kinds /\ ~(w.orNull /\ isNull) ->
            IF x.d = (IF kind \in Arrays THEN "arr" ELSE "obj") THEN MeansAs(x, kind, left) ELSE {}
       [] kind = "skip" -> IF Height(x) > left THEN {} ELSE Omitted
       [] kind = "result" -> IF Height(x) > left THEN {} ELSE Kept(SingleResult)
       [] kind = "omi" /\ x.d # "atom" -> IF Height(x) > left THEN {} ELSE Kept(NullAtom)
       [] OTHER -> IF x.d = "atom" /\ Fits(x.tok, kind) THEN Kept(AtomOf(x.tok)) ELSE {}

MeansAs(x, kind, left) ==
  LET below == IF kind \in DepthCounted THEN left - 1 ELSE left
      key(i) == IF x.d = "obj" THEN x.of[i][1] ELSE ""
      part == [i \in DOMAIN x.of |-> Means(Child(x, i), Wanted(kind, key(i)), below)]
      it(i) == CHOOSE m \in part[i] : TRUE
      told == {i \in DOMAIN x.of : it(i).kept}
      last(k) == CHOOSE i \in told : key(i) = k /\ \A j \in told : key(j) = k => j <= i
      got == IF x.d = "arr" THEN [i \in DOMAIN x.of |-> it(i).v]
             ELSE [k \in {key(i) : i \in told} |-> it(last(k)).v]
  IN IF below < 0 \/ (\E i \in DOMAIN x.of : part[i] = {}) THEN {}
     ELSE IF IsSound(kind, got) THEN Kept(Built(kind, got)) ELSE {}

Meaning(x) == IF x.d = "obj" THEN MeansAs(x, "envelope", MAX_DEPTH) ELSE {}

-----------------------------------------------------------------------------
\* parse_omi_message: the parser gives up at the first error.
Parsing(p, tok) == IF p.verdict = "error" THEN p ELSE Step(p, tok)

Understood(tokens) ==
  LET p == FoldLeft(Parsing, Start, tokens) IN IF p.verdict = "ok" THEN Kept(p.result) ELSE {}
=============================================================================
