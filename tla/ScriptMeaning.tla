---------------------------- MODULE ScriptMeaning ----------------------------
(***************************************************************************)
(* What a read of an item with an onread script means: the value of the    *)
(* script is computed from the results of the reads it makes, and these    *)
(* from the scripts of the items they read, as deep as the limit allows; a  *)
(* script that fails gives way to the stored value, wherever it runs. No   *)
(* stack, no globals and no functions compiled beforehand; the engine of   *)
(* OnreadScripts, which has them all, is to answer the same.               *)
(***************************************************************************)
EXTENDS OnreadScripts

FunctionAt(p) == AsFunction(ItemOf(p).onread)

\* A script that writes has no writeItem for it, and fails.
Outcome(script, p, v, saw) ==
  IF \E i \in DOMAIN saw : saw[i] = Error THEN Error ELSE Given(script, p, v, saw)

Stored(p, raw) ==
  IF Absent(p) \/ ItemOf(p).vals = <<>> THEN Null ELSE StoredAs(p, raw)

\* What the script of item p reads at a path, when the scripts that it may run see
\* what "nested" has for their items. No script runs for its own item.
ReadBy(p, path, nested) ==
  LET q == Parsed(Effective(path))
      raw == Stripped(path)
      own == IF q \in DOMAIN nested \ {p} /\ ~Absent(q)
             THEN Outcome(FunctionAt(q), q, EventValue(NewestFirst(q)), nested[q]) ELSE Null
  IN IF own \in {Null, Error} THEN Stored(q, raw) ELSE TransformedAs(q, raw, own)

\* The results of its calls. A script that is read for may not write.
Seen(p, script, nested) ==
  [i \in DOMAIN script.calls |->
     IF script.calls[i].do = "write" THEN Error ELSE ReadBy(p, script.calls[i].path, nested)]

\* What each item's function sees at n levels above the limit.
Nested[n \in 0 .. MAX_SCRIPT_DEPTH - 1] ==
  IF n = 0 THEN <<>>
  ELSE [q \in OnreadPaths \ {Parsed(request.path)} |-> Seen(q, FunctionAt(q), Nested[n - 1])]

Meaning ==
  LET p == Parsed(request.path)
      script == ItemOf(p).onread
      own == Outcome(script, p, EventValue(Queried(request)),
                     Seen(p, script, Nested[MAX_SCRIPT_DEPTH - 1]))
  IN IF ~HasOnread(p) \/ request.slow \/ own \in {Null, Error} THEN Queried(request)
     ELSE Substituted(Queried(request), ToOmi(own))

-----------------------------------------------------------------------------
(* Properties.                                                             *)

Answered == request.kind \in {"read", "interval"} /\ reply # <<>> /\ Refusal = "none"

\* The request and the scripts name every item as the tree lists it.
PathsAsListed ==
  /\ Parsed(request.path) = request.path
  /\ \A q \in OnreadPaths : \A call \in ToSet(tree.items[q].onread.calls) :
       Parsed(call.path) = call.path

\* run_onread_script and execute_nested_onread, with their guards against
\* recursion, their depth limit and the functions compiled beforehand: where the
\* paths are written as the tree lists them, what is delivered is the meaning of
\* the read, in which the newest value alone gives way to what its script makes
\* of it, and if any script ran into an error, it is what is stored.
AnswerAsDefined ==
  Answered /\ PathsAsListed =>
    reply = <<"values", IF failed THEN Queried(request) ELSE Meaning>>

\* What specs/006 and the comment at bindings.rs:592 say of a nested script that
\* fails: its reader goes on with the stored value. js_odf_read_item does hand the
\* stored value over, but the interpreter stops the reader for the error.
AnswerAsSpecified == Answered /\ PathsAsListed => reply = <<"values", Meaning>>
=============================================================================
