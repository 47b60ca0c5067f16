---------------------------- MODULE OnreadScripts ----------------------------
(***************************************************************************)
(* How scripts run and read items: run_onread_script, run_onwrite_script   *)
(* and run_callback_script of src/omi/engine.rs with the callbacks of      *)
(* src/scripting/bindings.rs. A script sees three globals: its event, the  *)
(* odf object and the hidden context of the callbacks. odf.readItem of an  *)
(* item with an onread script runs that script inside the running one,     *)
(* over the same globals, which it replaces and puts back. The stack of    *)
(* scripts that run inside one another is "frames", the running one first. *)
(*                                                                         *)
(* JavaScript values are tuples that begin with their kind: what a script  *)
(* computes is the tuple of all it saw, so that two computations agree     *)
(* exactly when they saw the same.                                         *)
(***************************************************************************)
EXTENDS ObjectTree

CONSTANTS
  Trees,             \* trees that scripts may find
  Requests,          \* what sets off scripts
  MAX_SCRIPT_DEPTH

Error == <<"error">>

\* The path of a call is text, and so a sequence of segments.
IsScript(script) ==
  /\ script.calls \in Seq(ToSet(script.calls))
  /\ \A call \in ToSet(script.calls) : call.path \in Seq(STRING)

\* Where scripts come from: items, onwrite scripts and texts that items hold. What an
\* item holds is a value and no error.
ASSUME ScriptAssumption ==
  /\ MAX_SCRIPT_DEPTH \in Nat \ {0}
  /\ \A r \in Requests : r.kind = "onwrite" => IsScript(r.script)
  /\ \A t \in Trees : \A p \in DOMAIN t.items :
       /\ p \in Seq(STRING) /\ Parsed(p) = p
       /\ IsScript(t.items[p].onread)
       /\ t.items[p].vals \in Seq(ToSet(t.items[p].vals))
       /\ \A v \in ToSet(t.items[p].vals) :
            v # Error /\ (v[1] = "source" => IsScript(v[2]))

VARIABLES
  tree,      \* Engine::tree, which no script changes while it runs
  request,   \* the request in progress
  frames,    \* the scripts that run, the innermost first
  globals,   \* event, odf and __ctx of the script engine
  fns,       \* paths of the onread scripts that were compiled as functions
  pending,   \* pending_writes
  failed,    \* the interpreter's error, which only a new execution clears
  reply      \* what came of the request

vars == <<tree, request, frames, globals, fns, pending, failed, reply>>

Null == <<"null">>
Object(values, shortcut) == <<"object", values, shortcut>>

\* A call of a script: readItem(path) or writeItem(v, path, {type: enc}).
Read(p) == [do |-> "read", path |-> p]
WriteItem(p, v, enc) == [do |-> "write", path |-> p, v |-> v, enc |-> enc]

\* A script makes calls and then gives the tuple of what it saw, the result
\* of its last call, null, or an error. An expression can be compiled as a
\* function too; statements give their function nothing to return.
NoScript == [calls |-> <<>>, gives |-> "null", expression |-> FALSE]
AsFunction(script) == IF script.expression THEN script ELSE NoScript

\* The item that a text names.
ItemOf(p) == tree.items[Parsed(p)]
HasOnread(p) == ItemOf(p).onread # NoScript
NewestFirst(p) == Reverse(ItemOf(p).vals)

\* mjs_to_omi: what is neither number, boolean nor string is null.
ToOmi(js) == IF js[1] = "object" THEN Null ELSE js

Event(p, v) == [path |-> p, value |-> v]
NoEvent == Event(Root, Null)
NoContext == [path |-> Root, depth |-> 0]
Cleared == [event |-> NoEvent, odf |-> "none", ctx |-> NoContext]

\* A frame knows which script runs, how far it is and the globals it found.
Frame(p, script, saved) ==
  [path |-> p, script |-> script, next |-> 1, got |-> <<>>, saved |-> saved]

Top == Head(frames)
Running == frames # <<>>
NextCall == Top.script.calls[Top.next]
Calling(do) ==
  Running /\ ~failed /\ Top.next <= Len(Top.script.calls) /\ NextCall.do = do
Returns == Running /\ (failed \/ Top.next > Len(Top.script.calls))

\* The running script goes on with the result of its call.
Resume(stack, js) ==
  <<[Head(stack) EXCEPT !.next = @ + 1, !.got = Append(@, js)]>> \o Tail(stack)

-----------------------------------------------------------------------------
(* Requests that start a script, or do without.                            *)

\* process_read_one_time and tick: the values the request is about.
Queried(r) == SubSeq(NewestFirst(r.path), 1, Min({r.newest, Len(ItemOf(r.path).vals)}))
EventValue(values) == IF values = <<>> THEN Null ELSE Head(values)

\* delivery_to_mjs_event: the event of a callback has the newest value.
DeliveryEvent(p, values) == Event(p, EventValue(values))

Substituted(values, v) == IF values = <<>> THEN <<>> ELSE <<v>> \o Tail(values)

Refusal ==
  CASE Resolve(tree, request.path) # "InfoItem" -> "notFound"
    [] request.kind = "read" /\ ~ItemOf(request.path).readable -> "forbidden"
    [] OTHER -> "none"

OnreadPaths == {q \in DOMAIN tree.items : HasOnread(q)}

\* Onread scripts are compiled as functions beforehand, except the one that is
\* about to run, and only if that one mentions readItem. The functions are kept
\* under the paths of the tree, and both the exception and the calls go by text.
Compiled(p, script) ==
  IF \E i \in DOMAIN script.calls : script.calls[i].do = "read"
  THEN OnreadPaths \ {p} ELSE {}

Start(event, script, odf, ctx) ==
  /\ frames' = <<Frame(event.path, script, Cleared)>>
  /\ globals' = [event |-> event, odf |-> odf, ctx |-> ctx]
  /\ pending' = <<>> /\ failed' = FALSE
  /\ UNCHANGED <<tree, request, reply>>

Writer == request.kind \in {"onwrite", "callback"}
Waiting == reply = <<>> /\ ~Running

\* An interval subscription that finds no value runs no script.
Plain == \/ ~HasOnread(request.path)
         \/ request.kind = "interval" /\ Queried(request) = <<>>

AnswerPlainly ==
  /\ Waiting /\ request.kind \in {"read", "interval"}
  /\ \/ Refusal # "none" /\ reply' = <<Refusal>>
     \/ Refusal = "none" /\ Plain /\ reply' = <<"values", Queried(request)>>
  /\ UNCHANGED <<tree, request, frames, globals, fns, pending, failed>>

StartOnread ==
  /\ Waiting /\ request.kind \in {"read", "interval"}
  /\ Refusal = "none" /\ ~Plain
  /\ LET p == request.path
         script == ItemOf(p).onread
     IN /\ fns' = Compiled(p, script)
        /\ Start(Event(p, EventValue(Queried(request))), script, "read",
                 [path |-> p, depth |-> 0])

\* resolve_script_url: the newest value of an InfoItem below a MetaData Object,
\* if it is the text of a script.
IsMetadataPath(p) == Len(p) > 2 /\ "MetaData" \in ToSet(Front(p))
ResolvesToScript(p) ==
  /\ Resolve(tree, p) = "InfoItem" /\ IsMetadataPath(p)
  /\ ItemOf(p).vals # <<>> /\ Head(NewestFirst(p))[1] = "source"
ScriptAt(p) == Head(NewestFirst(p))[2]

\* Onwrite and callback scripts have no path to guard and no functions. An
\* onwrite script starts below the depth limit.
StartOnwrite ==
  /\ Waiting /\ request.kind = "onwrite" /\ request.depth < MAX_SCRIPT_DEPTH
  /\ fns' = {}
  /\ Start(Event(request.path, request.v), request.script, "readwrite",
           [path |-> Root, depth |-> request.depth])

StartCallback ==
  /\ Waiting /\ request.kind = "callback" /\ ResolvesToScript(request.url)
  /\ fns' = {}
  /\ Start(DeliveryEvent(request.path, request.values), ScriptAt(request.url),
           "readwrite", NoContext)

SkipWriter ==
  /\ Waiting
  /\ \/ request.kind = "onwrite" /\ request.depth >= MAX_SCRIPT_DEPTH
     \/ request.kind = "callback" /\ ~ResolvesToScript(request.url)
  /\ reply' = <<"writes", <<>>>>
  /\ UNCHANGED <<tree, request, frames, globals, fns, pending, failed>>

-----------------------------------------------------------------------------
(* odf.readItem and odf.writeItem. They know what runs by __ctx alone, and *)
(* compare paths as they are written.                                      *)

\* strip_value_suffix: an InfoItem named value takes precedence.
Stripped(p) ==
  Len(p) > 1 /\ Last(p) = "value" /\ Resolve(tree, p) # "InfoItem"
Effective(p) == IF Stripped(p) THEN Front(p) ELSE p

PendingTo(p) == {i \in DOMAIN pending : pending[i].path = p}
\* Mutant: the first pending write to a path is found.
WrittenFirst(p) == pending[Min(PendingTo(p))].v

WrittenLast(p) == pending[Max(PendingTo(p))].v

\* info_item_to_mjs, and the variant whose newest value is replaced, which
\* has no shortcut to it.
StoredAs(p, raw) ==
  LET values == NewestFirst(p)
  IN IF raw THEN EventValue(values)
     ELSE Object(values, IF values = <<>> THEN Null ELSE Head(values))
TransformedAs(p, raw, js) ==
  IF raw THEN js ELSE Object(Substituted(NewestFirst(p), js), Null)

Absent(p) == Resolve(tree, p) # "InfoItem" \/ ~ItemOf(p).readable
FoundEmpty(p) == ItemOf(p).vals = <<>> /\ PendingTo(p) = {}

StoredResult(p, raw) ==
  IF Absent(p) \/ FoundEmpty(p) THEN Null ELSE StoredAs(p, raw)

SelfRead(p) == p = globals.ctx.path
ReadsPending(p, raw) == ~SelfRead(p) /\ raw /\ PendingTo(p) # {}

\* Mutant: off by one, one level more than the limit.
NestsOften(p) ==
  /\ ~SelfRead(p) /\ ~Absent(p) /\ HasOnread(p)
  /\ globals.ctx.depth + 1 <= MAX_SCRIPT_DEPTH
  /\ p \in fns

\* execute_nested_onread: whether there is a function to call.
Nests(p) ==
  /\ ~SelfRead(p) /\ ~Absent(p) /\ HasOnread(p)
  /\ globals.ctx.depth + 1 < MAX_SCRIPT_DEPTH
  /\ p \in fns

ReadItem ==
  /\ Calling("read")
  /\ LET p == Effective(NextCall.path)
         raw == Stripped(NextCall.path)
     IN \/ /\ ReadsPending(p, raw)
           /\ frames' = Resume(frames, WrittenLast(p))
        \/ /\ ~ReadsPending(p, raw) /\ ~Nests(p)
           /\ frames' = Resume(frames, StoredResult(p, raw))
  /\ UNCHANGED <<tree, request, globals, fns, pending, failed, reply>>

ReadNested ==
  /\ Calling("read")
  /\ LET p == Effective(NextCall.path)
         script == ItemOf(p).onread
     IN /\ ~ReadsPending(p, Stripped(NextCall.path)) /\ Nests(p)
        /\ frames' = <<Frame(p, AsFunction(script), globals)>> \o frames
        /\ globals' = [event |-> Event(p, EventValue(NewestFirst(p))), odf |-> "read",
                       ctx |-> [path |-> p, depth |-> globals.ctx.depth + 1]]
  /\ UNCHANGED <<tree, request, fns, pending, failed, reply>>

\* Without writeItem the call is an error of the script.
WriteCall ==
  /\ Calling("write")
  /\ LET fits == globals.ctx.depth + 1 < MAX_SCRIPT_DEPTH
         write == [path |-> NextCall.path, v |-> ToOmi(NextCall.v), enc |-> NextCall.enc]
     IN IF globals.odf = "readwrite"
        THEN /\ pending' = IF fits THEN Append(pending, write) ELSE pending
             /\ frames' = Resume(frames, <<"bool", fits>>)
             /\ UNCHANGED failed
        ELSE failed' = TRUE /\ UNCHANGED <<pending, frames>>
  /\ UNCHANGED <<tree, request, globals, fns, reply>>

-----------------------------------------------------------------------------
(* A script comes to its end, or to an error.                              *)

\* What a script gives that saw the results of its calls.
Given(script, p, v, saw) ==
  CASE script.gives = "error" -> Error
    [] script.gives = "null" -> Null
    [] script.gives = "last" -> Last(saw)
    [] OTHER -> <<"saw", p, v, saw>>

Result == IF failed THEN Error ELSE Given(Top.script, Top.path, globals.event.value, Top.got)

\* Mutant: the globals are not put back after an error.
ReturnNestedKeeps ==
  /\ Returns /\ Len(frames) > 1
  /\ LET caller == Tail(frames)
         call == Head(caller).script.calls[Head(caller).next]
         p == Top.path
         raw == Stripped(call.path)
     IN frames' = Resume(caller, IF Result \in {Null, Error} THEN StoredResult(p, raw)
                                 ELSE TransformedAs(p, raw, Result))
  /\ failed' = (Result = Error)
  /\ globals' = IF Result = Error THEN globals ELSE Top.saved
  /\ UNCHANGED <<tree, request, fns, pending, reply>>

\* execute_nested_onread puts the globals back whatever the script came to.
\* An error stays set in the interpreter, which then stops the calling script
\* too as soon as the callback returns to it.
ReturnNested ==
  /\ Returns /\ Len(frames) > 1
  /\ LET caller == Tail(frames)
         call == Head(caller).script.calls[Head(caller).next]
         p == Top.path
         raw == Stripped(call.path)
     IN frames' = Resume(caller, IF Result \in {Null, Error} THEN StoredResult(p, raw)
                                 ELSE TransformedAs(p, raw, Result))
  /\ failed' = (Result = Error)
  /\ globals' = Top.saved
  /\ UNCHANGED <<tree, request, fns, pending, reply>>

\* The writes a script collected, decoded as it asked.
Decoded(w) == IF w.enc /\ w.v[1] = "hex" THEN <<"text", w.v[2]>> ELSE w.v
HandedOn == [i \in DOMAIN pending |-> [path |-> pending[i].path, v |-> Decoded(pending[i])]]

EndOutermost(outcome) ==
  /\ Returns /\ Len(frames) = 1
  /\ frames' = <<>> /\ globals' = Cleared /\ fns' = {} /\ pending' = <<>>
  /\ reply' = outcome
  /\ UNCHANGED <<tree, request, failed>>

\* The result of an onread script that took too long is dropped.
ReturnOnread ==
  /\ ~Writer
  /\ EndOutermost(<<"values",
       IF request.slow \/ Result \in {Null, Error} THEN Queried(request)
       ELSE Substituted(Queried(request), ToOmi(Result))>>)

\* What the script comes to is ignored, its writes are made.
ReturnWriter == Writer /\ EndOutermost(<<"writes", HandedOn>>)

-----------------------------------------------------------------------------
Accept ==
  /\ reply # <<>>
  /\ request' \in Requests /\ reply' = <<>>
  /\ UNCHANGED <<tree, frames, globals, fns, pending, failed>>

Init ==
  /\ tree \in Trees /\ request \in Requests
  /\ frames = <<>> /\ globals = Cleared /\ fns = {} /\ pending = <<>>
  /\ failed = FALSE /\ reply = <<>>

Next == Accept \/ AnswerPlainly \/ StartOnread \/ StartOnwrite \/ StartCallback \/ SkipWriter
        \/ ReadItem \/ ReadNested \/ WriteCall \/ ReturnNested \/ ReturnOnread \/ ReturnWriter

Spec == Init /\ [][Next]_vars

-----------------------------------------------------------------------------
(* Properties.                                                             *)

\* js_odf_read_item and js_odf_write_item know the running script by the
\* globals alone, and a nested script replaces them: whatever the scripts that
\* ran inside a script came to, it finds its own event, guard and depth, only a
\* script that may write has writeItem, and nothing is left when none runs.
GlobalsAreOwn ==
  /\ ~Running => globals = Cleared
  /\ Running =>
       LET root == Len(frames) = 1
       IN /\ globals.event.path = Top.path
          /\ globals.odf = IF root /\ Writer THEN "readwrite" ELSE "read"
          /\ globals.ctx.path = IF root /\ Writer THEN Root ELSE Top.path
          /\ root => globals.ctx.depth = IF request.kind = "onwrite" THEN request.depth ELSE 0
          /\ ~root => globals.ctx.depth = Top.saved.ctx.depth + 1

\* Writes are collected and made after the script: until then the script reads
\* back, under /value, the last write to a path that was accepted.
ReadsOwnWrites ==
  Running /\ Writer =>
    \A i \in DOMAIN Top.got :
      LET call == Top.script.calls[i]
          accepted == {j \in 1..(i - 1) :
                         /\ Top.script.calls[j].do = "write"
                         /\ Top.script.calls[j].path = Effective(call.path)
                         /\ Top.got[j] = <<"bool", TRUE>>}
      IN call.do = "read" /\ Stripped(call.path) /\ accepted # {} =>
           Top.got[i] = ToOmi(Top.script.calls[Max(accepted)].v)
=============================================================================
