---------------------------- MODULE ReadingProofs ----------------------------
(***************************************************************************)
(* Theorems about what a reader is given.                                  *)
(*                                                                         *)
(* OnreadScripts, for any trees, scripts, requests and depth limit: every  *)
(* script that runs sees its own globals, however many others ran inside   *)
(* it and whatever they came to. The argument follows the stack of         *)
(* scripts: each has saved the globals of the one beneath it, so that      *)
(* putting back what it saved is right for the script that goes on. A      *)
(* script that writes runs alone, and finds its own writes again: the last *)
(* write pending for a path is that of its last call accepted. What the    *)
(* engine answers is what ScriptMeaning defines a read to mean: each       *)
(* script on the stack has seen so far what it was to see.                 *)
(*                                                                         *)
(* ValueFlow, for any values and capacities: the two rings a value passes  *)
(* through implement bounded queues. The argument orders the slots of a    *)
(* ring by age: a write moves every value but the oldest one place forward *)
(* and puts the new one last. A query is what it promises, since each of   *)
(* its filters leaves an ascending list of places.                         *)
(***************************************************************************)
EXTENDS ScriptMeaning, ValueFlow, FiniteSetTheorems, WellFoundedInduction, TLAPS

-----------------------------------------------------------------------------
(* Scripts.                                                                *)

\* A stack of frames of whatever paths, scripts, values and globals there are.
IsStack(s) ==
  \E P, C, N, G, V : s \in Seq([path : P, script : C, next : N, got : G, saved : V])

\* Globals g are those of frame f, the outermost one or not, in request r.
Proper(g, f, root, r) ==
  /\ g.event.path = f.path
  /\ g.odf = IF root /\ r.kind \in {"onwrite", "callback"} THEN "readwrite" ELSE "read"
  /\ g.ctx.path = IF root /\ r.kind \in {"onwrite", "callback"} THEN Root ELSE f.path
  /\ root => g.ctx.depth = IF r.kind = "onwrite" THEN r.depth ELSE 0
  /\ ~root => g.ctx.depth = f.saved.ctx.depth + 1

\* What frame i of a stack is to find when those above it have returned.
Found(s, g, i) == IF i = 1 THEN g ELSE s[i - 1].saved

AllProper(s, g, r) ==
  \A i \in 1 .. Len(s) : Proper(Found(s, g, i), s[i], i = Len(s), r)

Inv ==
  /\ IsStack(frames)
  /\ ~Running => globals = Cleared
  /\ Running => reply = <<>>
  /\ AllProper(frames, globals, request)
-----------------------------------------------------------------------------
(* Stacks.                                                                 *)

LEMMA SequenceParts ==
  ASSUME NEW S, NEW T, S \subseteq T, NEW s \in Seq(S)
  PROVE  /\ s \in Seq(T) /\ Len(s) \in Nat /\ \A i \in 1 .. Len(s) : s[i] \in S
         /\ s # <<>> => /\ Head(s) = s[1] /\ Head(s) \in S /\ Len(s) > 0
                        /\ Tail(s) \in Seq(S) /\ Len(Tail(s)) = Len(s) - 1
OBVIOUS

LEMMA StackParts ==
  ASSUME NEW s, IsStack(s)
  PROVE  Len(s) \in Nat /\ (s # <<>> => Len(s) > 0 /\ Head(s) = s[1]) /\ (Len(s) > 0 => s # <<>>)
<1>1. PICK S : s \in Seq(S)
  BY DEF IsStack
<1>. QED
  BY <1>1

\* Going on with a result changes neither scripts nor what they saved.
LEMMA Resumed ==
  ASSUME NEW s, NEW js, IsStack(s), s # <<>>
  PROVE  /\ IsStack(Resume(s, js)) /\ Len(Resume(s, js)) = Len(s)
         /\ \A i \in 1 .. Len(s) : /\ Resume(s, js)[i].path = s[i].path
                                   /\ Resume(s, js)[i].saved = s[i].saved
<1>1. PICK P, C, N, G, V :
        s \in Seq([path : P, script : C, next : N, got : G, saved : V])
  BY DEF IsStack
<1>. DEFINE f == Head(s)
            N2 == N \cup {f.next + 1}
            G2 == G \cup {Append(f.got, js)}
            S2 == [path : P, script : C, next : N2, got : G2, saved : V]
            e == [f EXCEPT !.next = @ + 1, !.got = Append(@, js)]
<1>2. f \in [path : P, script : C, next : N, got : G, saved : V] /\ f = s[1]
  <2>. DEFINE S == [path : P, script : C, next : N, got : G, saved : V]
  <2>1. s \in Seq(S)
    BY <1>1
  <2>. HIDE DEF S
  <2>2. Head(s) = s[1] /\ Head(s) \in S
    BY <2>1, SequenceParts
  <2>. QED
    BY <2>2 DEF S
<1>3. e \in S2 /\ e.path = f.path /\ e.saved = f.saved
  BY <1>2
<1>4. s \in Seq(S2)
  <2>1. PICK S : S = [path : P, script : C, next : N, got : G, saved : V]
    OBVIOUS
  <2>2. s \in Seq(S) /\ S \subseteq S2
    BY <1>1, <2>1
  <2>. HIDE DEF S2
  <2>. QED
    BY <2>2, SequenceParts
<1>5. Resume(s, js) = <<e>> \o Tail(s)
  BY DEF Resume
<1>. HIDE DEF e, S2
<1>6. /\ <<e>> \o Tail(s) \in Seq(S2) /\ Len(<<e>> \o Tail(s)) = Len(s)
      /\ (<<e>> \o Tail(s))[1] = e
      /\ \A i \in 2 .. Len(s) : (<<e>> \o Tail(s))[i] = s[i]
  BY <1>3, <1>4
<1>7. IsStack(Resume(s, js))
  <2>1. Resume(s, js) \in Seq([path : P, script : C, next : N2, got : G2, saved : V])
    BY <1>5, <1>6 DEF S2
  <2>. HIDE DEF N2, G2
  <2>. QED
    BY <2>1 DEF IsStack
<1>8. ASSUME NEW i \in 1 .. Len(s)
      PROVE  Resume(s, js)[i].path = s[i].path /\ Resume(s, js)[i].saved = s[i].saved
  <2>1. i = 1 \/ i \in 2 .. Len(s)
    BY <1>4
  <2>. QED
    BY <1>2, <1>3, <1>5, <1>6, <2>1
<1>. QED
  BY <1>5, <1>6, <1>7, <1>8

LEMMA ResumedProper ==
  ASSUME NEW s, NEW js, NEW g, NEW r, IsStack(s), s # <<>>, AllProper(s, g, r)
  PROVE  AllProper(Resume(s, js), g, r)
<1>1. Len(s) \in Nat
  BY DEF IsStack
<1>2. ASSUME NEW i \in 1 .. Len(s)
      PROVE  /\ Found(Resume(s, js), g, i) = Found(s, g, i)
             /\ Resume(s, js)[i].path = s[i].path /\ Resume(s, js)[i].saved = s[i].saved
  <2>1. i = 1 \/ i - 1 \in 1 .. Len(s)
    BY <1>1
  <2>. QED
    BY <2>1, Resumed DEF Found
<1>. QED
  BY <1>2, Resumed DEF AllProper, Proper

\* A script returns: what it saved is proper for the one beneath it.
LEMMA PoppedProper ==
  ASSUME NEW s, NEW g, NEW r, IsStack(s), Len(s) > 1, AllProper(s, g, r)
  PROVE  /\ IsStack(Tail(s)) /\ Tail(s) # <<>>
         /\ AllProper(Tail(s), Head(s).saved, r)
<1>1. PICK P, C, N, G, V :
        s \in Seq([path : P, script : C, next : N, got : G, saved : V])
  BY DEF IsStack
<1>2. /\ Tail(s) \in Seq([path : P, script : C, next : N, got : G, saved : V])
      /\ Len(Tail(s)) = Len(s) - 1 /\ Len(s) \in Nat /\ Head(s) = s[1]
      /\ \A i \in 1 .. Len(s) - 1 : Tail(s)[i] = s[i + 1]
  BY <1>1
<1>3. IsStack(Tail(s))
  BY <1>2 DEF IsStack
<1>4. ASSUME NEW i \in 1 .. Len(Tail(s))
      PROVE  Proper(Found(Tail(s), Head(s).saved, i), Tail(s)[i], i = Len(Tail(s)), r)
  <2>1. i \in Nat /\ i + 1 \in 1 .. Len(s) /\ (i = Len(Tail(s))) = (i + 1 = Len(s))
    BY <1>2
  <2>2. Found(Tail(s), Head(s).saved, i) = Found(s, g, i + 1)
    <3>1. CASE i = 1
      BY <1>2, <3>1 DEF Found
    <3>2. CASE i # 1
      <4>1. i - 1 \in 1 .. Len(s) - 1 /\ (i - 1) + 1 = i /\ (i + 1) - 1 = i /\ i + 1 # 1
        BY <1>2, <2>1, <3>2
      <4>. QED
        BY <1>2, <3>2, <4>1 DEF Found
    <3>. QED
      BY <3>1, <3>2
  <2>. QED
    BY <1>2, <2>1, <2>2 DEF AllProper
<1>5. AllProper(Tail(s), Head(s).saved, r)
  BY <1>4 DEF AllProper
<1>6. Tail(s) # <<>>
  <2>1. Len(Tail(s)) > 0
    BY <1>2
  <2>. QED
    BY <1>3, <2>1, StackParts
<1>. QED
  BY <1>3, <1>5, <1>6

\* A script starts inside another one: it saves that one's globals.
LEMMA PushedProper ==
  ASSUME NEW s, NEW p, NEW script, NEW g, NEW g2, NEW r, IsStack(s), s # <<>>,
         AllProper(s, g, r), Proper(g2, Frame(p, script, g), FALSE, r)
  PROVE  IsStack(<<Frame(p, script, g)>> \o s) /\ AllProper(<<Frame(p, script, g)>> \o s, g2, r)
<1>1. PICK P, C, N, G, V :
        s \in Seq([path : P, script : C, next : N, got : G, saved : V])
  BY DEF IsStack
<1>. DEFINE f == Frame(p, script, g)
            S2 == [path : P \cup {p}, script : C \cup {script}, next : N \cup {1},
                   got : G \cup {<<>>}, saved : V \cup {g}]
            t == <<f>> \o s
<1>2. f \in S2 /\ f.saved = g
  BY DEF Frame
<1>3. s \in Seq(S2)
  <2>1. PICK S : S = [path : P, script : C, next : N, got : G, saved : V]
    OBVIOUS
  <2>2. s \in Seq(S) /\ S \subseteq S2
    BY <1>1, <2>1
  <2>. HIDE DEF S2
  <2>. QED
    BY <2>2, SequenceParts
<1>. HIDE DEF f, S2
<1>4. /\ t \in Seq(S2) /\ Len(t) = Len(s) + 1 /\ Len(s) \in Nat /\ Len(s) # 0
      /\ t[1] = f /\ \A i \in 1 .. Len(s) : t[i + 1] = s[i]
  BY <1>2, <1>3
<1>5. IsStack(t)
  BY <1>4 DEF IsStack, S2
<1>. HIDE DEF t
<1>6. ASSUME NEW i \in 1 .. Len(t)
      PROVE  Proper(Found(t, g2, i), t[i], i = Len(t), r)
  <2>1. CASE i = 1
    <3>1. t[i] = f /\ (i = Len(t)) = FALSE /\ Found(t, g2, i) = g2
      BY <1>4, <2>1 DEF Found
    <3>. QED
      BY <3>1 DEF f
  <2>2. CASE i # 1
    <3>. DEFINE j == i - 1
    <3>1. j \in 1 .. Len(s) /\ i = j + 1 /\ (i = Len(t)) = (j = Len(s))
      BY <1>4, <2>2
    <3>2. Found(t, g2, i) = Found(s, g, j)
      <4>1. CASE j = 1
        BY <1>2, <1>4, <2>2, <4>1 DEF Found
      <4>2. CASE j # 1
        <5>1. j - 1 \in 1 .. Len(s) /\ (j - 1) + 1 = j
          BY <1>4, <3>1, <4>2
        <5>. QED
          BY <1>4, <2>2, <4>2, <5>1 DEF Found
      <4>. QED
        BY <4>1, <4>2
    <3>3. t[i] = s[j]
      BY <1>4, <3>1
    <3>. HIDE DEF j
    <3>. QED
      BY <3>1, <3>2, <3>3 DEF AllProper
  <2>. QED
    BY <2>1, <2>2
<1>. QED
  BY <1>5, <1>6 DEF AllProper, t, f
-----------------------------------------------------------------------------
(* The steps one by one.                                                   *)

LEMMA InvInit == Init => Inv
<1>. SUFFICES ASSUME Init PROVE Inv
  OBVIOUS
<1>1. frames = <<>> /\ globals = Cleared
  BY DEF Init
<1>2. IsStack(<<>>) /\ Len(<<>>) = 0
  <2>1. <<>> \in Seq([path : {}, script : {}, next : {}, got : {}, saved : {}])
    OBVIOUS
  <2>. QED
    BY <2>1 DEF IsStack
<1>. QED
  BY <1>1, <1>2 DEF Inv, Running, AllProper

\* The outermost script finds the globals it was started with.
LEMMA StartKeepsInv ==
  ASSUME Inv, Waiting, NEW event, NEW script, NEW odf, NEW ctx,
         Start(event, script, odf, ctx),
         Proper([event |-> event, odf |-> odf, ctx |-> ctx],
                Frame(event.path, script, Cleared), TRUE, request)
  PROVE  Inv'
<1>. DEFINE f == Frame(event.path, script, Cleared)
            S == [path : {event.path}, script : {script}, next : {1}, got : {<<>>},
                  saved : {Cleared}]
<1>1. f \in S
  BY DEF Frame
<1>2. /\ frames' = <<f>> /\ globals' = [event |-> event, odf |-> odf, ctx |-> ctx]
      /\ request' = request /\ reply' = <<>>
  BY DEF Start, Waiting
<1>. HIDE DEF f, S
<1>3. <<f>> \in Seq(S) /\ Len(<<f>>) = 1 /\ <<f>>[1] = f /\ <<f>> # <<>>
  BY <1>1
<1>4. IsStack(<<f>>)
  BY <1>3 DEF IsStack, S
<1>5. Proper(Found(<<f>>, globals', 1), f, TRUE, request)
  BY <1>2 DEF Found, f
<1>6. AllProper(<<f>>, globals', request)
  <2>1. \A i \in 1 .. Len(<<f>>) : i = 1 /\ <<f>>[i] = f /\ (i = Len(<<f>>)) = TRUE
    BY <1>3
  <2>. QED
    BY <1>5, <2>1 DEF AllProper
<1>. QED
  BY <1>2, <1>3, <1>4, <1>6 DEF Inv, Running

LEMMA StartersKeepInv ==
  ASSUME Inv, StartOnread \/ StartOnwrite \/ StartCallback
  PROVE  Inv'
<1>1. CASE StartOnread
  <2>. DEFINE event == Event(request.path, EventValue(Queried(request)))
              script == ItemOf(request.path).onread
              ctx == [path |-> request.path, depth |-> 0]
  <2>1. Waiting /\ request.kind \in {"read", "interval"} /\ Start(event, script, "read", ctx)
    BY <1>1 DEF StartOnread
  <2>2. Proper([event |-> event, odf |-> "read", ctx |-> ctx],
               Frame(event.path, script, Cleared), TRUE, request)
    BY <2>1 DEF Proper, Event, Frame
  <2>. HIDE DEF event, script, ctx
  <2>. QED
    BY <2>1, <2>2, StartKeepsInv
<1>2. CASE StartOnwrite
  <2>. DEFINE event == Event(request.path, request.v)
              ctx == [path |-> Root, depth |-> request.depth]
  <2>1. Waiting /\ request.kind = "onwrite" /\ Start(event, request.script, "readwrite", ctx)
    BY <1>2 DEF StartOnwrite
  <2>2. Proper([event |-> event, odf |-> "readwrite", ctx |-> ctx],
               Frame(event.path, request.script, Cleared), TRUE, request)
    BY <2>1 DEF Proper, Event, Frame
  <2>. HIDE DEF event, ctx
  <2>. QED
    BY <2>1, <2>2, StartKeepsInv
<1>3. CASE StartCallback
  <2>. DEFINE event == DeliveryEvent(request.path, request.values)
              script == ScriptAt(request.url)
  <2>1. /\ Waiting /\ request.kind = "callback"
        /\ Start(event, script, "readwrite", NoContext)
    BY <1>3 DEF StartCallback
  <2>2. Proper([event |-> event, odf |-> "readwrite", ctx |-> NoContext],
               Frame(event.path, script, Cleared), TRUE, request)
    BY <2>1 DEF Proper, DeliveryEvent, Event, Frame, NoContext
  <2>. HIDE DEF event, script
  <2>. QED
    BY <2>1, <2>2, StartKeepsInv
<1>. QED
  BY <1>1, <1>2, <1>3

\* Steps of a script that runs on.
LEMMA GoesOnKeepsInv ==
  ASSUME Inv, Running, UNCHANGED <<request, globals, reply>>,
         frames' = frames \/ \E js : frames' = Resume(frames, js)
  PROVE  Inv'
<1>1. CASE frames' = frames
  BY <1>1 DEF Inv, Running
<1>2. CASE \E js : frames' = Resume(frames, js)
  <2>1. PICK js : frames' = Resume(frames, js)
    BY <1>2
  <2>2. IsStack(frames') /\ AllProper(frames', globals, request)
    BY <2>1, Resumed, ResumedProper DEF Inv, Running
  <2>3. frames' # <<>>
    BY <2>1, <2>2, Resumed, StackParts DEF Inv, Running
  <2>. QED
    BY <2>2, <2>3 DEF Inv, Running
<1>. QED
  BY <1>1, <1>2

LEMMA ReadNestedKeepsInv == ASSUME Inv, ReadNested PROVE Inv'
<1>. DEFINE p == Effective(NextCall.path)
            full == ItemOf(p).onread
            script == AsFunction(full)
            g == [event |-> Event(p, EventValue(NewestFirst(p))), odf |-> "read",
                  ctx |-> [path |-> p, depth |-> globals.ctx.depth + 1]]
<1>1. /\ Running /\ UNCHANGED <<request, reply>>
      /\ frames' = <<Frame(p, script, globals)>> \o frames /\ globals' = g
  BY DEF ReadNested, Calling
<1>2. Proper(g, Frame(p, script, globals), FALSE, request)
  BY DEF Proper, Frame, Event
<1>. HIDE DEF p, script, g
<1>3. IsStack(frames') /\ AllProper(frames', g, request)
  BY <1>1, <1>2, PushedProper DEF Inv, Running
<1>4. frames' # <<>>
  BY <1>1 DEF Inv, IsStack
<1>. QED
  BY <1>1, <1>3, <1>4 DEF Inv, Running

LEMMA ReturnNestedKeepsInv == ASSUME Inv, ReturnNested PROVE Inv'
<1>1. /\ Running /\ Len(frames) > 1 /\ UNCHANGED <<request, reply>>
      /\ globals' = Head(frames).saved
  BY DEF ReturnNested, Returns, Top
<1>2. PICK js : frames' = Resume(Tail(frames), js)
  BY DEF ReturnNested
<1>3. /\ IsStack(Tail(frames)) /\ Tail(frames) # <<>>
      /\ AllProper(Tail(frames), globals', request)
  BY <1>1, PoppedProper DEF Inv
<1>4. IsStack(frames') /\ AllProper(frames', globals', request) /\ frames' # <<>>
  BY <1>2, <1>3, Resumed, ResumedProper, StackParts
<1>. QED
  BY <1>1, <1>4 DEF Inv, Running

LEMMA EndKeepsInv ==
  ASSUME Inv, NEW outcome, EndOutermost(outcome)
  PROVE  Inv'
<1>1. IsStack(<<>>) /\ Len(<<>>) = 0
  <2>1. <<>> \in Seq([path : {}, script : {}, next : {}, got : {}, saved : {}])
    OBVIOUS
  <2>. QED
    BY <2>1 DEF IsStack
<1>. QED
  BY <1>1 DEF EndOutermost, Inv, Running, AllProper

\* No script runs while a request is accepted or answered without one.
LEMMA RestKeepsInv ==
  ASSUME Inv, ~Running, UNCHANGED <<frames, globals>>
  PROVE  Inv'
<1>1. frames = <<>>
  BY DEF Running
<1>2. \A i \in 1 .. Len(frames) : FALSE
  BY <1>1
<1>. QED
  BY <1>1, <1>2 DEF Inv, Running, AllProper

LEMMA InvStep == Inv /\ [Next]_vars => Inv'
<1>. SUFFICES ASSUME Inv, [Next]_vars PROVE Inv'
  OBVIOUS
<1>1. CASE Accept \/ AnswerPlainly \/ SkipWriter
  <2>1. ~Running /\ UNCHANGED <<frames, globals>>
    BY <1>1 DEF Accept, AnswerPlainly, SkipWriter, Waiting, Inv
  <2>. QED
    BY <2>1, RestKeepsInv
<1>2. CASE StartOnread \/ StartOnwrite \/ StartCallback
  BY <1>2, StartersKeepInv
<1>3. CASE ReadItem \/ WriteCall
  <2>1. Running /\ UNCHANGED <<request, globals, reply>>
    BY <1>3 DEF ReadItem, WriteCall, Calling
  <2>2. frames' = frames \/ \E js : frames' = Resume(frames, js)
    BY <1>3 DEF ReadItem, WriteCall
  <2>. QED
    BY <2>1, <2>2, GoesOnKeepsInv
<1>4. CASE ReadNested
  BY <1>4, ReadNestedKeepsInv
<1>5. CASE ReturnNested
  BY <1>5, ReturnNestedKeepsInv
<1>6. CASE ReturnOnread \/ ReturnWriter
  BY <1>6, EndKeepsInv DEF ReturnOnread, ReturnWriter
<1>7. CASE UNCHANGED vars
  BY <1>7 DEF vars, Inv, Running
<1>. QED
  BY <1>1, <1>2, <1>3, <1>4, <1>5, <1>6, <1>7 DEF Next

\* Each script that runs has saved the globals of the one beneath it
\* (bindings.rs, execute_nested_onread).
THEOREM Invariance == Spec => []Inv
<1>. QED
  BY InvInit, InvStep, PTL DEF Spec

-----------------------------------------------------------------------------
\* Whatever runs inside a script, in cycles and to any depth limit, with errors or
\* without, it finds its own event, guard and depth, and only an onwrite or
\* callback script has writeItem (js_odf_read_item, execute_nested_onread and
\* run_onread_script, run_onwrite_script, run_callback_script).
THEOREM ScriptsSeeTheirOwn == Spec => []GlobalsAreOwn
<1>1. Inv => GlobalsAreOwn
  <2>. SUFFICES ASSUME Inv, Running
                PROVE  Proper(globals, Top, Len(frames) = 1, request)
    BY DEF Inv, GlobalsAreOwn, Proper, Writer
  <2>1. Len(frames) \in Nat /\ Len(frames) # 0 /\ Top = frames[1]
    BY DEF Inv, Running, IsStack, Top
  <2>2. Proper(Found(frames, globals, 1), frames[1], 1 = Len(frames), request)
    <3>1. 1 \in 1 .. Len(frames)
      BY <2>1
    <3>. QED
      BY <3>1 DEF Inv, AllProper
  <2>. QED
    BY <2>1, <2>2 DEF Found
<1>. QED
  BY <1>1, Invariance, PTL

-----------------------------------------------------------------------------
(* Scripts that write.                                                     *)

\* A non-empty set of places has a last one.
LEMMA LastPlace ==
  ASSUME NEW n \in Nat, NEW S \in SUBSET (1 .. n), S # {}
  PROVE  Max(S) \in S /\ \A x \in S : Max(S) >= x
<1>. DEFINE above(x) == x + 1 .. n
            T == {above(x) : x \in S}
<1>1. T \subseteq FiniteSubsetsOf(Nat)
  <2>1. \A x \in S : above(x) \subseteq Nat /\ IsFiniteSet(above(x))
    <3>. SUFFICES ASSUME NEW x \in S PROVE above(x) \subseteq Nat /\ IsFiniteSet(above(x))
      OBVIOUS
    <3>1. x + 1 \in Int /\ n \in Int /\ x \in Nat
      OBVIOUS
    <3>. QED
      BY <3>1, FS_Interval
  <2>. QED
    BY <2>1 DEF FiniteSubsetsOf
<1>2. PICK t \in T : \A u \in T : ~(<<u, t>> \in StrictSubsetOrdering(Nat))
  <2>1. IsWellFoundedOn(StrictSubsetOrdering(Nat), FiniteSubsetsOf(Nat))
    BY FS_StrictSubsetOrderingWellFounded
  <2>2. T # {}
    OBVIOUS
  <2>. HIDE DEF T
  <2>. QED
    BY <1>1, <2>1, <2>2, WFMin, Zenon
<1>3. PICK m \in S : t = above(m)
  OBVIOUS
<1>4. \A x \in S : m >= x
  <2>. SUFFICES ASSUME NEW x \in S, x > m PROVE FALSE
    OBVIOUS
  <2>1. above(x) \subseteq above(m) /\ x \in above(m) /\ x \notin above(x)
    OBVIOUS
  <2>2. <<above(x), above(m)>> \in StrictSubsetOrdering(Nat)
    BY <2>1 DEF StrictSubsetOrdering
  <2>. QED
    BY <1>2, <1>3, <2>2
<1>. QED
  BY <1>4 DEF Max

\* The last of places to which a later one is added.
LEMMA LaterPlace ==
  ASSUME NEW n \in Nat, NEW S \in SUBSET (1 .. n)
  PROVE  Max(S \cup {n + 1}) = n + 1
<1>1. S \cup {n + 1} \in SUBSET (1 .. n + 1) /\ n + 1 \in Nat
  OBVIOUS
<1>2. PICK m : m = Max(S \cup {n + 1})
  OBVIOUS
<1>3. m \in S \cup {n + 1} /\ m >= n + 1
  BY <1>1, <1>2, LastPlace
<1>4. m = n + 1
  BY <1>3
<1>. QED
  BY <1>2, <1>4

\* What a call of writeItem gives whose write is accepted.
Granted == <<"bool", TRUE>>

\* The writes to p that were accepted among the first n calls.
Accepted(calls, got, p, n) ==
  {j \in 1 .. n : calls[j].do = "write" /\ calls[j].path = p /\ got[j] = Granted}

Places(writes, p) == {i \in DOMAIN writes : writes[i].path = p}

IsSeq(s) == \E S : s \in Seq(S)

\* For each path the last pending write is that of the last call accepted.
Matches(calls, got, writes) ==
  \A p : LET made == Accepted(calls, got, p, Len(got))
         IN /\ (made = {}) = (Places(writes, p) = {})
            /\ made # {} => writes[Max(Places(writes, p))].v = ToOmi(calls[Max(made)].v)

ReadBack(calls, got) ==
  \A i \in 1 .. Len(got) :
    LET made == Accepted(calls, got, Effective(calls[i].path), i - 1)
    IN calls[i].do = "read" /\ Stripped(calls[i].path) /\ made # {}
         => got[i] = ToOmi(calls[Max(made)].v)

\* A script that writes runs alone, since for it no script was compiled.
WriterInv ==
  /\ Len(frames) = 1 /\ fns = {} /\ IsSeq(pending)
  /\ IsScript(Top.script) /\ IsSeq(Top.got) /\ Top.next = Len(Top.got) + 1
  /\ Matches(Top.script.calls, Top.got, pending)
  /\ ReadBack(Top.script.calls, Top.got)

WritesInv ==
  /\ tree \in Trees /\ request \in Requests
  /\ Running /\ Writer => WriterInv
-----------------------------------------------------------------------------
\* g is s with e behind it.
Grown(g, s, e) == IsSeq(s) /\ g = Append(s, e)

LEMMA GrownParts ==
  ASSUME NEW g, NEW s, NEW e, Grown(g, s, e)
  PROVE  /\ IsSeq(g) /\ IsSeq(s) /\ Len(s) \in Nat /\ Len(g) = Len(s) + 1
         /\ g[Len(s) + 1] = e /\ \A i \in 1 .. Len(s) : g[i] = s[i]
         /\ DOMAIN s = 1 .. Len(s) /\ DOMAIN g = 1 .. Len(s) + 1
<1>1. PICK S : s \in Seq(S)
  BY DEF IsSeq, Grown
<1>2. PICK T : T = S \cup {e}
  OBVIOUS
<1>3. s \in Seq(T) /\ e \in T
  BY <1>1, <1>2
<1>4. /\ Append(s, e) \in Seq(T) /\ Len(s) \in Nat /\ Len(Append(s, e)) = Len(s) + 1
      /\ Append(s, e)[Len(s) + 1] = e /\ \A i \in 1 .. Len(s) : Append(s, e)[i] = s[i]
  BY <1>3
<1>5. DOMAIN s = 1 .. Len(s) /\ DOMAIN Append(s, e) = 1 .. Len(s) + 1
  BY <1>3, <1>4
<1>. QED
  BY <1>1, <1>4, <1>5 DEF IsSeq, Grown

LEMMA SeqParts ==
  ASSUME NEW s, IsSeq(s)
  PROVE  Len(s) \in Nat /\ DOMAIN s = 1 .. Len(s)
BY DEF IsSeq

\* A place is added after the first n.
WithNext(S, n) == S \cup {n + 1}

\* What was accepted before stays so; the call that returned is added if it is one.
LEMMA AcceptedBefore ==
  ASSUME NEW calls, NEW got, NEW js, NEW g, Grown(g, got, js),
         NEW m \in 0 .. Len(got), NEW p
  PROVE  Accepted(calls, g, p, m) = Accepted(calls, got, p, m)
<1>1. Len(got) \in Nat /\ \A i \in 1 .. Len(got) : g[i] = got[i]
  BY GrownParts
<1>2. \A j \in 1 .. m : g[j] = got[j]
  BY <1>1
<1>. QED
  BY <1>2 DEF Accepted

LEMMA AcceptedGrows ==
  ASSUME NEW calls, NEW got, NEW g, Grown(g, got, Granted),
         NEW n, n = Len(got), NEW p,
         calls[n + 1].do = "write", calls[n + 1].path = p
  PROVE  Accepted(calls, g, p, n + 1) = WithNext(Accepted(calls, got, p, n), n)
<1>1. n \in Nat /\ g[n + 1] = Granted /\ \A i \in 1 .. n : g[i] = got[i]
  BY GrownParts
<1>2. \A j \in 1 .. n + 1 : j \in 1 .. n \/ j = n + 1
  BY <1>1
<1>3. n + 1 \in 1 .. n + 1 /\ \A j \in 1 .. n : j \in 1 .. n + 1 /\ j # n + 1
  BY <1>1
<1>. QED
  BY <1>1, <1>2, <1>3 DEF Accepted, WithNext

LEMMA AcceptedStays ==
  ASSUME NEW calls, NEW got, NEW js, NEW g, Grown(g, got, js),
         NEW n, n = Len(got), NEW p,
         calls[n + 1].do # "write" \/ calls[n + 1].path # p \/ js # Granted
  PROVE  Accepted(calls, g, p, n + 1) = Accepted(calls, got, p, n)
<1>1. n \in Nat /\ g[n + 1] = js /\ \A i \in 1 .. n : g[i] = got[i]
  BY GrownParts
<1>2. \A j \in 1 .. n + 1 : j \in 1 .. n \/ j = n + 1
  BY <1>1
<1>3. n + 1 \in 1 .. n + 1 /\ \A j \in 1 .. n : j \in 1 .. n + 1 /\ j # n + 1
  BY <1>1
<1>. QED
  BY <1>1, <1>2, <1>3 DEF Accepted

LEMMA PlacesGrow ==
  ASSUME NEW writes, NEW w, NEW h, Grown(h, writes, w), NEW m, m = Len(writes), NEW p
  PROVE  /\ Places(writes, p) \in SUBSET (1 .. m)
         /\ w.path = p => Places(h, p) = WithNext(Places(writes, p), m)
         /\ w.path # p => Places(h, p) = Places(writes, p)
<1>1. /\ m \in Nat /\ h[m + 1] = w /\ \A i \in 1 .. m : h[i] = writes[i]
      /\ DOMAIN writes = 1 .. m /\ DOMAIN h = 1 .. m + 1
  BY GrownParts
<1>2. 1 .. m + 1 = (1 .. m) \cup {m + 1}
  BY <1>1
<1>. QED
  BY <1>1, <1>2 DEF Places, WithNext

\* A call that returns without a write of its own.
LEMMA MatchesKept ==
  ASSUME NEW calls, NEW got, NEW writes, NEW js, NEW g, Grown(g, got, js),
         Matches(calls, got, writes),
         calls[Len(got) + 1].do # "write" \/ js # Granted
  PROVE  Matches(calls, g, writes)
<1>1. Len(g) = Len(got) + 1
  BY GrownParts
<1>2. ASSUME NEW p
      PROVE  Accepted(calls, g, p, Len(g)) = Accepted(calls, got, p, Len(got))
  BY <1>1, AcceptedStays
<1>. QED
  BY <1>2 DEF Matches

\* A write that is accepted is the last of both.
LEMMA MatchesMore ==
  ASSUME NEW calls, NEW got, NEW writes, NEW w, NEW g, NEW h,
         Grown(g, got, Granted), Grown(h, writes, w),
         Matches(calls, got, writes), calls[Len(got) + 1].do = "write",
         w.path = calls[Len(got) + 1].path, w.v = ToOmi(calls[Len(got) + 1].v)
  PROVE  Matches(calls, g, h)
<1>1. PICK n, m : n = Len(got) /\ m = Len(writes)
  OBVIOUS
<1>2. /\ n \in Nat /\ m \in Nat /\ Len(g) = n + 1 /\ h[m + 1] = w
      /\ \A i \in 1 .. m : h[i] = writes[i]
  BY <1>1, GrownParts
<1>3. /\ calls[n + 1].do = "write" /\ w.path = calls[n + 1].path
      /\ w.v = ToOmi(calls[n + 1].v)
  BY <1>1
<1>4. ASSUME NEW p
      PROVE  /\ (Accepted(calls, g, p, n + 1) = {}) = (Places(h, p) = {})
             /\ Accepted(calls, g, p, n + 1) # {} =>
                  h[Max(Places(h, p))].v = ToOmi(calls[Max(Accepted(calls, g, p, n + 1))].v)
  <2>1. PICK A, P : A = Accepted(calls, got, p, n) /\ P = Places(writes, p)
    OBVIOUS
  <2>2. A \in SUBSET (1 .. n) /\ P \in SUBSET (1 .. m)
    BY <1>1, <2>1, PlacesGrow DEF Accepted
  <2>3. /\ (A = {}) = (P = {})
        /\ A # {} => writes[Max(P)].v = ToOmi(calls[Max(A)].v)
    BY <1>1, <2>1 DEF Matches
  <2>4. CASE w.path = p
    <3>1. Accepted(calls, g, p, n + 1) = WithNext(A, n)
      <4>1. calls[n + 1].path = p /\ n = Len(got)
        BY <1>1, <1>3, <2>4
      <4>2. Accepted(calls, g, p, n + 1) = WithNext(Accepted(calls, got, p, n), n)
        BY <1>3, <4>1, AcceptedGrows
      <4>. QED
        BY <2>1, <4>2
    <3>2. Places(h, p) = WithNext(P, m)
      BY <1>1, <2>1, <2>4, PlacesGrow
    <3>3. Max(A \cup {n + 1}) = n + 1 /\ Max(P \cup {m + 1}) = m + 1
      BY <1>2, <2>2, LaterPlace
    <3>4. A \cup {n + 1} # {} /\ P \cup {m + 1} # {}
      OBVIOUS
    <3>. QED
      BY <1>2, <1>3, <3>1, <3>2, <3>3, <3>4 DEF WithNext
  <2>5. CASE w.path # p
    <3>1. Accepted(calls, g, p, n + 1) = A
      BY <1>1, <1>3, <2>1, <2>5, AcceptedStays
    <3>2. Places(h, p) = P
      BY <1>1, <2>1, <2>5, PlacesGrow
    <3>3. P # {} => Max(P) \in 1 .. m
      BY <1>2, <2>2, LastPlace
    <3>. QED
      BY <1>2, <2>3, <3>1, <3>2, <3>3
  <2>. QED
    BY <2>4, <2>5
<1>. QED
  BY <1>2, <1>4 DEF Matches

LEMMA ReadBackKept ==
  ASSUME NEW calls, NEW got, NEW js, NEW g, Grown(g, got, js), ReadBack(calls, got),
         LET call == calls[Len(got) + 1]
             made == Accepted(calls, got, Effective(call.path), Len(got))
         IN call.do = "read" /\ Stripped(call.path) /\ made # {}
              => js = ToOmi(calls[Max(made)].v)
  PROVE  ReadBack(calls, g)
<1>1. PICK n : n = Len(got)
  OBVIOUS
<1>2. n \in Nat /\ Len(g) = n + 1 /\ g[n + 1] = js /\ \A i \in 1 .. n : g[i] = got[i]
  BY <1>1, GrownParts
<1>3. ASSUME NEW i \in 1 .. n + 1, NEW p
      PROVE  Accepted(calls, g, p, i - 1) = Accepted(calls, got, p, i - 1)
  <2>1. i - 1 \in 0 .. Len(got)
    BY <1>1, <1>2
  <2>. QED
    BY <2>1, AcceptedBefore
<1>4. ASSUME NEW i \in 1 .. n + 1,
             calls[i].do = "read", Stripped(calls[i].path),
             Accepted(calls, g, Effective(calls[i].path), i - 1) # {}
      PROVE  g[i] = ToOmi(calls[Max(Accepted(calls, g, Effective(calls[i].path), i - 1))].v)
  <2>1. PICK made : made = Accepted(calls, got, Effective(calls[i].path), i - 1)
    OBVIOUS
  <2>2. Accepted(calls, g, Effective(calls[i].path), i - 1) = made
    BY <1>3, <2>1
  <2>3. CASE i \in 1 .. n
    BY <1>1, <1>2, <1>4, <2>1, <2>2, <2>3 DEF ReadBack
  <2>4. CASE i = n + 1
    <3>1. i - 1 = n
      BY <1>2, <2>4
    <3>. QED
      BY <1>1, <1>2, <1>4, <2>1, <2>2, <2>4, <3>1
  <2>. QED
    BY <1>2, <2>3, <2>4
<1>. QED
  BY <1>2, <1>4 DEF ReadBack

-----------------------------------------------------------------------------
(* The steps of a script that writes.                                      *)

LEMMA ResumedTop ==
  ASSUME NEW s, NEW js, IsStack(s), s # <<>>, NEW t, t = Resume(s, js)
  PROVE  /\ Head(t).script = Head(s).script /\ Head(t).next = Head(s).next + 1
         /\ Head(t).got = Append(Head(s).got, js)
<1>1. PICK P, C, N, G, V :
        s \in Seq([path : P, script : C, next : N, got : G, saved : V])
  BY DEF IsStack
<1>. DEFINE S == [path : P, script : C, next : N, got : G, saved : V]
            f == Head(s)
            e == [f EXCEPT !.next = @ + 1, !.got = Append(@, js)]
<1>2. f \in S
  <2>1. s \in Seq(S)
    BY <1>1
  <2>. HIDE DEF S
  <2>. QED
    BY <2>1, SequenceParts
<1>3. e.script = f.script /\ e.next = f.next + 1 /\ e.got = Append(f.got, js)
  BY <1>2
<1>4. t = <<e>> \o Tail(s)
  BY DEF Resume
<1>5. PICK T : T = S \cup {e}
  OBVIOUS
<1>. HIDE DEF e, S, f
<1>6. s \in Seq(T) /\ e \in T
  <2>1. s \in Seq(S) /\ S \subseteq T
    BY <1>1, <1>5 DEF S
  <2>. QED
    BY <1>5, <2>1, SequenceParts
<1>7. <<e>> \o Tail(s) # <<>> /\ Head(<<e>> \o Tail(s)) = e
  BY <1>6
<1>. QED
  BY <1>3, <1>4, <1>7 DEF f

LEMMA FrontIsPath ==
  ASSUME NEW p \in Seq(STRING), Stripped(p)
  PROVE  Effective(p) # Root
<1>1. Len(p) > 1 /\ Len(p) \in Nat
  BY DEF Stripped
<1>2. Len(SubSeq(p, 1, Len(p) - 1)) = Len(p) - 1
  BY <1>1
<1>3. PICK q : q = SubSeq(p, 1, Len(p) - 1)
  OBVIOUS
<1>4. Len(q) # Len(<<>>)
  BY <1>1, <1>2, <1>3
<1>5. q # <<>>
  BY <1>4
<1>. QED
  BY <1>3, <1>5 DEF Effective, Front, Root

\* A writer's context has no path, so none of its reads is of itself.
LEMMA WriterContext ==
  ASSUME Inv, Running, Writer, Len(frames) = 1
  PROVE  globals.ctx.path = Root
<1>1. 1 \in 1 .. Len(frames)
  OBVIOUS
<1>2. Proper(Found(frames, globals, 1), frames[1], 1 = Len(frames), request)
  BY <1>1 DEF Inv, AllProper
<1>. QED
  BY <1>2 DEF Found, Proper, Writer

LEMMA NextCallIsCall ==
  ASSUME WriterInv, NEW do, Calling(do)
  PROVE  /\ NextCall = Top.script.calls[Len(Top.got) + 1] /\ NextCall.do = do
         /\ NextCall.path \in Seq(STRING)
<1>1. /\ Top.next = Len(Top.got) + 1 /\ Len(Top.got) \in Nat
      /\ Top.next <= Len(Top.script.calls) /\ NextCall.do = do
  BY SeqParts DEF WriterInv, Calling
<1>2. /\ Top.script.calls \in Seq(ToSet(Top.script.calls))
      /\ \A call \in ToSet(Top.script.calls) : call.path \in Seq(STRING)
  BY DEF WriterInv, IsScript
<1>3. PICK c, n, T : c = Top.script.calls /\ n = Top.next /\ T = ToSet(Top.script.calls)
  OBVIOUS
<1>4. n \in 1 .. Len(c) /\ c \in Seq(T)
  BY <1>1, <1>2, <1>3
<1>5. c[n] \in T
  BY <1>4
<1>. QED
  BY <1>1, <1>2, <1>3, <1>5 DEF NextCall

LEMMA WriterGoesOn ==
  ASSUME Inv, Running, WriterInv, NEW js, frames' = Resume(frames, js), fns' = fns,
         tree' = tree, IsSeq(pending'),
         \A g : Grown(g, Top.got, js) => /\ Matches(Top.script.calls, g, pending')
                                         /\ ReadBack(Top.script.calls, g)
  PROVE  WriterInv'
<1>1. IsStack(frames) /\ frames # <<>> /\ Len(frames') = 1 /\ fns' = {}
  BY Resumed DEF Inv, Running, WriterInv
<1>2. /\ Top'.script = Top.script /\ Top'.next = Top.next + 1
      /\ Top'.got = Append(Top.got, js)
  BY <1>1, ResumedTop DEF Top
<1>3. Grown(Top'.got, Top.got, js)
  BY <1>2 DEF Grown, WriterInv
<1>4. IsSeq(Top'.got) /\ Len(Top'.got) = Len(Top.got) + 1 /\ Len(Top.got) \in Nat
  BY <1>3, GrownParts
<1>5. Top'.next = Len(Top'.got) + 1
  BY <1>2, <1>4 DEF WriterInv
<1>6. /\ Matches(Top.script.calls, Top'.got, pending')
      /\ ReadBack(Top.script.calls, Top'.got)
  BY <1>3
<1>7. Matches(Top'.script.calls, Top'.got, pending')
  BY <1>2, <1>6
<1>8. (ReadBack(Top.script.calls, Top.got))'
  BY <1>2, <1>6 DEF ReadBack, Effective, Stripped
<1>9. IsScript(Top'.script)
  BY <1>2 DEF WriterInv
<1>. QED
  BY <1>1, <1>4, <1>5, <1>7, <1>8, <1>9 DEF WriterInv

LEMMA WriterWaits ==
  ASSUME WriterInv, UNCHANGED <<tree, frames, fns, pending>>
  PROVE  WriterInv'
<1>1. Top' = Top
  BY DEF Top
<1>2. ReadBack(Top.script.calls, Top.got)'
  BY <1>1 DEF WriterInv, ReadBack, Effective, Stripped
<1>3. Matches(Top.script.calls, Top.got, pending)'
  BY <1>1 DEF WriterInv
<1>4. IsScript(Top'.script) /\ IsSeq(Top'.got) /\ Top'.next = Len(Top'.got) + 1
  BY <1>1 DEF WriterInv
<1>. QED
  BY <1>2, <1>3, <1>4 DEF WriterInv

LEMMA ReadItemKeepsWriter ==
  ASSUME Inv, Writer, WriterInv, ReadItem
  PROVE  WriterInv'
<1>. DEFINE p == Effective(NextCall.path)
            calls == Top.script.calls
<1>1. /\ Running /\ Calling("read")
      /\ fns' = fns /\ pending' = pending /\ tree' = tree
  BY DEF ReadItem, Calling
<1>2. /\ NextCall = calls[Len(Top.got) + 1] /\ NextCall.do = "read"
      /\ NextCall.path \in Seq(STRING)
  BY <1>1, NextCallIsCall
<1>3. PICK js : /\ frames' = Resume(frames, js)
                /\ ReadsPending(p, Stripped(NextCall.path)) => js = WrittenLast(p)
  BY DEF ReadItem
<1>4. Matches(calls, Top.got, pending) /\ ReadBack(calls, Top.got) /\ IsSeq(pending)
  BY DEF WriterInv
<1>5. ASSUME Stripped(NextCall.path), Accepted(calls, Top.got, p, Len(Top.got)) # {}
      PROVE  js = ToOmi(calls[Max(Accepted(calls, Top.got, p, Len(Top.got)))].v)
  <2>1. ~SelfRead(p)
    BY <1>1, <1>2, <1>5, FrontIsPath, WriterContext DEF SelfRead, WriterInv
  <2>2. Places(pending, p) # {} /\
          pending[Max(Places(pending, p))].v
            = ToOmi(calls[Max(Accepted(calls, Top.got, p, Len(Top.got)))].v)
    BY <1>4, <1>5 DEF Matches
  <2>3. Places(pending, p) = PendingTo(p)
    BY DEF Places, PendingTo
  <2>4. ReadsPending(p, Stripped(NextCall.path))
    BY <1>5, <2>1, <2>2, <2>3 DEF ReadsPending
  <2>. QED
    BY <1>3, <2>2, <2>3, <2>4 DEF WrittenLast
<1>6. ASSUME NEW g, Grown(g, Top.got, js)
      PROVE  Matches(calls, g, pending) /\ ReadBack(calls, g)
  <2>1. Matches(calls, g, pending)
    BY <1>2, <1>4, <1>6, MatchesKept
  <2>2. calls[Len(Top.got) + 1].do = "read"
          /\ Stripped(calls[Len(Top.got) + 1].path)
          /\ Accepted(calls, Top.got, Effective(calls[Len(Top.got) + 1].path), Len(Top.got)) # {}
          => js = ToOmi(calls[Max(Accepted(calls, Top.got,
                      Effective(calls[Len(Top.got) + 1].path), Len(Top.got)))].v)
    BY <1>2, <1>5
  <2>. HIDE DEF calls
  <2>3. ReadBack(calls, g)
    BY <1>4, <1>6, <2>2, ReadBackKept
  <2>. QED
    BY <2>1, <2>3
<1>7. IsSeq(pending')
  BY <1>1, <1>4
<1>8. ASSUME NEW g, Grown(g, Top.got, js)
      PROVE  Matches(Top.script.calls, g, pending') /\ ReadBack(Top.script.calls, g)
  BY <1>1, <1>6, <1>8
<1>. HIDE DEF p, calls
<1>. QED
  BY <1>1, <1>3, <1>7, <1>8, WriterGoesOn

LEMMA WriteCallKeepsWriter ==
  ASSUME Inv, Writer, WriterInv, WriteCall
  PROVE  WriterInv'
<1>. DEFINE calls == Top.script.calls
            w == [path |-> NextCall.path, v |-> ToOmi(NextCall.v), enc |-> NextCall.enc]
<1>1. Running /\ Calling("write") /\ fns' = fns /\ tree' = tree
  BY DEF WriteCall, Calling
<1>2. NextCall = calls[Len(Top.got) + 1] /\ NextCall.do = "write"
  BY <1>1, NextCallIsCall
<1>3. /\ Matches(calls, Top.got, pending) /\ ReadBack(calls, Top.got)
      /\ IsSeq(pending) /\ IsSeq(Top.got)
  BY DEF WriterInv
<1>4. ASSUME NEW g, NEW js, Grown(g, Top.got, js)
      PROVE  ReadBack(calls, g)
  BY <1>2, <1>3, <1>4, ReadBackKept
<1>5. CASE frames' = frames /\ pending' = pending
  BY <1>1, <1>5, WriterWaits
<1>6. CASE frames' = Resume(frames, <<"bool", FALSE>>) /\ pending' = pending
  <2>1. <<"bool", FALSE>> # Granted
    BY DEF Granted
  <2>2. ASSUME NEW g, Grown(g, Top.got, <<"bool", FALSE>>)
        PROVE  Matches(calls, g, pending')
    BY <1>3, <1>6, <2>1, <2>2, MatchesKept
  <2>3. IsSeq(pending')
    BY <1>3, <1>6
  <2>4. ASSUME NEW g, Grown(g, Top.got, <<"bool", FALSE>>)
        PROVE  Matches(calls, g, pending') /\ ReadBack(calls, g)
    BY <1>4, <2>2, <2>4
  <2>. QED
    BY <1>1, <1>6, <2>3, <2>4, WriterGoesOn
<1>7. CASE frames' = Resume(frames, <<"bool", TRUE>>) /\ pending' = Append(pending, w)
  <2>1. w.path = calls[Len(Top.got) + 1].path /\ w.v = ToOmi(calls[Len(Top.got) + 1].v)
    BY <1>2
  <2>. HIDE DEF w
  <2>2. Grown(pending', pending, w)
    BY <1>3, <1>7 DEF Grown
  <2>3. ASSUME NEW g, Grown(g, Top.got, <<"bool", TRUE>>)
        PROVE  Matches(calls, g, pending')
    <3>1. Grown(g, Top.got, Granted)
      BY <2>3 DEF Granted
    <3>. QED
      BY <1>2, <1>3, <2>1, <2>2, <3>1, MatchesMore
  <2>4. IsSeq(pending')
    BY <2>2, GrownParts
  <2>5. ASSUME NEW g, Grown(g, Top.got, <<"bool", TRUE>>)
        PROVE  Matches(calls, g, pending') /\ ReadBack(calls, g)
    BY <1>4, <2>3, <2>5
  <2>. QED
    BY <1>1, <1>7, <2>4, <2>5, WriterGoesOn
<1>8. \/ frames' = frames /\ pending' = pending
      \/ frames' = Resume(frames, <<"bool", FALSE>>) /\ pending' = pending
      \/ frames' = Resume(frames, <<"bool", TRUE>>) /\ pending' = Append(pending, w)
  <2>1. CASE globals.ctx.depth + 1 < MAX_SCRIPT_DEPTH
    <3>1. (globals.ctx.depth + 1 < MAX_SCRIPT_DEPTH) = TRUE
      BY <2>1
    <3>. QED
      BY <3>1 DEF WriteCall
  <2>2. CASE ~(globals.ctx.depth + 1 < MAX_SCRIPT_DEPTH)
    <3>1. (globals.ctx.depth + 1 < MAX_SCRIPT_DEPTH) = FALSE
      BY <2>2
    <3>. QED
      BY <3>1 DEF WriteCall
  <2>. QED
    BY <2>1, <2>2
<1>. HIDE DEF w, calls
<1>. QED
  BY <1>5, <1>6, <1>7, <1>8

LEMMA StartKeepsWriter ==
  ASSUME NEW event, NEW script, NEW odf, NEW ctx, Start(event, script, odf, ctx),
         IsScript(script), fns' = {}
  PROVE  WriterInv'
<1>1. /\ frames' = <<Frame(event.path, script, Cleared)>> /\ pending' = <<>>
  BY DEF Start
<1>2. /\ Len(frames') = 1 /\ Top' = Frame(event.path, script, Cleared)
  BY <1>1 DEF Top
<1>3. Top'.script = script /\ Top'.got = <<>> /\ Top'.next = 1
  BY <1>2 DEF Frame
<1>4. IsSeq(<<>>) /\ Len(<<>>) = 0
  <2>1. <<>> \in Seq({})
    OBVIOUS
  <2>. QED
    BY <2>1 DEF IsSeq
<1>5. \A p : Accepted(script.calls, <<>>, p, 0) = {} /\ Places(<<>>, p) = {}
  BY DEF Accepted, Places
<1>6. Matches(script.calls, <<>>, <<>>)
  BY <1>4, <1>5 DEF Matches
<1>7. Matches(Top.script.calls, Top.got, pending)'
  BY <1>1, <1>3, <1>6
<1>8. (ReadBack(Top.script.calls, Top.got))'
  BY <1>3, <1>4 DEF ReadBack
<1>. QED
  BY <1>1, <1>2, <1>3, <1>4, <1>7, <1>8 DEF WriterInv

\* The text of a script comes from an item of the tree.
LEMMA TextsAreScripts ==
  ASSUME tree \in Trees, NEW p, ResolvesToScript(p)
  PROVE  IsScript(ScriptAt(p))
<1>1. PICK s, T : s = ItemOf(p).vals /\ T = ToSet(ItemOf(p).vals)
  OBVIOUS
<1>2. Parsed(p) \in DOMAIN tree.items
  BY DEF ResolvesToScript, Resolve
<1>3. s \in Seq(T) /\ \A v \in T : v[1] = "source" => IsScript(v[2])
  BY <1>1, <1>2, ScriptAssumption DEF ItemOf
<1>4. s # <<>> /\ Head(NewestFirst(p))[1] = "source"
  BY <1>1 DEF ResolvesToScript
<1>5. Len(s) \in Nat /\ Len(s) > 0
  BY <1>3, <1>4
<1>6. NewestFirst(p) = [i \in 1 .. Len(s) |-> s[(Len(s) - i) + 1]]
  BY <1>1 DEF NewestFirst, Reverse
<1>7. Head(NewestFirst(p)) = s[Len(s)]
  <2>1. [i \in 1 .. Len(s) |-> s[(Len(s) - i) + 1]] \in Seq(T)
    BY <1>3, <1>5
  <2>2. Head([i \in 1 .. Len(s) |-> s[(Len(s) - i) + 1]])
          = [i \in 1 .. Len(s) |-> s[(Len(s) - i) + 1]][1]
    BY <1>5, <2>1
  <2>3. [i \in 1 .. Len(s) |-> s[(Len(s) - i) + 1]][1] = s[Len(s)]
    BY <1>5
  <2>. QED
    BY <1>6, <2>2, <2>3
<1>8. s[Len(s)] \in T
  BY <1>3, <1>5
<1>. QED
  BY <1>3, <1>4, <1>7, <1>8 DEF ScriptAt

LEMMA WritesInvStep == Inv /\ WritesInv /\ [Next]_vars => WritesInv'
<1>. SUFFICES ASSUME Inv, WritesInv, [Next]_vars PROVE WritesInv'
  OBVIOUS
<1>1. CASE UNCHANGED vars
  BY <1>1, WriterWaits DEF WritesInv, vars, Running, Writer
<1>2. CASE Accept \/ AnswerPlainly \/ SkipWriter
  <2>1. ~Running /\ frames' = frames /\ tree' = tree /\ request' \in Requests
    BY <1>2 DEF Accept, AnswerPlainly, SkipWriter, Waiting, Inv, WritesInv
  <2>. QED
    BY <2>1 DEF WritesInv, Running
<1>3. CASE StartOnread
  <2>1. tree' = tree /\ request' = request /\ ~Writer
    BY <1>3 DEF StartOnread, Start, Writer
  <2>. QED
    BY <2>1 DEF WritesInv, Writer
<1>4. CASE StartOnwrite
  <2>1. tree' = tree /\ request' = request /\ fns' = {} /\ request.kind = "onwrite"
    BY <1>4 DEF StartOnwrite, Start
  <2>2. IsScript(request.script)
    BY <2>1, ScriptAssumption DEF WritesInv
  <2>3. WriterInv'
    BY <1>4, <2>1, <2>2, StartKeepsWriter DEF StartOnwrite
  <2>. QED
    BY <2>1, <2>3 DEF WritesInv
<1>5. CASE StartCallback
  <2>1. tree' = tree /\ request' = request /\ fns' = {} /\ ResolvesToScript(request.url)
    BY <1>5 DEF StartCallback, Start
  <2>2. IsScript(ScriptAt(request.url))
    BY <2>1, TextsAreScripts DEF WritesInv
  <2>3. WriterInv'
    BY <1>5, <2>1, <2>2, StartKeepsWriter DEF StartCallback
  <2>. QED
    BY <2>1, <2>3 DEF WritesInv
<1>6. CASE ReadItem \/ WriteCall \/ ReadNested \/ ReturnNested
  <2>1. Running /\ tree' = tree /\ request' = request /\ Writer' = Writer
    BY <1>6 DEF ReadItem, WriteCall, ReadNested, ReturnNested, Calling, Returns, Writer
  <2>2. CASE Writer
    <3>1. WriterInv
      BY <2>1, <2>2 DEF WritesInv
    <3>2. ~ReadNested
      BY <3>1 DEF ReadNested, Nests, WriterInv
    <3>3. ~ReturnNested
      BY <3>1 DEF ReturnNested, WriterInv
    <3>4. WriterInv'
      BY <1>6, <2>2, <3>1, <3>2, <3>3, ReadItemKeepsWriter, WriteCallKeepsWriter
    <3>. QED
      BY <2>1, <3>4 DEF WritesInv
  <2>3. CASE ~Writer
    BY <2>1, <2>3 DEF WritesInv
  <2>. QED
    BY <2>2, <2>3
<1>7. CASE ReturnOnread \/ ReturnWriter
  <2>1. frames' = <<>> /\ tree' = tree /\ request' = request
    BY <1>7 DEF ReturnOnread, ReturnWriter, EndOutermost
  <2>. QED
    BY <2>1 DEF WritesInv, Running
<1>. QED
  BY <1>1, <1>2, <1>3, <1>4, <1>5, <1>6, <1>7 DEF Next

\* A script that writes finds its own writes again: a read of a path under /value
\* gives what the last of its writes to the path that was accepted has written,
\* before any of them is made (js_odf_read_item, js_odf_write_item).
THEOREM WritersReadTheirWrites == Spec => []ReadsOwnWrites
<1>1. Init => WritesInv
  BY DEF Init, WritesInv, Running
<1>2. WritesInv => ReadsOwnWrites
  <2>. SUFFICES ASSUME WritesInv, Running, Writer,
                       NEW i \in DOMAIN Top.got,
                       Top.script.calls[i].do = "read", Stripped(Top.script.calls[i].path),
                       Accepted(Top.script.calls, Top.got,
                                Effective(Top.script.calls[i].path), i - 1) # {}
                PROVE  Top.got[i] = ToOmi(Top.script.calls[Max(Accepted(Top.script.calls, Top.got,
                                Effective(Top.script.calls[i].path), i - 1))].v)
    BY DEF ReadsOwnWrites, Accepted, Granted
  <2>1. IsSeq(Top.got) /\ ReadBack(Top.script.calls, Top.got)
    BY DEF WritesInv, WriterInv
  <2>2. i \in 1 .. Len(Top.got)
    BY <2>1, SeqParts
  <2>. QED
    BY <2>1, <2>2 DEF ReadBack
<1>. QED
  BY <1>1, <1>2, Invariance, WritesInvStep, PTL DEF Spec

-----------------------------------------------------------------------------
(* Rings and the sequences they stand for.                                 *)

\* Slots counted from h on, round a ring of c.
On(h, i, c) == (h + i) % c

LEMMA Wrapped ==
  ASSUME NEW c \in Nat \ {0}, NEW h \in 0 .. c - 1, NEW i \in 0 .. c
  PROVE  On(h, i, c) = IF h + i < c THEN h + i ELSE h + i - c
BY Z3 DEF On

\* A ring that moves its head on: the slot it leaves comes last, every other one
\* comes one place earlier, and no slot comes twice.
LEMMA MovedOn ==
  ASSUME NEW c \in Nat \ {0}, NEW h \in 0 .. c - 1
  PROVE  /\ On(h, 1, c) \in 0 .. c - 1 /\ On(h, c, c) = h
         /\ On(On(h, 1, c), c - 1, c) = h
         /\ \A i \in 1 .. c - 1 : On(On(h, 1, c), i - 1, c) = On(h, i, c)
<1>1. \A i \in 0 .. c : On(h, i, c) = IF h + i < c THEN h + i ELSE h + i - c
  BY Wrapped
<1>2. PICK k \in 0 .. c - 1 : k = On(h, 1, c)
  BY <1>1
<1>3. \A i \in 0 .. c : On(k, i, c) = IF k + i < c THEN k + i ELSE k + i - c
  BY Wrapped
<1>. QED
  BY <1>1, <1>2, <1>3

LEMMA SlotsApart ==
  ASSUME NEW c \in Nat \ {0}, NEW h \in 0 .. c - 1, NEW i \in 0 .. c - 1
  PROVE  /\ On(h, i, c) \in 0 .. c - 1
         /\ \A j \in 0 .. c - 1 : On(h, j, c) = On(h, i, c) => j = i
<1>1. \A j \in 0 .. c : On(h, j, c) = IF h + j < c THEN h + j ELSE h + j - c
  BY Wrapped
<1>. QED
  BY <1>1

LEMMA SlotsOf ==
  ASSUME NEW S, NEW s \in Seq(S), NEW n \in Nat, Len(s) = n
  PROVE  s \in [1 .. n -> S]
OBVIOUS

LEMMA Extended ==
  ASSUME NEW S, NEW n \in Nat, NEW f \in [1 .. n -> S], NEW g \in [1 .. n + 1 -> S],
         \A i \in 1 .. n : g[i] = f[i]
  PROVE  Len(f) = n /\ g = Append(f, g[n + 1])
<1>1. f \in Seq(S) /\ Len(f) = n
  OBVIOUS
<1>2. g \in Seq(S) /\ Len(g) = n + 1
  OBVIOUS
<1>3. Append(f, g[n + 1]) \in Seq(S) /\ Len(Append(f, g[n + 1])) = n + 1
  BY <1>1
<1>4. ASSUME NEW i \in 1 .. n + 1 PROVE g[i] = Append(f, g[n + 1])[i]
  BY <1>1, <1>4
<1>. QED
  BY <1>1, <1>2, <1>3, <1>4

LEMMA Shifted ==
  ASSUME NEW S, NEW n \in Nat \ {0}, NEW f \in [1 .. n -> S], NEW g \in [1 .. n -> S],
         \A i \in 1 .. n - 1 : g[i] = f[i + 1]
  PROVE  Len(f) = n /\ g = Append(Tail(f), g[n])
<1>1. f \in Seq(S) /\ Len(f) = n
  OBVIOUS
<1>2. g \in Seq(S) /\ Len(g) = n
  OBVIOUS
<1>3. Tail(f) \in Seq(S) /\ Len(Tail(f)) = n - 1 /\ \A i \in 1 .. n - 1 : Tail(f)[i] = f[i + 1]
  BY <1>1
<1>4. Append(Tail(f), g[n]) \in Seq(S) /\ Len(Append(Tail(f), g[n])) = n
  BY <1>3
<1>5. ASSUME NEW i \in 1 .. n PROVE g[i] = Append(Tail(f), g[n])[i]
  BY <1>3, <1>5
<1>. QED
  BY <1>1, <1>2, <1>4, <1>5

\* What a bounded queue of capacity c holds after v: f is what it held, of n values.
LEMMA QueueGrows ==
  ASSUME NEW S, NEW n \in Nat, NEW c \in Nat, n < c, NEW v,
         NEW f \in [1 .. n -> S], NEW g \in [1 .. n + 1 -> S],
         \A i \in 1 .. n : g[i] = f[i], g[n + 1] = v
  PROVE  g = IF Len(f) < c THEN Append(f, v) ELSE Append(Tail(f), v)
<1>1. Len(f) = n /\ g = Append(f, g[n + 1])
  BY Extended
<1>. QED
  BY <1>1

LEMMA QueueMoves ==
  ASSUME NEW S, NEW c \in Nat \ {0}, NEW v,
         NEW f \in [1 .. c -> S], NEW g \in [1 .. c -> S],
         \A i \in 1 .. c - 1 : g[i] = f[i + 1], g[c] = v
  PROVE  g = IF Len(f) < c THEN Append(f, v) ELSE Append(Tail(f), v)
<1>1. Len(f) = c /\ g = Append(Tail(f), g[c])
  BY Shifted
<1>. QED
  BY <1>1

-----------------------------------------------------------------------------
(* The poll buffer.                                                        *)

PollInv ==
  /\ pbuf \in [0 .. PollCapacity - 1 -> Value \cup {Blank}]
  /\ phead \in 0 .. PollCapacity - 1 /\ plen \in 0 .. PollCapacity

LEMMA PollHeld ==
  ASSUME PollInv
  PROVE  /\ Poll!Held \in [1 .. plen -> Value \cup {Blank}]
         /\ \A i \in 1 .. plen : Poll!Held[i] = pbuf[On(phead, i - 1, PollCapacity)]
<1>1. Poll!Held = [i \in 1 .. plen |-> pbuf[On(phead, i - 1, PollCapacity)]]
  BY DEF Poll!Held, Poll!SlotOf, On
<1>2. ASSUME NEW i \in 1 .. plen
      PROVE  pbuf[On(phead, i - 1, PollCapacity)] \in Value \cup {Blank}
  <2>1. On(phead, i - 1, PollCapacity) \in 0 .. PollCapacity - 1
    BY CapacityAssumption, SlotsApart DEF PollInv
  <2>. QED
    BY <2>1 DEF PollInv
<1>. QED
  BY <1>1, <1>2

LEMMA PollHeldNext == (PollInv => /\ Poll!Held \in [1 .. plen -> Value \cup {Blank}]
         /\ \A i \in 1 .. plen : Poll!Held[i] = pbuf[On(phead, i - 1, PollCapacity)])'
BY PollHeld, PTL

LEMMA PollPushes ==
  ASSUME PollInv, NEW v \in Value, Poll!Push(v)
  PROVE  /\ PollInv' /\ drained' = drained
         /\ Poll!Held' = Poll!Fifo!Kept(Poll!Held, v)
<1>. DEFINE c == PollCapacity
            last == On(phead, plen, c)
<1>1. c \in Nat \ {0}
  BY CapacityAssumption
<1>2. /\ pbuf \in [0 .. c - 1 -> Value \cup {Blank}]
      /\ phead \in 0 .. c - 1 /\ plen \in 0 .. c
  BY DEF PollInv
<1>3. last \in 0 .. c - 1
  <2>1. CASE plen = c
    BY <1>1, <1>2, <2>1, MovedOn
  <2>2. CASE plen \in 0 .. c - 1
    BY <1>1, <1>2, <2>2, SlotsApart
  <2>. QED
    BY <1>1, <1>2, <2>1, <2>2
<1>4. /\ pbuf' = [pbuf EXCEPT ![last] = v] /\ drained' = drained
      /\ \/ plen < c /\ plen' = plen + 1 /\ phead' = phead
         \/ plen >= c /\ phead' = On(phead, 1, c) /\ plen' = plen
  BY DEF Poll!Push, Poll!SlotOf, On
<1>. HIDE DEF last
<1>5. /\ pbuf' \in [0 .. c - 1 -> Value \cup {Blank}] /\ pbuf'[last] = v
      /\ \A s \in 0 .. c - 1 : s # last => pbuf'[s] = pbuf[s]
  BY <1>2, <1>3, <1>4
<1>6. phead' \in 0 .. c - 1 /\ plen' \in 0 .. c
  <2>1. On(phead, 1, c) \in 0 .. c - 1
    BY <1>1, <1>2, MovedOn
  <2>. QED
    BY <1>1, <1>2, <1>4, <2>1
<1>7. PollInv'
  BY <1>5, <1>6 DEF PollInv
<1>8. PICK f : f = Poll!Held
  OBVIOUS
<1>9. PICK g : g = Poll!Held'
  OBVIOUS
<1>10. /\ f \in [1 .. plen -> Value \cup {Blank}]
       /\ \A i \in 1 .. plen : f[i] = pbuf[On(phead, i - 1, c)]
  BY <1>8, PollHeld
<1>11. /\ g \in [1 .. plen' -> Value \cup {Blank}]
       /\ \A i \in 1 .. plen' : g[i] = pbuf'[On(phead', i - 1, c)]
  BY <1>7, <1>9, PollHeldNext
<1>12. CASE plen < c
  <2>1. plen' = plen + 1 /\ phead' = phead /\ plen \in 0 .. c - 1
    BY <1>1, <1>2, <1>4, <1>12
  <2>2. ASSUME NEW i \in 1 .. plen PROVE g[i] = f[i]
    <3>1. i - 1 \in 0 .. c - 1 /\ i - 1 # plen /\ i \in 1 .. plen'
      BY <1>1, <1>2, <2>1
    <3>2. On(phead, i - 1, c) \in 0 .. c - 1 /\ On(phead, i - 1, c) # On(phead, plen, c)
      BY <1>1, <1>2, <2>1, <3>1, SlotsApart
    <3>. QED
      BY <1>5, <1>10, <1>11, <2>1, <3>1, <3>2 DEF last
  <2>3. g[plen + 1] = v
    BY <1>2, <1>5, <1>11, <2>1 DEF last
  <2>4. g = IF Len(f) < c THEN Append(f, v) ELSE Append(Tail(f), v)
    BY <1>1, <1>10, <1>11, <2>1, <2>2, <2>3, QueueGrows
  <2>. QED
    BY <1>4, <1>7, <1>8, <1>9, <2>4 DEF Poll!Fifo!Kept
<1>13. CASE plen >= c
  <2>1. plen = c /\ plen' = c /\ phead' = On(phead, 1, c) /\ last = phead
    BY <1>1, <1>2, <1>4, <1>13, MovedOn DEF last
  <2>2. ASSUME NEW i \in 1 .. c - 1 PROVE g[i] = f[i + 1]
    <3>1. On(phead', i - 1, c) = On(phead, i, c)
      BY <1>1, <1>2, <2>1, MovedOn
    <3>2. On(phead, i, c) \in 0 .. c - 1 /\ On(phead, i, c) # last
      <4>1. On(phead, 0, c) = phead
        BY <1>1, <1>2, Wrapped
      <4>2. 0 \in 0 .. c - 1 /\ i \in 0 .. c - 1 /\ i # 0
        BY <1>1
      <4>3. On(phead, i, c) # On(phead, 0, c)
        BY <1>1, <1>2, <4>2, SlotsApart
      <4>. QED
        BY <1>1, <1>2, <2>1, <4>1, <4>2, <4>3, SlotsApart
    <3>3. i \in 1 .. c /\ i + 1 \in 1 .. c /\ (i + 1) - 1 = i
      BY <1>1
    <3>. QED
      BY <1>5, <1>10, <1>11, <2>1, <3>1, <3>2, <3>3
  <2>3. g[c] = v
    <3>1. On(phead', c - 1, c) = phead /\ c \in 1 .. plen'
      BY <1>1, <1>2, <2>1, MovedOn
    <3>. QED
      BY <1>5, <1>11, <2>1, <3>1
  <2>4. g = IF Len(f) < c THEN Append(f, v) ELSE Append(Tail(f), v)
    BY <1>1, <1>10, <1>11, <2>1, <2>2, <2>3, QueueMoves
  <2>. QED
    BY <1>4, <1>7, <1>8, <1>9, <2>4 DEF Poll!Fifo!Kept
<1>. QED
  BY <1>1, <1>2, <1>12, <1>13
-----------------------------------------------------------------------------
(* The history.                                                            *)

\* The ring grows from its first slot on; its head tells the oldest value only
\* once it is full.
HistoryInv ==
  /\ buf \in [1 .. len -> Value] /\ len \in 0 .. HistoryCapacity
  /\ head \in 0 .. HistoryCapacity - 1 /\ (len < HistoryCapacity => head = len)

Oldest(h, n) == IF n < HistoryCapacity THEN 0 ELSE h

LEMMA HistoryHeld ==
  ASSUME HistoryInv
  PROVE  /\ History!OldestToNewest \in [1 .. len -> Value]
         /\ \A i \in 1 .. len :
              History!OldestToNewest[i] = buf[On(Oldest(head, len), i - 1, HistoryCapacity) + 1]
<1>1. History!OldestToNewest
        = [i \in 1 .. len |-> buf[On(Oldest(head, len), i - 1, HistoryCapacity) + 1]]
  BY DEF History!OldestToNewest, History!Get, History!OldestIndex, On, Oldest
<1>2. ASSUME NEW i \in 1 .. len
      PROVE  buf[On(Oldest(head, len), i - 1, HistoryCapacity) + 1] \in Value
  <2>. DEFINE c == HistoryCapacity
  <2>1. c \in Nat \ {0} /\ Oldest(head, len) \in 0 .. c - 1 /\ i - 1 \in 0 .. c
    BY CapacityAssumption DEF HistoryInv, Oldest
  <2>2. On(Oldest(head, len), i - 1, c) \in 0 .. len - 1
    <3>1. CASE len < c
      <4>1. On(0, i - 1, c) = i - 1
        BY <2>1, <3>1, Wrapped DEF HistoryInv
      <4>. QED
        BY <3>1, <4>1 DEF HistoryInv, Oldest
    <3>2. CASE len = c
      <4>1. i - 1 \in 0 .. c - 1
        BY <2>1, <3>2
      <4>2. On(Oldest(head, len), i - 1, c) \in 0 .. c - 1
        BY <2>1, <4>1, SlotsApart
      <4>. QED
        BY <3>2, <4>2
    <3>. QED
      BY <2>1, <3>1, <3>2 DEF HistoryInv
  <2>3. On(Oldest(head, len), i - 1, c) + 1 \in 1 .. len
    BY <2>2 DEF HistoryInv
  <2>. QED
    BY <2>3 DEF HistoryInv
<1>. QED
  BY <1>1, <1>2

LEMMA HistoryHeldNext ==
  (HistoryInv =>
     /\ History!OldestToNewest \in [1 .. len -> Value]
     /\ \A i \in 1 .. len :
          History!OldestToNewest[i] = buf[On(Oldest(head, len), i - 1, HistoryCapacity) + 1])'
BY HistoryHeld, PTL

LEMMA HistoryPushes ==
  ASSUME HistoryInv, NEW v \in Value, History!Push(v)
  PROVE  /\ HistoryInv' /\ len' \in 1 .. HistoryCapacity
         /\ History!OldestToNewest'[len'] = v
         /\ History!OldestToNewest' = History!Fifo!Kept(History!OldestToNewest, v)
<1>. DEFINE c == HistoryCapacity
<1>1. c \in Nat \ {0}
  BY CapacityAssumption
<1>2. /\ buf \in [1 .. len -> Value] /\ len \in 0 .. c
      /\ head \in 0 .. c - 1 /\ (len < c => head = len)
  BY DEF HistoryInv
<1>3. PICK f : f = History!OldestToNewest
  OBVIOUS
<1>4. PICK g : g = History!OldestToNewest'
  OBVIOUS
<1>5. /\ f \in [1 .. len -> Value]
      /\ \A i \in 1 .. len : f[i] = buf[On(Oldest(head, len), i - 1, c) + 1]
  BY <1>3, HistoryHeld
<1>6. HistoryInv' => /\ g \in [1 .. len' -> Value]
                     /\ \A i \in 1 .. len' : g[i] = buf'[On(Oldest(head', len'), i - 1, c) + 1]
  BY <1>4, HistoryHeldNext
<1>7. CASE len < c
  <2>1. buf' = Append(buf, v) /\ len' = len + 1 /\ head' = On(len, 1, c)
    BY <1>1, <1>2, <1>7 DEF History!Push, On
  <2>2. /\ buf' \in [1 .. len + 1 -> Value] /\ buf'[len + 1] = v
        /\ \A i \in 1 .. len : buf'[i] = buf[i]
    <3>1. buf \in Seq(Value) /\ Len(buf) = len
      BY <1>2
    <3>2. /\ Append(buf, v) \in Seq(Value) /\ Len(Append(buf, v)) = len + 1
          /\ Append(buf, v)[len + 1] = v /\ \A i \in 1 .. len : Append(buf, v)[i] = buf[i]
      BY <1>2, <3>1
    <3>3. buf' \in [1 .. len + 1 -> Value]
      <4>1. PICK t, n : t = Append(buf, v) /\ n = len + 1
        OBVIOUS
      <4>2. t \in Seq(Value) /\ Len(t) = n /\ n \in Nat
        BY <1>2, <3>2, <4>1
      <4>. QED
        BY <2>1, <4>1, <4>2, SlotsOf
    <3>. QED
      BY <1>2, <2>1, <3>2, <3>3
  <2>3. len \in 0 .. c - 1 /\ (len + 1 < c => On(len, 1, c) = len + 1)
    BY <1>1, <1>2, <1>7, Wrapped
  <2>4. On(len, 1, c) \in 0 .. c - 1
    BY <1>1, <2>3, MovedOn
  <2>5. HistoryInv' /\ len' \in 1 .. c
    BY <1>1, <2>1, <2>2, <2>3, <2>4 DEF HistoryInv
  <2>6. Oldest(head, len) = 0 /\ Oldest(head', len') = 0
    <3>1. len + 1 = c => On(len, 1, c) = 0
      BY <1>1, <2>3, Wrapped
    <3>. QED
      BY <1>1, <1>2, <1>7, <2>1, <2>3, <3>1 DEF Oldest
  <2>7. \A i \in 1 .. len + 1 : On(0, i - 1, c) + 1 = i
    <3>. SUFFICES ASSUME NEW i \in 1 .. len + 1 PROVE On(0, i - 1, c) + 1 = i
      OBVIOUS
    <3>1. On(0, i - 1, c) = i - 1
      BY <1>1, <2>3, Wrapped
    <3>. QED
      BY <2>3, <3>1
  <2>8. /\ g \in [1 .. len + 1 -> Value] /\ g[len + 1] = v
        /\ \A i \in 1 .. len : g[i] = f[i]
    <3>1. /\ g \in [1 .. len + 1 -> Value]
          /\ \A i \in 1 .. len + 1 : g[i] = buf'[i]
      <4>1. /\ g \in [1 .. len + 1 -> Value]
            /\ \A i \in 1 .. len + 1 : g[i] = buf'[On(0, i - 1, c) + 1]
        <5>1. len' = len + 1 /\ Oldest(head', len') = 0
          BY <2>1, <2>6
        <5>. QED
          BY <1>6, <2>5, <5>1
      <4>. QED
        BY <2>7, <4>1
    <3>2. \A i \in 1 .. len : f[i] = buf[i]
      BY <1>2, <1>5, <2>6, <2>7
    <3>. QED
      BY <1>2, <2>2, <3>1, <3>2
  <2>9. g = IF Len(f) < c THEN Append(f, v) ELSE Append(Tail(f), v)
    BY <1>1, <1>5, <1>7, <2>3, <2>8, QueueGrows
  <2>. QED
    BY <1>3, <1>4, <2>1, <2>5, <2>8, <2>9 DEF History!Fifo!Kept
<1>8. CASE len >= c
  <2>1. /\ buf' = [buf EXCEPT ![head + 1] = v] /\ len' = len /\ len = c
        /\ head' = On(head, 1, c)
    BY <1>1, <1>2, <1>8 DEF History!Push, On
  <2>2. /\ buf' \in [1 .. c -> Value] /\ buf'[head + 1] = v
        /\ \A s \in 1 .. c : s # head + 1 => buf'[s] = buf[s]
    BY <1>1, <1>2, <2>1
  <2>3. HistoryInv' /\ len' \in 1 .. c
    <3>1. head' \in 0 .. c - 1
      BY <1>1, <1>2, <2>1, MovedOn
    <3>. QED
      BY <1>1, <2>1, <2>2, <3>1 DEF HistoryInv
  <2>4. /\ \A i \in 1 .. c : f[i] = buf[On(head, i - 1, c) + 1]
        /\ g \in [1 .. c -> Value] /\ \A i \in 1 .. c : g[i] = buf'[On(head', i - 1, c) + 1]
    BY <1>5, <1>6, <2>1, <2>3 DEF Oldest
  <2>5. ASSUME NEW i \in 1 .. c - 1 PROVE g[i] = f[i + 1]
    <3>1. On(head', i - 1, c) = On(head, i, c)
      BY <1>1, <1>2, <2>1, MovedOn
    <3>2. On(head, i, c) \in 0 .. c - 1 /\ On(head, i, c) # head
      <4>1. On(head, 0, c) = head
        BY <1>1, <1>2, Wrapped
      <4>2. 0 \in 0 .. c - 1 /\ i \in 0 .. c - 1 /\ i # 0
        BY <1>1
      <4>3. On(head, i, c) # On(head, 0, c)
        BY <1>1, <1>2, <4>2, SlotsApart
      <4>. QED
        BY <1>1, <1>2, <4>1, <4>2, <4>3, SlotsApart
    <3>3. PICK s \in 0 .. c - 1 : s = On(head, i, c)
      BY <3>2
    <3>4. buf'[s + 1] = buf[s + 1]
      BY <1>1, <1>2, <2>2, <3>2, <3>3
    <3>5. i \in 1 .. c /\ i + 1 \in 1 .. c /\ (i + 1) - 1 = i
      BY <1>1
    <3>. QED
      BY <2>4, <3>1, <3>3, <3>4, <3>5
  <2>6. g[c] = v
    <3>1. On(head', c - 1, c) = head /\ c \in 1 .. c
      BY <1>1, <1>2, <2>1, MovedOn
    <3>. QED
      BY <2>2, <2>4, <3>1
  <2>7. g = IF Len(f) < c THEN Append(f, v) ELSE Append(Tail(f), v)
    BY <1>1, <1>5, <2>1, <2>4, <2>5, <2>6, QueueMoves
  <2>. QED
    BY <1>3, <1>4, <2>1, <2>3, <2>6, <2>7 DEF History!Fifo!Kept
<1>. QED
  BY <1>1, <1>2, <1>7, <1>8

-----------------------------------------------------------------------------
(* Both rings.                                                             *)

FlowInv == HistoryInv /\ PollInv

\* The newest value of the item is what its subscriber is given.
LEMMA NewestIsNotified ==
  ASSUME HistoryInv, len \in 1 .. HistoryCapacity
  PROVE  Notified[1] = History!OldestToNewest[len]
<1>1. PICK f : f = History!OldestToNewest
  OBVIOUS
<1>2. f \in [1 .. len -> Value] /\ len \in Nat \ {0}
  BY <1>1, HistoryHeld, CapacityAssumption
<1>3. f \in Seq(Value) /\ Len(f) = len
  BY <1>2
<1>4. PICK r : r = History!Limited(f, 1, NotGiven)
  OBVIOUS
<1>5. r = SubSeq(f, (IF Len(f) > 1 THEN Len(f) - 1 ELSE 0) + 1, Len(f))
  <2>1. NotGiven # 1
    BY CapacityAssumption
  <2>. QED
    BY <1>4, <2>1 DEF History!Limited
<1>6. r = SubSeq(f, len, len)
  BY <1>2, <1>3, <1>5
<1>7. Len(r) = 1 /\ r[1] = f[len]
  BY <1>2, <1>3, <1>6
<1>8. Notified = History!NewestFirst(r)
  BY <1>1, <1>4 DEF Notified, History!QueryResult
<1>9. History!NewestFirst(r)[1] = r[1]
  BY <1>7 DEF History!NewestFirst
<1>. QED
  BY <1>1, <1>7, <1>8, <1>9

LEMMA NewestIsNotifiedNext ==
  (HistoryInv /\ len \in 1 .. HistoryCapacity => Notified[1] = History!OldestToNewest[len])'
BY NewestIsNotified, PTL

LEMMA WritePushes ==
  ASSUME FlowInv, NEW v \in Value, Write(v)
  PROVE  /\ FlowInv' /\ drained' = drained
         /\ History!OldestToNewest' = History!Fifo!Kept(History!OldestToNewest, v)
         /\ Poll!Held' = Poll!Fifo!Kept(Poll!Held, v)
<1>1. /\ HistoryInv' /\ len' \in 1 .. HistoryCapacity
      /\ History!OldestToNewest'[len'] = v
      /\ History!OldestToNewest' = History!Fifo!Kept(History!OldestToNewest, v)
  BY HistoryPushes DEF FlowInv, Write
<1>2. Notified'[1] = v
  BY <1>1, NewestIsNotifiedNext
<1>3. Poll!Push(v)
  BY <1>2 DEF Write
<1>. QED
  BY <1>1, <1>3, PollPushes DEF FlowInv

LEMMA PollReadDrains ==
  ASSUME FlowInv, PollRead
  PROVE  /\ FlowInv' /\ UNCHANGED <<buf, head, len>>
         /\ drained' = Poll!Held /\ Poll!Held' = <<>>
<1>1. /\ UNCHANGED <<buf, head, len>> /\ drained' = Poll!Held
      /\ phead' = 0 /\ plen' = 0 /\ pbuf' = pbuf
  BY DEF PollRead, Poll!Drain
<1>2. HistoryInv'
  BY <1>1 DEF FlowInv, HistoryInv
<1>3. PollInv'
  BY <1>1, CapacityAssumption DEF FlowInv, PollInv
<1>4. Poll!Held' \in [1 .. 0 -> Value \cup {Blank}]
  BY <1>1, <1>3, PollHeldNext
<1>5. Poll!Held' = <<>>
  BY <1>4
<1>. QED
  BY <1>1, <1>2, <1>3, <1>5 DEF FlowInv

LEMMA FlowInvInit == FlowInit => FlowInv /\ History!OldestToNewest = <<>> /\ Poll!Held = <<>>
                                 /\ drained = <<>>
<1>. SUFFICES ASSUME FlowInit
              PROVE  FlowInv /\ History!OldestToNewest = <<>> /\ Poll!Held = <<>>
                     /\ drained = <<>>
  OBVIOUS
<1>1. buf = <<>> /\ head = 0 /\ len = 0 /\ phead = 0 /\ plen = 0 /\ drained = <<>>
  BY DEF FlowInit, History!Init, Poll!Init
<1>2. pbuf = [s \in 0 .. PollCapacity - 1 |-> Blank]
  BY DEF FlowInit, Poll!Init, Poll!Slot
<1>3. HistoryInv
  BY <1>1, CapacityAssumption DEF HistoryInv
<1>4. PollInv
  BY <1>1, <1>2, CapacityAssumption DEF PollInv
<1>5. History!OldestToNewest \in [1 .. 0 -> Value]
  BY <1>1, <1>3, HistoryHeld
<1>6. Poll!Held \in [1 .. 0 -> Value \cup {Blank}]
  BY <1>1, <1>4, PollHeld
<1>. QED
  BY <1>1, <1>3, <1>4, <1>5, <1>6 DEF FlowInv

LEMMA FlowInvStep == FlowInv /\ [FlowNext]_flowVars => FlowInv'
<1>. SUFFICES ASSUME FlowInv, [FlowNext]_flowVars PROVE FlowInv'
  OBVIOUS
<1>1. CASE UNCHANGED flowVars
  BY <1>1 DEF FlowInv, HistoryInv, PollInv, flowVars
<1>. QED
  BY <1>1, WritePushes, PollReadDrains DEF FlowNext

LEMMA FlowInvariance == FlowSpec => []FlowInv
BY FlowInvInit, FlowInvStep, PTL DEF FlowSpec

\* The history of an item keeps the last values written to it, in order, as many
\* as it has room for, from its first write on (RingBuffer, value.rs:43-101).
THEOREM HistoryImplementsFifo == FlowSpec => HistoryIsFifo
<1>1. FlowInit => History!Fifo!Init
  BY FlowInvInit DEF History!Fifo!Init
<1>2. FlowInv /\ [FlowNext]_flowVars => [History!Fifo!Next]_(History!Fifo!fifoVars)
  <2>. SUFFICES ASSUME FlowInv, [FlowNext]_flowVars
                PROVE  \/ \E v \in Value : History!Fifo!Push(v)
                       \/ History!OldestToNewest' = History!OldestToNewest
    BY DEF History!Fifo!Next, History!Fifo!fifoVars
  <2>1. CASE \E v \in Value : Write(v)
    BY <2>1, WritePushes DEF History!Fifo!Push
  <2>2. CASE UNCHANGED <<buf, head, len>>
    BY <2>2 DEF History!OldestToNewest, History!Get, History!OldestIndex
  <2>. QED
    BY <2>1, <2>2, PollReadDrains DEF FlowNext, flowVars
<1>. QED
  BY <1>1, <1>2, FlowInvariance, PTL DEF FlowSpec, HistoryIsFifo, History!Fifo!Spec

\* A poll hands over the last values written since the poll before, in order, as
\* many as the buffer has room for (PollBuffer, subscriptions.rs:87-133).
THEOREM PollImplementsFifo == FlowSpec => PollIsFifo
<1>1. FlowInit => Poll!Fifo!Init
  BY FlowInvInit DEF Poll!Fifo!Init
<1>2. FlowInv /\ [FlowNext]_flowVars => [Poll!Fifo!Next]_(Poll!Fifo!fifoVars)
  <2>. SUFFICES ASSUME FlowInv, [FlowNext]_flowVars
                PROVE  \/ Poll!Fifo!Drain \/ \E v \in Value : Poll!Fifo!Push(v)
                       \/ UNCHANGED <<Poll!Held, drained>>
    BY DEF Poll!Fifo!Next, Poll!Fifo!fifoVars
  <2>1. CASE \E v \in Value : Write(v)
    BY <2>1, WritePushes DEF Poll!Fifo!Push
  <2>2. CASE PollRead
    BY <2>2, PollReadDrains DEF Poll!Fifo!Drain
  <2>3. CASE UNCHANGED flowVars
    BY <2>3 DEF Poll!Held, Poll!SlotOf, flowVars
  <2>. QED
    BY <2>1, <2>2, <2>3 DEF FlowNext
<1>. QED
  BY <1>1, <1>2, FlowInvariance, PTL DEF FlowSpec, PollIsFifo, Poll!Fifo!Spec

-----------------------------------------------------------------------------
(* Queries.                                                                *)

\* What holds before the first place, and after each place if it held before it,
\* holds after the last.
LEMMA EveryPlace ==
  ASSUME NEW n \in Nat, NEW S \in SUBSET (0 .. n), 0 \in S,
         \A k \in 0 .. n - 1 : k \in S => k + 1 \in S
  PROVE  S = 0 .. n
<1>. DEFINE T == {i \in 1 .. n : n + 1 - i \notin S}
<1>1. CASE T = {}
  <2>. SUFFICES ASSUME NEW k \in 0 .. n, k # 0 PROVE k \in S
    OBVIOUS
  <2>1. n + 1 - k \in 1 .. n /\ n + 1 - (n + 1 - k) = k
    OBVIOUS
  <2>. QED
    BY <1>1, <2>1
<1>2. CASE T # {}
  <2>1. PICK m \in T : \A x \in T : m >= x
    <3>1. T \in SUBSET (1 .. n)
      OBVIOUS
    <3>. HIDE DEF T
    <3>. QED
      BY <1>2, <3>1, LastPlace
  <2>2. m \in 1 .. n /\ n + 1 - m \in 1 .. n /\ n + 1 - m \notin S
    OBVIOUS
  <2>3. n - m \in 0 .. n - 1 /\ (n - m) + 1 = n + 1 - m
    BY <2>2
  <2>4. n - m \notin S
    BY <2>2, <2>3
  <2>5. n - m # 0
    BY <2>4
  <2>6. m + 1 \in 1 .. n /\ n + 1 - (m + 1) = n - m
    BY <2>2, <2>3, <2>5
  <2>7. m + 1 \in T
    BY <2>4, <2>6
  <2>. QED
    BY <2>1, <2>2, <2>7
<1>. QED
  BY <1>1, <1>2

\* g lists the numbers in S, of which there are m, in ascending order.
Lists(g, S, m) ==
  /\ S \subseteq Nat /\ m \in Nat /\ g \in [1 .. m -> S]
  /\ \A a, b \in 1 .. m : a < b => g[a] < g[b]
  /\ \A i \in S : \E a \in 1 .. m : g[a] = i

AfterIn(S, i) == Cardinality({j \in S : j > i})
BeforeIn(S, i) == Cardinality({j \in S : j < i})

\* The values of s at the places in S, latest first.
LatestOf(s, S) ==
  [k \in 1 .. Cardinality(S) |-> s[CHOOSE i \in S : AfterIn(S, i) = k - 1]]

\* The places of s whose values are in the window.
Windowed(s, begin, end) == {i \in 1 .. Len(s) : History!InWindow(s[i], begin, end)}

LEMMA ListedCard ==
  ASSUME NEW g, NEW S, NEW m, Lists(g, S, m)
  PROVE  Cardinality(S) = m
<1>1. m \in Nat /\ g \in [1 .. m -> S] /\ S \subseteq Nat
  BY DEF Lists
<1>2. \A a, b \in 1 .. m : g[a] = g[b] => a = b
  <2>. SUFFICES ASSUME NEW a \in 1 .. m, NEW b \in 1 .. m, a < b, g[a] = g[b] PROVE FALSE
    BY <1>1
  <2>1. g[a] < g[b] /\ g[a] \in Nat
    BY <1>1 DEF Lists
  <2>. QED
    BY <2>1
<1>3. g \in Injection(1 .. m, S)
  BY <1>1, <1>2 DEF Injection, IsInjective
<1>4. g \in Surjection(1 .. m, S)
  BY <1>1 DEF Surjection, Lists
<1>5. ExistsBijection(1 .. m, S)
  BY <1>3, <1>4 DEF ExistsBijection, Bijection
<1>. QED
  BY <1>1, <1>5, FS_CountingElements

\* The n numbers of the list that follow its first a.
LEMMA ListedPart ==
  ASSUME NEW g, NEW S, NEW m, Lists(g, S, m), NEW a \in Nat, NEW n \in Nat, a + n <= m,
         NEW T \in SUBSET S, \A i \in 1 .. m : (g[i] \in T) <=> (a < i /\ i <= a + n)
  PROVE  Lists([i \in 1 .. n |-> g[a + i]], T, n)
<1>. DEFINE h == [i \in 1 .. n |-> g[a + i]]
<1>1. m \in Nat /\ g \in [1 .. m -> S] /\ S \subseteq Nat
      /\ \A x, y \in 1 .. m : x < y => g[x] < g[y]
  BY DEF Lists
<1>2. \A i \in 1 .. n : a + i \in 1 .. m /\ h[i] = g[a + i] /\ h[i] \in T
  BY <1>1
<1>3. h \in [1 .. n -> T]
  BY <1>2
<1>4. \A x, y \in 1 .. n : x < y => h[x] < h[y]
  <2>. SUFFICES ASSUME NEW x \in 1 .. n, NEW y \in 1 .. n, x < y PROVE h[x] < h[y]
    OBVIOUS
  <2>1. a + x \in 1 .. m /\ a + y \in 1 .. m /\ a + x < a + y
    BY <1>1
  <2>. QED
    BY <1>1, <1>2, <2>1
<1>5. ASSUME NEW t \in T PROVE \E i \in 1 .. n : h[i] = t
  <2>1. PICK i \in 1 .. m : g[i] = t
    BY DEF Lists
  <2>2. a < i /\ i <= a + n
    BY <2>1
  <2>3. i - a \in 1 .. n /\ a + (i - a) = i
    BY <1>1, <2>2
  <2>. QED
    BY <1>2, <2>1, <2>3
<1>. HIDE DEF h
<1>6. Lists(h, T, n)
  BY <1>1, <1>3, <1>4, <1>5 DEF Lists
<1>. QED
  BY <1>6 DEF h

\* How many numbers of the set are after, and before, the k-th one.
LEMMA ListedCounts ==
  ASSUME NEW g, NEW S, NEW m, Lists(g, S, m), NEW k \in 1 .. m
  PROVE  AfterIn(S, g[k]) = m - k /\ BeforeIn(S, g[k]) = k - 1
<1>1. m \in Nat /\ g \in [1 .. m -> Nat] /\ S \subseteq Nat
      /\ \A x, y \in 1 .. m : x < y => g[x] < g[y]
  BY DEF Lists
<1>2. \A i \in 1 .. m : g[i] \in S
  BY DEF Lists
<1>3. \A i \in 1 .. m : (g[i] > g[k] <=> i > k) /\ (g[i] < g[k] <=> i < k)
  <2>. SUFFICES ASSUME NEW i \in 1 .. m
                PROVE  (g[i] > g[k] <=> i > k) /\ (g[i] < g[k] <=> i < k)
    OBVIOUS
  <2>1. g[i] \in Nat /\ g[k] \in Nat
    BY <1>1
  <2>2. (i < k => g[i] < g[k]) /\ (k < i => g[k] < g[i]) /\ (i = k => g[i] = g[k])
    BY <1>1
  <2>3. i < k \/ k < i \/ i = k
    OBVIOUS
  <2>. QED
    BY <2>1, <2>2, <2>3
<1>4. Cardinality({j \in S : j > g[k]}) = m - k
  <2>. DEFINE T == {j \in S : j > g[k]}
  <2>1. k \in Nat /\ m - k \in Nat /\ k + (m - k) <= m /\ T \in SUBSET S
    BY <1>1
  <2>2. \A i \in 1 .. m : (g[i] \in T) <=> (k < i /\ i <= k + (m - k))
    BY <1>1, <1>2, <1>3
  <2>. HIDE DEF T
  <2>3. Lists([i \in 1 .. m - k |-> g[k + i]], T, m - k)
    BY <2>1, <2>2, ListedPart
  <2>4. Cardinality(T) = m - k
    BY <2>3, ListedCard
  <2>. QED
    BY <2>4 DEF T
<1>5. Cardinality({j \in S : j < g[k]}) = k - 1
  <2>. DEFINE T == {j \in S : j < g[k]}
  <2>1. 0 \in Nat /\ k - 1 \in Nat /\ 0 + (k - 1) <= m /\ T \in SUBSET S
    BY <1>1
  <2>2. \A i \in 1 .. m : (g[i] \in T) <=> (0 < i /\ i <= 0 + (k - 1))
    BY <1>1, <1>2, <1>3
  <2>. HIDE DEF T
  <2>3. Lists([i \in 1 .. k - 1 |-> g[0 + i]], T, k - 1)
    BY <2>1, <2>2, ListedPart
  <2>4. Cardinality(T) = k - 1
    BY <2>3, ListedCard
  <2>. QED
    BY <2>4 DEF T
<1>. QED
  BY <1>4, <1>5 DEF AfterIn, BeforeIn

\* What the promise picks for place k is the k-th number from the end.
LEMMA LatestFirst ==
  ASSUME NEW g, NEW S, NEW m, Lists(g, S, m), NEW s
  PROVE  LatestOf(s, S) = [k \in 1 .. m |-> s[g[m + 1 - k]]]
<1>. DEFINE pick(k) == CHOOSE i \in S : AfterIn(S, i) = k - 1
<1>1. m \in Nat /\ g \in [1 .. m -> S] /\ Cardinality(S) = m
  BY ListedCard DEF Lists
<1>2. ASSUME NEW k \in 1 .. m
      PROVE  pick(k) = g[m + 1 - k]
  <2>1. m + 1 - k \in 1 .. m
    BY <1>1
  <2>2. \A a \in 1 .. m : AfterIn(S, g[a]) = m - a
    BY ListedCounts
  <2>3. AfterIn(S, g[m + 1 - k]) = k - 1 /\ g[m + 1 - k] \in S
    BY <1>1, <2>1, <2>2
  <2>4. ASSUME NEW i \in S, AfterIn(S, i) = k - 1 PROVE i = g[m + 1 - k]
    <3>1. PICK a \in 1 .. m : g[a] = i
      BY DEF Lists
    <3>2. m - a = k - 1
      BY <2>2, <2>4, <3>1
    <3>3. a = m + 1 - k
      BY <1>1, <3>2
    <3>. QED
      BY <3>1, <3>3
  <2>. QED
    BY <2>3, <2>4
<1>. HIDE DEF pick
<1>3. [k \in 1 .. Cardinality(S) |-> s[pick(k)]] = [k \in 1 .. m |-> s[g[m + 1 - k]]]
  BY <1>1, <1>2
<1>. QED
  BY <1>3 DEF pick, LatestOf

\* retain keeps the values in the window, at the places they are found at.
LEMMA RetainedLists ==
  ASSUME NEW V, NEW s \in Seq(V), NEW begin, NEW end
  PROVE  LET r == History!Retained(s, begin, end)
         IN /\ r \in Seq(V)
            /\ \E g : /\ Lists(g, Windowed(s, begin, end), Len(r))
                      /\ \A k \in 1 .. Len(r) : r[k] = s[g[k]]
<1>. DEFINE L == Len(s)
            in(i) == History!InWindow(s[i], begin, end)
            body(f, n) == IF n = 0 THEN <<>>
                          ELSE IF History!InWindow(s[n], begin, end) THEN Append(f[n - 1], s[n])
                          ELSE f[n - 1]
            F == [0 .. L -> Seq(V)]
            kept == CHOOSE f : f = [n \in 0 .. L |-> body(f, n)]
<1>1. L \in Nat /\ \A n \in 1 .. L : s[n] \in V
  OBVIOUS
<1>2. \E f : f = [n \in 0 .. L |-> body(f, n)]
  <2>. DEFINE part(f, n) == f \in [0 .. n -> Seq(V)] /\ \A k \in 0 .. n : f[k] = body(f, k)
              S == {n \in 0 .. L : \E f : part(f, n)}
  <2>1. part([k \in 0 .. 0 |-> <<>>], 0)
    OBVIOUS
  <2>2. 0 \in S
    <3>1. \E f : part(f, 0)
      BY <2>1
    <3>. HIDE DEF part
    <3>. QED
      BY <1>1, <3>1
  <2>3. ASSUME NEW n \in 0 .. L - 1, n \in S PROVE n + 1 \in S
    <3>1. PICK f : part(f, n)
      BY <2>3
    <3>2. n + 1 \in 1 .. L /\ n + 1 \in 0 .. L /\ (n + 1) - 1 = n /\ n \in Nat
      BY <1>1
    <3>3. f[n] \in Seq(V) /\ s[n + 1] \in V
      BY <1>1, <3>1, <3>2
    <3>4. PICK next : next = IF in(n + 1) THEN Append(f[n], s[n + 1]) ELSE f[n]
      OBVIOUS
    <3>5. next \in Seq(V)
      BY <3>3, <3>4
    <3>. DEFINE h == [k \in 0 .. n + 1 |-> IF k = n + 1 THEN next ELSE f[k]]
    <3>6. h \in [0 .. n + 1 -> Seq(V)]
      BY <3>1, <3>2, <3>5
    <3>7. ASSUME NEW k \in 0 .. n + 1 PROVE h[k] = body(h, k)
      <4>1. CASE k = n + 1
        <5>1. h[k] = next /\ h[k - 1] = f[n] /\ k # 0
          BY <3>2, <4>1
        <5>. QED
          BY <3>2, <3>4, <4>1, <5>1
      <4>2. CASE k # n + 1 /\ k # 0
        <5>1. k \in 0 .. n /\ k - 1 \in 0 .. n /\ k - 1 # n + 1 /\ k - 1 \in 0 .. n + 1
          BY <3>2, <4>2
        <5>2. h[k] = f[k] /\ h[k - 1] = f[k - 1] /\ f[k] = body(f, k)
          BY <3>1, <4>2, <5>1
        <5>. QED
          BY <4>2, <5>2
      <4>3. CASE k = 0
        <5>1. k \in 0 .. n /\ k # n + 1
          BY <3>2, <4>3
        <5>2. h[k] = f[k] /\ f[k] = <<>>
          BY <3>1, <4>3, <5>1
        <5>. QED
          BY <4>3, <5>2
      <4>. QED
        BY <4>1, <4>2, <4>3
    <3>8. part(h, n + 1)
      BY <3>6, <3>7
    <3>. HIDE DEF part, h
    <3>. QED
      BY <3>2, <3>8
  <2>4. S \in SUBSET (0 .. L)
    OBVIOUS
  <2>5. S = 0 .. L
    <3>. HIDE DEF S
    <3>. QED
      BY <1>1, <2>2, <2>3, <2>4, EveryPlace
  <2>6. L \in S
    <3>. HIDE DEF S
    <3>. QED
      BY <1>1, <2>5
  <2>7. PICK f : part(f, L)
    BY <2>6
  <2>8. f = [n \in 0 .. L |-> body(f, n)]
    BY <2>7
  <2>. QED
    BY <2>8
<1>3. kept = [n \in 0 .. L |-> body(kept, n)]
  BY <1>2
<1>4. History!Retained(s, begin, end) = kept[L]
  BY DEF History!Retained
<1>. HIDE DEF kept
\* After n values, what is kept lists those of the first n in the window.
<1>. DEFINE upTo(n) == {i \in 1 .. n : in(i)}
            right(r, n) == /\ r \in Seq(V)
                           /\ \E g : /\ Lists(g, upTo(n), Len(r))
                                     /\ \A k \in 1 .. Len(r) : r[k] = s[g[k]]
            R == {n \in 0 .. L : right(kept[n], n)}
<1>5. 0 \in R
  <2>1. kept[0] = <<>>
    BY <1>1, <1>3
  <2>2. upTo(0) = {}
    OBVIOUS
  <2>3. PICK g : g \in [1 .. 0 -> {}]
    <3>1. [i \in 1 .. 0 |-> i] \in [1 .. 0 -> {}]
      OBVIOUS
    <3>. QED
      BY <3>1
  <2>4. Lists(g, {}, 0)
    BY <2>3 DEF Lists
  <2>5. right(<<>>, 0)
    BY <2>2, <2>4
  <2>. HIDE DEF right
  <2>. QED
    BY <1>1, <2>1, <2>5
<1>6. ASSUME NEW n \in 0 .. L - 1, n \in R PROVE n + 1 \in R
  <2>1. n + 1 \in 1 .. L /\ n + 1 \in 0 .. L /\ (n + 1) - 1 = n /\ n \in Nat /\ n + 1 # 0
    BY <1>1
  <2>2. PICK r : r = kept[n]
    OBVIOUS
  <2>3. kept[n + 1] = IF in(n + 1) THEN Append(r, s[n + 1]) ELSE r
    BY <1>3, <2>1, <2>2
  <2>4. r \in Seq(V) /\ Len(r) \in Nat
    BY <1>6, <2>2
  <2>5. PICK g : Lists(g, upTo(n), Len(r)) /\ \A k \in 1 .. Len(r) : r[k] = s[g[k]]
    BY <1>6, <2>2
  <2>6. CASE ~in(n + 1)
    <3>1. upTo(n + 1) = upTo(n)
      BY <2>1, <2>6
    <3>. HIDE DEF upTo, in
    <3>. QED
      BY <2>1, <2>3, <2>4, <2>5, <2>6, <3>1
  <2>7. CASE in(n + 1)
    <3>. DEFINE m == Len(r)
                h == [k \in 1 .. m + 1 |-> IF k = m + 1 THEN n + 1 ELSE g[k]]
    <3>1. upTo(n + 1) = upTo(n) \cup {n + 1}
      BY <2>1, <2>7
    <3>2. upTo(n) \subseteq 1 .. n
      OBVIOUS
    <3>. HIDE DEF upTo, in
    <3>3. g \in [1 .. m -> upTo(n)] /\ (\A a, b \in 1 .. m : a < b => g[a] < g[b])
          /\ \A i \in upTo(n) : \E a \in 1 .. m : g[a] = i
      BY <2>5 DEF Lists
    <3>4. h \in [1 .. m + 1 -> upTo(n + 1)]
      BY <2>4, <3>1, <3>3
    <3>5. \A a, b \in 1 .. m + 1 : a < b => h[a] < h[b]
      <4>. SUFFICES ASSUME NEW a \in 1 .. m + 1, NEW b \in 1 .. m + 1, a < b
                    PROVE  h[a] < h[b]
        OBVIOUS
      <4>1. a \in 1 .. m /\ h[a] = g[a] /\ g[a] \in 1 .. n
        BY <2>4, <3>2, <3>3
      <4>2. CASE b = m + 1
        BY <2>1, <4>1, <4>2
      <4>3. CASE b # m + 1
        <5>1. b \in 1 .. m /\ h[b] = g[b]
          BY <2>4, <4>3
        <5>. QED
          BY <3>3, <4>1, <5>1
      <4>. QED
        BY <4>2, <4>3
    <3>6. ASSUME NEW i \in upTo(n + 1) PROVE \E a \in 1 .. m + 1 : h[a] = i
      <4>1. CASE i = n + 1
        <5>1. m + 1 \in 1 .. m + 1 /\ h[m + 1] = i
          BY <2>4, <4>1
        <5>. QED
          BY <5>1
      <4>2. CASE i # n + 1
        <5>1. PICK a \in 1 .. m : g[a] = i
          BY <3>1, <3>3, <4>2
        <5>2. a \in 1 .. m + 1 /\ h[a] = i
          BY <2>4, <5>1
        <5>. QED
          BY <5>2
      <4>. QED
        BY <4>1, <4>2
    <3>7. upTo(n + 1) \subseteq Nat /\ m + 1 \in Nat
      BY <2>1, <2>4, <3>1, <3>2
    <3>8. Lists(h, upTo(n + 1), m + 1)
      <4>. HIDE DEF h, m
      <4>. QED
        BY <3>4, <3>5, <3>6, <3>7 DEF Lists
    <3>9. PICK q : q = Append(r, s[n + 1])
      OBVIOUS
    <3>10. /\ q \in Seq(V) /\ Len(q) = m + 1 /\ q[m + 1] = s[n + 1]
           /\ \A k \in 1 .. m : q[k] = r[k]
      BY <1>1, <2>1, <2>4, <3>9
    <3>11. ASSUME NEW k \in 1 .. m + 1 PROVE q[k] = s[h[k]]
      <4>1. CASE k = m + 1
        BY <3>10, <4>1
      <4>2. CASE k # m + 1
        <5>1. k \in 1 .. m /\ h[k] = g[k]
          BY <2>4, <4>2
        <5>. QED
          BY <2>5, <3>10, <5>1
      <4>. QED
        BY <4>1, <4>2
    <3>12. kept[n + 1] = q
      BY <2>3, <2>7, <3>9
    <3>. HIDE DEF h, m
    <3>13. right(q, n + 1)
      BY <3>8, <3>10, <3>11
    <3>. HIDE DEF right
    <3>. QED
      BY <2>1, <3>12, <3>13
  <2>. QED
    BY <2>6, <2>7
<1>7. R \in SUBSET (0 .. L)
  OBVIOUS
<1>8. R = 0 .. L
  <2>. HIDE DEF R
  <2>. QED
    BY <1>1, <1>5, <1>6, <1>7, EveryPlace
<1>9. right(kept[L], L)
  <2>1. L \in R
    <3>. HIDE DEF R
    <3>. QED
      BY <1>1, <1>8
  <2>. HIDE DEF right
  <2>. QED
    BY <2>1
<1>10. upTo(L) = Windowed(s, begin, end)
  BY DEF Windowed
<1>. HIDE DEF upTo
<1>. QED
  BY <1>4, <1>9, <1>10

\* A limited query, latest first, is the promise for the places chosen.
LEMMA ReversedIsPromised ==
  ASSUME NEW s, NEW r, NEW h, NEW S, Lists(h, S, Len(r)),
         \A k \in 1 .. Len(r) : r[k] = s[h[k]]
  PROVE  History!NewestFirst(r) = LatestOf(s, S)
<1>. DEFINE n == Len(r)
<1>1. n \in Nat
  BY DEF Lists
<1>2. \A k \in 1 .. n : r[n + 1 - k] = s[h[n + 1 - k]]
  <2>1. \A k \in 1 .. n : n + 1 - k \in 1 .. n
    BY <1>1
  <2>. QED
    BY <2>1
<1>3. History!NewestFirst(r) = [k \in 1 .. n |-> r[n + 1 - k]]
  BY DEF History!NewestFirst
<1>4. LatestOf(s, S) = [k \in 1 .. n |-> s[h[n + 1 - k]]]
  BY LatestFirst
<1>5. [k \in 1 .. n |-> r[n + 1 - k]] = [k \in 1 .. n |-> s[h[n + 1 - k]]]
  <2>. HIDE DEF n
  <2>. QED
    BY <1>2
<1>. QED
  BY <1>3, <1>4, <1>5

\* The values a query has filtered, at the places that are eligible.
LEMMA FilteredLists ==
  ASSUME NEW V, NEW s \in Seq(V), NEW begin, NEW end
  PROVE  LET r == IF begin = NotGiven /\ end = NotGiven THEN s
                  ELSE History!Retained(s, begin, end)
         IN /\ r \in Seq(V)
            /\ \E g : /\ Lists(g, Eligible(s, begin, end), Len(r))
                      /\ \A k \in 1 .. Len(r) : r[k] = s[g[k]]
<1>1. CASE begin = NotGiven /\ end = NotGiven
  <2>. DEFINE g == [k \in 1 .. Len(s) |-> k]
  <2>1. Len(s) \in Nat /\ Eligible(s, begin, end) = 1 .. Len(s)
    BY <1>1 DEF Eligible
  <2>2. Lists(g, 1 .. Len(s), Len(s))
    <3>1. \A n \in Nat : Lists([k \in 1 .. n |-> k], 1 .. n, n)
      BY DEF Lists
    <3>. QED
      BY <2>1, <3>1
  <2>3. \A k \in 1 .. Len(s) : s[k] = s[g[k]]
    OBVIOUS
  <2>. HIDE DEF g
  <2>. QED
    BY <1>1, <2>1, <2>2, <2>3
<1>2. CASE ~(begin = NotGiven /\ end = NotGiven)
  <2>1. Eligible(s, begin, end) = Windowed(s, begin, end)
    BY <1>2 DEF Eligible, Windowed, History!InWindow
  <2>. QED
    BY <1>2, <2>1, RetainedLists
<1>. QED
  BY <1>1, <1>2

LEMMA QueryIsPromised ==
  ASSUME NEW V, NEW s \in Seq(V), NEW newest \in Nat \cup {NotGiven},
         NEW oldest \in Nat \cup {NotGiven}, NEW begin, NEW end
  PROVE  LET values == IF begin = NotGiven /\ end = NotGiven THEN s
                       ELSE History!Retained(s, begin, end)
         IN History!NewestFirst(History!Limited(values, newest, oldest))
              = Promised(s, newest, oldest, begin, end)
<1>1. PICK values : values = IF begin = NotGiven /\ end = NotGiven THEN s
                             ELSE History!Retained(s, begin, end)
  OBVIOUS
<1>2. PICK all : all = Eligible(s, begin, end)
  OBVIOUS
<1>3. values \in Seq(V)
  BY <1>1, FilteredLists
<1>4. PICK g : Lists(g, all, Len(values)) /\ \A k \in 1 .. Len(values) : values[k] = s[g[k]]
  BY <1>1, <1>2, FilteredLists
<1>5. PICK m : m = Len(values)
  OBVIOUS
<1>6. m \in Nat /\ NotGiven \notin Nat
  BY <1>3, <1>5, CapacityAssumption
<1>. DEFINE chosen == CASE newest # NotGiven -> {i \in all : AfterIn(all, i) < newest}
                        [] newest = NotGiven /\ oldest # NotGiven ->
                             {i \in all : BeforeIn(all, i) < oldest}
                        [] OTHER -> all
            r == History!Limited(values, newest, oldest)
<1>7. Promised(s, newest, oldest, begin, end)
        = LatestOf(s, chosen)
  BY <1>2 DEF Promised, LatestOf, AfterIn, BeforeIn
<1>8. ASSUME NEW k \in 1 .. m
      PROVE  AfterIn(all, g[k]) = m - k /\ BeforeIn(all, g[k]) = k - 1 /\ g[k] \in all
  <2>1. Lists(g, all, m) /\ g[k] \in all
    BY <1>4, <1>5 DEF Lists
  <2>. QED
    BY <2>1, ListedCounts
\* What is returned follows the first a of the filtered values.
<1>9. PICK a \in Nat, n \in Nat :
        /\ a + n <= m /\ Len(r) = n /\ \A k \in 1 .. n : r[k] = values[a + k]
        /\ chosen \subseteq all
        /\ \A i \in 1 .. m : (g[i] \in chosen) <=> (a < i /\ i <= a + n)
  <2>1. CASE newest # NotGiven
    <3>1. newest \in Nat
      BY <2>1
    <3>. DEFINE a == IF m > newest THEN m - newest ELSE 0
                n == m - a
    <3>2. a \in Nat /\ n \in Nat /\ a + n = m /\ \A i \in 1 .. m : m - i < newest <=> a < i
      BY <1>6, <3>1
    <3>3. r = SubSeq(values, a + 1, m)
      BY <1>5, <2>1 DEF History!Limited
    <3>. HIDE DEF a, n, r
    <3>4. Len(r) = n /\ \A k \in 1 .. n : r[k] = values[a + k]
      BY <1>3, <1>5, <3>2, <3>3 DEF n
    <3>5. chosen = {i \in all : AfterIn(all, i) < newest}
      BY <2>1
    <3>. HIDE DEF chosen
    <3>6. ASSUME NEW i \in 1 .. m PROVE (g[i] \in chosen) <=> (a < i /\ i <= a + n)
      <4>1. (g[i] \in chosen) <=> m - i < newest
        BY <1>8, <3>5
      <4>2. i <= a + n
        BY <1>6, <3>2
      <4>. QED
        BY <3>2, <4>1, <4>2
    <3>7. a + n <= m /\ chosen \subseteq all
      BY <1>6, <3>2, <3>5
    <3>. QED
      BY <3>2, <3>4, <3>6, <3>7
  <2>2. CASE newest = NotGiven /\ oldest # NotGiven
    <3>1. oldest \in Nat
      BY <2>2
    <3>. DEFINE n == IF oldest < m THEN oldest ELSE m
    <3>2. n \in Nat /\ n <= m /\ \A i \in 1 .. m : i - 1 < oldest <=> i <= n
      BY <1>6, <3>1
    <3>3. r = IF oldest < m THEN SubSeq(values, 1, oldest) ELSE values
      BY <1>5, <2>2 DEF History!Limited
    <3>. HIDE DEF r
    <3>4. Len(r) = n /\ \A k \in 1 .. n : r[k] = values[0 + k]
      BY <1>3, <1>5, <1>6, <3>1, <3>3
    <3>5. chosen = {i \in all : BeforeIn(all, i) < oldest}
      BY <2>2
    <3>. HIDE DEF chosen, n
    <3>6. ASSUME NEW i \in 1 .. m PROVE (g[i] \in chosen) <=> (0 < i /\ i <= 0 + n)
      <4>1. (g[i] \in chosen) <=> i - 1 < oldest
        BY <1>8, <3>5
      <4>. QED
        BY <3>2, <4>1
    <3>7. 0 \in Nat /\ 0 + n <= m /\ chosen \subseteq all
      BY <1>6, <3>2, <3>5
    <3>. QED
      BY <3>2, <3>4, <3>6, <3>7
  <2>3. CASE newest = NotGiven /\ oldest = NotGiven
    <3>1. r = values /\ chosen = all
      BY <2>3 DEF History!Limited
    <3>. HIDE DEF r, chosen
    <3>2. \A i \in 1 .. m : (g[i] \in chosen) <=> (0 < i /\ i <= 0 + m)
      BY <1>6, <1>8, <3>1
    <3>3. 0 \in Nat /\ 0 + m <= m /\ Len(r) = m /\ \A k \in 1 .. m : r[k] = values[0 + k]
      BY <1>5, <1>6, <3>1
    <3>. QED
      BY <1>6, <3>1, <3>2, <3>3
  <2>. HIDE DEF r, chosen
  <2>. QED
    BY <2>1, <2>2, <2>3
<1>. HIDE DEF r, chosen
<1>. DEFINE h == [k \in 1 .. n |-> g[a + k]]
<1>10. Lists(h, chosen, Len(r))
  <2>1. Lists(g, all, m) /\ Len(r) = n /\ chosen \in SUBSET all
    BY <1>4, <1>5, <1>9
  <2>2. Lists(h, chosen, n)
    BY <1>9, <2>1, ListedPart
  <2>. QED
    BY <2>1, <2>2
<1>11. \A k \in 1 .. Len(r) : r[k] = s[h[k]]
  <2>. SUFFICES ASSUME NEW k \in 1 .. n PROVE r[k] = s[h[k]]
    BY <1>9
  <2>1. a + k \in 1 .. m /\ h[k] = g[a + k] /\ r[k] = values[a + k]
    BY <1>6, <1>9
  <2>. QED
    BY <1>4, <1>5, <2>1
<1>. HIDE DEF h
<1>12. History!NewestFirst(r) = LatestOf(s, chosen)
  BY <1>10, <1>11, ReversedIsPromised
<1>. QED
  BY <1>1, <1>7, <1>12 DEF r

\* Whatever a query asks for, newest or oldest, stamped after or before, it gets
\* the values of the history that the promise names, latest first, whether the ring
\* is still growing or has wrapped (RingBuffer::query, value.rs:134-172).
THEOREM QueriesKeepPromise == FlowSpec => []QueryKeepsPromise
<1>1. FlowInv => QueryKeepsPromise
  <2>. SUFFICES ASSUME FlowInv, NEW newest \in Counts \cup {NotGiven},
                       NEW oldest \in Counts \cup {NotGiven},
                       NEW begin \in Times \cup {NotGiven}, NEW end \in Times \cup {NotGiven}
                PROVE  History!QueryResult(newest, oldest, begin, end)
                         = Promised(History!OldestToNewest, newest, oldest, begin, end)
    BY DEF QueryKeepsPromise
  <2>1. PICK s : s = History!OldestToNewest
    OBVIOUS
  <2>2. s \in [1 .. len -> Value] /\ len \in Nat
    BY <2>1, HistoryHeld, CapacityAssumption DEF FlowInv, HistoryInv
  <2>3. s \in Seq(Value)
    BY <2>2
  <2>4. newest \in Nat \cup {NotGiven} /\ oldest \in Nat \cup {NotGiven}
    BY CountsAssumption
  <2>5. PICK values : values = IF begin = NotGiven /\ end = NotGiven THEN s
                               ELSE History!Retained(s, begin, end)
    OBVIOUS
  <2>6. History!NewestFirst(History!Limited(values, newest, oldest))
          = Promised(s, newest, oldest, begin, end)
    BY <2>3, <2>4, <2>5, QueryIsPromised
  <2>7. History!QueryResult(newest, oldest, begin, end)
          = History!NewestFirst(History!Limited(values, newest, oldest))
    BY <2>1, <2>5 DEF History!QueryResult
  <2>. QED
    BY <2>1, <2>6, <2>7
<1>. QED
  BY <1>1, FlowInvariance, PTL
-----------------------------------------------------------------------------
(* What a read means.                                                      *)

\* What the functions see whose nested ones see what g has.
LevelAbove(g) == [q \in OnreadPaths \ {Parsed(request.path)} |-> Seen(q, FunctionAt(q), g)]

LEMMA LevelsExist ==
  ASSUME NEW N \in Nat
  PROVE  \E f : f = [n \in 0 .. N |-> IF n = 0 THEN <<>> ELSE LevelAbove(f[n - 1])]
<1>. DEFINE part(f, n) == f = [k \in 0 .. n |-> IF k = 0 THEN <<>> ELSE LevelAbove(f[k - 1])]
            S == {n \in 0 .. N : \E f : part(f, n)}
<1>1. 0 \in S
  <2>1. part([k \in 0 .. 0 |-> <<>>], 0)
    OBVIOUS
  <2>2. \E f : part(f, 0)
    BY <2>1
  <2>. HIDE DEF part
  <2>. QED
    BY <2>2
<1>2. ASSUME NEW n \in 0 .. N - 1, n \in S PROVE n + 1 \in S
  <2>1. PICK f : part(f, n)
    BY <1>2
  <2>. DEFINE top == LevelAbove(f[n])
              h == [k \in 0 .. n + 1 |-> IF k = n + 1 THEN top ELSE f[k]]
  <2>2. n + 1 \in 0 .. N /\ n \in Nat
    OBVIOUS
  <2>3. ASSUME NEW k \in 0 .. n + 1
        PROVE  h[k] = IF k = 0 THEN <<>> ELSE LevelAbove(h[k - 1])
    <3>1. CASE k = n + 1
      <4>1. n \in 0 .. n + 1 /\ n # n + 1 /\ k - 1 = n /\ k # 0
        BY <2>2, <3>1
      <4>2. h[k] = top /\ h[k - 1] = f[n]
        BY <3>1, <4>1
      <4>. QED
        BY <4>1, <4>2
    <3>2. CASE k # n + 1
      <4>1. k \in 0 .. n /\ (k # 0 => k - 1 \in 0 .. n /\ k - 1 # n + 1 /\ k - 1 \in 0 .. n + 1)
        BY <2>2, <3>2
      <4>2. h[k] = f[k] /\ (k # 0 => h[k - 1] = f[k - 1])
        BY <3>2, <4>1
      <4>3. f[k] = IF k = 0 THEN <<>> ELSE LevelAbove(f[k - 1])
        BY <2>1, <4>1
      <4>. QED
        BY <4>2, <4>3
    <3>. QED
      BY <3>1, <3>2
  <2>4. part(h, n + 1)
    <3>1. h = [k \in 0 .. n + 1 |-> h[k]]
      OBVIOUS
    <3>. HIDE DEF h
    <3>. QED
      BY <2>3, <3>1
  <2>. HIDE DEF part, h
  <2>. QED
    BY <2>2, <2>4
<1>3. S = 0 .. N
  <2>1. S \in SUBSET (0 .. N)
    OBVIOUS
  <2>. HIDE DEF S
  <2>. QED
    BY <1>1, <1>2, <2>1, EveryPlace
<1>4. N \in S
  <2>. HIDE DEF S
  <2>. QED
    BY <1>3
<1>. QED
  BY <1>4

\* The equation that Nested is defined by.
LEMMA NestedIs ==
  /\ Nested[0] = <<>>
  /\ \A n \in 1 .. MAX_SCRIPT_DEPTH - 1 : Nested[n] = LevelAbove(Nested[n - 1])
<1>1. PICK N \in Nat : N = MAX_SCRIPT_DEPTH - 1
  BY ScriptAssumption
<1>2. Nested = [n \in 0 .. N |-> IF n = 0 THEN <<>> ELSE LevelAbove(Nested[n - 1])]
  <2>. DEFINE whole(f) == f = [n \in 0 .. N |-> IF n = 0 THEN <<>> ELSE LevelAbove(f[n - 1])]
  <2>1. Nested = CHOOSE f : whole(f)
    BY <1>1 DEF Nested, LevelAbove
  <2>2. \E f : whole(f)
    BY LevelsExist
  <2>. HIDE DEF whole
  <2>3. whole(Nested)
    BY <2>1, <2>2
  <2>. QED
    BY <2>3 DEF whole
<1>. HIDE DEF Nested
<1>3. 0 \in 0 .. N /\ \A n \in 1 .. N : n \in 0 .. N /\ n # 0
  OBVIOUS
<1>. QED
  BY <1>1, <1>2, <1>3

\* As long as tree and request are the same, so is what everything means.
LEMMA SameMeaning ==
  ASSUME UNCHANGED <<tree, request>>
  PROVE  /\ Nested' = Nested /\ OnreadPaths' = OnreadPaths
         /\ \A p : /\ FunctionAt(p)' = FunctionAt(p) /\ NewestFirst(p)' = NewestFirst(p)
                   /\ Effective(p)' = Effective(p) /\ Absent(p)' = Absent(p)
         /\ \A p, script, nested : Seen(p, script, nested)' = Seen(p, script, nested)
         /\ \A p : ItemOf(p)' = ItemOf(p) /\ HasOnread(p)' = HasOnread(p)
         /\ PathsAsListed' = PathsAsListed
<1>1. \A p : ItemOf(p)' = ItemOf(p) /\ HasOnread(p)' = HasOnread(p)
  BY DEF HasOnread, ItemOf
<1>2. OnreadPaths' = OnreadPaths
  BY <1>1 DEF OnreadPaths
<1>3. \A p : /\ FunctionAt(p)' = FunctionAt(p) /\ NewestFirst(p)' = NewestFirst(p)
             /\ Stripped(p)' = Stripped(p) /\ Absent(p)' = Absent(p)
  BY <1>1 DEF FunctionAt, NewestFirst, Stripped, Absent
<1>4. \A p : Effective(p)' = Effective(p)
  BY <1>3 DEF Effective
<1>5. \A p, raw : Stored(p, raw)' = Stored(p, raw)
  BY <1>1, <1>3 DEF Stored, StoredAs
<1>6. \A p, raw, js : TransformedAs(p, raw, js)' = TransformedAs(p, raw, js)
  BY <1>3 DEF TransformedAs
<1>7. \A p, path, nested : ReadBy(p, path, nested)' = ReadBy(p, path, nested)
  BY <1>3, <1>4, <1>5, <1>6 DEF ReadBy
<1>8. \A p, script, nested : Seen(p, script, nested)' = Seen(p, script, nested)
  BY <1>7 DEF Seen
<1>9. Nested' = Nested
  BY <1>2, <1>3, <1>8 DEF Nested
<1>10. PathsAsListed' = PathsAsListed
  BY <1>2 DEF PathsAsListed
<1>. QED
  BY <1>1, <1>2, <1>3, <1>4, <1>8, <1>9, <1>10
LEMMA SameAnswer ==
  ASSUME UNCHANGED <<tree, request>>
  PROVE  /\ Meaning' = Meaning /\ Queried(request)' = Queried(request)
         /\ Refusal' = Refusal /\ HasOnread(request.path)' = HasOnread(request.path)
<1>1. Queried(request)' = Queried(request)
  BY SameMeaning DEF Queried
<1>2. Refusal' = Refusal
  BY SameMeaning DEF Refusal
<1>3. PICK p : p = Parsed(request.path)
  OBVIOUS
<1>4. Meaning' = Meaning
  BY <1>1, SameMeaning DEF Meaning
<1>. QED
  BY <1>1, <1>2, <1>4, SameMeaning
-----------------------------------------------------------------------------
(* The stack of the scripts, as what they mean.                            *)

\* What the script of frame f is to see when it runs d levels deep.
Sees(f, d) == Seen(f.path, f.script, Nested[MAX_SCRIPT_DEPTH - 1 - d])

\* Frame f runs at level d what it should, with globals g.
Deep(f, g, d) ==
  /\ d \in 0 .. MAX_SCRIPT_DEPTH - 1 /\ g.ctx.depth = d
  /\ IsSeq(f.script.calls) /\ IsSeq(f.got) /\ f.next = Len(f.got) + 1
  /\ d = 0 => /\ f.path = request.path /\ f.script = ItemOf(request.path).onread
              /\ g.event.value = EventValue(Queried(request))
  /\ d # 0 => /\ f.path \in OnreadPaths \ {Parsed(request.path)} /\ f.script = FunctionAt(f.path)
              /\ g.event.value = EventValue(NewestFirst(f.path))

\* It has seen so far what it was to see, and no error.
Faithful(f, d) ==
  /\ Len(f.got) <= Len(f.script.calls)
  /\ \A j \in 1 .. Len(f.got) : f.got[j] = Sees(f, d)[j] /\ f.got[j] # Error

\* Frame c waits for what the script of frame f makes.
Awaits(c, f) ==
  LET call == c.script.calls[c.next]
  IN /\ c.next \in 1 .. Len(c.script.calls) /\ call.do = "read"
     /\ f.path = Effective(call.path) /\ f.path # c.path /\ ~Absent(f.path)

\* All have, up to the one at the top when that ran into an error.
StackInv(s, g, err) ==
  /\ \A i \in 1 .. Len(s) : Deep(s[i], Found(s, g, i), Len(s) - i)
  /\ \A i \in 1 .. Len(s) : i > 1 \/ ~err => Faithful(s[i], Len(s) - i)
  /\ \A i \in 2 .. Len(s) : Awaits(s[i], s[i - 1])

LEMMA ResumedFrames ==
  ASSUME NEW s, NEW js, IsStack(s), s # <<>>, NEW t, t = Resume(s, js)
  PROVE  /\ IsStack(t) /\ Len(t) = Len(s) /\ Len(s) \in Nat \ {0} /\ t # <<>>
         /\ t[1].path = s[1].path /\ t[1].script = s[1].script /\ t[1].saved = s[1].saved
         /\ t[1].next = s[1].next + 1 /\ t[1].got = Append(s[1].got, js)
         /\ \A i \in 2 .. Len(s) : t[i] = s[i]
<1>1. /\ IsStack(t) /\ Len(t) = Len(s) /\ Len(s) \in Nat /\ Len(s) > 0 /\ Head(s) = s[1]
  BY Resumed, StackParts
<1>2. t # <<>> /\ Head(t) = t[1]
  BY <1>1, StackParts
<1>3. t[1].path = s[1].path /\ t[1].saved = s[1].saved
  <2>1. 1 \in 1 .. Len(s)
    BY <1>1
  <2>. QED
    BY <2>1, Resumed
<1>4. /\ t[1].script = s[1].script /\ t[1].next = s[1].next + 1
      /\ t[1].got = Append(s[1].got, js)
  BY <1>1, <1>2, ResumedTop
<1>5. \A i \in 2 .. Len(s) : t[i] = s[i]
  <2>1. PICK e, r, S : /\ e = [Head(s) EXCEPT !.next = @ + 1, !.got = Append(@, js)]
                       /\ r = Tail(s) /\ s \in Seq(S)
    BY DEF IsStack
  <2>2. t = <<e>> \o r
    BY <2>1 DEF Resume
  <2>3. PICK T : T = S \cup {e}
    OBVIOUS
  <2>4. s \in Seq(T) /\ e \in T
    BY <2>1, <2>3, SequenceParts
  <2>5. r \in Seq(T) /\ Len(r) = Len(s) - 1 /\ \A i \in 2 .. Len(s) : r[i - 1] = s[i]
    BY <1>1, <2>1, <2>4
  <2>6. \A i \in 2 .. Len(s) : (<<e>> \o r)[i] = r[i - 1]
    BY <1>1, <2>4, <2>5
  <2>. QED
    BY <2>2, <2>5, <2>6
<1>. QED
  BY <1>1, <1>2, <1>3, <1>4, <1>5

LEMMA PoppedFrames ==
  ASSUME NEW s, IsStack(s), Len(s) > 1, NEW t, t = Tail(s)
  PROVE  /\ IsStack(t) /\ t # <<>> /\ Len(s) \in Nat /\ Len(t) = Len(s) - 1
         /\ Head(s) = s[1]
         /\ \A i \in 1 .. Len(t) : t[i] = s[i + 1]
<1>1. PICK P, C, N, G, V :
        s \in Seq([path : P, script : C, next : N, got : G, saved : V])
  BY DEF IsStack
<1>2. PICK S : S = [path : P, script : C, next : N, got : G, saved : V]
  OBVIOUS
<1>3. s \in Seq(S)
  BY <1>1, <1>2
<1>4. /\ Len(s) \in Nat /\ t \in Seq(S) /\ Len(t) = Len(s) - 1 /\ t # <<>> /\ Head(s) = s[1]
      /\ \A i \in 1 .. Len(t) : t[i] = s[i + 1]
  BY <1>3
<1>. QED
  BY <1>2, <1>4 DEF IsStack

LEMMA PushedFrames ==
  ASSUME NEW s, IsStack(s), s # <<>>, NEW f, NEW t, t = <<f>> \o s
  PROVE  /\ Len(s) \in Nat \ {0} /\ Len(t) = Len(s) + 1 /\ t[1] = f
         /\ \A i \in 2 .. Len(t) : t[i] = s[i - 1]
<1>1. PICK S : s \in Seq(S)
  BY DEF IsStack
<1>2. PICK T : T = S \cup {f}
  OBVIOUS
<1>3. s \in Seq(T) /\ f \in T /\ Len(s) \in Nat /\ Len(s) > 0
  BY <1>1, <1>2, SequenceParts
<1>4. /\ Len(<<f>> \o s) = Len(s) + 1 /\ (<<f>> \o s)[1] = f
      /\ \A i \in 2 .. Len(s) + 1 : (<<f>> \o s)[i] = s[i - 1]
  BY <1>3
<1>. QED
  BY <1>3, <1>4

\* A call comes back with what it was to give, or with an error.
LEMMA ResumeKeepsStack ==
  ASSUME NEW s, NEW g, NEW js, NEW err \in BOOLEAN, IsStack(s), s # <<>>,
         StackInv(s, g, FALSE),
         s[1].next \in 1 .. Len(s[1].script.calls),
         ~err => js = Sees(s[1], Len(s) - 1)[s[1].next] /\ js # Error
  PROVE  StackInv(Resume(s, js), g, err)
<1>1. PICK t, n : t = Resume(s, js) /\ n = Len(s)
  OBVIOUS
<1>2. /\ Len(t) = n /\ n \in Nat \ {0}
      /\ t[1].path = s[1].path /\ t[1].script = s[1].script /\ t[1].saved = s[1].saved
      /\ t[1].next = s[1].next + 1 /\ t[1].got = Append(s[1].got, js)
      /\ \A i \in 2 .. n : t[i] = s[i]
  <2>1. /\ Len(t) = Len(s) /\ Len(s) \in Nat \ {0}
        /\ t[1].path = s[1].path /\ t[1].script = s[1].script /\ t[1].saved = s[1].saved
        /\ t[1].next = s[1].next + 1 /\ t[1].got = Append(s[1].got, js)
        /\ \A i \in 2 .. Len(s) : t[i] = s[i]
    BY <1>1, ResumedFrames
  <2>. QED
    BY <1>1, <2>1
<1>3. 1 \in 1 .. n /\ n - 1 \in Nat /\ \A i \in 1 .. n : i = 1 \/ i \in 2 .. n
  BY <1>2
<1>4. \A i \in 1 .. n : Found(t, g, i) = Found(s, g, i)
  <2>. SUFFICES ASSUME NEW i \in 2 .. n PROVE t[i - 1].saved = s[i - 1].saved
    BY <1>3 DEF Found
  <2>1. i - 1 \in 1 .. n
    BY <1>2
  <2>. QED
    BY <1>2, <1>3, <2>1
<1>5. Deep(s[1], g, n - 1) /\ Faithful(s[1], n - 1)
  BY <1>1, <1>3 DEF StackInv, Found
<1>6. PICK m, calls : m = Len(s[1].got) /\ calls = s[1].script.calls
  OBVIOUS
<1>7. /\ IsSeq(t[1].got) /\ m \in Nat /\ Len(t[1].got) = m + 1 /\ t[1].got[m + 1] = js
      /\ \A j \in 1 .. m : t[1].got[j] = s[1].got[j]
  <2>1. Grown(t[1].got, s[1].got, js)
    BY <1>2, <1>5 DEF Grown, Deep
  <2>. QED
    BY <1>6, <2>1, GrownParts
<1>8. s[1].next = m + 1 /\ m + 1 \in 1 .. Len(calls) /\ Len(calls) \in Nat
  BY <1>5, <1>6, SeqParts DEF Deep
<1>9. Deep(t[1], g, n - 1)
  BY <1>2, <1>5, <1>7, <1>8 DEF Deep
<1>10. Sees(t[1], n - 1) = Sees(s[1], n - 1)
  BY <1>2 DEF Sees
<1>11. ~err => Faithful(t[1], n - 1)
  <2>. SUFFICES ASSUME ~err
                PROVE  /\ m + 1 <= Len(calls)
                       /\ \A j \in 1 .. m + 1 : /\ t[1].got[j] = Sees(s[1], n - 1)[j]
                                                /\ t[1].got[j] # Error
    BY <1>2, <1>6, <1>7, <1>10 DEF Faithful
  <2>1. t[1].got[m + 1] = Sees(s[1], n - 1)[m + 1] /\ t[1].got[m + 1] # Error
    BY <1>1, <1>7, <1>8
  <2>2. \A j \in 1 .. m : t[1].got[j] = Sees(s[1], n - 1)[j] /\ t[1].got[j] # Error
    BY <1>5, <1>6, <1>7 DEF Faithful
  <2>3. \A j \in 1 .. m + 1 : j \in 1 .. m \/ j = m + 1
    BY <1>7
  <2>. QED
    BY <1>8, <2>1, <2>2, <2>3
<1>13. ASSUME NEW i \in 1 .. n PROVE Deep(t[i], Found(t, g, i), n - i)
  <2>1. Deep(s[i], Found(s, g, i), n - i)
    BY <1>1 DEF StackInv
  <2>2. CASE i = 1
    BY <1>9, <2>2 DEF Found
  <2>3. CASE i # 1
    BY <1>2, <1>3, <1>4, <2>1, <2>3
  <2>. QED
    BY <2>2, <2>3
<1>14. ASSUME NEW i \in 1 .. n, i > 1 \/ ~err PROVE Faithful(t[i], n - i)
  <2>1. CASE i = 1
    BY <1>11, <1>14, <2>1
  <2>2. CASE i # 1
    BY <1>1, <1>2, <1>3, <2>2 DEF StackInv
  <2>. QED
    BY <2>1, <2>2
<1>15. ASSUME NEW i \in 2 .. n PROVE Awaits(t[i], t[i - 1])
  <2>1. Awaits(s[i], s[i - 1]) /\ t[i] = s[i]
    BY <1>1, <1>2 DEF StackInv
  <2>2. i - 1 \in 1 .. n
    BY <1>2
  <2>3. t[i - 1].path = s[i - 1].path
    BY <1>2, <1>3, <2>2
  <2>. QED
    BY <2>1, <2>3 DEF Awaits
<1>. QED
  BY <1>1, <1>2, <1>13, <1>14, <1>15 DEF StackInv

\* A script comes to its end: the one beneath it has seen no error yet.
LEMMA PopKeepsStack ==
  ASSUME NEW s, NEW g, NEW err, IsStack(s), Len(s) > 1, StackInv(s, g, err)
  PROVE  StackInv(Tail(s), Head(s).saved, FALSE)
<1>1. PICK t, n : t = Tail(s) /\ n = Len(s)
  OBVIOUS
<1>2. /\ n \in Nat /\ Len(t) = n - 1 /\ Head(s) = s[1]
      /\ \A i \in 1 .. n - 1 : t[i] = s[i + 1]
  BY <1>1, PoppedFrames
<1>3. ASSUME NEW i \in 1 .. n - 1
      PROVE  /\ i + 1 \in 1 .. n /\ i + 1 > 1 /\ (n - 1) - i = n - (i + 1)
             /\ t[i] = s[i + 1]
             /\ Found(t, Head(s).saved, i) = Found(s, g, i + 1)
             /\ i > 1 => i + 1 \in 2 .. n /\ (i + 1) - 1 = i /\ t[i - 1] = s[i]
  <2>1. /\ i + 1 \in 1 .. n /\ i + 1 > 1 /\ i + 1 # 1 /\ (n - 1) - i = n - (i + 1)
        /\ (i + 1) - 1 = i /\ (i > 1 => i + 1 \in 2 .. n)
    BY <1>2
  <2>2. i # 1 => i - 1 \in 1 .. n - 1 /\ (i - 1) + 1 = i
    BY <1>2
  <2>3. i # 1 => t[i - 1] = s[i]
    BY <1>2, <2>2
  <2>4. Found(t, Head(s).saved, i) = Found(s, g, i + 1)
    BY <1>2, <2>1, <2>3 DEF Found
  <2>. QED
    BY <1>2, <2>1, <2>3, <2>4
<1>4. ASSUME NEW i \in 1 .. n - 1
      PROVE  /\ Deep(t[i], Found(t, Head(s).saved, i), (n - 1) - i)
             /\ Faithful(t[i], (n - 1) - i)
             /\ i > 1 => Awaits(t[i], t[i - 1])
  <2>1. Deep(s[i + 1], Found(s, g, i + 1), n - (i + 1)) /\ Faithful(s[i + 1], n - (i + 1))
    BY <1>1, <1>3 DEF StackInv
  <2>2. i > 1 => Awaits(s[i + 1], s[i])
    BY <1>1, <1>3 DEF StackInv
  <2>. QED
    BY <1>3, <2>1, <2>2
<1>5. \A i \in 2 .. n - 1 : i \in 1 .. n - 1 /\ i > 1
  BY <1>2
<1>. QED
  BY <1>1, <1>2, <1>4, <1>5 DEF StackInv

\* A script starts inside another one, which waits for it.
LEMMA PushKeepsStack ==
  ASSUME NEW s, NEW g, NEW f, NEW h, IsStack(s), s # <<>>, StackInv(s, g, FALSE),
         f.saved = g, Deep(f, h, Len(s)), Faithful(f, Len(s)), Awaits(s[1], f)
  PROVE  StackInv(<<f>> \o s, h, FALSE)
<1>1. PICK t, n : t = <<f>> \o s /\ n = Len(s)
  OBVIOUS
<1>2. /\ n \in Nat \ {0} /\ Len(t) = n + 1 /\ t[1] = f
      /\ \A i \in 2 .. n + 1 : t[i] = s[i - 1]
  BY <1>1, PushedFrames
<1>3. ASSUME NEW i \in 2 .. n + 1
      PROVE  /\ Deep(t[i], Found(t, h, i), (n + 1) - i)
             /\ Faithful(t[i], (n + 1) - i)
             /\ Awaits(t[i], t[i - 1])
  <2>1. PICK j : j = i - 1
    OBVIOUS
  <2>2. /\ j \in 1 .. n /\ t[i] = s[j] /\ (n + 1) - i = n - j /\ i # 1
        /\ (j # 1 => j \in 2 .. n) /\ i - 1 = j
    BY <1>2, <2>1
  <2>3. /\ Deep(s[j], Found(s, g, j), n - j) /\ Faithful(s[j], n - j)
        /\ j # 1 => Awaits(s[j], s[j - 1])
    BY <1>1, <2>2 DEF StackInv
  <2>4. CASE j = 1
    BY <1>2, <2>2, <2>3, <2>4 DEF Found
  <2>5. CASE j # 1
    <3>1. j \in 2 .. n + 1
      BY <1>2, <2>2, <2>5
    <3>2. t[j] = s[j - 1]
      BY <1>2, <3>1
    <3>. QED
      BY <2>2, <2>3, <2>5, <3>2 DEF Found
  <2>. QED
    BY <2>4, <2>5
<1>4. \A i \in 1 .. n + 1 : i = 1 \/ i \in 2 .. n + 1
  BY <1>2
<1>5. Deep(t[1], Found(t, h, 1), (n + 1) - 1) /\ Faithful(t[1], (n + 1) - 1)
  <2>1. (n + 1) - 1 = n
    BY <1>2
  <2>. QED
    BY <1>1, <1>2, <2>1 DEF Found
<1>6. \A i \in 1 .. n + 1 : /\ Deep(t[i], Found(t, h, i), (n + 1) - i)
                           /\ Faithful(t[i], (n + 1) - i)
  BY <1>3, <1>4, <1>5
<1>. QED
  BY <1>1, <1>2, <1>3, <1>6 DEF StackInv
-----------------------------------------------------------------------------
(* Values of reads.                                                        *)

\* The newest value of an item is no error, and nothing stored is read as one.
LEMMA StoredIsNoError ==
  ASSUME tree \in Trees, NEW p, NEW raw
  PROVE  Stored(p, raw) # Error
<1>1. Null # Error /\ \A a, b : Object(a, b) # Error
  BY DEF Null, Error, Object
<1>2. ASSUME ~Absent(p), ItemOf(p).vals # <<>>
      PROVE  EventValue(NewestFirst(p)) # Error
  <2>1. Parsed(p) \in DOMAIN tree.items
    BY <1>2 DEF Absent, Resolve
  <2>2. PICK s, S : s = ItemOf(p).vals /\ S = ToSet(s)
    OBVIOUS
  <2>3. s \in Seq(S) /\ \A v \in S : v # Error
    BY <2>1, <2>2, ScriptAssumption DEF ItemOf
  <2>4. Len(s) \in Nat \ {0} /\ Reverse(s) \in Seq(S) /\ Reverse(s) # <<>>
    <3>1. Len(s) \in Nat \ {0} /\ \A i \in 1 .. Len(s) : s[i] \in S
      BY <1>2, <2>2, <2>3
    <3>2. \A i \in 1 .. Len(s) : (Len(s) - i) + 1 \in 1 .. Len(s)
      BY <3>1
    <3>3. Reverse(s) = [i \in 1 .. Len(s) |-> s[(Len(s) - i) + 1]]
      BY DEF Reverse
    <3>4. PICK n, r : n \in Nat /\ n = Len(s) /\ r = Reverse(s)
      BY <3>1
    <3>5. r \in [1 .. n -> S] /\ n > 0
      BY <3>1, <3>2, <3>3, <3>4
    <3>6. r \in Seq(S) /\ Len(r) = n
      BY <3>4, <3>5
    <3>. QED
      BY <3>1, <3>4, <3>5, <3>6
  <2>5. Head(Reverse(s)) \in S
    BY <2>4
  <2>. QED
    BY <1>1, <2>2, <2>3, <2>5 DEF EventValue, NewestFirst
<1>. QED
  BY <1>1, <1>2 DEF Stored, StoredAs

LEMMA TransformedIsNoError ==
  ASSUME NEW p, NEW raw, NEW js, js # Error
  PROVE  TransformedAs(p, raw, js) # Error
BY DEF TransformedAs, Object, Error

\* What the functions see that a script at level d may run.
LEMMA LevelAt ==
  ASSUME NEW d \in 0 .. MAX_SCRIPT_DEPTH - 1
  PROVE  /\ d = MAX_SCRIPT_DEPTH - 1 => Nested[MAX_SCRIPT_DEPTH - 1 - d] = <<>>
         /\ d # MAX_SCRIPT_DEPTH - 1 =>
              /\ d + 1 \in 0 .. MAX_SCRIPT_DEPTH - 1
              /\ DOMAIN Nested[MAX_SCRIPT_DEPTH - 1 - d] = OnreadPaths \ {Parsed(request.path)}
              /\ \A q \in OnreadPaths \ {Parsed(request.path)} :
                   Nested[MAX_SCRIPT_DEPTH - 1 - d][q]
                     = Seen(q, FunctionAt(q), Nested[MAX_SCRIPT_DEPTH - 1 - (d + 1)])
<1>1. PICK n, m : n = MAX_SCRIPT_DEPTH - 1 - d /\ m = MAX_SCRIPT_DEPTH - 1 - (d + 1)
  OBVIOUS
<1>2. d = MAX_SCRIPT_DEPTH - 1 => n = 0
  BY <1>1, ScriptAssumption
<1>3. ASSUME d # MAX_SCRIPT_DEPTH - 1
      PROVE  d + 1 \in 0 .. MAX_SCRIPT_DEPTH - 1 /\ n \in 1 .. MAX_SCRIPT_DEPTH - 1 /\ n - 1 = m
  BY <1>1, <1>3, ScriptAssumption
<1>4. d # MAX_SCRIPT_DEPTH - 1 => Nested[n] = LevelAbove(Nested[m])
  BY <1>3, NestedIs
<1>. QED
  BY <1>1, <1>2, <1>3, <1>4, NestedIs DEF LevelAbove

\* A read sees what is stored, unless there is a script that it may run.
LEMMA ReadsStored ==
  ASSUME NEW p, NEW path, NEW nested, Parsed(Effective(path)) = Effective(path),
         \/ Effective(path) \notin DOMAIN nested \ {p}
         \/ Absent(Effective(path))
  PROVE  ReadBy(p, path, nested) = Stored(Effective(path), Stripped(path))
BY DEF ReadBy

LEMMA ReadsNested ==
  ASSUME NEW p, NEW path, NEW nested, NEW own, Parsed(Effective(path)) = Effective(path),
         Effective(path) \in DOMAIN nested \ {p}, ~Absent(Effective(path)),
         own = Outcome(FunctionAt(Effective(path)), Effective(path),
                       EventValue(NewestFirst(Effective(path))), nested[Effective(path)])
  PROVE  ReadBy(p, path, nested) =
           IF own \in {Null, Error} THEN Stored(Effective(path), Stripped(path))
           ELSE TransformedAs(Effective(path), Stripped(path), own)
<1>1. PICK q, raw : q = Effective(path) /\ raw = Stripped(path)
  OBVIOUS
<1>2. ReadBy(p, path, nested) =
        IF own \in {Null, Error} THEN Stored(q, raw) ELSE TransformedAs(q, raw, own)
  BY <1>1 DEF ReadBy
<1>. QED
  BY <1>1, <1>2

\* The items with an onread script, and their scripts.
LEMMA OnreadItems ==
  ASSUME tree \in Trees
  PROVE  \A q \in OnreadPaths : /\ q \in DOMAIN tree.items /\ Parsed(q) = q
                                /\ ItemOf(q) = tree.items[q] /\ IsScript(ItemOf(q).onread)
BY ScriptAssumption DEF OnreadPaths, ItemOf

\* The text without the suffix has its blanks taken off if the text has.
LEMMA EffectiveListed ==
  ASSUME NEW p \in Seq(STRING), Parsed(p) = p
  PROVE  Parsed(Effective(p)) = Effective(p)
<1>1. \A i \in DOMAIN p : Trim(p[i]) = p[i]
  <2>1. \A i \in DOMAIN p : Parsed(p)[i] = Trim(p[i])
    BY DEF Parsed
  <2>. QED
    BY <2>1
<1>2. CASE Stripped(p)
  <2>. DEFINE n == Len(p) - 1
              s == SubSeq(p, 1, n)
  <2>1. n \in Nat /\ DOMAIN p = 1 .. Len(p) /\ Len(p) = n + 1
    BY <1>2 DEF Stripped
  <2>2. s = [i \in 1 .. n |-> p[i]]
    BY <2>1
  <2>3. \A i \in 1 .. n : i \in DOMAIN p
    BY <2>1
  <2>4. \A i \in DOMAIN s : Trim(s[i]) = s[i]
    BY <1>1, <2>2, <2>3
  <2>5. Effective(p) = s
    BY <1>2 DEF Effective, Front
  <2>6. s = [i \in DOMAIN s |-> s[i]]
    BY <2>2
  <2>. HIDE DEF s
  <2>. QED
    BY <2>4, <2>5, <2>6 DEF Parsed
<1>3. CASE ~Stripped(p)
  BY <1>3 DEF Effective
<1>. QED
  BY <1>2, <1>3

LEMMA NothingCalled == NoScript.calls = <<>> /\ IsSeq(<<>>) /\ Len(<<>>) = 0
<1>1. <<>> \in Seq({}) /\ Len(<<>>) = 0
  OBVIOUS
<1>. QED
  BY <1>1 DEF IsSeq, NoScript

\* What frame f reads is named as the tree lists it.
LEMMA ReadsListed ==
  ASSUME tree \in Trees, PathsAsListed, request.path \in OnreadPaths,
         NEW f, NEW g, NEW d, Deep(f, g, d), f.next \in 1 .. Len(f.script.calls)
  PROVE  LET path == f.script.calls[f.next].path
         IN Parsed(Effective(path)) = Effective(path)
<1>1. \E q \in OnreadPaths : f.script = ItemOf(q).onread
  <2>1. d = 0 => f.script = ItemOf(request.path).onread
    BY DEF Deep
  <2>2. d # 0 => f.path \in OnreadPaths /\ f.script = FunctionAt(f.path)
    BY DEF Deep
  <2>3. f.script # NoScript
    <3>1. Len(f.script.calls) # 0
      OBVIOUS
    <3>. QED
      BY <3>1, NothingCalled
  <2>. QED
    BY <2>1, <2>2, <2>3 DEF FunctionAt, AsFunction
<1>2. PICK q \in OnreadPaths : f.script = ItemOf(q).onread
  BY <1>1
<1>3. IsScript(f.script) /\ ItemOf(q) = tree.items[q]
  BY <1>2, OnreadItems
<1>4. PICK call : call = f.script.calls[f.next]
  OBVIOUS
<1>5. call \in ToSet(f.script.calls)
  <2>1. IsSeq(f.script.calls)
    BY <1>3 DEF IsScript, IsSeq
  <2>. QED
    BY <1>4, <2>1, SeqParts DEF ToSet
<1>6. call.path \in Seq(STRING) /\ Parsed(call.path) = call.path
  BY <1>2, <1>3, <1>5 DEF IsScript, PathsAsListed
<1>. QED
  BY <1>4, <1>6, EffectiveListed

\* The call that frame f is at, which is a read.
LEMMA SeesRead ==
  ASSUME NEW f, NEW d, IsSeq(f.script.calls), f.next \in 1 .. Len(f.script.calls),
         f.script.calls[f.next].do = "read"
  PROVE  Sees(f, d)[f.next] = ReadBy(f.path, f.script.calls[f.next].path,
                                     Nested[MAX_SCRIPT_DEPTH - 1 - d])
<1>1. f.next \in DOMAIN f.script.calls
  BY SeqParts
<1>. QED
  BY <1>1 DEF Sees, Seen

\* A script that has come to its end comes to what it is defined to.
LEMMA ResultIs ==
  ASSUME NEW f, NEW d, NEW v, IsSeq(f.script.calls), IsSeq(f.got),
         Faithful(f, d), Len(f.got) = Len(f.script.calls)
  PROVE  Outcome(f.script, f.path, v, Sees(f, d)) = Given(f.script, f.path, v, f.got)
<1>1. PICK n, saw : n = Len(f.script.calls) /\ saw = Sees(f, d)
  OBVIOUS
<1>2. DOMAIN saw = 1 .. n /\ saw = [i \in 1 .. n |-> saw[i]]
  BY <1>1, SeqParts DEF Sees, Seen
<1>3. f.got = [i \in 1 .. n |-> f.got[i]]
  BY <1>1 DEF IsSeq
<1>4. \A i \in 1 .. n : f.got[i] = saw[i] /\ saw[i] # Error
  BY <1>1 DEF Faithful
<1>5. f.got = saw
  BY <1>2, <1>3, <1>4
<1>. QED
  BY <1>1, <1>2, <1>4, <1>5 DEF Outcome
-----------------------------------------------------------------------------
(* The steps of scripts that are read for.                                 *)

MeaningInv ==
  /\ tree \in Trees /\ AnswerAsDefined
  /\ Running /\ ~Writer /\ PathsAsListed =>
       /\ request.kind \in {"read", "interval"} /\ request.path \in OnreadPaths
       /\ Parsed(request.path) = request.path
       /\ pending = <<>> /\ fns = Compiled(request.path, ItemOf(request.path).onread)
       /\ failed \in BOOLEAN /\ StackInv(frames, globals, failed)

\* The invariant of the stack says the same of the next state as of this one.
LEMMA StackStays ==
  ASSUME UNCHANGED <<tree, request>>, StackInv(frames', globals', failed')
  PROVE  StackInv(frames, globals, failed)'
<1>1. \A f, d : Sees(f, d)' = Sees(f, d) /\ Faithful(f, d)' = Faithful(f, d)
  BY SameMeaning DEF Sees, Faithful
<1>2. \A f, g, d : Deep(f, g, d)' = Deep(f, g, d)
  BY SameMeaning, SameAnswer DEF Deep
<1>3. \A c, f : Awaits(c, f)' = Awaits(c, f)
  BY SameMeaning DEF Awaits
<1>. QED
  BY <1>1, <1>2, <1>3 DEF StackInv

LEMMA RunsOn ==
  ASSUME MeaningInv, Inv', Running, ~Writer, PathsAsListed, frames' # <<>>, failed' \in BOOLEAN,
         UNCHANGED <<tree, request, fns, pending>>, StackInv(frames', globals', failed')
  PROVE  MeaningInv'
<1>1. StackInv(frames, globals, failed)'
  BY StackStays
<1>2. ~Answered'
  BY DEF Inv, Running, Answered
<1>3. /\ OnreadPaths' = OnreadPaths /\ Parsed(request.path)' = Parsed(request.path)
      /\ ItemOf(request.path)' = ItemOf(request.path)
  BY SameMeaning
<1>4. fns' = Compiled(request.path, ItemOf(request.path).onread)'
  BY <1>3 DEF MeaningInv, Compiled
<1>. QED
  BY <1>1, <1>2, <1>3, <1>4 DEF MeaningInv, Running, Writer, AnswerAsDefined

\* Nothing is said of paths that are written otherwise.
LEMMA WrittenOtherwise ==
  ASSUME MeaningInv, ~PathsAsListed, UNCHANGED <<tree, request>>
  PROVE  MeaningInv'
BY SameMeaning DEF MeaningInv, AnswerAsDefined

\* The script that runs.
LEMMA TopIs ==
  ASSUME Inv, MeaningInv, Running, ~Writer, PathsAsListed
  PROVE  /\ IsStack(frames) /\ frames # <<>> /\ Len(frames) \in Nat \ {0} /\ Top = frames[1]
         /\ Deep(Top, globals, Len(frames) - 1)
         /\ ~failed => Faithful(Top, Len(frames) - 1)
         /\ globals.ctx.path = Top.path /\ globals.odf = "read"
         /\ StackInv(frames, globals, failed) /\ failed \in BOOLEAN
<1>1. IsStack(frames) /\ frames # <<>> /\ Len(frames) \in Nat /\ Len(frames) > 0
  BY StackParts DEF Inv, Running
<1>2. Top = frames[1] /\ 1 \in 1 .. Len(frames)
  BY <1>1, StackParts DEF Top
<1>3. StackInv(frames, globals, failed) /\ failed \in BOOLEAN
  BY DEF MeaningInv
<1>4. /\ Deep(frames[1], Found(frames, globals, 1), Len(frames) - 1)
      /\ ~failed => Faithful(frames[1], Len(frames) - 1)
  BY <1>2, <1>3 DEF StackInv
<1>5. Proper(Found(frames, globals, 1), frames[1], 1 = Len(frames), request)
  BY <1>2 DEF Inv, AllProper
<1>. QED
  BY <1>1, <1>2, <1>3, <1>4, <1>5 DEF Found, Proper, Writer

\* The call it is at.
LEMMA CallIs ==
  ASSUME Inv, MeaningInv, ~Writer, PathsAsListed, NEW do, Calling(do)
  PROVE  /\ Running /\ ~failed /\ NextCall = Top.script.calls[Top.next] /\ NextCall.do = do
         /\ Top.next \in 1 .. Len(Top.script.calls) /\ IsSeq(Top.script.calls)
<1>1. Running /\ ~failed /\ NextCall.do = do /\ Top.next <= Len(Top.script.calls)
  BY DEF Calling
<1>2. IsSeq(Top.script.calls) /\ IsSeq(Top.got) /\ Top.next = Len(Top.got) + 1
  BY <1>1, TopIs DEF Deep
<1>3. Len(Top.got) \in Nat /\ Len(Top.script.calls) \in Nat
  BY <1>2, SeqParts
<1>. QED
  BY <1>1, <1>2, <1>3 DEF NextCall

\* Where a script reads, functions were compiled: the outermost one reads.
LEMMA FunctionsAre ==
  ASSUME Inv, MeaningInv, ~Writer, PathsAsListed, Calling("read")
  PROVE  fns = OnreadPaths \ {Parsed(request.path)}
<1>1. PICK n : n = Len(frames)
  OBVIOUS
<1>2. /\ n \in Nat \ {0} /\ Top = frames[1]
      /\ Deep(Top, globals, n - 1) /\ StackInv(frames, globals, failed)
  BY <1>1, TopIs, CallIs
<1>3. /\ frames[n].script = ItemOf(request.path).onread
      /\ IsSeq(frames[n].script.calls)
  <2>1. n \in 1 .. n /\ n - n = 0
    BY <1>2
  <2>. QED
    BY <1>1, <1>2, <2>1 DEF StackInv, Deep
<1>4. \E i \in 1 .. Len(frames[n].script.calls) : frames[n].script.calls[i].do = "read"
  <2>1. CASE n = 1
    BY <1>2, <2>1, CallIs
  <2>2. CASE n # 1
    <3>1. n \in 2 .. n
      BY <1>2, <2>2
    <3>. QED
      BY <1>1, <1>2, <3>1 DEF StackInv, Awaits
  <2>. QED
    BY <2>1, <2>2
<1>5. \E i \in DOMAIN ItemOf(request.path).onread.calls :
        ItemOf(request.path).onread.calls[i].do = "read"
  BY <1>3, <1>4, SeqParts
<1>6. Running
  BY CallIs
<1>. QED
  BY <1>5, <1>6 DEF MeaningInv, Compiled

\* The functions that the script at the top may run.
LEMMA RunsNested ==
  ASSUME Inv, MeaningInv, ~Writer, PathsAsListed, Calling("read"), NEW q,
         NEW d, d = Len(frames) - 1,
         NEW nested, nested = Nested[MAX_SCRIPT_DEPTH - 1 - d]
  PROVE  /\ Nests(q) => q \in DOMAIN nested \ {Top.path} /\ ~Absent(q)
         /\ q \in DOMAIN nested \ {Top.path} /\ ~Absent(q) => Nests(q)
<1>1. /\ Deep(Top, globals, d) /\ globals.ctx.path = Top.path
  BY TopIs, CallIs
<1>2. d \in 0 .. MAX_SCRIPT_DEPTH - 1 /\ globals.ctx.depth = d /\ MAX_SCRIPT_DEPTH \in Nat
  BY <1>1, ScriptAssumption DEF Deep
<1>3. fns = OnreadPaths \ {Parsed(request.path)}
  BY FunctionsAre
<1>4. q \in OnreadPaths => HasOnread(q)
  BY DEF OnreadPaths
<1>5. CASE d = MAX_SCRIPT_DEPTH - 1
  <2>1. nested = <<>> /\ DOMAIN nested = {}
    BY <1>2, <1>5, LevelAt
  <2>. QED
    BY <1>2, <1>5, <2>1 DEF Nests
<1>6. CASE d # MAX_SCRIPT_DEPTH - 1
  <2>1. DOMAIN nested = OnreadPaths \ {Parsed(request.path)}
    BY <1>2, <1>6, LevelAt
  <2>2. d + 1 < MAX_SCRIPT_DEPTH
    BY <1>2, <1>6
  <2>. QED
    BY <1>1, <1>2, <1>3, <1>4, <2>1, <2>2 DEF Nests, SelfRead
<1>. QED
  BY <1>5, <1>6

LEMMA ReadItemMeans ==
  ASSUME Inv, Inv', MeaningInv, ~Writer, PathsAsListed, ReadItem
  PROVE  MeaningInv'
<1>. DEFINE p == Effective(NextCall.path)
            raw == Stripped(NextCall.path)
<1>1. /\ Calling("read") /\ UNCHANGED <<tree, request, globals, fns, pending, failed>>
      /\ \/ ReadsPending(p, raw)
         \/ ~Nests(p) /\ frames' = Resume(frames, StoredResult(p, raw))
  BY DEF ReadItem
<1>2. /\ Running /\ ~failed /\ NextCall = Top.script.calls[Top.next] /\ NextCall.do = "read"
      /\ Top.next \in 1 .. Len(Top.script.calls) /\ IsSeq(Top.script.calls)
  BY <1>1, CallIs
<1>3. pending = <<>> /\ tree \in Trees
  BY <1>2 DEF MeaningInv
<1>4. PendingTo(p) = {}
  BY <1>3 DEF PendingTo
<1>5. ~Nests(p) /\ frames' = Resume(frames, Stored(p, raw))
  BY <1>1, <1>4 DEF ReadsPending, StoredResult, FoundEmpty, Stored
<1>6. /\ IsStack(frames) /\ frames # <<>> /\ Top = frames[1]
      /\ StackInv(frames, globals, FALSE)
  BY <1>2, TopIs
<1>7. PICK d, nested : d = Len(frames) - 1 /\ nested = Nested[MAX_SCRIPT_DEPTH - 1 - d]
  OBVIOUS
<1>8. Sees(Top, d)[Top.next] = ReadBy(Top.path, NextCall.path, nested)
  BY <1>2, <1>7, SeesRead
<1>16. Parsed(p) = p
  BY <1>2, <1>3, <1>6, TopIs, ReadsListed DEF MeaningInv
<1>9. ReadBy(Top.path, NextCall.path, nested) = Stored(p, raw)
  BY <1>1, <1>5, <1>7, <1>16, RunsNested, ReadsStored
<1>10. Stored(p, raw) # Error
  BY <1>3, StoredIsNoError
<1>. HIDE DEF p, raw
<1>11. PICK js : js = Stored(p, raw)
  OBVIOUS
<1>12. StackInv(Resume(frames, js), globals, FALSE)
  BY <1>2, <1>6, <1>7, <1>8, <1>9, <1>10, <1>11, ResumeKeepsStack
<1>13. frames' # <<>>
  BY <1>5, <1>6, ResumedFrames
<1>14. failed' = FALSE
  BY <1>1, <1>2, TopIs
<1>15. StackInv(frames', globals', failed')
  BY <1>1, <1>5, <1>11, <1>12, <1>14
<1>. QED
  BY <1>1, <1>2, <1>13, <1>14, <1>15, RunsOn

LEMMA WriteCallMeans ==
  ASSUME Inv, Inv', MeaningInv, ~Writer, PathsAsListed, WriteCall
  PROVE  MeaningInv'
<1>1. Calling("write") /\ UNCHANGED <<tree, request, globals, fns>>
  BY DEF WriteCall
<1>2. /\ Running /\ ~failed /\ NextCall = Top.script.calls[Top.next] /\ NextCall.do = "write"
      /\ Top.next \in 1 .. Len(Top.script.calls) /\ IsSeq(Top.script.calls)
  BY <1>1, CallIs
<1>3. /\ Top = frames[1] /\ frames # <<>> /\ globals.odf = "read"
      /\ StackInv(frames, globals, FALSE)
  BY <1>2, TopIs
<1>4. failed' = TRUE /\ frames' = frames /\ pending' = pending
  BY <1>3 DEF WriteCall
<1>6. StackInv(frames, globals, TRUE)
  BY <1>3 DEF StackInv
<1>. QED
  BY <1>1, <1>2, <1>3, <1>4, <1>6, RunsOn

LEMMA ReadNestedMeans ==
  ASSUME Inv, Inv', MeaningInv, ~Writer, PathsAsListed, ReadNested
  PROVE  MeaningInv'
<1>. DEFINE p == Effective(NextCall.path)
            f == Frame(p, FunctionAt(p), globals)
            h == [event |-> Event(p, EventValue(NewestFirst(p))), odf |-> "read",
                  ctx |-> [path |-> p, depth |-> globals.ctx.depth + 1]]
<1>1. /\ Calling("read") /\ UNCHANGED <<tree, request, fns, pending, failed>>
      /\ Nests(p) /\ frames' = <<f>> \o frames /\ globals' = h
  BY DEF ReadNested, FunctionAt
<1>2. /\ Running /\ ~failed /\ NextCall = Top.script.calls[Top.next] /\ NextCall.do = "read"
      /\ Top.next \in 1 .. Len(Top.script.calls) /\ IsSeq(Top.script.calls)
  BY <1>1, CallIs
<1>3. /\ IsStack(frames) /\ frames # <<>> /\ Top = frames[1] /\ Len(frames) \in Nat \ {0}
      /\ StackInv(frames, globals, FALSE) /\ Deep(Top, globals, Len(frames) - 1)
  BY <1>2, TopIs
<1>4. PICK d, n : d = Len(frames) - 1 /\ n = Len(frames)
  OBVIOUS
<1>5. p \in DOMAIN Nested[MAX_SCRIPT_DEPTH - 1 - d] \ {Top.path} /\ ~Absent(p)
  BY <1>1, <1>4, RunsNested
<1>6. d \in 0 .. MAX_SCRIPT_DEPTH - 1 /\ globals.ctx.depth = d /\ d + 1 = n
  BY <1>3, <1>4 DEF Deep
<1>7. n \in 0 .. MAX_SCRIPT_DEPTH - 1 /\ n # 0 /\ p \in OnreadPaths \ {Parsed(request.path)}
  <2>1. d # MAX_SCRIPT_DEPTH - 1
    <3>. SUFFICES ASSUME d = MAX_SCRIPT_DEPTH - 1 PROVE FALSE
      OBVIOUS
    <3>1. DOMAIN Nested[MAX_SCRIPT_DEPTH - 1 - d] = DOMAIN <<>>
      BY <1>6, LevelAt
    <3>. QED
      BY <1>5, <3>1
  <2>. QED
    BY <1>3, <1>4, <1>5, <1>6, <2>1, LevelAt
<1>8. /\ f.path = p /\ f.script = FunctionAt(p) /\ f.saved = globals
      /\ f.got = <<>> /\ f.next = 1
      /\ h.ctx.depth = n /\ h.event.value = EventValue(NewestFirst(p))
  BY <1>6 DEF Frame, Event
<1>9. IsSeq(FunctionAt(p).calls)
  <2>1. IsScript(ItemOf(p).onread)
    BY <1>2, <1>7, OnreadItems DEF MeaningInv
  <2>2. IsSeq(ItemOf(p).onread.calls)
    BY <2>1 DEF IsScript, IsSeq
  <2>. QED
    BY <2>2, NothingCalled DEF FunctionAt, AsFunction
<1>10. Len(<<>>) = 0 /\ IsSeq(<<>>)
  BY NothingCalled
<1>11. Deep(f, h, n)
  BY <1>7, <1>8, <1>9, <1>10 DEF Deep
<1>12. Faithful(f, n)
  <2>1. Len(f.script.calls) \in Nat
    BY <1>8, <1>9, SeqParts
  <2>2. \A j \in 1 .. Len(f.got) : FALSE
    BY <1>8, <1>10
  <2>. QED
    BY <1>8, <1>10, <2>1, <2>2 DEF Faithful
<1>13. Awaits(frames[1], f)
  BY <1>2, <1>3, <1>5, <1>8 DEF Awaits
<1>. HIDE DEF f, h, p
<1>14. StackInv(<<f>> \o frames, h, FALSE)
  BY <1>3, <1>4, <1>8, <1>11, <1>12, <1>13, PushKeepsStack
<1>15. frames' # <<>>
  <2>1. Len(<<f>> \o frames) = Len(frames) + 1
    BY <1>3, PushedFrames
  <2>2. Len(frames') # Len(<<>>)
    BY <1>1, <1>3, <1>10, <2>1
  <2>. QED
    BY <2>2
<1>16. failed' = FALSE
  BY <1>1, <1>2, TopIs
<1>17. StackInv(frames', globals', failed')
  BY <1>1, <1>14, <1>16
<1>. QED
  BY <1>1, <1>2, <1>15, <1>16, <1>17, RunsOn

\* What a nested script comes to is what the calling one was to see.
LEMMA ReturnNestedMeans ==
  ASSUME Inv, Inv', MeaningInv, ~Writer, PathsAsListed, ReturnNested
  PROVE  MeaningInv'
<1>. DEFINE s == Tail(frames)
            c == frames[2]
            call == c.script.calls[c.next]
            p == Top.path
            raw == Stripped(call.path)
            js == IF Result \in {Null, Error} THEN StoredResult(p, raw)
                  ELSE TransformedAs(p, raw, Result)
<1>1. /\ Returns /\ Running /\ Len(frames) > 1
      /\ failed' = (Result = Error) /\ globals' = Head(frames).saved
      /\ UNCHANGED <<tree, request, fns, pending>>
  BY DEF ReturnNested, Returns, Top
<1>2. /\ IsStack(frames) /\ Len(frames) \in Nat \ {0} /\ Top = frames[1]
      /\ Deep(Top, globals, Len(frames) - 1)
      /\ StackInv(frames, globals, failed) /\ failed \in BOOLEAN
      /\ ~failed => Faithful(Top, Len(frames) - 1)
  BY <1>1, TopIs
<1>3. /\ IsStack(s) /\ s # <<>> /\ Len(s) = Len(frames) - 1 /\ s[1] = c
      /\ StackInv(s, globals', FALSE)
  <2>1. IsStack(s) /\ s # <<>> /\ Len(s) = Len(frames) - 1
    BY <1>1, <1>2, PoppedFrames
  <2>2. s[1] = c
    <3>1. 1 \in 1 .. Len(s) /\ 1 + 1 = 2
      BY <1>1, <1>2, <2>1
    <3>. QED
      BY <1>1, <1>2, <3>1, PoppedFrames
  <2>3. StackInv(s, globals', FALSE)
    BY <1>1, <1>2, PopKeepsStack
  <2>. QED
    BY <2>1, <2>2, <2>3
<1>4. frames' = Resume(s, js)
  <2>1. Head(s) = s[1]
    BY <1>3, StackParts
  <2>. QED
    BY <1>3, <2>1 DEF ReturnNested
<1>5. PICK d, e : d = Len(frames) - 1 /\ e = Len(frames) - 2
  OBVIOUS
<1>6. /\ d \in 0 .. MAX_SCRIPT_DEPTH - 1 /\ d # 0 /\ d = e + 1 /\ e \in Nat /\ e = Len(s) - 1
      /\ Top.path \in OnreadPaths \ {Parsed(request.path)} /\ Top.script = FunctionAt(Top.path)
      /\ globals.event.value = EventValue(NewestFirst(Top.path))
      /\ IsSeq(Top.script.calls) /\ IsSeq(Top.got) /\ Top.next = Len(Top.got) + 1
  BY <1>1, <1>2, <1>3, <1>5 DEF Deep
<1>7. Awaits(c, Top)
  <2>1. 2 \in 2 .. Len(frames) /\ 2 - 1 = 1
    BY <1>1, <1>2
  <2>. QED
    BY <1>2, <2>1 DEF StackInv
<1>8. Deep(c, globals', e)
  <2>1. 1 \in 1 .. Len(s)
    BY <1>1, <1>2, <1>3
  <2>. QED
    BY <1>3, <1>6, <2>1 DEF StackInv, Found
<1>9. e \in 0 .. MAX_SCRIPT_DEPTH - 1 /\ e # MAX_SCRIPT_DEPTH - 1
  BY <1>6, ScriptAssumption
<1>10. PICK nested : nested = Nested[MAX_SCRIPT_DEPTH - 1 - e]
  OBVIOUS
<1>11. nested[p] = Sees(Top, d) /\ p \in DOMAIN nested
  BY <1>6, <1>9, <1>10, LevelAt DEF Sees
<1>12. ASSUME Result # Error
       PROVE  Outcome(FunctionAt(p), p, EventValue(NewestFirst(p)), nested[p]) = Result
  <2>1. ~failed /\ Result = Given(Top.script, Top.path, globals.event.value, Top.got)
    BY <1>12 DEF Result
  <2>2. Faithful(Top, d)
    BY <1>2, <1>5, <2>1
  <2>3. Len(Top.got) = Len(Top.script.calls)
    <3>1. Top.next > Len(Top.script.calls)
      BY <1>1, <2>1 DEF Returns
    <3>2. Len(Top.got) <= Len(Top.script.calls)
      BY <2>2 DEF Faithful
    <3>. QED
      BY <1>6, <3>1, <3>2, SeqParts
  <2>4. Outcome(Top.script, Top.path, globals.event.value, Sees(Top, d)) = Result
    BY <1>6, <2>1, <2>2, <2>3, ResultIs
  <2>. QED
    BY <1>6, <1>11, <2>4
<1>13. /\ call.do = "read" /\ p = Effective(call.path) /\ p # c.path /\ ~Absent(p)
       /\ c.next \in 1 .. Len(c.script.calls) /\ IsSeq(c.script.calls)
  BY <1>7, <1>8 DEF Awaits, Deep
<1>14. Sees(c, e)[c.next] = ReadBy(c.path, call.path, nested)
  BY <1>10, <1>13, SeesRead
<1>16. StoredResult(p, raw) = Stored(p, raw) /\ tree \in Trees /\ request.path \in OnreadPaths
  <2>1. pending = <<>> /\ tree \in Trees /\ request.path \in OnreadPaths
    BY <1>1 DEF MeaningInv
  <2>2. PendingTo(p) = {}
    BY <2>1 DEF PendingTo
  <2>. QED
    BY <2>1, <2>2 DEF StoredResult, FoundEmpty, Stored
<1>24. Parsed(p) = p
  BY <1>8, <1>13, <1>16, ReadsListed
<1>15. Result # Error =>
         ReadBy(c.path, call.path, nested) =
           IF Result = Null THEN Stored(p, raw) ELSE TransformedAs(p, raw, Result)
  BY <1>11, <1>12, <1>13, <1>24, ReadsNested
<1>17. PICK w : w = js
  OBVIOUS
<1>18. PICK r, err : r = Result /\ err = (r = Error)
  OBVIOUS
<1>19. ~err => w = Sees(c, e)[c.next] /\ w # Error
  <2>. SUFFICES ASSUME ~err PROVE w = Sees(c, e)[c.next] /\ w # Error
    OBVIOUS
  <2>1. Stored(p, raw) # Error
    BY <1>16, StoredIsNoError
  <2>2. r # Null => TransformedAs(p, raw, r) # Error
    BY <1>18, TransformedIsNoError
  <2>3. w = IF r = Null THEN Stored(p, raw) ELSE TransformedAs(p, raw, r)
    BY <1>16, <1>17, <1>18
  <2>4. Sees(c, e)[c.next] = w
    BY <1>14, <1>15, <1>18, <2>3
  <2>. QED
    BY <2>1, <2>2, <2>3, <2>4
<1>20. err \in BOOLEAN /\ failed' = err
  BY <1>1, <1>18
<1>. HIDE DEF js, c, call, p, raw, s
<1>21. StackInv(Resume(s, w), globals', err)
  BY <1>3, <1>6, <1>13, <1>19, <1>20, ResumeKeepsStack
<1>22. frames' # <<>>
  BY <1>3, <1>4, ResumedFrames
<1>23. StackInv(frames', globals', failed')
  BY <1>4, <1>17, <1>20, <1>21
<1>. QED
  BY <1>1, <1>20, <1>22, <1>23, RunsOn

\* What the outermost script comes to is what the read means.
LEMMA ReturnOnreadMeans ==
  ASSUME Inv, MeaningInv, ~Writer, PathsAsListed, ReturnOnread
  PROVE  MeaningInv'
<1>1. /\ Returns /\ Running /\ Len(frames) = 1 /\ frames' = <<>>
      /\ UNCHANGED <<tree, request, failed>>
      /\ reply' = <<"values", IF request.slow \/ Result \in {Null, Error} THEN Queried(request)
                              ELSE Substituted(Queried(request), ToOmi(Result))>>
  BY DEF ReturnOnread, EndOutermost, Returns
<1>2. /\ Deep(Top, globals, 0) /\ failed \in BOOLEAN
      /\ ~failed => Faithful(Top, 0)
  <2>1. Len(frames) - 1 = 0
    BY <1>1
  <2>. QED
    BY <1>1, <2>1, TopIs
<1>3. PICK p : p = request.path
  OBVIOUS
<1>4. /\ Top.path = p /\ Top.script = ItemOf(p).onread
      /\ globals.event.value = EventValue(Queried(request))
      /\ IsSeq(Top.script.calls) /\ IsSeq(Top.got) /\ Top.next = Len(Top.got) + 1
  BY <1>2, <1>3 DEF Deep
<1>5. ~failed => Len(Top.got) = Len(Top.script.calls)
  <2>. SUFFICES ASSUME ~failed PROVE Len(Top.got) = Len(Top.script.calls)
    OBVIOUS
  <2>1. Top.next > Len(Top.script.calls)
    BY <1>1 DEF Returns
  <2>2. Len(Top.got) <= Len(Top.script.calls)
    BY <1>2 DEF Faithful
  <2>. QED
    BY <1>4, <2>1, <2>2, SeqParts
<1>6. ~failed => Outcome(Top.script, Top.path, globals.event.value, Sees(Top, 0)) = Result
  BY <1>2, <1>4, <1>5, ResultIs DEF Result
<1>7. Sees(Top, 0) = Seen(p, ItemOf(p).onread, Nested[MAX_SCRIPT_DEPTH - 1])
  <2>1. MAX_SCRIPT_DEPTH - 1 - 0 = MAX_SCRIPT_DEPTH - 1
    BY ScriptAssumption
  <2>. QED
    BY <1>4, <2>1 DEF Sees
<1>8. HasOnread(p) /\ Parsed(p) = p
  BY <1>1, <1>3 DEF MeaningInv, OnreadPaths
<1>9. reply' = <<"values", IF failed THEN Queried(request) ELSE Meaning>>
  <2>1. CASE failed
    BY <1>1, <2>1 DEF Result
  <2>2. CASE ~failed
    <3>1. Outcome(ItemOf(p).onread, p, EventValue(Queried(request)),
                  Seen(p, ItemOf(p).onread, Nested[MAX_SCRIPT_DEPTH - 1])) = Result
      BY <1>4, <1>6, <1>7, <2>2
    <3>2. Meaning = IF request.slow \/ Result \in {Null, Error} THEN Queried(request)
                    ELSE Substituted(Queried(request), ToOmi(Result))
      BY <1>3, <1>8, <3>1 DEF Meaning
    <3>. QED
      BY <1>1, <2>2, <3>2
  <2>. QED
    BY <2>1, <2>2
<1>. QED
  BY <1>1, <1>9, SameAnswer DEF MeaningInv, AnswerAsDefined, Running

LEMMA StartOnreadMeans ==
  ASSUME Inv, Inv', MeaningInv, PathsAsListed, StartOnread
  PROVE  MeaningInv'
<1>. DEFINE p == request.path
            f == Frame(p, ItemOf(p).onread, Cleared)
            g == [event |-> Event(p, EventValue(Queried(request))), odf |-> "read",
                  ctx |-> [path |-> p, depth |-> 0]]
<1>1. /\ request.kind \in {"read", "interval"} /\ Refusal = "none" /\ ~Plain
      /\ fns' = Compiled(p, ItemOf(p).onread)
      /\ frames' = <<f>> /\ globals' = g /\ pending' = <<>> /\ failed' = FALSE
      /\ UNCHANGED <<tree, request, reply>>
  BY DEF StartOnread, Start, Event
<1>2. Resolve(tree, p) = "InfoItem"
  BY <1>1 DEF Refusal
<1>3. p \in OnreadPaths /\ Parsed(p) = p
  <2>1. Parsed(p) = p
    BY DEF PathsAsListed
  <2>2. p \in DOMAIN tree.items
    BY <1>2, <2>1 DEF Resolve
  <2>. QED
    BY <1>1, <2>1, <2>2 DEF Plain, OnreadPaths
<1>4. IsSeq(ItemOf(p).onread.calls)
  <2>1. IsScript(ItemOf(p).onread)
    BY <1>3, OnreadItems DEF MeaningInv
  <2>. QED
    BY <2>1 DEF IsScript, IsSeq
<1>5. Len(<<>>) = 0 /\ IsSeq(<<>>)
  BY NothingCalled
<1>6. 0 \in 0 .. MAX_SCRIPT_DEPTH - 1
  BY ScriptAssumption
<1>7. Deep(f, g, 0)
  BY <1>4, <1>5, <1>6 DEF Deep, Frame, Event
<1>8. Faithful(f, 0)
  <2>1. Len(ItemOf(p).onread.calls) \in Nat
    BY <1>4, SeqParts
  <2>2. \A j \in 1 .. Len(<<>>) : FALSE
    BY <1>5
  <2>. QED
    BY <1>5, <2>1, <2>2 DEF Faithful, Frame
<1>9. ~Answered' /\ Running' /\ ~Writer'
  BY <1>1 DEF Inv, StartOnread, Waiting, Answered, Running, Writer
<1>. HIDE DEF f, g
<1>10. StackInv(frames', globals', failed')
  <2>1. Len(<<f>>) = 1 /\ <<f>>[1] = f
    OBVIOUS
  <2>2. \A i \in 1 .. 1 : i = 1 /\ 1 - i = 0
    OBVIOUS
  <2>3. \A i \in 2 .. 1 : FALSE
    OBVIOUS
  <2>. QED
    BY <1>1, <1>7, <1>8, <2>1, <2>2, <2>3 DEF StackInv, Found
<1>11. StackInv(frames, globals, failed)'
  BY <1>1, <1>10, StackStays
<1>12. /\ OnreadPaths' = OnreadPaths /\ ItemOf(request.path)' = ItemOf(request.path)
       /\ Parsed(request.path)' = Parsed(request.path)
  BY <1>1, SameMeaning
<1>13. fns' = Compiled(request.path, ItemOf(request.path).onread)'
  BY <1>1, <1>3, <1>12 DEF Compiled
<1>. QED
  BY <1>1, <1>3, <1>9, <1>11, <1>12, <1>13 DEF MeaningInv, AnswerAsDefined

\* What is read without a script means what is stored.
LEMMA AnswerPlainlyMeans ==
  ASSUME MeaningInv, PathsAsListed, AnswerPlainly
  PROVE  MeaningInv'
<1>1. /\ ~Running /\ UNCHANGED <<tree, request, frames>>
      /\ Refusal = "none" => Plain /\ reply' = <<"values", Queried(request)>>
  BY DEF AnswerPlainly, Waiting
<1>2. Refusal = "none" => Meaning = Queried(request)
  <2>. SUFFICES ASSUME Plain PROVE Meaning = Queried(request)
    BY <1>1
  <2>1. Queried(request) = <<>> => \A v : Substituted(Queried(request), v) = Queried(request)
    BY DEF Substituted
  <2>. QED
    BY <2>1 DEF Plain, Meaning, PathsAsListed
<1>3. /\ Meaning' = Meaning /\ Refusal' = Refusal
      /\ Queried(request)' = Queried(request)
  BY <1>1, SameAnswer
<1>. QED
  BY <1>1, <1>2, <1>3 DEF MeaningInv, AnswerAsDefined, Answered, Running

LEMMA MeaningStep == Inv /\ MeaningInv /\ [Next]_vars => MeaningInv'
<1>. SUFFICES ASSUME Inv, MeaningInv, [Next]_vars PROVE MeaningInv'
  OBVIOUS
<1>1. Inv'
  BY InvStep
<1>8. CASE ~PathsAsListed /\ UNCHANGED <<tree, request>>
  BY <1>8, WrittenOtherwise
<1>2. CASE Accept
  BY <1>2 DEF Accept, MeaningInv, AnswerAsDefined, Answered, Running, Inv
<1>3. CASE AnswerPlainly
  BY <1>3, <1>8, AnswerPlainlyMeans DEF AnswerPlainly
<1>4. CASE StartOnread
  BY <1>1, <1>4, <1>8, StartOnreadMeans DEF StartOnread, Start
<1>5. CASE StartOnwrite \/ StartCallback \/ SkipWriter
  <2>1. Writer /\ UNCHANGED <<tree, request>>
    BY <1>5 DEF StartOnwrite, StartCallback, SkipWriter, Start, Writer
  <2>. QED
    BY <2>1 DEF MeaningInv, AnswerAsDefined, Answered, Writer
<1>6. CASE ReadItem \/ ReadNested \/ WriteCall \/ ReturnNested \/ ReturnOnread \/ ReturnWriter
  <2>1. UNCHANGED <<tree, request>> /\ Running
    BY <1>6 DEF ReadItem, ReadNested, WriteCall, ReturnNested, ReturnOnread, ReturnWriter,
                EndOutermost, Calling, Returns
  <2>2. CASE Writer
    BY <2>1, <2>2 DEF MeaningInv, AnswerAsDefined, Answered, Writer
  <2>3. CASE ~Writer
    BY <1>1, <1>6, <1>8, <2>1, <2>3, ReadItemMeans, ReadNestedMeans, WriteCallMeans, ReturnNestedMeans,
       ReturnOnreadMeans DEF ReturnWriter
  <2>. QED
    BY <2>2, <2>3
<1>7. CASE UNCHANGED vars
  <2>1. UNCHANGED <<tree, request, frames, globals, failed, fns, pending, reply>>
    BY <1>7 DEF vars
  <2>2. CASE Running /\ ~Writer /\ PathsAsListed
    <3>1. StackInv(frames', globals', failed') /\ frames' # <<>> /\ failed' \in BOOLEAN
      BY <2>1, <2>2, TopIs DEF Running
    <3>. QED
      BY <1>1, <2>1, <2>2, <3>1, RunsOn
  <2>3. CASE ~(Running /\ ~Writer) /\ PathsAsListed
    <3>1. /\ Meaning' = Meaning /\ Refusal' = Refusal
          /\ Queried(request)' = Queried(request)
      BY <2>1, SameAnswer
    <3>. QED
      BY <2>1, <2>3, <3>1 DEF MeaningInv, AnswerAsDefined, Answered, Running, Writer
  <2>. QED
    BY <1>8, <2>1, <2>2, <2>3
<1>. QED
  BY <1>2, <1>3, <1>4, <1>5, <1>6, <1>7 DEF Next

\* However scripts call one another by the listed paths, in whatever cycles, a read
\* delivers what it means, and what is stored when any of them ran into an error
\* (run_onread_script, execute_nested_onread).
THEOREM AnswersAsDefined == Spec => []AnswerAsDefined
<1>1. Init => MeaningInv
  BY DEF Init, MeaningInv, AnswerAsDefined, Answered, Running
<1>2. MeaningInv => AnswerAsDefined
  BY DEF MeaningInv
<1>. QED
  BY <1>1, <1>2, MeaningStep, Invariance, PTL DEF Spec
=============================================================================
