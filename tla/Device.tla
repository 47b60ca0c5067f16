------------------------------- MODULE Device -------------------------------
(***************************************************************************)
(* The request engine of src/omi/engine.rs over the tree of ObjectTree,    *)
(* with the scripts that writes start, and what becomes of the tree in the *)
(* rest of the device: the HTTP handler that marks it dirty, the main loop *)
(* that saves it to flash and refreshes the discovered peers, and the      *)
(* restarts that leave only the flash.                                     *)
(*                                                                         *)
(* The engine's work under its lock is a stack of tasks: a write does its  *)
(* checks, stores the value and puts the writes of the item's onwrite      *)
(* script and then the notification of its subscribers on top of what is   *)
(* left to do. The tree is not touched from elsewhere until none is left.  *)
(***************************************************************************)
EXTENDS ObjectTree, FiniteSets, Integers, Functions

CONSTANTS
  BuiltIn,          \* tree that the boot builds: sensors, pins
  Sensor,           \* path of a sensor
  Folder,           \* path under which discovered peers are listed
  Hosts,            \* host names that may be discovered
  Values,
  Subscribed,       \* texts of paths that have an event subscription
  Requests,         \* requests that clients may send
  CallbackWrites,   \* what a callback script of the main loop writes
  MAX_SCRIPT_DEPTH,
  BlobItems,        \* number of items that fit into the NVS blob
  MaxRequests, MaxCrashes, MaxFaults, MaxEvents  \* bounds

\* Values are numbers here. Requests and scripts name items by texts; the keys of
\* the tree are what is left of texts once they are parsed.
Paths == Seq(STRING)
Keys == {p \in Paths \ {Root} : Parses(p) /\ Parsed(p) = p}

InfoItem == [vals : Seq(Int), writable : BOOLEAN, limit : Int \cup {NoLimit},
             onwrite : Seq([path : Paths, add : Int])]

IsTree(t) == /\ t = [objects |-> t.objects, items |-> t.items]
             /\ t.objects \subseteq Keys /\ DOMAIN t.items \subseteq Keys
             /\ t.items \in [DOMAIN t.items -> InfoItem]

IsRequest(r) ==
  \/ r.op = "write" /\ r.path \in Paths /\ r.v \in Int
  \/ r.op = "batch" /\ r.items \in Seq([path : Paths, v : Int])
  \/ /\ r.op = "tree" /\ r.base \in Paths
     /\ IsTree(r.sub) /\ IsFiniteSet(DOMAIN r.sub.items)
  \/ r.op = "delete" /\ r.path \in Paths

ASSUME DeviceAssumption ==
  /\ MAX_SCRIPT_DEPTH \in Nat \ {0} /\ BlobItems \in Nat
  /\ {MaxRequests, MaxCrashes, MaxFaults, MaxEvents} \subseteq Nat
  /\ Subscribed \subseteq Paths /\ {Sensor, Folder} \subseteq Keys
  /\ Hosts \subseteq STRING \ DOMAIN Trimmed
  /\ Values \subseteq Int /\ IsTree(BuiltIn)
  /\ \A r \in Requests : IsRequest(r)
  /\ CallbackWrites \in Seq([path : Paths, v : Int])

VARIABLES
  tree,       \* Engine::tree
  todo,       \* tasks left to the holder of the engine lock
  http,       \* the HTTP task: [at, op]
  main,       \* what the main thread is doing
  dirty,      \* nvs_dirty
  flash,      \* the saved items
  refused,    \* the request in progress was refused
  told,       \* what subscribers were told in the request in progress
  touched,    \* texts of the paths written in the request in progress
  answering,  \* values of the request whose answer is on its way
  acked,      \* values acknowledged to an HTTP client and not replaced since
  lost,       \* those of them that the device did not keep
  unsaved,    \* the last save did not succeed
  left        \* how often each bounded event may still happen

engineVars == <<todo, refused, told, touched>>
clientVars == <<answering, acked, lost>>
vars == <<tree, engineVars, http, main, dirty, flash, clientVars, unsaved, left>>

Write(p, v, depth, clamps) ==
  [do |-> "write", path |-> p, v |-> v, depth |-> depth, clamps |-> clamps]
Notify(p) == [do |-> "notify", path |-> p]

LockFree == todo = <<>> /\ http.at # "processing" /\ main # "script"
Spend(kind) == left[kind] > 0 /\ left' = [left EXCEPT ![kind] = @ - 1]
Min2(m, n) == IF m < n THEN m ELSE n
Clamp(v, limit) == IF v < 0 THEN 0 ELSE Min2(v, limit)

\* The items were written anew or deleted, and nobody expects the old values.
Forget(keys) ==
  /\ acked' = Restrict(acked, DOMAIN acked \ keys)
  /\ answering' = Restrict(answering, DOMAIN answering \ keys)
  /\ lost' = lost \ keys

\* The values of these items were promised to clients, and are gone.
Lose(keys) ==
  /\ lost' = lost \cup (keys \cap (DOMAIN acked \cup DOMAIN answering))
  /\ UNCHANGED <<acked, answering>>

-----------------------------------------------------------------------------
(* The engine.                                                             *)

\* The checks of write_single_inner and write_batch_item.
Refused(p) ==
  \/ Resolve(tree, p) \in {"Root", "Object", "InvalidPath"}
  \/ Resolve(tree, p) = "InfoItem" /\ ~ItemAt(tree, p).writable
  \/ Resolve(tree, p) = "NotFound" /\ ~NamesItem(p)

\* clamp_if_constrained: a batch does not call it.
Stored(task) ==
  LET limit == ItemAt(tree, task.path).limit
  IN IF task.clamps /\ limit # NoLimit THEN Clamp(task.v, limit) ELSE task.v

Written(task) ==
  LET t == ValueWritten(tree, task.path, Stored(task))
  IN IF Resolve(tree, task.path) = "NotFound"
     THEN MarkedWritable(t, task.path) ELSE t

CollectedWrites(task) ==
  LET script == ItemAt(tree, task.path).onwrite
  IN IF task.depth + 1 >= MAX_SCRIPT_DEPTH THEN <<>>
     ELSE [i \in DOMAIN script |->
             Write(script[i].path, script[i].add + Stored(task), task.depth + 1, TRUE)]

\* Mutant: only the writes of requests are announced.
NoticesOuter(task) == IF task.depth = 0 THEN <<Notify(task.path)>> ELSE <<>>

\* Every write is announced, those of scripts too.
Notices(task) == <<Notify(task.path)>>

EngineWrite ==
  /\ todo # <<>> /\ Head(todo).do = "write"
  /\ LET task == Head(todo)
     IN IF Refused(task.path)
        THEN /\ todo' = Tail(todo)
             /\ refused' = (refused \/ (task.depth = 0 /\ task.clamps))
             /\ UNCHANGED <<tree, touched, clientVars>>
        ELSE /\ tree' = Written(task)
             /\ \E n \in 0..Len(CollectedWrites(task)) :
                  todo' = SubSeq(CollectedWrites(task), 1, n)
                            \o Notices(task) \o Tail(todo)
             /\ touched' = touched \cup {task.path}
             /\ Forget({Parsed(task.path)})
             /\ UNCHANGED refused
  /\ UNCHANGED <<http, main, dirty, flash, told, unsaved, left>>

\* notify_write_event reads the newest value back from the tree. Subscriptions are
\* found by text.
EngineNotify ==
  /\ todo # <<>> /\ Head(todo).do = "notify"
  /\ todo' = Tail(todo)
  /\ LET p == Head(todo).path
     IN told' = IF p \in Subscribed /\ Resolve(tree, p) = "InfoItem"
                THEN [told EXCEPT ![p] = Newest(ItemAt(tree, p))] ELSE told
  /\ UNCHANGED <<tree, http, main, dirty, flash, refused, touched,
                 clientVars, unsaved, left>>

NoneTold == [p \in Subscribed |-> NoValue]
Released == told' = NoneTold /\ touched' = {} /\ refused' = FALSE

-----------------------------------------------------------------------------
(* The HTTP task: POST /omi.                                               *)

Begin(r) ==
  /\ http.at = "idle" /\ LockFree /\ Spend("request")
  /\ http' = [at |-> "processing", op |-> r.op]
  /\ UNCHANGED <<main, dirty, flash, told, unsaved>>

PostWrite(r) ==
  /\ r.op = "write" /\ Begin(r)
  /\ todo' = <<Write(r.path, r.v, 0, TRUE)>>
  /\ UNCHANGED <<tree, refused, touched, clientVars>>

\* A batch succeeds whatever becomes of its items.
PostBatch(r) ==
  /\ r.op = "batch" /\ Begin(r)
  /\ todo' = [i \in DOMAIN r.items |-> Write(r.items[i].path, r.items[i].v, 0, FALSE)]
  /\ UNCHANGED <<tree, refused, touched, clientVars>>

\* A tree is merged without a look at writability, limits or scripts.
PostTree(r) ==
  /\ r.op = "tree" /\ Begin(r)
  /\ refused' = ~Parses(r.base)
  /\ LET texts == At(r.base, DOMAIN r.sub.items)
     IN IF refused' THEN UNCHANGED <<tree, todo, touched, clientVars>>
        ELSE /\ tree' = TreeWritten(tree, r.base, r.sub)
             /\ todo' = [i \in DOMAIN SetToSeq(texts) |-> Notify(SetToSeq(texts)[i])]
             /\ touched' = texts
             /\ Forget(At(Parsed(r.base), DOMAIN r.sub.items))

PostDelete(r) ==
  /\ r.op = "delete" /\ Begin(r)
  /\ refused' = (Resolve(tree, r.path) \in {"InvalidPath", "Root", "NotFound"})
  /\ IF refused' THEN UNCHANGED <<tree, clientVars>>
     ELSE /\ tree' = Without(tree, r.path)
          /\ Forget({p \in DOMAIN acked \cup DOMAIN answering : IsPrefix(Parsed(r.path), p)})
  /\ UNCHANGED <<todo, touched>>

\* What the request promises to keep: all it wrote, and of a tree what is writable,
\* since nothing else is ever saved.
Promised ==
  LET keys == {Parsed(p) : p \in touched}
  IN IF http.op = "tree" THEN keys \cap DOMAIN Collected(tree) ELSE keys

\* The lock is released; a successful write is marked, then answered.
Processed ==
  /\ http.at = "processing" /\ todo = <<>>
  /\ http' = [http EXCEPT !.at = IF http.op # "delete" /\ ~refused
                                 THEN "marking" ELSE "replying"]
  /\ answering' = [p \in Promised |-> Newest(tree.items[p])]
  /\ Released
  /\ UNCHANGED <<tree, todo, main, dirty, flash, acked, lost, unsaved, left>>

\* Mutant: the dirty flag is not set.
MarkDirtyNot ==
  /\ http.at = "marking"
  /\ dirty' = (dirty \/ http.op = "write")
  /\ http' = [http EXCEPT !.at = "replying"]
  /\ UNCHANGED <<tree, engineVars, main, flash, clientVars, unsaved, left>>

MarkDirty ==
  /\ http.at = "marking"
  /\ dirty' = TRUE
  /\ http' = [http EXCEPT !.at = "replying"]
  /\ UNCHANGED <<tree, engineVars, main, flash, clientVars, unsaved, left>>

Reply ==
  /\ http.at = "replying"
  /\ http' = [at |-> "idle", op |-> "none"]
  /\ acked' = Merged(acked, answering) /\ answering' = <<>>
  /\ UNCHANGED <<tree, engineVars, main, dirty, flash, lost, unsaved, left>>

-----------------------------------------------------------------------------
(* The main thread.                                                        *)

MainWrites(t, keys) == tree' = t /\ Forget(keys)
BootWrites(t, keys) == tree' = t /\ Lose(keys)

\* Boot: the HTTP server is up before the tree is populated and restored, and
\* what a client wrote meanwhile gives way to what was saved.
InFlash(p) == p \in DOMAIN acked /\ p \in DOMAIN flash /\ flash[p] = acked[p]
Overruled(keys) == {p \in keys : ~InFlash(p)}
Populate ==
  /\ main = "populate" /\ LockFree
  /\ main' = "restore"
  /\ BootWrites(TreeWritten(tree, Root, BuiltIn), Overruled(DOMAIN BuiltIn.items))
  /\ UNCHANGED <<engineVars, http, dirty, flash, unsaved, left>>

\* Mutant: restored items of no built-in kind are not made writable.
RestoreUnmarked ==
  /\ main = "restore" /\ LockFree
  /\ main' = "idle"
  /\ BootWrites([Restored(tree, flash) EXCEPT !.items =
                   [p \in DOMAIN @ |-> IF p \in DOMAIN tree.items THEN @[p]
                                       ELSE [@[p] EXCEPT !.writable = FALSE]]],
                Overruled(DOMAIN flash))
  /\ UNCHANGED <<engineVars, http, dirty, flash, unsaved, left>>

\* What load_writable_items cannot read is empty: acknowledged values of saved
\* items are lost then, but for those that the tree has to save again, and the
\* next save erases them.
Unread == {p \in DOMAIN acked \cap DOMAIN flash :
             ~(p \in DOMAIN Collected(tree) /\ Collected(tree)[p] = acked[p])}
Unloaded == BootWrites(tree, Unread) /\ Spend("fault")

Restore ==
  /\ main = "restore" /\ LockFree
  /\ main' = "idle"
  /\ \/ BootWrites(Restored(tree, flash), Overruled(DOMAIN flash)) /\ UNCHANGED left
     \/ Unloaded
  /\ UNCHANGED <<engineVars, http, dirty, flash, unsaved>>

\* Sensors are written past the engine, so no subscriber is notified.
Sense ==
  /\ main = "idle" /\ LockFree /\ Spend("event")
  /\ \E v \in Values : MainWrites(ValueWritten(tree, Sensor, v), {Sensor})
  /\ UNCHANGED <<engineVars, http, main, dirty, flash, unsaved>>

Discover ==
  /\ main = "idle" /\ LockFree /\ Spend("event")
  /\ \E peers \in SUBSET Hosts, address \in Values :
       MainWrites(Refreshed(tree, Folder, peers, address), Listed(tree, Folder))
  /\ UNCHANGED <<engineVars, http, main, dirty, flash, unsaved>>

\* run_callback_script: its writes have depth 1, and nothing is marked dirty.
Callback ==
  /\ main = "idle" /\ LockFree /\ Spend("event")
  /\ main' = "script"
  /\ todo' = [i \in DOMAIN CallbackWrites |->
                Write(CallbackWrites[i].path, CallbackWrites[i].v, 1, TRUE)]
  /\ UNCHANGED <<tree, refused, told, touched, http, dirty, flash, clientVars,
                 unsaved>>

CallbackDone ==
  /\ main = "script" /\ todo = <<>>
  /\ main' = "idle" /\ Released
  /\ UNCHANGED <<tree, todo, http, dirty, flash, clientVars, unsaved, left>>

\* The flag is taken down before the items are collected.
TakeDirty ==
  /\ main = "idle" /\ dirty
  /\ dirty' = FALSE /\ main' = "save"
  /\ UNCHANGED <<tree, engineVars, http, flash, clientVars, unsaved, left>>

\* serialize_saved_items refuses what does not fit; errors are only logged.
Fits(t) == Cardinality(DOMAIN Collected(t)) <= BlobItems
Save ==
  /\ main = "save" /\ LockFree
  /\ main' = "idle"
  /\ \/ Fits(tree) /\ flash' = Collected(tree) /\ unsaved' = FALSE /\ UNCHANGED left
     \/ ~Fits(tree) /\ unsaved' = TRUE /\ UNCHANGED <<flash, left>>
     \/ Spend("fault") /\ unsaved' = TRUE /\ UNCHANGED flash
  /\ UNCHANGED <<tree, engineVars, http, dirty, clientVars>>

-----------------------------------------------------------------------------
(* Power fails at any time and leaves the flash.                           *)

Idle == [at |-> "idle", op |-> "none"]

Init ==
  /\ tree = EmptyTree /\ todo = <<>> /\ http = Idle
  /\ main = "populate" /\ dirty = FALSE /\ unsaved = FALSE
  /\ refused = FALSE /\ told = NoneTold /\ touched = {}
  /\ flash = <<>> /\ acked = <<>> /\ answering = <<>> /\ lost = {}
  /\ left = [request |-> MaxRequests, crash |-> MaxCrashes,
             fault |-> MaxFaults, event |-> MaxEvents]

\* A value that a save was due for, or whose save failed, may go with the power.
AtRisk == dirty \/ unsaved \/ main = "save"

Crash ==
  /\ Spend("crash")
  /\ tree' = EmptyTree /\ todo' = <<>> /\ http' = Idle
  /\ main' = "populate" /\ dirty' = FALSE /\ unsaved' = FALSE
  /\ Released
  /\ lost' = {p \in DOMAIN acked : p \in lost \/ (AtRisk /\ ~InFlash(p))}
  /\ answering' = <<>>
  /\ UNCHANGED <<flash, acked>>

Engine == EngineWrite \/ EngineNotify
Http == Processed \/ MarkDirty \/ Reply
Post == \E r \in Requests : PostWrite(r) \/ PostBatch(r) \/ PostTree(r) \/ PostDelete(r)
Boot == Populate \/ Restore
Main == Boot \/ Sense \/ Discover \/ Callback \/ CallbackDone
        \/ TakeDirty \/ Save

Next == Engine \/ Http \/ Post \/ Main \/ Crash

\* Both threads run on; the lock is fair enough that the main thread, whose
\* turns come for ever, gets it.
Fairness ==
  /\ WF_vars(Engine) /\ WF_vars(Http)
  /\ SF_vars(Populate) /\ SF_vars(Restore) /\ WF_vars(CallbackDone)
  /\ SF_vars(TakeDirty) /\ SF_vars(Save)

Spec == Init /\ [][Next]_vars /\ Fairness

-----------------------------------------------------------------------------
(* Properties.                                                             *)

\* The same item was written under another text as well.
Respelled(p) == \E q \in touched \ {p} : Parsed(q) = Parsed(p)

\* notify_write_event reads the tree after the onwrite script has run, and the
\* script may have written the same item again: when the engine's lock is
\* released, the last thing a subscriber was told is the value there is, unless the
\* item was written under a text that the subscription does not name.
SubscribersSeeFinalValue ==
  ~LockFree /\ todo = <<>> =>
    \A p \in touched \cap Subscribed :
      Resolve(tree, p) = "InfoItem" /\ ~Respelled(p) => told[p] = Newest(ItemAt(tree, p))

\* Dirty flag, save and restart: a promise is broken only by a crash that comes
\* before the save it waits for or after a save that failed, by a boot that
\* overwrites what came in before it was done, or by a flash that cannot be read.
\* Of all other values that were acknowledged to a client and not replaced since,
\* whenever nothing is in progress, nothing is marked dirty and the last save
\* succeeded, each is in the tree and in flash, also after restarts. That there are
\* such ways is against doc/omi-lite.md:398, "The server must not respond with
\* success until the write is durable": the handler answers before the main loop
\* saves (server.rs:605-617, main.rs:824-828).
SavedUnlessDirty ==
  (http.at = "idle" /\ main = "idle" /\ LockFree /\ ~dirty /\ ~unsaved) =>
    \A p \in DOMAIN acked \ lost :
      /\ Resolve(tree, p) = "InfoItem" /\ Newest(tree.items[p]) = acked[p]
      /\ InFlash(p)

\* The main loop comes to every dirty flag: in the end every acknowledged value
\* that was not replaced is in flash, unless the last save failed, or it was lost
\* before.
EventuallySaved ==
  <>[](unsaved \/ \A p \in DOMAIN acked \ lost : InFlash(p))

=============================================================================
