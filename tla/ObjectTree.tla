----------------------------- MODULE ObjectTree -----------------------------
(***************************************************************************)
(* The O-DF tree of src/odf/tree.rs and src/odf/object.rs as a value, and  *)
(* the methods that change it as operators. A tree is the set of paths at  *)
(* which there is an Object and a function from the paths of InfoItems to  *)
(* the items; an item and an Object may have the same path. Every Object   *)
(* above an Object or an item is in the tree, which is why walking down    *)
(* from the root finds a path exactly when the path is there.              *)
(*                                                                         *)
(* A path as it is written is text: the sequence of its segments before    *)
(* the blanks around them are taken off. The methods take the text; the    *)
(* tree has its paths without blanks. "/a/ b" and "/a/b" are two texts of  *)
(* one item.                                                               *)
(***************************************************************************)
EXTENDS Naturals, Sequences, SequencesExt

CONSTANTS
  Capacity,   \* capacity of an item's history
  NoValue,    \* what the newest value of an empty history is
  NoLimit,    \* the max_duty metadata of an item that has none
  Trimmed     \* what is left of each segment that has blanks around it

ASSUME TreeAssumption ==
  /\ Capacity \in Nat \ {0}
  /\ DOMAIN Trimmed \subseteq STRING
  /\ \A s \in DOMAIN Trimmed : Trimmed[s] \in STRING \ DOMAIN Trimmed

Root == <<>>
EmptyTree == [objects |-> {}, items |-> <<>>]

\* parse_path: the segments are trimmed, and some are refused then.
Trim(s) == IF s \in DOMAIN Trimmed THEN Trimmed[s] ELSE s
Parsed(p) == [i \in DOMAIN p |-> Trim(p[i])]
Parses(p) == \A i \in DOMAIN p : Trim(p[i]) \notin {"", ".."}

Above(p) == Prefixes(p) \ {Root, p}

Resolve(t, p) ==
  IF ~Parses(p) THEN "InvalidPath"
  ELSE IF p = Root THEN "Root"
  ELSE IF Parsed(p) \in DOMAIN t.items THEN "InfoItem"    \* takes precedence
  ELSE IF Parsed(p) \in t.objects THEN "Object"
  ELSE "NotFound"

-----------------------------------------------------------------------------
(* Items: a bounded history (see ValueRing) and the metadata the engine    *)
(* looks at: writable, max_duty and the writes its onwrite script makes.   *)

NewItem == [vals |-> <<>>, writable |-> FALSE, limit |-> NoLimit, onwrite |-> <<>>]

Newest(item) == IF item.vals = <<>> THEN NoValue ELSE Last(item.vals)

Added(item, v) ==
  [item EXCEPT !.vals = Append(IF Len(@) < Capacity THEN @ ELSE Tail(@), v)]

ItemAt(t, p) == IF Parsed(p) \in DOMAIN t.items THEN t.items[Parsed(p)] ELSE NewItem

Put(t, p, item) ==
  [objects |-> t.objects \cup Above(p),
   items |-> [q \in DOMAIN t.items \cup {p} |-> IF q = p THEN item ELSE t.items[q]]]

\* write_value, for a path that names an item: its parents are created.
NamesItem(p) == Parses(p) /\ Len(p) >= 2
ValueWritten(t, p, v) == Put(t, Parsed(p), Added(ItemAt(t, p), v))

\* Engine::mark_writable
MarkedWritable(t, p) ==
  IF Resolve(t, p) = "InfoItem" THEN [t EXCEPT !.items[Parsed(p)].writable = TRUE] ELSE t

\* Object::merge_from: an item of the same name is replaced whole.
Merged(items, others) ==
  [p \in DOMAIN items \cup DOMAIN others |->
     IF p \in DOMAIN others THEN others[p] ELSE items[p]]

\* write_tree: the Object at p is made if need be, and its sub-Objects merged.
At(base, S) == {base \o q : q \in S}
TreeWritten(t, p, sub) ==
  LET base == Parsed(p)
  IN [objects |-> t.objects \cup (Prefixes(base) \ {Root}) \cup At(base, sub.objects),
      items |-> Merged(t.items, [q \in At(base, DOMAIN sub.items) |->
                                  sub.items[SubSeq(q, Len(base) + 1, Len(q))]])]

Below(t, p) == {q \in t.objects \cup DOMAIN t.items : IsPrefix(Parsed(p), q)}
Without(t, p) ==
  IF Parsed(p) \in DOMAIN t.items
  THEN [t EXCEPT !.items = [q \in DOMAIN t.items \ {Parsed(p)} |-> t.items[q]]]
  ELSE [objects |-> t.objects \ Below(t, p),
        items |-> [q \in DOMAIN t.items \ Below(t, p) |-> t.items[q]]]

-----------------------------------------------------------------------------
(* device.rs                                                               *)

\* collect_writable_items: newest value of each writable item that has one.
Collected(t) ==
  [p \in {q \in DOMAIN t.items : t.items[q].writable /\ t.items[q].vals # <<>>}
     |-> Newest(t.items[p])]

\* main.rs at boot: each saved value is written and its item made writable.
Restored(t, saved) ==
  LET kept(p) == MarkedWritable(ValueWritten(t, p, saved[p]), p)
  IN [objects |-> t.objects \cup UNION {Above(p) : p \in DOMAIN saved},
      items |-> [q \in DOMAIN t.items \cup DOMAIN saved |->
                   IF q \in DOMAIN saved THEN kept(q).items[q] ELSE t.items[q]]]

\* update_discovery_tree: the items of the folder that name no live peer are
\* deleted, then each peer with a proper name is written; names have no blanks around
\* them. An item at the path of the folder hides the folder from the first half.
Listed(t, folder) ==
  {p \in DOMAIN t.items : Len(p) = Len(folder) + 1 /\ IsPrefix(folder, p)}
Refreshed(t, folder, peers, address) ==
  LET live == {p \in {folder \o <<n>> : n \in peers} : Parses(p)}
      stale == IF Resolve(t, folder) = "Object" THEN Listed(t, folder) \ live ELSE {}
  IN [objects |-> t.objects \cup UNION {Above(p) : p \in live},
      items |-> [p \in (DOMAIN t.items \ stale) \cup live |->
                   IF p \in live THEN Added(ItemAt(t, p), address) ELSE t.items[p]]]
=============================================================================
