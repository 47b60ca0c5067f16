----------------------------- MODULE DeviceProofs -----------------------------
(***************************************************************************)
(* Theorems about Device, for any trees, requests, scripts, paths and      *)
(* bounds: what was acknowledged is not lost when power fails, and what a  *)
(* subscriber was told last is the value there is.                         *)
(***************************************************************************)
EXTENDS Device, FiniteSetTheorems, SequenceTheorems, TLAPS

WriteTask == [do : {"write"}, path : Paths, v : Int, depth : Nat, clamps : BOOLEAN]
NotifyTask == [do : {"notify"}, path : Paths]
Task == WriteTask \cup NotifyTask

\* Values by key.
IsSaved(f) == DOMAIN f \subseteq Keys /\ f \in [DOMAIN f -> Int]

TypeOK ==
  /\ IsTree(tree)
  /\ todo \in Seq(Task)
  /\ http \in [at : {"idle", "processing", "marking", "replying"},
               op : {"none", "write", "batch", "tree", "delete"}]
  /\ main \in {"populate", "restore", "idle", "script", "save"}
  /\ {dirty, unsaved, refused} \subseteq BOOLEAN
  /\ IsSaved(flash) /\ IsSaved(acked) /\ IsSaved(answering)
  /\ touched \subseteq Paths
  /\ DOMAIN told = Subscribed /\ told = [p \in Subscribed |-> told[p]]

\* The engine is worked by one thread, and holds nothing of a request when by none.
Worked == http.at = "processing" \/ main = "script"
Exclusive ==
  /\ ~(http.at = "processing" /\ main = "script")
  /\ ~Worked => todo = <<>> /\ touched = {} /\ ~refused
  /\ http.at = "processing" /\ http.op = "delete" => todo = <<>> /\ touched = {}

\* A write that can be refused is all there is of its request.
RefusedAlone ==
  /\ refused => todo = <<>> /\ touched = {}
  /\ \A i \in DOMAIN todo :
       (todo[i].do = "write" /\ todo[i].depth = 0 /\ todo[i].clamps)
         => Len(todo) = 1 /\ touched = {}

\* A text by which an item is found, if there is one.
Named(p) == Parses(p) /\ p # Root

\* The item at p is one that the next save collects.
Collectable(t, p) ==
  p \in DOMAIN t.items /\ t.items[p].writable /\ t.items[p].vals # <<>>
Holds(t, p, v) == Collectable(t, p) /\ Newest(t.items[p]) = v
Flashed(p, v) == p \in DOMAIN flash /\ flash[p] = v
Booting == main \in {"populate", "restore"}

\* What a client was promised and the device did not lose is in the tree, to be
\* collected, or the boot is about to restore it; and in flash, unless a save is
\* due or failed.
AckedKept ==
  \A p \in DOMAIN acked \ lost :
    /\ Holds(tree, p, acked[p]) \/ (Booting /\ Flashed(p, acked[p]))
    /\ Flashed(p, acked[p]) \/ AtRisk

\* The same of a promise on its way, which the handler is still to mark dirty.
AnsweringKept ==
  /\ http.at \in {"idle", "processing"} => DOMAIN answering = {}
  /\ \A p \in DOMAIN answering \ lost :
       /\ p \notin DOMAIN acked
       /\ Holds(tree, p, answering[p])
       /\ Flashed(p, answering[p]) \/ AtRisk \/ http.at = "marking"

\* And of what will be promised when the request is done.
TouchedKept ==
  http.at = "processing" =>
    \A p \in touched : /\ Parsed(p) \notin DOMAIN acked
                       /\ http.op # "tree" => Collectable(tree, Parsed(p))

\* A subscriber was told the newest value, or is about to be told.
ToldOrDue ==
  \A p \in touched \cap Subscribed :
    Resolve(tree, p) = "InfoItem" /\ ~Respelled(p) =>
      \/ told[p] = Newest(ItemAt(tree, p))
      \/ \E i \in DOMAIN todo : todo[i] = Notify(p)

Promises == AckedKept /\ AnsweringKept /\ TouchedKept
Inv == TypeOK /\ Exclusive /\ RefusedAlone /\ Promises /\ ToldOrDue
-----------------------------------------------------------------------------
(* Items and trees.                                                        *)

\* A new value is the newest.
LEMMA AddedItem ==
  ASSUME NEW item \in InfoItem, NEW v \in Int
  PROVE  /\ Added(item, v) \in InfoItem
         /\ Added(item, v).vals # <<>> /\ Newest(Added(item, v)) = v
         /\ Added(item, v).writable = item.writable
<1>. DEFINE old == IF Len(item.vals) < Capacity THEN item.vals ELSE Tail(item.vals)
            new == Append(old, v)
<1>1. item.vals \in Seq(Int) /\ Capacity \in Nat \ {0}
  BY TreeAssumption DEF InfoItem
<1>2. old \in Seq(Int)
  <2>1. CASE Len(item.vals) < Capacity
    BY <1>1, <2>1
  <2>2. CASE ~(Len(item.vals) < Capacity)
    <3>1. item.vals # <<>>
      BY <1>1, <2>2
    <3>. QED
      BY <1>1, <2>2, <3>1
  <2>. QED
    BY <2>1, <2>2
<1>. HIDE DEF old
<1>3. new \in Seq(Int) /\ new # <<>> /\ new[Len(new)] = v
  BY <1>2, AppendProperties
<1>4. Added(item, v) = [item EXCEPT !.vals = new]
  BY DEF Added, old
<1>. HIDE DEF new
<1>5. /\ Added(item, v) \in InfoItem /\ Added(item, v).vals = new
      /\ Added(item, v).writable = item.writable
  BY <1>3, <1>4 DEF InfoItem
<1>. QED
  BY <1>3, <1>5 DEF Newest, Last

\* Segments that parsing leaves as they are. Keys are made of these.
Plain(s) == Trim(s) = s /\ s \notin {"", ".."}

LEMMA Trimming ==
  ASSUME NEW p \in Seq(STRING)
  PROVE  /\ Parsed(p) \in Seq(STRING) /\ Len(Parsed(p)) = Len(p)
         /\ \A i \in 1 .. Len(p) : /\ p[i] \in STRING /\ Parsed(p)[i] = Trim(p[i])
                                   /\ Parsed(p)[i] \in STRING
                                   /\ Trim(Parsed(p)[i]) = Parsed(p)[i]
         /\ Parses(p) <=> \A i \in 1 .. Len(p) : Parsed(p)[i] \notin {"", ".."}
<1>1. \A s \in STRING : Trim(s) \in STRING /\ Trim(Trim(s)) = Trim(s)
  BY TreeAssumption DEF Trim
<1>2. DOMAIN p = 1 .. Len(p) /\ Len(p) \in Nat /\ \A i \in 1 .. Len(p) : p[i] \in STRING
  OBVIOUS
<1>. DEFINE e(i) == Trim(p[i])
<1>3. \A i \in 1 .. Len(p) : e(i) \in STRING /\ Trim(e(i)) = e(i)
  BY <1>1, <1>2
<1>4. Parsed(p) = [i \in 1 .. Len(p) |-> e(i)]
  BY <1>2 DEF Parsed
<1>5. Parses(p) <=> \A i \in 1 .. Len(p) : e(i) \notin {"", ".."}
  BY <1>2 DEF Parses
<1>6. \A i \in 1 .. Len(p) : e(i) = Trim(p[i])
  OBVIOUS
<1>. HIDE DEF e
<1>. DEFINE w == [i \in 1 .. Len(p) |-> e(i)]
<1>7. w \in Seq(STRING) /\ Len(w) = Len(p) /\ \A i \in 1 .. Len(p) : w[i] = e(i)
  <2>1. w \in [1 .. Len(p) -> STRING]
    BY <1>3
  <2>. QED
    BY <1>2, <2>1
<1>. HIDE DEF w
<1>8. Parsed(p) = w
  BY <1>4 DEF w
<1>. QED
  BY <1>2, <1>3, <1>5, <1>6, <1>7, <1>8

LEMMA Joined ==
  ASSUME NEW S, NEW p \in Seq(S), NEW q \in Seq(S)
  PROVE  /\ p \o q \in Seq(S) /\ Len(p \o q) = Len(p) + Len(q)
         /\ Len(p) \in Nat /\ Len(q) \in Nat /\ (p \o q = <<>> => q = <<>>)
         /\ \A i \in 1 .. Len(p \o q) :
              (p \o q)[i] = IF i <= Len(p) THEN p[i] ELSE q[i - Len(p)]
OBVIOUS

LEMMA SameSegments ==
  ASSUME NEW p \in Seq(STRING), NEW q \in Seq(STRING), Len(p) = Len(q),
         \A i \in 1 .. Len(p) : p[i] = q[i]
  PROVE  p = q
BY SeqEqual

LEMMA KeyParts ==
  ASSUME NEW p \in Seq(STRING)
  PROVE  p \in Keys <=> p # <<>> /\ \A i \in 1 .. Len(p) : Plain(p[i])
<1>1. p \in Keys => \A i \in 1 .. Len(p) : Plain(p[i])
  <2>. SUFFICES ASSUME Parses(p), Parsed(p) = p PROVE \A i \in 1 .. Len(p) : Plain(p[i])
    BY DEF Keys
  <2>. QED
    BY Trimming DEF Plain
<1>2. ASSUME \A i \in 1 .. Len(p) : Plain(p[i])
      PROVE  Parses(p) /\ Parsed(p) = p
  <2>1. \A i \in 1 .. Len(p) : Parsed(p)[i] = p[i] /\ p[i] \notin {"", ".."}
    BY <1>2, Trimming DEF Plain
  <2>2. Parsed(p) \in Seq(STRING) /\ Len(Parsed(p)) = Len(p)
    BY Trimming
  <2>3. Parsed(p) = p
    BY <2>1, <2>2, SameSegments
  <2>. QED
    BY <2>1, <2>3, Trimming
<1>. QED
  BY <1>1, <1>2 DEF Keys, Paths, Root

\* Parsing takes the blanks off: what is left is a key, and parsed already.
LEMMA ParsedTexts ==
  /\ \A p \in Paths : /\ Parsed(p) \in Paths /\ Len(Parsed(p)) = Len(p)
                      /\ Parsed(Parsed(p)) = Parsed(p)
                      /\ Parses(Parsed(p)) <=> Parses(p)
                      /\ Parsed(p) = Root <=> p = Root
                      /\ Named(p) <=> Parsed(p) \in Keys
  /\ \A p \in Keys : p \in Paths /\ Parsed(p) = p /\ Named(p)
<1>1. ASSUME NEW p \in Paths
      PROVE  /\ Parsed(p) \in Paths /\ Len(Parsed(p)) = Len(p)
             /\ Parsed(Parsed(p)) = Parsed(p)
             /\ Parses(Parsed(p)) <=> Parses(p)
             /\ Parsed(p) = Root <=> p = Root
  <2>1. p \in Seq(STRING)
    BY DEF Paths
  <2>2. /\ Parsed(p) \in Seq(STRING) /\ Len(Parsed(p)) = Len(p)
        /\ \A i \in 1 .. Len(p) : Trim(Parsed(p)[i]) = Parsed(p)[i]
        /\ Parses(p) <=> \A i \in 1 .. Len(p) : Parsed(p)[i] \notin {"", ".."}
    BY <2>1, Trimming
  <2>. DEFINE w == Parsed(p)
  <2>3. w \in Seq(STRING) /\ Len(w) = Len(p)
    BY <2>2
  <2>. HIDE DEF w
  <2>4. /\ Parsed(w) \in Seq(STRING) /\ Len(Parsed(w)) = Len(w)
        /\ \A i \in 1 .. Len(w) : Parsed(w)[i] = Trim(w[i])
        /\ Parses(w) <=> \A i \in 1 .. Len(w) : Parsed(w)[i] \notin {"", ".."}
    BY <2>3, Trimming
  <2>5. \A i \in 1 .. Len(w) : Parsed(w)[i] = w[i]
    BY <2>2, <2>3, <2>4 DEF w
  <2>6. Parsed(w) = w
    BY <2>3, <2>4, <2>5, SameSegments
  <2>7. Parses(w) <=> Parses(p)
    BY <2>2, <2>3, <2>4, <2>5 DEF w
  <2>8. w = <<>> <=> p = <<>>
    BY <2>1, <2>3
  <2>. QED
    BY <2>3, <2>6, <2>7, <2>8 DEF w, Paths, Root
<1>. QED
  BY <1>1 DEF Named, Keys

\* A method finds an item by any text of its key.
LEMMA NamedResolved ==
  ASSUME NEW t, NEW p
  PROVE  /\ Resolve(t, p) # "InvalidPath" /\ Resolve(t, p) # "Root" <=> Named(p)
         /\ Resolve(t, p) = "InfoItem" <=> Named(p) /\ Parsed(p) \in DOMAIN t.items
         /\ Parsed(p) \in DOMAIN t.items => ItemAt(t, p) = t.items[Parsed(p)]
BY DEF Resolve, Named, ItemAt

LEMMA ItemType ==
  ASSUME NEW t, IsTree(t), NEW p \in DOMAIN t.items
  PROVE  t.items[p] \in InfoItem
BY DEF IsTree

LEMMA ItemAtType ==
  ASSUME NEW t, IsTree(t), NEW p
  PROVE  ItemAt(t, p) \in InfoItem
<1>1. NewItem \in InfoItem
  BY DEF NewItem, InfoItem
<1>2. \A q \in DOMAIN t.items : t.items[q] \in InfoItem
  BY DEF IsTree
<1>. QED
  BY <1>1, <1>2 DEF ItemAt

LEMMA PrefixTypes ==
  ASSUME NEW p \in Keys \cup {Root}
  PROVE  Prefixes(p) \ {Root} \subseteq Keys /\ Above(p) \subseteq Keys
<1>1. p \in Seq(STRING)
  <2>1. CASE p \in Keys
    BY <2>1 DEF Keys, Paths
  <2>2. CASE p = Root
    BY <2>2 DEF Root
  <2>. QED
    BY <2>1, <2>2
<1>2. \A i \in 1 .. Len(p) : Plain(p[i])
  BY <1>1, KeyParts DEF Root
<1>3. ASSUME NEW l \in 0 .. Len(p), SubSeq(p, 1, l) # Root
      PROVE  SubSeq(p, 1, l) \in Keys
  <2>. DEFINE w == SubSeq(p, 1, l)
  <2>1. w \in Seq(STRING) /\ Len(w) = l /\ \A i \in 1 .. l : w[i] = p[i]
    BY <1>1
  <2>. HIDE DEF w
  <2>2. w # <<>> /\ \A i \in 1 .. Len(w) : Plain(w[i])
    BY <1>1, <1>2, <1>3, <2>1 DEF w, Root
  <2>. QED
    BY <2>1, <2>2, KeyParts DEF w
<1>. QED
  BY <1>3 DEF Prefixes, Above

\* One item is put, and no other touched.
LEMMA PutTree ==
  ASSUME NEW t, IsTree(t), NEW p \in Keys, NEW item \in InfoItem
  PROVE  /\ IsTree(Put(t, p, item))
         /\ DOMAIN Put(t, p, item).items = DOMAIN t.items \cup {p}
         /\ Put(t, p, item).items[p] = item
         /\ \A q \in DOMAIN t.items \ {p} : Put(t, p, item).items[q] = t.items[q]
BY PrefixTypes DEF IsTree, Put

\* The tree that a write of p leaves, if it is not refused.
LEMMA ValueTree ==
  ASSUME NEW t, IsTree(t), NEW p, NEW k \in Keys, k = Parsed(p), NEW v \in Int
  PROVE  LET u == ValueWritten(t, p, v)
         IN /\ IsTree(u)
            /\ DOMAIN u.items = DOMAIN t.items \cup {k}
            /\ u.items[k].vals # <<>> /\ Newest(u.items[k]) = v
            /\ k \in DOMAIN t.items => u.items[k].writable = t.items[k].writable
            /\ \A q \in DOMAIN t.items \ {k} : u.items[q] = t.items[q]
<1>. DEFINE item == Added(ItemAt(t, p), v)
<1>1. /\ item \in InfoItem /\ item.vals # <<>> /\ Newest(item) = v
      /\ item.writable = ItemAt(t, p).writable
  BY ItemAtType, AddedItem
<1>2. k \in DOMAIN t.items => ItemAt(t, p) = t.items[k]
  BY DEF ItemAt
<1>3. ValueWritten(t, p, v) = Put(t, k, item)
  BY DEF ValueWritten
<1>. HIDE DEF item
<1>. QED
  BY <1>1, <1>2, <1>3, PutTree

LEMMA MarkedTree ==
  ASSUME NEW t, IsTree(t), NEW p, NEW k \in DOMAIN t.items, k = Parsed(p), Named(p)
  PROVE  LET u == MarkedWritable(t, p)
         IN /\ IsTree(u) /\ DOMAIN u.items = DOMAIN t.items
            /\ u.items[k].vals = t.items[k].vals
            /\ Newest(u.items[k]) = Newest(t.items[k])
            /\ u.items[k].writable
            /\ \A q \in DOMAIN t.items \ {k} : u.items[q] = t.items[q]
<1>. DEFINE item == [t.items[k] EXCEPT !.writable = TRUE]
            u == [t EXCEPT !.items[k].writable = TRUE]
<1>1. t.items[k] \in InfoItem
  BY DEF IsTree
<1>2. item \in InfoItem /\ item.vals = t.items[k].vals /\ item.writable
  BY <1>1 DEF InfoItem
<1>3. u = [objects |-> t.objects, items |-> [t.items EXCEPT ![k] = item]]
  <2>1. t = [objects |-> t.objects, items |-> t.items]
    BY DEF IsTree
  <2>2. PICK e : e = item
    OBVIOUS
  <2>3. u = [t EXCEPT !.items = [t.items EXCEPT ![k] = e]]
    BY <2>2
  <2>. HIDE DEF item, u
  <2>. QED
    BY <2>1, <2>2, <2>3
<1>. HIDE DEF item
<1>4. MarkedWritable(t, p) = u
  BY NamedResolved DEF MarkedWritable
<1>. HIDE DEF u
<1>5. /\ IsTree(u) /\ DOMAIN u.items = DOMAIN t.items
      /\ u.items[k].vals = t.items[k].vals
      /\ Newest(u.items[k]) = Newest(t.items[k])
      /\ u.items[k].writable
      /\ \A q \in DOMAIN t.items \ {k} : u.items[q] = t.items[q]
  BY <1>2, <1>3 DEF IsTree, Newest
<1>. QED
  BY <1>4, <1>5

LEMMA AtPaths ==
  ASSUME NEW base \in Paths, NEW S, S \subseteq Paths
  PROVE  /\ At(base, S) \subseteq Paths
         /\ \A q \in S : SubSeq(base \o q, Len(base) + 1, Len(base \o q)) = q
         /\ At(Root, S) = S
<1>1. \A q \in S : /\ base \o q \in Seq(STRING) /\ <<>> \o q = q
                   /\ SubSeq(base \o q, Len(base) + 1, Len(base \o q)) = q
  <2>. SUFFICES ASSUME NEW q \in S
                PROVE  /\ base \o q \in Seq(STRING) /\ <<>> \o q = q
                       /\ SubSeq(base \o q, Len(base) + 1, Len(base \o q)) = q
    OBVIOUS
  <2>1. base \in Seq(STRING) /\ q \in Seq(STRING)
    BY DEF Paths
  <2>2. Len(base \o q) = Len(base) + Len(q)
    BY <2>1
  <2>. QED
    BY <2>1, <2>2, SubSeqOfConcat2
<1>. QED
  BY <1>1 DEF At, Root, Paths

\* A key below a key is a key; parsing a text below a text parses both.
LEMMA AtKeys ==
  ASSUME NEW p \in Paths, Parses(p), NEW q \in Keys
  PROVE  Parsed(p) \o q \in Keys /\ Parsed(p \o q) = Parsed(p) \o q
<1>. DEFINE base == Parsed(p)
<1>1. /\ p \in Seq(STRING) /\ q \in Seq(STRING) /\ q # <<>>
      /\ base \in Seq(STRING) /\ Len(base) = Len(p)
      /\ \A i \in 1 .. Len(p) : base[i] = Trim(p[i]) /\ Plain(base[i])
  BY Trimming DEF Paths, Keys, Root, Plain
<1>2. \A i \in 1 .. Len(q) : Plain(q[i])
  BY <1>1, KeyParts
<1>. HIDE DEF base
<1>. DEFINE w == base \o q
            x == p \o q
<1>3. /\ w \in Seq(STRING) /\ Len(w) = Len(p) + Len(q) /\ w # <<>>
      /\ Len(p) \in Nat /\ Len(q) \in Nat
      /\ \A i \in 1 .. Len(w) : w[i] = IF i <= Len(p) THEN base[i] ELSE q[i - Len(p)]
  <2>2. base \in Seq(STRING) /\ q \in Seq(STRING)
    BY <1>1
  <2>1. /\ w \in Seq(STRING) /\ Len(w) = Len(base) + Len(q)
        /\ Len(base) \in Nat /\ Len(q) \in Nat /\ (w = <<>> => q = <<>>)
        /\ \A i \in 1 .. Len(w) : w[i] = IF i <= Len(base) THEN base[i] ELSE q[i - Len(base)]
    BY <2>2, Joined
  <2>. HIDE DEF w
  <2>. QED
    BY <1>1, <2>1
<1>4. /\ x \in Seq(STRING) /\ Len(x) = Len(p) + Len(q)
      /\ \A i \in 1 .. Len(x) : x[i] = IF i <= Len(p) THEN p[i] ELSE q[i - Len(p)]
  BY <1>1, Joined
<1>. HIDE DEF w, x
<1>5. ASSUME NEW i \in 1 .. Len(w)
      PROVE  Plain(w[i]) /\ Trim(x[i]) = w[i]
  <2>1. CASE i <= Len(p)
    <3>1. i \in 1 .. Len(p) /\ w[i] = base[i] /\ x[i] = p[i]
      BY <1>3, <1>4, <2>1
    <3>. QED
      BY <1>1, <3>1
  <2>2. CASE i > Len(p)
    <3>1. i - Len(p) \in 1 .. Len(q)
      BY <1>1, <1>3, <2>2
    <3>2. w[i] = q[i - Len(p)] /\ x[i] = q[i - Len(p)]
      BY <1>1, <1>3, <1>4, <2>2
    <3>. QED
      BY <1>2, <3>1, <3>2 DEF Plain
  <2>. QED
    BY <1>1, <1>3, <2>1, <2>2
<1>6. w \in Keys
  BY <1>3, <1>5, KeyParts
<1>7. Parsed(x) = w
  <2>1. /\ Parsed(x) \in Seq(STRING) /\ Len(Parsed(x)) = Len(w)
        /\ \A i \in 1 .. Len(w) : Parsed(x)[i] = w[i]
    BY <1>3, <1>4, <1>5, Trimming
  <2>. QED
    BY <1>3, <2>1, SameSegments
<1>. QED
  BY <1>6, <1>7 DEF w, x, base

\* A tree is merged in below the Object that a text names.
LEMMA MergedTree ==
  ASSUME NEW t, IsTree(t), NEW p \in Paths, Parses(p), NEW sub, IsTree(sub)
  PROVE  LET u == TreeWritten(t, p, sub)
             keys == At(Parsed(p), DOMAIN sub.items)
         IN /\ IsTree(u) /\ keys \subseteq Keys
            /\ DOMAIN u.items = DOMAIN t.items \cup keys
            /\ \A q \in DOMAIN t.items \ keys : u.items[q] = t.items[q]
<1>. DEFINE base == Parsed(p)
            u == TreeWritten(t, p, sub)
            keys == At(base, DOMAIN sub.items)
            new == [q \in keys |-> sub.items[SubSeq(q, Len(base) + 1, Len(q))]]
<1>1. DOMAIN sub.items \subseteq Keys /\ sub.objects \subseteq Keys
  BY DEF IsTree
<1>2. /\ base \in Paths /\ base \in Keys \cup {Root} /\ DOMAIN sub.items \subseteq Paths
  BY <1>1, ParsedTexts DEF Named
<1>3. /\ keys \subseteq Keys /\ At(base, sub.objects) \subseteq Keys
      /\ Prefixes(base) \ {Root} \subseteq Keys
  <2>1. \A S : S \subseteq Keys => At(base, S) \subseteq Keys
    BY AtKeys DEF At
  <2>. HIDE DEF base
  <2>. QED
    BY <1>1, <1>2, <2>1, PrefixTypes
<1>. HIDE DEF base
<1>4. \A q \in keys : new[q] \in InfoItem
  <2>. SUFFICES ASSUME NEW q \in DOMAIN sub.items
                PROVE  sub.items[SubSeq(base \o q, Len(base) + 1, Len(base \o q))] \in InfoItem
    BY DEF At
  <2>. QED
    BY <1>2, AtPaths DEF IsTree
<1>5. u = [objects |-> t.objects \cup (Prefixes(base) \ {Root}) \cup At(base, sub.objects),
           items |-> Merged(t.items, new)]
  BY DEF TreeWritten, base
<1>6. DOMAIN new = keys
  OBVIOUS
<1>. HIDE DEF new, keys, u
<1>. QED
  BY <1>3, <1>4, <1>5, <1>6 DEF IsTree, Merged, u, keys, base

LEMMA PrefixOfItself ==
  ASSUME NEW p \in Paths
  PROVE  IsPrefix(p, p)
BY DEF IsPrefix, Paths

\* A deletion takes away what begins with its key, and nothing else.
LEMMA WithoutTree ==
  ASSUME NEW t, IsTree(t), NEW p \in Paths
  PROVE  LET u == Without(t, p)
         IN /\ IsTree(u) /\ DOMAIN u.items \subseteq DOMAIN t.items
            /\ \A q \in DOMAIN t.items :
                 ~IsPrefix(Parsed(p), q) => q \in DOMAIN u.items /\ u.items[q] = t.items[q]
<1>. DEFINE k == Parsed(p)
<1>1. IsPrefix(k, k)
  BY ParsedTexts, PrefixOfItself
<1>2. CASE k \in DOMAIN t.items
  <2>. DEFINE items == [q \in DOMAIN t.items \ {k} |-> t.items[q]]
  <2>1. Without(t, p) = [objects |-> t.objects, items |-> items]
    BY <1>2 DEF Without, IsTree
  <2>2. DOMAIN items = DOMAIN t.items \ {k} /\ \A q \in DOMAIN items : items[q] = t.items[q]
    OBVIOUS
  <2>3. items = [q \in DOMAIN items |-> items[q]]
    OBVIOUS
  <2>. HIDE DEF items, k
  <2>. QED
    BY <1>1, <2>1, <2>2, <2>3 DEF IsTree, k
<1>3. CASE k \notin DOMAIN t.items
  BY <1>3 DEF Without, Below, IsTree
<1>. QED
  BY <1>2, <1>3

\* What the boot restores is writable and has its value; the rest stays.
LEMMA RestoredTree ==
  ASSUME NEW t, IsTree(t), NEW saved, IsSaved(saved)
  PROVE  LET u == Restored(t, saved)
         IN /\ IsTree(u)
            /\ DOMAIN u.items = DOMAIN t.items \cup DOMAIN saved
            /\ \A p \in DOMAIN saved : Holds(u, p, saved[p])
            /\ \A q \in DOMAIN t.items \ DOMAIN saved : u.items[q] = t.items[q]
<1>. DEFINE u == Restored(t, saved)
            kept(p) == MarkedWritable(ValueWritten(t, p, saved[p]), p)
<1>1. ASSUME NEW p \in DOMAIN saved
      PROVE  /\ kept(p).items[p] \in InfoItem /\ kept(p).items[p].vals # <<>>
             /\ Newest(kept(p).items[p]) = saved[p]
             /\ kept(p).items[p].writable
  <2>. DEFINE w == ValueWritten(t, p, saved[p])
  <2>1. p \in Keys /\ Parsed(p) = p /\ Named(p) /\ saved[p] \in Int
    BY ParsedTexts DEF IsSaved
  <2>2. IsTree(w) /\ p \in DOMAIN w.items /\ w.items[p].vals # <<>> /\ Newest(w.items[p]) = saved[p]
    BY <2>1, ValueTree
  <2>. HIDE DEF w
  <2>. DEFINE m == MarkedWritable(w, p)
  <2>3. /\ IsTree(m) /\ p \in DOMAIN m.items /\ m.items[p].vals # <<>>
        /\ Newest(m.items[p]) = saved[p] /\ m.items[p].writable
    BY <2>1, <2>2, MarkedTree
  <2>4. m = kept(p)
    BY DEF w
  <2>. HIDE DEF m
  <2>5. m.items[p] \in InfoItem
    BY <2>3, ItemType
  <2>. QED
    BY <2>3, <2>4, <2>5
<1>2. UNION {Above(p) : p \in DOMAIN saved} \subseteq Keys /\ DOMAIN saved \subseteq Keys
  BY PrefixTypes DEF IsSaved
<1>3. u = [objects |-> t.objects \cup UNION {Above(p) : p \in DOMAIN saved},
           items |-> [q \in DOMAIN t.items \cup DOMAIN saved |->
                        IF q \in DOMAIN saved THEN kept(q).items[q] ELSE t.items[q]]]
  BY DEF Restored
<1>. HIDE DEF kept
<1>. QED
  BY <1>1, <1>2, <1>3 DEF IsTree, Holds, Collectable

LEMMA OneBelow ==
  ASSUME NEW S, NEW s \in Seq(S), NEW q \in Seq(S)
  PROVE  IsPrefix(s, s \o q)
<1>. DEFINE v == s \o q
<1>1. Len(v) = Len(s) + Len(q) /\ Len(s) \in Nat /\ Len(q) \in Nat
  OBVIOUS
<1>2. SubSeq(v, 1, Len(s)) = SubSeq(s, 1, Len(s))
  OBVIOUS
<1>. HIDE DEF v
<1>3. IsPrefix(s, v)
  BY <1>1, <1>2 DEF IsPrefix
<1>. QED
  BY <1>3 DEF v

\* Discovery changes only items that are listed in the folder, or new there.
LEMMA RefreshedTree ==
  ASSUME NEW t, IsTree(t), NEW folder \in Keys, NEW peers \in SUBSET (STRING \ DOMAIN Trimmed),
         NEW address \in Int
  PROVE  LET u == Refreshed(t, folder, peers, address)
         IN /\ IsTree(u)
            /\ \A q \in DOMAIN t.items \ Listed(t, folder) :
                 q \in DOMAIN u.items /\ u.items[q] = t.items[q]
<1>. DEFINE u == Refreshed(t, folder, peers, address)
            live == {p \in {folder \o <<n>> : n \in peers} : Parses(p)}
            stale == IF Resolve(t, folder) = "Object" THEN Listed(t, folder) \ live ELSE {}
<1>1. \A p \in live : p \in Keys /\ Len(p) = Len(folder) + 1 /\ IsPrefix(folder, p)
  <2>. SUFFICES ASSUME NEW n \in peers, Parses(folder \o <<n>>)
                PROVE  LET p == folder \o <<n>>
                       IN p \in Keys /\ Len(p) = Len(folder) + 1 /\ IsPrefix(folder, p)
    OBVIOUS
  <2>1. folder \in Seq(STRING) /\ n \in STRING /\ Trim(n) = n /\ folder # <<>>
    BY DEF Keys, Paths, Trim, Root
  <2>. DEFINE p == folder \o <<n>>
  <2>2. /\ p \in Seq(STRING) /\ Len(p) = Len(folder) + 1 /\ Len(folder) \in Nat
        /\ IsPrefix(folder, p) /\ p # <<>>
        /\ \A i \in 1 .. Len(p) : p[i] = IF i <= Len(folder) THEN folder[i] ELSE n
    <3>. DEFINE one == <<n>>
    <3>1. /\ folder \in Seq(STRING) /\ one \in Seq(STRING)
          /\ Len(one) = 1 /\ one[1] = n
      <4>1. \A S : \A x \in S : <<x>> \in Seq(S) /\ Len(<<x>>) = 1 /\ <<x>>[1] = x
        OBVIOUS
      <4>. QED
        BY <2>1, <4>1
    <3>2. p = folder \o one
      OBVIOUS
    <3>. HIDE DEF p, one
    <3>3. /\ p \in Seq(STRING) /\ Len(p) = Len(folder) + Len(one) /\ Len(folder) \in Nat
          /\ (p = <<>> => one = <<>>)
          /\ \A i \in 1 .. Len(p) :
               p[i] = IF i <= Len(folder) THEN folder[i] ELSE one[i - Len(folder)]
      BY <3>1, <3>2, Joined
    <3>4. IsPrefix(folder, p)
      BY <3>1, <3>2, OneBelow
    <3>5. Len(p) = Len(folder) + 1 /\ p # <<>>
      BY <3>1, <3>3
    <3>6. ASSUME NEW i \in 1 .. Len(p)
          PROVE  p[i] = IF i <= Len(folder) THEN folder[i] ELSE n
      <4>1. CASE i <= Len(folder)
        BY <3>3, <4>1
      <4>2. CASE ~(i <= Len(folder))
        <5>1. i - Len(folder) = 1
          BY <3>3, <3>5, <4>2
        <5>. QED
          BY <3>1, <3>3, <4>2, <5>1
      <4>. QED
        BY <4>1, <4>2
    <3>. QED
      BY <3>3, <3>4, <3>5, <3>6
  <2>4. Parses(p)
    OBVIOUS
  <2>. HIDE DEF p
  <2>5. \A i \in 1 .. Len(folder) : Plain(folder[i])
    BY <2>1, KeyParts
  <2>6. Plain(n)
    <3>1. /\ Len(p) = Len(folder) + 1 /\ Len(folder) \in Nat
          /\ Len(p) \in 1 .. Len(p) /\ ~(Len(p) <= Len(folder))
      BY <2>2
    <3>4. p[Len(p)] = n
      BY <2>2, <3>1
    <3>2. Parsed(p)[Len(p)] \notin {"", ".."} /\ Parsed(p)[Len(p)] = Trim(p[Len(p)])
      BY <2>2, <2>4, <3>1, Trimming
    <3>. QED
      BY <2>1, <3>2, <3>4 DEF Plain
  <2>7. ASSUME NEW i \in 1 .. Len(p)
        PROVE  Plain(p[i])
    <3>1. CASE i <= Len(folder)
      <4>3. p[i] = IF i <= Len(folder) THEN folder[i] ELSE n
        BY <2>2
      <4>4. i \in 1 .. Len(folder)
        BY <2>2, <3>1
      <4>1. i \in 1 .. Len(folder) /\ p[i] = folder[i]
        BY <3>1, <4>3, <4>4
      <4>. QED
        BY <2>5, <4>1
    <3>2. CASE ~(i <= Len(folder))
      <4>1. p[i] = IF i <= Len(folder) THEN folder[i] ELSE n
        BY <2>2
      <4>2. p[i] = n
        BY <3>2, <4>1
      <4>. QED
        BY <2>6, <4>2
    <3>. QED
      BY <3>1, <3>2
  <2>8. p \in Keys
    BY <2>2, <2>7, KeyParts
  <2>. QED
    BY <2>2, <2>8 DEF p
<1>2. stale \subseteq Listed(t, folder) /\ live \cap DOMAIN t.items \subseteq Listed(t, folder)
  BY <1>1 DEF Listed
<1>3. UNION {Above(p) : p \in live} \subseteq Keys
  BY <1>1, PrefixTypes
<1>4. u = [objects |-> t.objects \cup UNION {Above(p) : p \in live},
           items |-> [p \in (DOMAIN t.items \ stale) \cup live |->
                        IF p \in live THEN Added(ItemAt(t, p), address) ELSE t.items[p]]]
  BY DEF Refreshed
<1>5. \A p \in live : Added(ItemAt(t, p), address) \in InfoItem
  BY ItemAtType, AddedItem
<1>. HIDE DEF live, stale, u
<1>. QED
  BY <1>1, <1>2, <1>3, <1>4, <1>5 DEF IsTree, u

\* What a save collects.
LEMMA CollectedTree ==
  ASSUME NEW t, IsTree(t)
  PROVE  /\ IsSaved(Collected(t))
         /\ \A p : Collectable(t, p) => Newest(t.items[p]) \in Int
         /\ \A p, v : Holds(t, p, v) <=> p \in DOMAIN Collected(t) /\ Collected(t)[p] = v
<1>1. ASSUME NEW p, Collectable(t, p)
      PROVE  p \in Keys /\ Newest(t.items[p]) \in Int
  <2>1. p \in Keys /\ t.items[p].vals \in Seq(Int) /\ t.items[p].vals # <<>>
    BY <1>1, ItemType DEF IsTree, Collectable, InfoItem
  <2>2. t.items[p].vals[Len(t.items[p].vals)] \in Int
    BY <2>1
  <2>. QED
    BY <2>1, <2>2 DEF Newest, Last
<1>2. /\ DOMAIN Collected(t) = {p \in DOMAIN t.items : Collectable(t, p)}
      /\ Collected(t) = [p \in DOMAIN Collected(t) |-> Newest(t.items[p])]
  BY DEF Collected, Collectable
<1>3. \A p \in DOMAIN Collected(t) : Collected(t)[p] = Newest(t.items[p])
  BY DEF Collected
<1>. QED
  BY <1>1, <1>2, <1>3 DEF IsSaved, Holds, Collectable
-----------------------------------------------------------------------------
(* The engine.                                                             *)

LEMMA TaskTypes ==
  /\ \A t \in Task : t.path \in Paths /\ t.do \in {"write", "notify"}
  /\ \A t \in Task : t.do = "write" => t \in WriteTask
  /\ \A p \in Paths : Notify(p) \in Task /\ Notify(p).do = "notify" /\ Notify(p).path = p
  /\ \A p \in Paths, v \in Int, d \in Nat, c \in BOOLEAN :
       /\ Write(p, v, d, c) \in Task /\ Write(p, v, d, c).depth = d
       /\ Write(p, v, d, c).clamps = c
BY DEF Task, WriteTask, NotifyTask, Notify, Write

LEMMA TodoParts ==
  ASSUME todo \in Seq(Task), todo # <<>>
  PROVE  /\ Head(todo) \in Task /\ Head(todo) = todo[1] /\ 1 \in DOMAIN todo
         /\ Tail(todo) \in Seq(Task) /\ Len(Tail(todo)) = Len(todo) - 1
         /\ Len(todo) \in Nat \ {0}
         /\ \A i \in DOMAIN Tail(todo) : i + 1 \in DOMAIN todo /\ Tail(todo)[i] = todo[i + 1]
         /\ \A i \in DOMAIN todo \ {1} : i - 1 \in DOMAIN Tail(todo) /\ Tail(todo)[i - 1] = todo[i]
OBVIOUS

\* What a write that is not refused does to the tree.
LEMMA WrittenTree ==
  ASSUME IsTree(tree), NEW task \in WriteTask, ~Refused(task.path),
         NEW k, k = Parsed(task.path)
  PROVE  /\ Stored(task) \in Int /\ k \in Keys
         /\ IsTree(Written(task)) /\ Collectable(Written(task), k)
         /\ DOMAIN Written(task).items = DOMAIN tree.items \cup {k}
         /\ \A q \in DOMAIN tree.items \ {k} : Written(task).items[q] = tree.items[q]
<1>. DEFINE p == task.path
            limit == ItemAt(tree, p).limit
            w == ValueWritten(tree, p, Stored(task))
<1>1. p \in Paths /\ task.v \in Int /\ Named(p) /\ k \in Keys
  <2>1. p \in Paths /\ task.v \in Int
    BY DEF WriteTask
  <2>2. Resolve(tree, p) # "InvalidPath" /\ Resolve(tree, p) # "Root"
    BY DEF Refused
  <2>3. Named(p)
    BY <2>2, NamedResolved
  <2>. QED
    BY <2>1, <2>3, ParsedTexts
<1>2. Stored(task) \in Int
  <2>1. limit \in Int \cup {NoLimit}
    BY ItemAtType DEF InfoItem
  <2>2. limit \in Int => Clamp(task.v, limit) \in Int
    BY <1>1 DEF Clamp, Min2
  <2>. QED
    BY <1>1, <2>1, <2>2 DEF Stored
<1>3. /\ IsTree(w) /\ DOMAIN w.items = DOMAIN tree.items \cup {k}
      /\ w.items[k].vals # <<>>
      /\ k \in DOMAIN tree.items => w.items[k].writable = tree.items[k].writable
      /\ \A q \in DOMAIN tree.items \ {k} : w.items[q] = tree.items[q]
  BY <1>1, <1>2, ValueTree
<1>4. k \in DOMAIN tree.items <=> Resolve(tree, p) = "InfoItem"
  BY <1>1, NamedResolved
<1>. HIDE DEF w
<1>5. CASE k \in DOMAIN tree.items
  <2>1. Written(task) = w
    BY <1>4, <1>5 DEF Written, w
  <2>2. tree.items[k].writable
    BY <1>4, <1>5, NamedResolved DEF Refused
  <2>. QED
    BY <1>1, <1>2, <1>3, <1>5, <2>1, <2>2 DEF Collectable
<1>6. CASE k \notin DOMAIN tree.items
  <2>1. Written(task) = MarkedWritable(w, p)
    BY <1>1, <1>4, <1>6 DEF Written, w, Refused, Resolve, Named
  <2>. DEFINE m == MarkedWritable(w, p)
  <2>2. /\ IsTree(m) /\ DOMAIN m.items = DOMAIN w.items
        /\ m.items[k].vals # <<>> /\ m.items[k].writable
        /\ \A q \in DOMAIN w.items \ {k} : m.items[q] = w.items[q]
    BY <1>1, <1>3, MarkedTree
  <2>. HIDE DEF m
  <2>. QED
    BY <1>1, <1>2, <1>3, <1>6, <2>1, <2>2 DEF Collectable, m
<1>. QED
  BY <1>5, <1>6

\* A script's writes are deeper than its own.
LEMMA ScriptTasks ==
  ASSUME IsTree(tree), NEW task \in WriteTask, ~Refused(task.path),
         NEW n \in 0 .. Len(CollectedWrites(task))
  PROVE  /\ SubSeq(CollectedWrites(task), 1, n) \in Seq(Task)
         /\ \A i \in DOMAIN SubSeq(CollectedWrites(task), 1, n) :
              LET t == SubSeq(CollectedWrites(task), 1, n)[i]
              IN t.do = "write" /\ t.depth # 0
<1>. DEFINE script == ItemAt(tree, task.path).onwrite
            all == CollectedWrites(task)
            Inner == {t \in WriteTask : t.depth # 0}
<1>1. script \in Seq([path : Paths, add : Int]) /\ Stored(task) \in Int /\ task.depth \in Nat
  BY ItemAtType, WrittenTree DEF InfoItem, WriteTask
<1>2. all \in Seq(Inner)
  <2>1. CASE task.depth + 1 >= MAX_SCRIPT_DEPTH
    BY <2>1 DEF CollectedWrites
  <2>2. CASE ~(task.depth + 1 >= MAX_SCRIPT_DEPTH)
    <3>1. all = [i \in DOMAIN script |->
                   Write(script[i].path, script[i].add + Stored(task), task.depth + 1, TRUE)]
      BY <2>2 DEF CollectedWrites
    <3>2. \A i \in DOMAIN script :
            Write(script[i].path, script[i].add + Stored(task), task.depth + 1, TRUE) \in Inner
      <4>. SUFFICES ASSUME NEW i \in DOMAIN script
                    PROVE  Write(script[i].path, script[i].add + Stored(task),
                                 task.depth + 1, TRUE) \in Inner
        OBVIOUS
      <4>. HIDE DEF script
      <4>1. script[i] \in [path : Paths, add : Int]
        BY <1>1, ElementOfSeq, i \in 1 .. Len(script)
      <4>2. script[i].path \in Paths /\ script[i].add + Stored(task) \in Int
        BY <1>1, <4>1
      <4>3. task.depth + 1 \in Nat /\ task.depth + 1 # 0
        BY <1>1
      <4>. QED
        BY <4>2, <4>3 DEF Write, WriteTask
    <3>3. DOMAIN script = 1 .. Len(script) /\ Len(script) \in Nat
      BY <1>1
    <3>. DEFINE w(i) == Write(script[i].path, script[i].add + Stored(task), task.depth + 1, TRUE)
    <3>4. all = [i \in 1 .. Len(script) |-> w(i)] /\ \A i \in 1 .. Len(script) : w(i) \in Inner
      BY <3>1, <3>2, <3>3
    <3>. HIDE DEF all, script, Inner, w
    <3>. QED
      BY <3>3, <3>4
  <2>. QED
    BY <2>1, <2>2
<1>. HIDE DEF all
<1>3. SubSeq(all, 1, n) \in Seq(Inner)
  BY <1>2 DEF all
<1>. HIDE DEF Inner
<1>4. \A i \in DOMAIN SubSeq(all, 1, n) : SubSeq(all, 1, n)[i] \in Inner
  BY <1>3
<1>5. Inner \subseteq Task /\ \A t \in Inner : t.do = "write" /\ t.depth # 0
  BY DEF Inner, WriteTask, Task
<1>6. SubSeq(all, 1, n) \in Seq(Task)
  BY <1>3, <1>5
<1>. QED
  BY <1>4, <1>5, <1>6 DEF all

-----------------------------------------------------------------------------
(* What the actions have in common.                                        *)

\* Whoever finds the lock free finds nothing left of a request.
LEMMA Unworked ==
  ASSUME Exclusive, LockFree
  PROVE  ~Worked /\ todo = <<>> /\ touched = {} /\ ~refused
BY DEF Exclusive, LockFree, Worked

\* The step takes away the promises of the keys P only, and finds none again that
\* was lost.
Outlive(P) ==
  /\ IsSaved(acked') /\ DOMAIN acked' = DOMAIN acked \ P
  /\ \A q \in DOMAIN acked' : acked'[q] = acked[q]
  /\ IsSaved(answering') /\ DOMAIN answering' = DOMAIN answering \ P
  /\ \A q \in DOMAIN answering' : answering'[q] = answering[q]
  /\ lost \ P \subseteq lost'

LEMMA Forgotten ==
  ASSUME IsSaved(acked), IsSaved(answering), NEW P, Forget(P)
  PROVE  Outlive(P)
<1>1. /\ DOMAIN acked' = DOMAIN acked \ P
      /\ acked' = [q \in DOMAIN acked' |-> acked[q]]
      /\ \A q \in DOMAIN acked' : acked'[q] = acked[q]
  BY DEF Forget, Restrict
<1>2. /\ DOMAIN answering' = DOMAIN answering \ P
      /\ answering' = [q \in DOMAIN answering' |-> answering[q]]
      /\ \A q \in DOMAIN answering' : answering'[q] = answering[q]
  BY DEF Forget, Restrict
<1>3. lost' = lost \ P
  BY DEF Forget
<1>. QED
  BY <1>1, <1>2, <1>3 DEF Outlive, IsSaved

LEMMA Losing ==
  ASSUME IsSaved(acked), IsSaved(answering), NEW L, Lose(L)
  PROVE  /\ Outlive({})
         /\ \A q \in L : q \in DOMAIN acked \cup DOMAIN answering => q \in lost'
BY DEF Lose, Outlive, IsSaved

\* A promise outlives the step if its key is forgotten or lost, or its value kept.
LEMMA Kept ==
  ASSUME AckedKept, AnsweringKept, NEW P, Outlive(P), flash' = flash, AtRisk => AtRisk',
         http' = http \/ (http.at = "idle" /\ http'.at = "processing"),
         \A q \in DOMAIN acked' \ (lost \cup lost') :
           Holds(tree', q, acked[q]) \/ (Booting' /\ Flashed(q, acked[q])),
         \A q \in DOMAIN answering' \ (lost \cup lost') : Holds(tree', q, answering[q])
  PROVE  AckedKept' /\ AnsweringKept'
<1>1. \A q \in DOMAIN acked' \ lost' : q \in DOMAIN acked \ lost /\ acked'[q] = acked[q]
  BY DEF Outlive
<1>2. \A q \in DOMAIN answering' \ lost' :
        q \in DOMAIN answering \ lost /\ answering'[q] = answering[q]
  BY DEF Outlive
<1>3. AckedKept'
  BY <1>1 DEF AckedKept, Flashed
<1>4. AnsweringKept'
  BY <1>1, <1>2 DEF AnsweringKept, Flashed, Outlive
<1>. QED
  BY <1>3, <1>4

\* So it is if no item of another key is changed.
LEMMA KeptElsewhere ==
  ASSUME AckedKept, AnsweringKept, NEW P, Outlive(P), flash' = flash, AtRisk => AtRisk',
         http' = http \/ (http.at = "idle" /\ http'.at = "processing"),
         Booting => Booting',
         \A q \in DOMAIN tree.items \ P :
           q \in DOMAIN tree'.items /\ tree'.items[q] = tree.items[q]
  PROVE  AckedKept' /\ AnsweringKept'
<1>1. \A q, v : q \notin P /\ Holds(tree, q, v) => Holds(tree', q, v)
  BY DEF Holds, Collectable
<1>2. \A q \in DOMAIN acked' \ (lost \cup lost') :
        Holds(tree', q, acked[q]) \/ (Booting' /\ Flashed(q, acked[q]))
  BY <1>1 DEF AckedKept, Outlive
<1>3. \A q \in DOMAIN answering' \ (lost \cup lost') : Holds(tree', q, answering[q])
  BY <1>1 DEF AnsweringKept, Outlive
<1>. QED
  BY <1>2, <1>3, Kept

\* A step that leaves alone what the promises are about keeps them.
LEMMA KeptAlone ==
  ASSUME Promises, UNCHANGED <<tree, clientVars, flash, main, dirty, unsaved, touched>>,
         http' = http \/ (http.at = "idle" /\ http'.at = "processing" /\ touched = {})
  PROVE  Promises'
<1>1. Booting' = Booting /\ AtRisk' = AtRisk
  BY DEF Booting, AtRisk
<1>2. AckedKept'
  BY <1>1 DEF Promises, AckedKept, Flashed, clientVars
<1>3. AnsweringKept'
  BY <1>1 DEF Promises, AnsweringKept, Flashed, clientVars
<1>4. TouchedKept'
  BY DEF Promises, TouchedKept, clientVars
<1>. QED
  BY <1>2, <1>3, <1>4 DEF Promises

\* Nothing is due where nothing was written.
LEMMA NothingTouched ==
  ASSUME touched' = {}
  PROVE  TouchedKept' /\ ToldOrDue'
BY DEF TouchedKept, ToldOrDue

-----------------------------------------------------------------------------
(* The engine's steps.                                                     *)

\* The next task is a write that is refused.
LEMMA RefusedWriteStep ==
  ASSUME Inv, EngineWrite, Refused(Head(todo).path)
  PROVE  Inv'
<1>. DEFINE task == Head(todo)
<1>1. /\ todo # <<>> /\ task.do = "write" /\ todo' = Tail(todo)
      /\ refused' = (refused \/ (task.depth = 0 /\ task.clamps))
      /\ UNCHANGED <<tree, touched, clientVars, http, main, dirty, flash, told, unsaved>>
  BY DEF EngineWrite
<1>2. /\ task = todo[1] /\ 1 \in DOMAIN todo /\ todo' \in Seq(Task)
      /\ Len(todo') = Len(todo) - 1 /\ Len(todo) \in Nat \ {0}
      /\ \A i \in DOMAIN todo' : i + 1 \in DOMAIN todo /\ todo'[i] = todo[i + 1]
      /\ \A i \in DOMAIN todo \ {1} : i - 1 \in DOMAIN todo' /\ todo'[i - 1] = todo[i]
  BY <1>1, TodoParts DEF Inv, TypeOK
<1>3. task \in WriteTask
  BY <1>1, TodoParts, TaskTypes DEF Inv, TypeOK
<1>4. ~refused /\ Worked
  BY <1>1 DEF Inv, RefusedAlone, Exclusive
<1>5. TypeOK'
  <2>1. refused' \in BOOLEAN
    BY <1>1, <1>3, <1>4 DEF WriteTask
  <2>. QED
    BY <1>1, <1>2, <2>1 DEF Inv, TypeOK, IsSaved, clientVars
<1>6. Exclusive'
  BY <1>1, <1>4 DEF Inv, Exclusive, Worked
<1>7. RefusedAlone'
  <2>1. refused' => Len(todo) = 1 /\ touched = {}
    <3>1. refused' => todo[1].do = "write" /\ todo[1].depth = 0 /\ todo[1].clamps
      BY <1>1, <1>2, <1>4
    <3>2. 1 \in DOMAIN todo
      BY <1>2
    <3>. QED
      BY <3>1, <3>2 DEF Inv, RefusedAlone
  <2>2. Len(todo) = 1 => todo' = <<>>
    BY <1>2
  <2>3. ASSUME NEW i \in DOMAIN todo', todo'[i].do = "write", todo'[i].depth = 0,
               todo'[i].clamps
        PROVE  Len(todo') = 1 /\ touched' = {}
    <3>1. i + 1 \in DOMAIN todo /\ todo[i + 1] = todo'[i]
      BY <1>2
    <3>2. Len(todo) = 1
      BY <2>3, <3>1 DEF Inv, RefusedAlone
    <3>. QED
      BY <3>1, <3>2, <1>2
  <2>. QED
    BY <1>1, <2>1, <2>2, <2>3 DEF RefusedAlone
<1>8. Promises'
  BY <1>1, KeptAlone DEF Inv
<1>9. ToldOrDue'
  <2>1. \A p : todo[1] # Notify(p)
    BY <1>1, <1>2 DEF Notify
  <2>2. ASSUME NEW p, NEW i \in DOMAIN todo, todo[i] = Notify(p)
        PROVE  \E j \in DOMAIN todo' : todo'[j] = Notify(p)
    BY <1>2, <2>1, <2>2
  <2>3. UNCHANGED <<tree, touched, told>>
    BY <1>1
  <2>. QED
    BY <2>2, <2>3 DEF Inv, ToldOrDue, Respelled
<1>. QED
  BY <1>5, <1>6, <1>7, <1>8, <1>9 DEF Inv

\* Where the tasks of a write end up: the script's, the notice, and the rest.
LEMMA SplicedTodo ==
  ASSUME NEW new \in Seq(Task), NEW notice \in Task, NEW rest \in Seq(Task)
  PROVE  LET all == new \o <<notice>> \o rest
         IN /\ all \in Seq(Task) /\ Len(all) = Len(new) + 1 + Len(rest)
            /\ Len(new) \in Nat /\ Len(rest) \in Nat
            /\ \A i \in DOMAIN all :
                 \/ i \in DOMAIN new /\ all[i] = new[i]
                 \/ all[i] = notice
                 \/ i - Len(new) - 1 \in DOMAIN rest /\ all[i] = rest[i - Len(new) - 1]
            /\ \E i \in DOMAIN all : all[i] = notice
            /\ \A j \in DOMAIN rest : \E i \in DOMAIN all : all[i] = rest[j]
<1>. DEFINE some == new \o <<notice>>
            all == some \o rest
<1>1. /\ some \in Seq(Task) /\ Len(some) = Len(new) + 1 /\ Len(new) \in Nat
      /\ \A i \in 1 .. Len(new) : some[i] = new[i]
      /\ some[Len(new) + 1] = notice
  OBVIOUS
<1>. HIDE DEF some
<1>2. /\ all \in Seq(Task) /\ Len(all) = Len(some) + Len(rest) /\ Len(rest) \in Nat
      /\ \A i \in 1 .. Len(some) : all[i] = some[i]
      /\ \A i \in 1 .. Len(rest) : all[i + Len(some)] = rest[i]
      /\ \A i \in Len(some) + 1 .. Len(all) : all[i] = rest[i - Len(some)]
  BY <1>1
<1>. HIDE DEF all
<1>3. /\ DOMAIN all = 1 .. Len(all) /\ DOMAIN rest = 1 .. Len(rest)
      /\ DOMAIN new = 1 .. Len(new)
  BY <1>2
<1>4. ASSUME NEW i \in DOMAIN all
      PROVE  \/ i \in DOMAIN new /\ all[i] = new[i]
             \/ all[i] = notice
             \/ i - Len(new) - 1 \in DOMAIN rest /\ all[i] = rest[i - Len(new) - 1]
  <2>1. CASE i <= Len(new)
    BY <1>1, <1>2, <1>3, <2>1
  <2>2. CASE i = Len(new) + 1
    BY <1>1, <1>2, <1>3, <2>2
  <2>3. CASE i > Len(new) + 1
    <3>1. i - Len(some) = i - Len(new) - 1 /\ i \in Len(some) + 1 .. Len(all)
      BY <1>1, <1>2, <1>3, <2>3
    <3>2. all[i] = rest[i - Len(new) - 1] /\ i - Len(new) - 1 \in 1 .. Len(rest)
      BY <1>1, <1>2, <3>1
    <3>. QED
      BY <1>3, <3>2
  <2>. QED
    BY <1>1, <1>3, <2>1, <2>2, <2>3
<1>5. Len(new) + 1 \in DOMAIN all /\ all[Len(new) + 1] = notice
  BY <1>1, <1>2, <1>3
<1>6. \A j \in DOMAIN rest : j + Len(some) \in DOMAIN all /\ all[j + Len(some)] = rest[j]
  BY <1>1, <1>2, <1>3
<1>7. all = new \o <<notice>> \o rest
  BY DEF all, some
<1>. QED
  BY <1>1, <1>2, <1>4, <1>5, <1>6, <1>7

\* The next task is a write that is done: its script's writes come before the
\* notice, and the notice before what was left to do.
LEMMA AcceptedWriteStep ==
  ASSUME Inv, EngineWrite, ~Refused(Head(todo).path)
  PROVE  Inv'
<1>. DEFINE task == Head(todo)
            p == task.path
            rest == Tail(todo)
<1>0. PICK k : k = Parsed(p)
  OBVIOUS
<1>1. /\ todo # <<>> /\ task.do = "write"
      /\ tree' = Written(task) /\ touched' = touched \cup {p} /\ Forget({k})
      /\ UNCHANGED <<refused, http, main, dirty, flash, told, unsaved>>
  BY <1>0 DEF EngineWrite
<1>2. PICK n \in 0 .. Len(CollectedWrites(task)) :
        todo' = SubSeq(CollectedWrites(task), 1, n) \o Notices(task) \o rest
  BY DEF EngineWrite
<1>. DEFINE new == SubSeq(CollectedWrites(task), 1, n)
<1>3. /\ task = todo[1] /\ 1 \in DOMAIN todo /\ rest \in Seq(Task)
      /\ Len(rest) = Len(todo) - 1 /\ Len(todo) \in Nat \ {0}
      /\ \A i \in DOMAIN rest : i + 1 \in DOMAIN todo /\ rest[i] = todo[i + 1]
      /\ \A i \in DOMAIN todo \ {1} : i - 1 \in DOMAIN rest /\ rest[i - 1] = todo[i]
  BY <1>1, TodoParts DEF Inv, TypeOK
<1>4. task \in WriteTask /\ p \in Paths /\ Notify(p) \in Task /\ Notify(p).do = "notify"
  BY <1>1, TodoParts, TaskTypes DEF Inv, TypeOK
<1>5. ~refused /\ Worked
  BY <1>1 DEF Inv, RefusedAlone, Exclusive
<1>6. /\ IsTree(tree') /\ Collectable(tree', k)
      /\ DOMAIN tree'.items = DOMAIN tree.items \cup {k}
      /\ \A q \in DOMAIN tree.items \ {k} : tree'.items[q] = tree.items[q]
  BY <1>0, <1>1, <1>4, WrittenTree DEF Inv, TypeOK
<1>7. new \in Seq(Task) /\ \A i \in DOMAIN new : new[i].do = "write" /\ new[i].depth # 0
  BY <1>4, ScriptTasks DEF Inv, TypeOK
<1>8. todo' = new \o <<Notify(p)>> \o rest
  BY <1>2 DEF Notices
<1>. HIDE DEF new, rest, task
<1>9. /\ todo' \in Seq(Task)
      /\ \A i \in DOMAIN todo' :
           \/ i \in DOMAIN new /\ todo'[i] = new[i]
           \/ todo'[i] = Notify(p)
           \/ i - Len(new) - 1 \in DOMAIN rest /\ todo'[i] = rest[i - Len(new) - 1]
      /\ \E i \in DOMAIN todo' : todo'[i] = Notify(p)
      /\ \A j \in DOMAIN rest : \E i \in DOMAIN todo' : todo'[i] = rest[j]
  <2>. DEFINE notice == Notify(p)
              all == new \o <<notice>> \o rest
  <2>1. notice \in Task /\ rest \in Seq(Task) /\ new \in Seq(Task)
    BY <1>3, <1>4, <1>7
  <2>2. all = todo'
    BY <1>8
  <2>. HIDE DEF notice
  <2>3. /\ all \in Seq(Task)
        /\ \A i \in DOMAIN all :
             \/ i \in DOMAIN new /\ all[i] = new[i]
             \/ all[i] = notice
             \/ i - Len(new) - 1 \in DOMAIN rest /\ all[i] = rest[i - Len(new) - 1]
        /\ \E i \in DOMAIN all : all[i] = notice
        /\ \A j \in DOMAIN rest : \E i \in DOMAIN all : all[i] = rest[j]
    BY <2>1, SplicedTodo
  <2>. HIDE DEF all
  <2>. QED
    BY <2>2, <2>3 DEF notice
<1>10. /\ IsSaved(acked') /\ DOMAIN acked' = DOMAIN acked \ {k}
       /\ IsSaved(answering') /\ AckedKept' /\ AnsweringKept'
  <2>1. (AtRisk => AtRisk') /\ (Booting => Booting')
    BY <1>1 DEF AtRisk, Booting
  <2>2. IsSaved(acked) /\ IsSaved(answering) /\ AckedKept /\ AnsweringKept
    BY DEF Inv, TypeOK, Promises
  <2>. DEFINE P == {k}
  <2>3. \A q \in DOMAIN tree.items \ P : q \in DOMAIN tree'.items /\ tree'.items[q] = tree.items[q]
    BY <1>6
  <2>4. Forget(P) /\ flash' = flash /\ http' = http
    BY <1>1
  <2>. HIDE DEF P
  <2>5. Outlive(P)
    BY <2>2, <2>4, Forgotten
  <2>6. AckedKept' /\ AnsweringKept'
    BY <2>1, <2>2, <2>3, <2>4, <2>5, KeptElsewhere
  <2>. QED
    BY <2>5, <2>6 DEF P, Outlive
<1>11. TypeOK'
  BY <1>1, <1>4, <1>6, <1>9, <1>10 DEF Inv, TypeOK, IsSaved
<1>12. Exclusive'
  BY <1>1, <1>5 DEF Inv, Exclusive, Worked
<1>13. RefusedAlone'
  <2>1. ASSUME NEW i \in DOMAIN todo', todo'[i].do = "write", todo'[i].depth = 0,
               todo'[i].clamps
        PROVE  FALSE
    <3>1. i - Len(new) - 1 \in DOMAIN rest /\ todo'[i] = rest[i - Len(new) - 1]
      BY <1>4, <1>7, <1>9, <2>1
    <3>2. PICK j \in DOMAIN rest : todo'[i] = rest[j]
      BY <3>1
    <3>3. j + 1 \in DOMAIN todo /\ todo[j + 1] = todo'[i]
      BY <1>3, <3>2
    <3>4. Len(todo) = 1
      BY <2>1, <3>3 DEF Inv, RefusedAlone
    <3>. QED
      BY <1>3, <3>2, <3>4
  <2>. QED
    BY <1>1, <1>5, <2>1 DEF RefusedAlone
<1>14. TouchedKept'
  <2>1. ASSUME http'.at = "processing", NEW q \in touched'
        PROVE  /\ Parsed(q) \notin DOMAIN acked'
               /\ http'.op # "tree" => Collectable(tree', Parsed(q))
    <3>1. CASE Parsed(q) = k
      BY <1>6, <1>10, <3>1
    <3>2. CASE Parsed(q) # k
      <4>1. /\ Parsed(q) \notin DOMAIN acked
            /\ http.op # "tree" => Collectable(tree, Parsed(q))
        BY <1>0, <1>1, <2>1, <3>2 DEF Inv, Promises, TouchedKept
      <4>. QED
        BY <1>1, <1>6, <1>10, <3>2, <4>1 DEF Collectable
    <3>. QED
      BY <3>1, <3>2
  <2>. QED
    BY <2>1 DEF TouchedKept
<1>15. ToldOrDue'
  <2>1. ASSUME NEW q \in touched' \cap Subscribed, Resolve(tree', q) = "InfoItem",
               ~Respelled(q)', told'[q] # Newest(ItemAt(tree', q))
        PROVE  \E i \in DOMAIN todo' : todo'[i] = Notify(q)
    <3>1. CASE q = p
      BY <1>9, <3>1
    <3>2. CASE q # p
      <4>1. q \in touched /\ told'[q] = told[q] /\ ~Respelled(q) /\ Parsed(q) # k
        BY <1>0, <1>1, <2>1, <3>2 DEF Respelled
      <4>2. Named(q) /\ Parsed(q) \in DOMAIN tree'.items
        BY <2>1, NamedResolved
      <4>3. /\ Parsed(q) \in DOMAIN tree.items
            /\ ItemAt(tree', q) = ItemAt(tree, q)
        BY <1>6, <4>1, <4>2 DEF ItemAt
      <4>4. Resolve(tree, q) = "InfoItem"
        BY <4>2, <4>3, NamedResolved
      <4>5. PICK i \in DOMAIN todo : todo[i] = Notify(q)
        BY <2>1, <4>1, <4>3, <4>4 DEF Inv, ToldOrDue
      <4>6. i # 1
        BY <1>1, <1>3, <4>5 DEF Notify
      <4>. QED
        BY <1>3, <1>9, <4>5, <4>6
    <3>. QED
      BY <3>1, <3>2
  <2>. QED
    BY <2>1 DEF ToldOrDue
<1>. QED
  BY <1>10, <1>11, <1>12, <1>13, <1>14, <1>15 DEF Inv, Promises

\* A subscriber is told the value there is now.
LEMMA NotifyStep ==
  ASSUME Inv, EngineNotify
  PROVE  Inv'
<1>. DEFINE p == Head(todo).path
<1>1. /\ todo # <<>> /\ Head(todo).do = "notify" /\ todo' = Tail(todo)
      /\ told' = IF p \in Subscribed /\ Resolve(tree, p) = "InfoItem"
                 THEN [told EXCEPT ![p] = Newest(ItemAt(tree, p))] ELSE told
      /\ UNCHANGED <<tree, http, main, dirty, flash, refused, touched, clientVars, unsaved>>
  BY DEF EngineNotify
<1>2. /\ Head(todo) = todo[1] /\ 1 \in DOMAIN todo /\ todo' \in Seq(Task)
      /\ Len(todo') = Len(todo) - 1 /\ Len(todo) \in Nat \ {0}
      /\ \A i \in DOMAIN todo' : i + 1 \in DOMAIN todo /\ todo'[i] = todo[i + 1]
      /\ \A i \in DOMAIN todo \ {1} : i - 1 \in DOMAIN todo' /\ todo'[i - 1] = todo[i]
  BY <1>1, TodoParts DEF Inv, TypeOK
<1>3. ~refused /\ Worked
  BY <1>1 DEF Inv, RefusedAlone, Exclusive
<1>4. /\ DOMAIN told' = Subscribed /\ told' = [q \in Subscribed |-> told'[q]]
      /\ \A q \in Subscribed :
           told'[q] = IF q = p /\ Resolve(tree, p) = "InfoItem"
                      THEN Newest(ItemAt(tree, p)) ELSE told[q]
  BY <1>1 DEF Inv, TypeOK
<1>5. TypeOK'
  BY <1>1, <1>2, <1>4 DEF Inv, TypeOK, IsSaved, clientVars
<1>6. Exclusive'
  BY <1>1, <1>3 DEF Inv, Exclusive, Worked
<1>7. RefusedAlone'
  <2>1. ASSUME NEW i \in DOMAIN todo', todo'[i].do = "write", todo'[i].depth = 0,
               todo'[i].clamps
        PROVE  FALSE
    <3>1. i + 1 \in DOMAIN todo /\ todo[i + 1] = todo'[i]
      BY <1>2
    <3>2. Len(todo) = 1
      BY <2>1, <3>1 DEF Inv, RefusedAlone
    <3>. QED
      BY <3>1, <3>2, <1>2
  <2>. QED
    BY <1>1, <1>3, <2>1 DEF RefusedAlone
<1>8. Promises'
  BY <1>1, KeptAlone DEF Inv
<1>9. ToldOrDue'
  <2>1. ASSUME NEW q \in touched \cap Subscribed, Resolve(tree, q) = "InfoItem",
               ~Respelled(q), told'[q] # Newest(ItemAt(tree, q))
        PROVE  \E i \in DOMAIN todo' : todo'[i] = Notify(q)
    <3>1. q # p /\ told'[q] = told[q]
      BY <1>4, <2>1
    <3>2. PICK i \in DOMAIN todo : todo[i] = Notify(q)
      BY <2>1, <3>1 DEF Inv, ToldOrDue
    <3>3. i # 1
      BY <1>2, <3>1, <3>2 DEF Notify
    <3>. QED
      BY <1>2, <3>2, <3>3
  <2>. QED
    BY <1>1, <2>1 DEF ToldOrDue, Respelled
<1>. QED
  BY <1>5, <1>6, <1>7, <1>8, <1>9 DEF Inv

-----------------------------------------------------------------------------
(* The HTTP task's steps.                                                  *)

LEMMA ReleasedTypes ==
  ASSUME Released
  PROVE  /\ DOMAIN told' = Subscribed /\ told' = [p \in Subscribed |-> told'[p]]
         /\ touched' = {} /\ refused' = FALSE
BY DEF Released, NoneTold

\* What was touched is promised; its values are there to be collected.
LEMMA ProcessedStep ==
  ASSUME Inv, Processed
  PROVE  Inv'
<1>1. /\ http.at = "processing" /\ todo = <<>>
      /\ http' = [http EXCEPT !.at = IF http.op # "delete" /\ ~refused
                                     THEN "marking" ELSE "replying"]
      /\ answering' = [p \in Promised |-> Newest(tree.items[p])]
      /\ touched' = {} /\ refused' = FALSE
      /\ UNCHANGED <<tree, todo, main, dirty, flash, acked, lost, unsaved>>
  BY ReleasedTypes DEF Processed
<1>2. DOMAIN told' = Subscribed /\ told' = [p \in Subscribed |-> told'[p]]
  BY ReleasedTypes DEF Processed
<1>3. /\ \A p \in Promised : /\ p \notin DOMAIN acked /\ p \in Keys
                            /\ Holds(tree, p, Newest(tree.items[p]))
                            /\ Newest(tree.items[p]) \in Int
      /\ touched = {} => Promised = {}
  <2>1. ASSUME NEW p \in touched, Parsed(p) \in Promised
        PROVE  Parsed(p) \notin DOMAIN acked /\ Collectable(tree, Parsed(p))
    <3>1. http.op = "tree" => Parsed(p) \in DOMAIN Collected(tree)
      BY <2>1 DEF Promised
    <3>2. Parsed(p) \in DOMAIN Collected(tree) => Collectable(tree, Parsed(p))
      BY DEF Collected, Collectable
    <3>. QED
      BY <1>1, <3>1, <3>2 DEF Inv, Promises, TouchedKept
  <2>2. \A q \in Promised : \E p \in touched : q = Parsed(p)
    BY DEF Promised
  <2>. QED
    BY <2>1, <2>2, CollectedTree DEF Inv, TypeOK, Holds, Collectable, IsTree
<1>. HIDE DEF Promised
<1>4. /\ DOMAIN answering' = Promised
      /\ \A p \in DOMAIN answering' :
           /\ p \notin DOMAIN acked /\ p \in Keys /\ touched # {}
           /\ Holds(tree, p, answering'[p]) /\ answering'[p] \in Int
      /\ answering' = [p \in DOMAIN answering' |-> answering'[p]]
  BY <1>1, <1>3
<1>5. IsSaved(answering')
  BY <1>4 DEF IsSaved
<1>6. /\ http'.at \in {"marking", "replying"}
      /\ http' \in [at : {"idle", "processing", "marking", "replying"},
                    op : {"none", "write", "batch", "tree", "delete"}]
      /\ http'.at = "replying" => http.op = "delete" \/ refused
  BY <1>1 DEF Inv, TypeOK
<1>7. TypeOK'
  BY <1>1, <1>2, <1>5, <1>6 DEF Inv, TypeOK, IsSaved
<1>8. Exclusive' /\ RefusedAlone'
  BY <1>1, <1>6 DEF Inv, Exclusive, RefusedAlone, Worked
<1>9. AckedKept'
  BY <1>1 DEF Inv, Promises, AckedKept, Booting, AtRisk, Flashed
<1>10. AnsweringKept'
  <2>1. refused \/ http.op = "delete" => DOMAIN answering' = {}
    BY <1>1, <1>4 DEF Inv, RefusedAlone, Exclusive
  <2>. QED
    BY <1>1, <1>4, <1>6, <2>1 DEF AnsweringKept
<1>11. TouchedKept' /\ ToldOrDue'
  BY <1>1, NothingTouched
<1>. QED
  BY <1>7, <1>8, <1>9, <1>10, <1>11 DEF Inv, Promises

\* The flag is set before the client has its answer.
LEMMA MarkDirtyStep ==
  ASSUME Inv, MarkDirty
  PROVE  Inv'
<1>1. /\ http.at = "marking" /\ dirty' = TRUE
      /\ http' = [http EXCEPT !.at = "replying"] /\ http'.at = "replying"
      /\ http' \in [at : {"idle", "processing", "marking", "replying"},
                    op : {"none", "write", "batch", "tree", "delete"}]
      /\ UNCHANGED <<tree, todo, refused, told, touched, main, flash, acked,
                     answering, lost, unsaved>>
  BY DEF MarkDirty, engineVars, clientVars, Inv, TypeOK
<1>2. TypeOK'
  BY <1>1 DEF Inv, TypeOK, IsSaved
<1>3. Exclusive' /\ RefusedAlone'
  BY <1>1 DEF Inv, Exclusive, RefusedAlone, Worked
<1>4. AckedKept'
  BY <1>1 DEF Inv, Promises, AckedKept, Booting, AtRisk, Flashed
<1>5. AnsweringKept'
  BY <1>1 DEF Inv, Promises, AnsweringKept, AtRisk, Flashed
<1>6. TouchedKept' /\ ToldOrDue'
  BY <1>1, NothingTouched DEF Inv, Exclusive, Worked, ToldOrDue, TouchedKept, Respelled
<1>. QED
  BY <1>2, <1>3, <1>4, <1>5, <1>6 DEF Inv, Promises

LEMMA ReplyStep ==
  ASSUME Inv, Reply
  PROVE  Inv'
<1>1. /\ http.at = "replying" /\ http'.at = "idle"
      /\ http' \in [at : {"idle", "processing", "marking", "replying"},
                    op : {"none", "write", "batch", "tree", "delete"}]
      /\ acked' = Merged(acked, answering)
      /\ DOMAIN answering' = {} /\ answering' = <<>>
      /\ UNCHANGED <<tree, todo, refused, told, touched, main, dirty, flash, lost, unsaved>>
  BY DEF Reply, engineVars
<1>2. /\ DOMAIN acked' = DOMAIN acked \cup DOMAIN answering
      /\ acked' = [p \in DOMAIN acked' |-> acked'[p]]
      /\ \A p \in DOMAIN answering : acked'[p] = answering[p]
      /\ \A p \in DOMAIN acked \ DOMAIN answering : acked'[p] = acked[p]
  BY <1>1 DEF Merged
<1>3. IsSaved(acked') /\ IsSaved(answering')
  BY <1>1, <1>2 DEF Inv, TypeOK, IsSaved
<1>4. TypeOK'
  BY <1>1, <1>3 DEF Inv, TypeOK, IsSaved
<1>5. Exclusive' /\ RefusedAlone'
  BY <1>1 DEF Inv, Exclusive, RefusedAlone, Worked
<1>6. AckedKept'
  <2>1. AtRisk' = AtRisk /\ Booting' = Booting
    BY <1>1 DEF AtRisk, Booting
  <2>2. ASSUME NEW p \in DOMAIN answering \ lost
        PROVE  /\ Holds(tree, p, acked'[p])
               /\ Flashed(p, acked'[p]) \/ AtRisk
    BY <1>1, <1>2 DEF Inv, Promises, AnsweringKept
  <2>3. ASSUME NEW p \in DOMAIN acked \ (DOMAIN answering \cup lost)
        PROVE  /\ Holds(tree, p, acked'[p]) \/ (Booting /\ Flashed(p, acked'[p]))
               /\ Flashed(p, acked'[p]) \/ AtRisk
    BY <1>2 DEF Inv, Promises, AckedKept
  <2>. QED
    BY <1>1, <1>2, <2>1, <2>2, <2>3 DEF AckedKept, Flashed
<1>7. AnsweringKept'
  BY <1>1 DEF AnsweringKept
<1>8. TouchedKept' /\ ToldOrDue'
  BY <1>1, NothingTouched DEF Inv, Exclusive, Worked, ToldOrDue, TouchedKept, Respelled
<1>. QED
  BY <1>4, <1>5, <1>6, <1>7, <1>8 DEF Inv, Promises

LEMMA BeginFacts ==
  ASSUME Inv, NEW r, Begin(r), r.op \in {"write", "batch", "tree", "delete"}
  PROVE  /\ http.at = "idle" /\ http'.at = "processing" /\ http'.op = r.op
         /\ http' \in [at : {"idle", "processing", "marking", "replying"},
                       op : {"none", "write", "batch", "tree", "delete"}]
         /\ todo = <<>> /\ touched = {} /\ ~refused /\ main # "script"
         /\ UNCHANGED <<main, dirty, flash, told, unsaved>>
BY Unworked DEF Begin, LockFree, Inv

\* A request begins that leaves all it does to the tasks.
LEMMA TasksPosted ==
  ASSUME Inv, NEW r, Begin(r), r.op \in {"write", "batch"},
         UNCHANGED <<tree, refused, touched, clientVars>>,
         todo' \in Seq(Task),
         \A i \in DOMAIN todo' : todo'[i].clamps => Len(todo') = 1
  PROVE  Inv'
<1>1. /\ http.at = "idle" /\ http'.at = "processing" /\ http'.op # "delete"
      /\ http' \in [at : {"idle", "processing", "marking", "replying"},
                    op : {"none", "write", "batch", "tree", "delete"}]
      /\ todo = <<>> /\ touched = {} /\ ~refused /\ main # "script"
      /\ UNCHANGED <<main, dirty, flash, told, unsaved>>
  BY BeginFacts
<1>2. TypeOK'
  BY <1>1 DEF Inv, TypeOK, IsSaved, clientVars
<1>3. Exclusive' /\ RefusedAlone'
  BY <1>1 DEF Inv, Exclusive, RefusedAlone, Worked
<1>4. Promises'
  BY <1>1, KeptAlone DEF Inv
<1>5. ToldOrDue'
  BY <1>1, NothingTouched
<1>. QED
  BY <1>2, <1>3, <1>4, <1>5 DEF Inv

LEMMA PostWriteStep ==
  ASSUME Inv, NEW r \in Requests, PostWrite(r)
  PROVE  Inv'
<1>1. r.op = "write" /\ Begin(r) /\ UNCHANGED <<tree, refused, touched, clientVars>>
      /\ todo' = <<Write(r.path, r.v, 0, TRUE)>>
  BY DEF PostWrite
<1>2. r.path \in Paths /\ r.v \in Int
  BY <1>1, DeviceAssumption DEF IsRequest
<1>. DEFINE task == Write(r.path, r.v, 0, TRUE)
<1>3. task \in Task /\ todo' = <<task>>
  BY <1>1, <1>2, TaskTypes
<1>. HIDE DEF task
<1>4. todo' \in Seq(Task) /\ Len(todo') = 1
  BY <1>3
<1>. QED
  BY <1>1, <1>4, TasksPosted

\* Sequences are made element by element.
LEMMA MadeTasks ==
  ASSUME NEW S, NEW s \in Seq(S), NEW made, DOMAIN made = DOMAIN s,
         made = [i \in DOMAIN s |-> made[i]], \A i \in DOMAIN s : made[i] \in Task
  PROVE  made \in Seq(Task)
<1>1. DOMAIN s = 1 .. Len(s) /\ Len(s) \in Nat
  OBVIOUS
<1>. QED
  BY <1>1

LEMMA PostBatchStep ==
  ASSUME Inv, NEW r \in Requests, PostBatch(r)
  PROVE  Inv'
<1>. DEFINE task(i) == Write(r.items[i].path, r.items[i].v, 0, FALSE)
<1>1. r.op = "batch" /\ Begin(r) /\ UNCHANGED <<tree, refused, touched, clientVars>>
      /\ todo' = [i \in DOMAIN r.items |-> task(i)]
  BY DEF PostBatch
<1>2. r.items \in Seq([path : Paths, v : Int])
  BY <1>1, DeviceAssumption DEF IsRequest
<1>3. ASSUME NEW i \in DOMAIN r.items
      PROVE  task(i) \in Task /\ ~task(i).clamps
  <2>1. r.items[i] \in [path : Paths, v : Int]
    BY <1>2, ElementOfSeq, i \in 1 .. Len(r.items)
  <2>2. r.items[i].path \in Paths /\ r.items[i].v \in Int
    BY <2>1
  <2>. QED
    BY <2>2, TaskTypes
<1>. HIDE DEF task
<1>4. todo' \in Seq(Task) /\ \A i \in DOMAIN todo' : ~todo'[i].clamps
  BY <1>1, <1>2, <1>3, MadeTasks
<1>. QED
  BY <1>1, <1>4, TasksPosted

\* A list of a finite set has all its elements.
LEMMA Listing ==
  ASSUME NEW S, IsFiniteSet(S)
  PROVE  /\ SetToSeq(S) \in Seq(S)
         /\ \A x \in S : \E i \in DOMAIN SetToSeq(S) : SetToSeq(S)[i] = x
<1>. DEFINE n == Cardinality(S)
            s == SetToSeq(S)
<1>1. n \in Nat /\ ExistsBijection(1 .. n, S)
  BY FS_CardinalityType
<1>2. \E f \in [1 .. n -> S] : IsInjective(f)
  BY <1>1 DEF ExistsBijection, Bijection, Injection
<1>3. s \in [1 .. n -> S] /\ IsInjective(s)
  BY <1>2 DEF SetToSeq
<1>4. s \in Injection(1 .. n, S)
  BY <1>3 DEF Injection
<1>5. Cardinality(1 .. n) = n
  BY <1>1, FS_Interval
<1>6. s \in Surjection(1 .. n, S)
  BY <1>4, <1>5, FS_Injection
<1>. QED
  BY <1>1, <1>3, <1>6 DEF Surjection

LEMMA FinitelyMany ==
  ASSUME NEW base, NEW S, IsFiniteSet(S)
  PROVE  IsFiniteSet(At(base, S))
<1>. DEFINE f == [q \in S |-> base \o q]
<1>1. f \in Surjection(S, At(base, S))
  BY DEF Surjection, At
<1>. QED
  BY <1>1, FS_Surjection

\* A tree is merged in, and all its items are to be announced.
LEMMA PostTreeStep ==
  ASSUME Inv, NEW r \in Requests, PostTree(r)
  PROVE  Inv'
<1>. DEFINE texts == At(r.base, DOMAIN r.sub.items)
            keys == At(Parsed(r.base), DOMAIN r.sub.items)
            list == SetToSeq(texts)
<1>1. r.op = "tree" /\ Begin(r) /\ refused' = ~Parses(r.base)
  BY DEF PostTree
<1>2. /\ http.at = "idle" /\ http'.at = "processing" /\ http'.op = "tree"
      /\ http' \in [at : {"idle", "processing", "marking", "replying"},
                    op : {"none", "write", "batch", "tree", "delete"}]
      /\ todo = <<>> /\ touched = {} /\ ~refused /\ main # "script"
      /\ UNCHANGED <<main, dirty, flash, told, unsaved>>
  BY <1>1, BeginFacts
<1>3. Exclusive'
  BY <1>2 DEF Exclusive, Worked
<1>4. CASE ~Parses(r.base)
  <2>1. UNCHANGED <<tree, todo, touched, clientVars>> /\ refused' = TRUE
    BY <1>1, <1>4 DEF PostTree
  <2>2. TypeOK'
    BY <1>2, <2>1 DEF Inv, TypeOK, IsSaved, clientVars
  <2>3. RefusedAlone'
    BY <1>2, <2>1 DEF RefusedAlone
  <2>4. Promises'
    BY <1>2, <2>1, KeptAlone DEF Inv
  <2>5. ToldOrDue'
    BY <1>2, <2>1, NothingTouched
  <2>. QED
    BY <1>3, <2>2, <2>3, <2>4, <2>5 DEF Inv
<1>5. CASE Parses(r.base)
  <2>1. /\ refused' = FALSE /\ tree' = TreeWritten(tree, r.base, r.sub)
        /\ todo' = [i \in DOMAIN list |-> Notify(list[i])]
        /\ touched' = texts
        /\ Forget(keys)
    BY <1>1, <1>5 DEF PostTree
  <2>2. r.base \in Paths /\ IsTree(r.sub) /\ IsFiniteSet(DOMAIN r.sub.items)
    BY <1>1, DeviceAssumption DEF IsRequest
  <2>3. DOMAIN r.sub.items \subseteq Keys /\ DOMAIN r.sub.items \subseteq Paths
    BY <2>2, ParsedTexts DEF IsTree
  <2>4. texts \subseteq Paths /\ \A p \in texts : Parsed(p) \in keys
    <3>1. texts \subseteq Paths
      BY <2>2, <2>3, AtPaths
    <3>2. \A q \in DOMAIN r.sub.items : Parsed(r.base \o q) = Parsed(r.base) \o q
      BY <1>5, <2>2, <2>3, AtKeys
    <3>. QED
      BY <3>1, <3>2 DEF At
  <2>5. /\ IsTree(tree')
        /\ \A q \in DOMAIN tree.items \ keys :
             q \in DOMAIN tree'.items /\ tree'.items[q] = tree.items[q]
    BY <1>5, <2>1, <2>2, MergedTree DEF Inv, TypeOK
  <2>6. list \in Seq(texts) /\ \A p \in texts : \E i \in DOMAIN list : list[i] = p
    BY <2>2, FinitelyMany, Listing
  <2>. HIDE DEF list, texts, keys
  <2>7. \A i \in DOMAIN list : list[i] \in texts
    BY <2>6
  <2>8. /\ DOMAIN todo' = DOMAIN list /\ todo' = [i \in DOMAIN list |-> todo'[i]]
        /\ \A i \in DOMAIN list : /\ todo'[i] = Notify(list[i]) /\ todo'[i] \in Task
                                  /\ todo'[i].do = "notify"
    BY <2>1, <2>4, <2>7, TaskTypes
  <2>9. todo' \in Seq(Task)
    BY <2>6, <2>8, MadeTasks
  <2>10. Outlive(keys) /\ AckedKept' /\ AnsweringKept'
    <3>1. (AtRisk => AtRisk') /\ (Booting => Booting')
      BY <1>2 DEF AtRisk, Booting
    <3>2. IsSaved(acked) /\ IsSaved(answering) /\ AckedKept /\ AnsweringKept
      BY DEF Inv, TypeOK, Promises
    <3>3. Outlive(keys)
      BY <2>1, <3>2, Forgotten
    <3>. QED
      BY <1>2, <2>5, <3>1, <3>2, <3>3, KeptElsewhere
  <2>11. TypeOK'
    BY <1>2, <2>1, <2>4, <2>5, <2>9, <2>10 DEF Inv, TypeOK, Outlive, IsSaved
  <2>12. RefusedAlone'
    BY <2>1, <2>8 DEF RefusedAlone
  <2>13. TouchedKept'
    BY <1>2, <2>1, <2>4, <2>10 DEF TouchedKept, Outlive
  <2>14. ToldOrDue'
    BY <2>1, <2>6, <2>8 DEF ToldOrDue
  <2>. QED
    BY <1>3, <2>10, <2>11, <2>12, <2>13, <2>14 DEF Inv, Promises
<1>. QED
  BY <1>4, <1>5

LEMMA PostDeleteStep ==
  ASSUME Inv, NEW r \in Requests, PostDelete(r)
  PROVE  Inv'
<1>1. /\ r.op = "delete" /\ Begin(r) /\ UNCHANGED <<todo, touched>>
      /\ refused' = (Resolve(tree, r.path) \in {"InvalidPath", "Root", "NotFound"})
  BY DEF PostDelete
<1>2. /\ http.at = "idle" /\ http'.at = "processing" /\ http'.op = "delete"
      /\ http' \in [at : {"idle", "processing", "marking", "replying"},
                    op : {"none", "write", "batch", "tree", "delete"}]
      /\ todo = <<>> /\ touched = {} /\ main # "script"
      /\ UNCHANGED <<main, dirty, flash, told, unsaved>>
  BY <1>1, BeginFacts
<1>3. r.path \in Paths
  BY <1>1, DeviceAssumption DEF IsRequest
<1>4. /\ IsTree(tree') /\ IsSaved(acked') /\ IsSaved(answering')
      /\ AckedKept' /\ AnsweringKept'
  <2>1. AtRisk' = AtRisk /\ Booting' = Booting
    BY <1>2 DEF AtRisk, Booting
  <2>2. /\ IsTree(tree) /\ IsSaved(acked) /\ IsSaved(answering)
        /\ AckedKept /\ AnsweringKept
    BY DEF Inv, TypeOK, Promises
  <2>3. CASE refused'
    <3>1. UNCHANGED <<tree, acked, answering, lost>>
      BY <2>3 DEF PostDelete, clientVars
    <3>. QED
      BY <1>2, <2>1, <2>2, <3>1 DEF AckedKept, AnsweringKept, Flashed
  <2>4. CASE ~refused'
    <3>. DEFINE P == {p \in DOMAIN acked \cup DOMAIN answering : IsPrefix(Parsed(r.path), p)}
    <3>1. tree' = Without(tree, r.path) /\ Forget(P)
      BY <2>4 DEF PostDelete
    <3>2. /\ IsTree(tree')
          /\ \A q \in DOMAIN tree.items :
               ~IsPrefix(Parsed(r.path), q) => /\ q \in DOMAIN tree'.items
                                               /\ tree'.items[q] = tree.items[q]
      BY <1>3, <2>2, <3>1, WithoutTree
    <3>3. Outlive(P)
      BY <2>2, <3>1, Forgotten
    <3>4. \A q \in DOMAIN acked' \ (lost \cup lost') :
            Holds(tree', q, acked[q]) \/ (Booting' /\ Flashed(q, acked[q]))
      BY <2>1, <2>2, <3>2, <3>3 DEF AckedKept, Holds, Collectable, Outlive
    <3>5. \A q \in DOMAIN answering' \ (lost \cup lost') : Holds(tree', q, answering[q])
      BY <2>2, <3>2, <3>3 DEF AnsweringKept, Holds, Collectable, Outlive
    <3>. HIDE DEF P
    <3>6. AckedKept' /\ AnsweringKept'
      BY <1>2, <2>1, <2>2, <3>3, <3>4, <3>5, Kept
    <3>. QED
      BY <3>2, <3>3, <3>6 DEF Outlive
  <2>. QED
    BY <2>3, <2>4
<1>5. TypeOK'
  BY <1>1, <1>2, <1>4 DEF Inv, TypeOK
<1>6. Exclusive' /\ RefusedAlone'
  BY <1>1, <1>2 DEF Exclusive, Worked, RefusedAlone
<1>7. TouchedKept' /\ ToldOrDue'
  BY <1>1, <1>2, NothingTouched
<1>. QED
  BY <1>4, <1>5, <1>6, <1>7 DEF Inv, Promises

-----------------------------------------------------------------------------
(* The main thread's steps.                                                *)

\* A step of the main thread with the lock that leaves no task, and keeps what
\* was promised.
LEMMA MainStep ==
  ASSUME Inv, LockFree, UNCHANGED <<engineVars, http>>,
         IsTree(tree'), IsSaved(acked'), IsSaved(answering'), IsSaved(flash'),
         AckedKept', AnsweringKept', {dirty', unsaved'} \subseteq BOOLEAN,
         main' \in {"populate", "restore", "idle", "save"}
  PROVE  Inv'
<1>1. ~Worked /\ todo = <<>> /\ touched = {} /\ ~refused
  BY Unworked DEF Inv
<1>2. TypeOK'
  BY DEF Inv, TypeOK, engineVars
<1>3. Exclusive' /\ RefusedAlone'
  BY <1>1 DEF Exclusive, Worked, RefusedAlone, engineVars
<1>4. TouchedKept' /\ ToldOrDue'
  BY <1>1, NothingTouched DEF engineVars
<1>. QED
  BY <1>2, <1>3, <1>4 DEF Inv, Promises

\* What was saved overrules what a client wrote before: the promise lasts where
\* the saved value is the promised one.
LEMMA PopulateStep ==
  ASSUME Inv, Populate
  PROVE  Inv'
<1>. DEFINE D == DOMAIN BuiltIn.items
            P == Overruled(D)
<1>1. /\ main = "populate" /\ LockFree /\ main' = "restore"
      /\ tree' = TreeWritten(tree, Root, BuiltIn) /\ Lose(P)
      /\ UNCHANGED <<engineVars, http, dirty, flash, unsaved>>
  BY DEF Populate, BootWrites
<1>2. /\ IsTree(tree) /\ IsSaved(acked) /\ IsSaved(answering) /\ IsSaved(flash)
      /\ AckedKept /\ AnsweringKept /\ dirty \in BOOLEAN /\ unsaved \in BOOLEAN
  BY DEF Inv, TypeOK, Promises
<1>3. Booting' /\ (AtRisk => AtRisk')
  BY <1>1 DEF Booting, AtRisk
<1>4. /\ IsTree(tree')
      /\ \A q \in DOMAIN tree.items \ D :
           q \in DOMAIN tree'.items /\ tree'.items[q] = tree.items[q]
  <2>1. IsTree(BuiltIn) /\ D \subseteq Paths
    BY DeviceAssumption DEF IsTree, Keys
  <2>. DEFINE root == Root
  <2>2. root \in Paths /\ Parses(root) /\ Parsed(root) = Root
    <3>1. root = Root /\ root \in Seq(STRING) /\ Len(root) = 0
      BY DEF Root
    <3>. HIDE DEF root
    <3>2. 1 .. Len(root) = {}
      BY <3>1
    <3>3. Parses(root)
      BY <3>1, <3>2, Trimming
    <3>. QED
      BY <3>1, <3>3, ParsedTexts DEF Paths
  <2>3. At(Parsed(Root), D) = D
    BY <2>1, <2>2, AtPaths
  <2>. QED
    BY <1>1, <1>2, <2>1, <2>2, <2>3, MergedTree
<1>5. \A q \in D \ P : q \in DOMAIN acked /\ Flashed(q, acked[q])
  BY DEF Overruled, InFlash, Flashed
<1>. HIDE DEF P
<1>6. Outlive({}) /\ \A q \in P : q \in DOMAIN acked \cup DOMAIN answering => q \in lost'
  BY <1>1, <1>2, Losing
<1>7. \A q \in DOMAIN acked' \ (lost \cup lost') :
        Holds(tree', q, acked[q]) \/ (Booting' /\ Flashed(q, acked[q]))
  <2>1. ASSUME NEW q \in DOMAIN acked \ (lost \cup lost')
        PROVE  Holds(tree', q, acked[q]) \/ Flashed(q, acked[q])
    <3>1. CASE q \in D
      BY <1>5, <1>6, <2>1, <3>1
    <3>2. CASE q \notin D
      BY <1>2, <1>4, <3>2 DEF AckedKept, Holds, Collectable
    <3>. QED
      BY <3>1, <3>2
  <2>. QED
    BY <1>3, <1>6, <2>1 DEF Outlive
<1>8. \A q \in DOMAIN answering' \ (lost \cup lost') : Holds(tree', q, answering[q])
  <2>1. ASSUME NEW q \in DOMAIN answering \ (lost \cup lost')
        PROVE  Holds(tree', q, answering[q])
    <3>1. q \notin D
      BY <1>2, <1>5, <1>6, <2>1 DEF AnsweringKept
    <3>. QED
      BY <1>2, <1>4, <2>1, <3>1 DEF AnsweringKept, Holds, Collectable
  <2>. QED
    BY <1>6, <2>1 DEF Outlive
<1>9. AckedKept' /\ AnsweringKept'
  BY <1>1, <1>2, <1>3, <1>6, <1>7, <1>8, Kept
<1>. QED
  BY <1>1, <1>2, <1>4, <1>6, <1>9, MainStep DEF Outlive

LEMMA RestoredStep ==
  ASSUME Inv, Restore, BootWrites(Restored(tree, flash), Overruled(DOMAIN flash))
  PROVE  Inv'
<1>. DEFINE P == Overruled(DOMAIN flash)
<1>1. /\ main = "restore" /\ LockFree /\ main' = "idle"
      /\ tree' = Restored(tree, flash) /\ Lose(P)
      /\ UNCHANGED <<engineVars, http, dirty, flash, unsaved>>
  BY DEF Restore, BootWrites
<1>2. /\ IsTree(tree) /\ IsSaved(acked) /\ IsSaved(answering) /\ IsSaved(flash)
      /\ AckedKept /\ AnsweringKept /\ dirty \in BOOLEAN /\ unsaved \in BOOLEAN
  BY DEF Inv, TypeOK, Promises
<1>3. AtRisk => AtRisk'
  BY <1>1 DEF AtRisk
<1>4. /\ IsTree(tree')
      /\ \A q \in DOMAIN flash : Holds(tree', q, flash[q])
      /\ \A q \in DOMAIN tree.items \ DOMAIN flash :
           q \in DOMAIN tree'.items /\ tree'.items[q] = tree.items[q]
  BY <1>1, <1>2, RestoredTree
<1>5. \A q \in DOMAIN flash \ P : q \in DOMAIN acked /\ flash[q] = acked[q]
  BY DEF Overruled, InFlash
<1>. HIDE DEF P
<1>6. Outlive({}) /\ \A q \in P : q \in DOMAIN acked \cup DOMAIN answering => q \in lost'
  BY <1>1, <1>2, Losing
<1>7. ASSUME NEW q \in DOMAIN acked \ (lost \cup lost')
      PROVE  Holds(tree', q, acked[q])
  <2>1. CASE q \in DOMAIN flash
    BY <1>4, <1>5, <1>6, <1>7, <2>1
  <2>2. CASE q \notin DOMAIN flash
    BY <1>2, <1>4, <1>7, <2>2 DEF AckedKept, Flashed, Holds, Collectable
  <2>. QED
    BY <2>1, <2>2
<1>8. ASSUME NEW q \in DOMAIN answering \ (lost \cup lost')
      PROVE  Holds(tree', q, answering[q])
  <2>1. q \notin DOMAIN flash
    BY <1>2, <1>5, <1>6, <1>8 DEF AnsweringKept
  <2>. QED
    BY <1>2, <1>4, <1>8, <2>1 DEF AnsweringKept, Holds, Collectable
<1>9. AckedKept' /\ AnsweringKept'
  <2>1. DOMAIN acked' = DOMAIN acked /\ DOMAIN answering' = DOMAIN answering
    BY <1>6 DEF Outlive
  <2>. QED
    BY <1>1, <1>2, <1>3, <1>6, <1>7, <1>8, <2>1, Kept
<1>. QED
  BY <1>1, <1>2, <1>4, <1>6, <1>9, MainStep DEF Outlive

\* Flash cannot be read: what only flash had is lost.
LEMMA UnloadedStep ==
  ASSUME Inv, Restore, Unloaded
  PROVE  Inv'
<1>1. /\ main = "restore" /\ LockFree /\ main' = "idle" /\ tree' = tree /\ Lose(Unread)
      /\ UNCHANGED <<engineVars, http, dirty, flash, unsaved>>
  BY DEF Restore, Unloaded, BootWrites
<1>2. /\ IsTree(tree) /\ IsSaved(acked) /\ IsSaved(answering) /\ IsSaved(flash)
      /\ AckedKept /\ AnsweringKept /\ dirty \in BOOLEAN /\ unsaved \in BOOLEAN
  BY DEF Inv, TypeOK, Promises
<1>3. AtRisk => AtRisk'
  BY <1>1 DEF AtRisk
<1>4. Outlive({}) /\ \A q \in Unread : q \in DOMAIN acked \cup DOMAIN answering => q \in lost'
  BY <1>1, <1>2, Losing
<1>5. ASSUME NEW q \in DOMAIN acked \ (lost \cup lost')
      PROVE  Holds(tree', q, acked[q])
  <2>1. CASE Holds(tree, q, acked[q])
    BY <1>1, <2>1
  <2>2. CASE ~Holds(tree, q, acked[q])
    <3>1. q \in DOMAIN flash
      BY <1>2, <1>5, <2>2 DEF AckedKept, Flashed
    <3>2. q \in DOMAIN Collected(tree) /\ Collected(tree)[q] = acked[q]
      BY <1>4, <1>5, <3>1 DEF Unread
    <3>. QED
      BY <1>2, <2>2, <3>2, CollectedTree
  <2>. QED
    BY <2>1, <2>2
<1>6. \A q \in DOMAIN answering \ (lost \cup lost') : Holds(tree', q, answering[q])
  BY <1>1, <1>2 DEF AnsweringKept
<1>7. AckedKept' /\ AnsweringKept'
  <2>1. DOMAIN acked' = DOMAIN acked /\ DOMAIN answering' = DOMAIN answering
    BY <1>4 DEF Outlive
  <2>. QED
    BY <1>1, <1>2, <1>3, <1>4, <1>5, <1>6, <2>1, Kept
<1>. QED
  BY <1>1, <1>2, <1>4, <1>7, MainStep DEF Outlive

LEMMA RestoreStep ==
  ASSUME Inv, Restore
  PROVE  Inv'
BY RestoredStep, UnloadedStep DEF Restore

\* The items of some paths are overwritten past the engine, and their promises
\* forgotten.
LEMMA Overwritten ==
  ASSUME Inv, main = "idle", LockFree, NEW P, MainWrites(tree', P), IsTree(tree'),
         \A q \in DOMAIN tree.items \ P :
           q \in DOMAIN tree'.items /\ tree'.items[q] = tree.items[q],
         UNCHANGED <<engineVars, http, main, dirty, flash, unsaved>>
  PROVE  Inv'
<1>1. Forget(P) /\ UNCHANGED <<engineVars, http, dirty, flash, unsaved>>
  BY DEF MainWrites
<1>2. /\ IsTree(tree) /\ IsSaved(acked) /\ IsSaved(answering) /\ IsSaved(flash)
      /\ AckedKept /\ AnsweringKept /\ dirty \in BOOLEAN /\ unsaved \in BOOLEAN
  BY DEF Inv, TypeOK, Promises
<1>3. (AtRisk => AtRisk') /\ (Booting => Booting')
  BY <1>1 DEF AtRisk, Booting
<1>4. Outlive(P)
  BY <1>1, <1>2, Forgotten
<1>5. AckedKept' /\ AnsweringKept'
  BY <1>1, <1>2, <1>3, <1>4, KeptElsewhere
<1>. QED
  BY <1>1, <1>2, <1>4, <1>5, MainStep DEF Outlive

LEMMA SenseStep ==
  ASSUME Inv, Sense
  PROVE  Inv'
<1>1. /\ main = "idle" /\ LockFree
      /\ UNCHANGED <<engineVars, http, main, dirty, flash, unsaved>>
  BY DEF Sense
<1>2. PICK v \in Values : MainWrites(ValueWritten(tree, Sensor, v), {Sensor})
  BY DEF Sense
<1>3. tree' = ValueWritten(tree, Sensor, v) /\ MainWrites(tree', {Sensor})
  BY <1>2 DEF MainWrites
<1>4. v \in Int /\ Sensor \in Keys /\ Sensor = Parsed(Sensor)
  BY DeviceAssumption, ParsedTexts
<1>5. /\ IsTree(tree')
      /\ \A q \in DOMAIN tree.items \ {Sensor} :
           q \in DOMAIN tree'.items /\ tree'.items[q] = tree.items[q]
  BY <1>3, <1>4, ValueTree DEF Inv, TypeOK
<1>. QED
  BY <1>1, <1>3, <1>5, Overwritten DEF MainWrites, Forget

LEMMA DiscoverStep ==
  ASSUME Inv, Discover
  PROVE  Inv'
<1>1. /\ main = "idle" /\ LockFree
      /\ UNCHANGED <<engineVars, http, main, dirty, flash, unsaved>>
  BY DEF Discover
<1>2. PICK peers \in SUBSET Hosts, address \in Values :
        MainWrites(Refreshed(tree, Folder, peers, address), Listed(tree, Folder))
  BY DEF Discover
<1>3. /\ tree' = Refreshed(tree, Folder, peers, address)
      /\ MainWrites(tree', Listed(tree, Folder))
  BY <1>2 DEF MainWrites
<1>4. peers \in SUBSET (STRING \ DOMAIN Trimmed) /\ address \in Int /\ Folder \in Keys
  BY DeviceAssumption
<1>5. /\ IsTree(tree')
      /\ \A q \in DOMAIN tree.items \ Listed(tree, Folder) :
           q \in DOMAIN tree'.items /\ tree'.items[q] = tree.items[q]
  <2>. DEFINE u == Refreshed(tree, Folder, peers, address)
  <2>1. IsTree(tree)
    BY DEF Inv, TypeOK
  <2>2. /\ IsTree(u)
        /\ \A q \in DOMAIN tree.items \ Listed(tree, Folder) :
             q \in DOMAIN u.items /\ u.items[q] = tree.items[q]
    BY <1>4, <2>1, RefreshedTree
  <2>. HIDE DEF u
  <2>. QED
    BY <1>3, <2>2 DEF u
<1>. QED
  BY <1>1, <1>3, <1>5, Overwritten DEF MainWrites, Forget

\* Callback scripts use the engine as well; no client was promised their writes.
LEMMA CallbackStep ==
  ASSUME Inv, Callback
  PROVE  Inv'
<1>. DEFINE task(i) == Write(CallbackWrites[i].path, CallbackWrites[i].v, 1, TRUE)
<1>1. /\ LockFree /\ main = "idle" /\ main' = "script"
      /\ todo' = [i \in DOMAIN CallbackWrites |-> task(i)]
      /\ UNCHANGED <<tree, refused, told, touched, http, dirty, flash, clientVars, unsaved>>
  BY DEF Callback
<1>2. ~Worked /\ todo = <<>> /\ touched = {} /\ ~refused
  BY <1>1, Unworked DEF Inv
<1>3. ASSUME NEW i \in DOMAIN CallbackWrites
      PROVE  task(i) \in Task /\ task(i).depth = 1
  <2>1. CallbackWrites[i] \in [path : Paths, v : Int]
    BY DeviceAssumption, ElementOfSeq, i \in 1 .. Len(CallbackWrites)
  <2>2. PICK p \in Paths, w \in Int : p = CallbackWrites[i].path /\ w = CallbackWrites[i].v
    BY <2>1
  <2>3. task(i) = Write(p, w, 1, TRUE)
    BY <2>2
  <2>4. Write(p, w, 1, TRUE) \in Task /\ Write(p, w, 1, TRUE).depth = 1
    BY 1 \in Nat, TRUE \in BOOLEAN, TaskTypes DEF Write
  <2>. HIDE DEF task
  <2>. QED
    BY <2>3, <2>4
<1>. HIDE DEF task
<1>4. todo' \in Seq(Task) /\ \A i \in DOMAIN todo' : todo'[i].depth = 1
  BY <1>1, <1>3, MadeTasks, DeviceAssumption
<1>5. TypeOK'
  BY <1>1, <1>4 DEF Inv, TypeOK, IsSaved, clientVars
<1>6. Exclusive' /\ RefusedAlone'
  BY <1>1, <1>2, <1>4 DEF Exclusive, RefusedAlone, Worked
<1>7. AckedKept' /\ AnsweringKept'
  BY <1>1 DEF Inv, Promises, AckedKept, AnsweringKept, Booting, AtRisk, Flashed, clientVars
<1>8. TouchedKept' /\ ToldOrDue'
  BY <1>1, <1>2, NothingTouched
<1>. QED
  BY <1>5, <1>6, <1>7, <1>8 DEF Inv, Promises

LEMMA CallbackDoneStep ==
  ASSUME Inv, CallbackDone
  PROVE  Inv'
<1>1. /\ main = "script" /\ todo = <<>> /\ main' = "idle"
      /\ touched' = {} /\ refused' = FALSE
      /\ DOMAIN told' = Subscribed /\ told' = [p \in Subscribed |-> told'[p]]
      /\ UNCHANGED <<tree, todo, http, dirty, flash, clientVars, unsaved>>
  BY ReleasedTypes DEF CallbackDone
<1>2. TypeOK'
  BY <1>1 DEF Inv, TypeOK, IsSaved, clientVars
<1>3. Exclusive' /\ RefusedAlone'
  BY <1>1 DEF Inv, Exclusive, RefusedAlone, Worked
<1>4. AckedKept' /\ AnsweringKept'
  BY <1>1 DEF Inv, Promises, AckedKept, AnsweringKept, Booting, AtRisk, Flashed, clientVars
<1>5. TouchedKept' /\ ToldOrDue'
  BY <1>1, NothingTouched
<1>. QED
  BY <1>2, <1>3, <1>4, <1>5 DEF Inv, Promises

LEMMA TakeDirtyStep ==
  ASSUME Inv, TakeDirty
  PROVE  Inv'
<1>1. /\ main = "idle" /\ dirty' = FALSE /\ main' = "save"
      /\ UNCHANGED <<tree, engineVars, http, flash, clientVars, unsaved>>
  BY DEF TakeDirty
<1>2. TypeOK'
  BY <1>1 DEF Inv, TypeOK, IsSaved, clientVars, engineVars
<1>3. Exclusive' /\ RefusedAlone'
  BY <1>1 DEF Inv, Exclusive, RefusedAlone, Worked, engineVars
<1>4. AckedKept' /\ AnsweringKept'
  BY <1>1 DEF Inv, Promises, AckedKept, AnsweringKept, Booting, AtRisk, Flashed, clientVars
<1>5. TouchedKept' /\ ToldOrDue'
  BY <1>1 DEF Inv, Promises, TouchedKept, ToldOrDue, Respelled, engineVars, clientVars
<1>. QED
  BY <1>2, <1>3, <1>4, <1>5 DEF Inv, Promises

\* Everything promised is collected; or else the save is known to have failed.
LEMMA SaveStep ==
  ASSUME Inv, Save
  PROVE  Inv'
<1>1. /\ main = "save" /\ LockFree /\ main' = "idle"
      /\ (flash' = Collected(tree) /\ unsaved' = FALSE) \/ (flash' = flash /\ unsaved' = TRUE)
      /\ UNCHANGED <<tree, engineVars, http, dirty, clientVars>>
  BY DEF Save
<1>2. /\ IsTree(tree) /\ IsSaved(acked) /\ IsSaved(answering) /\ IsSaved(flash)
      /\ AckedKept /\ AnsweringKept /\ dirty \in BOOLEAN
  BY DEF Inv, TypeOK, Promises
<1>3. IsSaved(flash')
  BY <1>1, <1>2, CollectedTree
<1>4. \A p, v : Holds(tree, p, v) => Flashed(p, v)' \/ unsaved'
  BY <1>1, <1>2, CollectedTree DEF Flashed
<1>5. ~Booting /\ AtRisk' = (dirty \/ unsaved')
  BY <1>1 DEF Booting, AtRisk
<1>6. AckedKept'
  BY <1>1, <1>2, <1>4, <1>5 DEF AckedKept, clientVars
<1>7. AnsweringKept'
  BY <1>1, <1>2, <1>4, <1>5 DEF AnsweringKept, clientVars
<1>. QED
  BY <1>1, <1>2, <1>3, <1>6, <1>7, MainStep DEF clientVars

\* Promises that are not lost now were in flash, and the boot will restore them.
LEMMA CrashStep ==
  ASSUME Inv, Crash
  PROVE  Inv'
<1>1. /\ tree' = EmptyTree /\ todo' = <<>> /\ http' = Idle
      /\ main' = "populate" /\ dirty' = FALSE /\ unsaved' = FALSE
      /\ touched' = {} /\ refused' = FALSE
      /\ DOMAIN told' = Subscribed /\ told' = [p \in Subscribed |-> told'[p]]
      /\ lost' = {p \in DOMAIN acked : p \in lost \/ (AtRisk /\ ~InFlash(p))}
      /\ answering' = <<>> /\ flash' = flash /\ acked' = acked
  BY ReleasedTypes DEF Crash
<1>2. IsSaved(answering') /\ DOMAIN answering' = {}
  <2>1. DOMAIN answering' = {} /\ answering' = [p \in DOMAIN answering' |-> answering'[p]]
    BY <1>1
  <2>. QED
    BY <2>1 DEF IsSaved
<1>3. IsSaved(acked')
  BY <1>1 DEF Inv, TypeOK
<1>4. IsTree(tree')
  BY <1>1 DEF EmptyTree, IsTree
<1>5. TypeOK'
  <2>1. http' \in [at : {"idle", "processing", "marking", "replying"},
                    op : {"none", "write", "batch", "tree", "delete"}]
    BY <1>1 DEF Idle
  <2>2. IsSaved(flash') /\ todo' \in Seq(Task)
    BY <1>1 DEF Inv, TypeOK
  <2>. QED
    BY <1>1, <1>2, <1>3, <1>4, <2>1, <2>2 DEF TypeOK
<1>6. Exclusive' /\ RefusedAlone'
  BY <1>1 DEF Exclusive, RefusedAlone, Worked, Idle
<1>7. AckedKept'
  BY <1>1 DEF Inv, Promises, AckedKept, Booting, Flashed, InFlash
<1>8. AnsweringKept'
  BY <1>2 DEF AnsweringKept
<1>9. TouchedKept' /\ ToldOrDue'
  BY <1>1, NothingTouched
<1>. QED
  BY <1>5, <1>6, <1>7, <1>8, <1>9 DEF Inv, Promises

-----------------------------------------------------------------------------
(* The theorems.                                                           *)

LEMMA Initially ==
  ASSUME Init
  PROVE  Inv
<1>1. TypeOK
  <2>1. IsTree(tree)
    BY DEF Init, EmptyTree, IsTree
  <2>2. IsSaved(flash) /\ IsSaved(acked) /\ IsSaved(answering)
    BY DEF Init, IsSaved
  <2>3. DOMAIN told = Subscribed /\ told = [p \in Subscribed |-> told[p]]
    BY DEF Init, NoneTold
  <2>4. http \in [at : {"idle", "processing", "marking", "replying"},
                  op : {"none", "write", "batch", "tree", "delete"}]
    BY DEF Init, Idle
  <2>5. todo \in Seq(Task) /\ touched \subseteq Paths /\ main = "populate"
    BY DEF Init
  <2>6. {dirty, unsaved, refused} \subseteq BOOLEAN
    BY DEF Init
  <2>. QED
    BY <2>1, <2>2, <2>3, <2>4, <2>5, <2>6 DEF TypeOK
<1>2. Exclusive /\ RefusedAlone
  BY DEF Init, Idle, Exclusive, RefusedAlone, Worked
<1>3. DOMAIN acked = {} /\ DOMAIN answering = {} /\ touched = {}
  BY DEF Init
<1>4. Promises /\ ToldOrDue
  BY <1>3 DEF Promises, AckedKept, AnsweringKept, TouchedKept, ToldOrDue
<1>. QED
  BY <1>1, <1>2, <1>4 DEF Inv

LEMMA Stutters ==
  ASSUME Inv, UNCHANGED vars
  PROVE  Inv'
<1>1. UNCHANGED <<tree, todo, refused, told, touched, http, main, dirty, flash,
                  answering, acked, lost, clientVars, unsaved>>
  BY DEF vars, engineVars, clientVars
<1>2. TypeOK'
  BY <1>1 DEF Inv, TypeOK, IsSaved
<1>3. Exclusive' /\ RefusedAlone'
  BY <1>1 DEF Inv, Exclusive, RefusedAlone, Worked
<1>4. Promises'
  BY <1>1, KeptAlone DEF Inv
<1>5. ToldOrDue'
  BY <1>1 DEF Inv, ToldOrDue, Respelled
<1>. QED
  BY <1>2, <1>3, <1>4, <1>5 DEF Inv

\* The engine's lock lets one thread work at a time (src/src/omi/engine.rs under
\* the mutex of server.rs), tasks are announced before they are forgotten, and
\* what clients were promised is in the tree or about to be restored, and in
\* flash unless a save is due or has failed: in every reachable state, for any
\* requests, scripts, faults and restarts.
THEOREM Invariance == Spec => []Inv
<1>1. Inv /\ [Next]_vars => Inv'
  <2>. SUFFICES ASSUME Inv, [Next]_vars PROVE Inv'
    OBVIOUS
  <2>1. CASE EngineWrite
    BY <2>1, RefusedWriteStep, AcceptedWriteStep
  <2>2. CASE EngineNotify
    BY <2>2, NotifyStep
  <2>3. CASE Http
    BY <2>3, ProcessedStep, MarkDirtyStep, ReplyStep DEF Http
  <2>4. CASE Post
    BY <2>4, PostWriteStep, PostBatchStep, PostTreeStep, PostDeleteStep DEF Post
  <2>5. CASE Boot
    BY <2>5, PopulateStep, RestoreStep DEF Boot
  <2>6. CASE Sense \/ Discover
    BY <2>6, SenseStep, DiscoverStep
  <2>7. CASE Callback \/ CallbackDone
    BY <2>7, CallbackStep, CallbackDoneStep
  <2>8. CASE TakeDirty \/ Save
    BY <2>8, TakeDirtyStep, SaveStep
  <2>9. CASE Crash
    BY <2>9, CrashStep
  <2>10. CASE UNCHANGED vars
    BY <2>10, Stutters
  <2>. QED
    BY <2>1, <2>2, <2>3, <2>4, <2>5, <2>6, <2>7, <2>8, <2>9, <2>10
       DEF Next, Engine, Main
<1>. QED
  BY <1>1, Initially, PTL DEF Spec

\* notify_write_event reads the tree when its turn comes, which is after the
\* onwrite script of the item wrote (src/src/omi/engine.rs): whenever the work of a
\* request or script is done, each subscriber of a written item was last told
\* the value that the item has, whatever scripts write, and however deep.
THEOREM SubscribersToldFinalValue == Spec => []SubscribersSeeFinalValue
<1>1. Inv => SubscribersSeeFinalValue
  BY DEF Inv, ToldOrDue, SubscribersSeeFinalValue
<1>. QED
  BY <1>1, Invariance, PTL

\* handle_omi_post marks the tree dirty before it answers, the main loop takes
\* the flag down before it collects (src/src/server.rs, src/src/main.rs). The device
\* breaks a promise only where Device says so: by a crash while a save is due,
\* going on or failed, by a boot that overwrites what was written before it was
\* done, and by a flash that cannot be read. Every other value of a write, batch or
\* tree that a client got acknowledged, and that nothing replaced, is in the tree
\* and in flash when nothing is in progress and no save is due or has failed: no
\* order of requests, saves and restarts loses one in another way.
THEOREM AcknowledgedIsSaved == Spec => []SavedUnlessDirty
<1>1. Inv => SavedUnlessDirty
  <2>. SUFFICES ASSUME Inv, main = "idle", ~dirty, ~unsaved, NEW p \in DOMAIN acked \ lost
                PROVE  /\ Resolve(tree, p) = "InfoItem"
                       /\ Newest(tree.items[p]) = acked[p]
                       /\ InFlash(p)
    BY DEF SavedUnlessDirty
  <2>1. ~Booting /\ ~AtRisk
    BY DEF Booting, AtRisk
  <2>2. Holds(tree, p, acked[p]) /\ Flashed(p, acked[p])
    BY <2>1 DEF Inv, Promises, AckedKept
  <2>3. p \in DOMAIN tree.items /\ p \in Keys
    BY <2>2 DEF Inv, TypeOK, IsTree, Holds, Collectable
  <2>4. Parsed(p) = p /\ Named(p)
    BY <2>3, ParsedTexts
  <2>. QED
    BY <2>2, <2>3, <2>4, NamedResolved DEF Holds, Flashed, InFlash
<1>. QED
  BY <1>1, Invariance, PTL
=============================================================================
