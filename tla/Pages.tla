------------------------------- MODULE Pages --------------------------------
(***************************************************************************)
(* The store of uploaded pages (src/pages.rs) and the handlers that change *)
(* it. A path is the sequence of its segments and costs one unit per       *)
(* segment; a page is its size and whether it is kept compressed. Pages    *)
(* live in memory only.                                                    *)
(***************************************************************************)
EXTENDS Integers, Sequences, Functions, FiniteSets

CONSTANTS
  Path,               \* paths clients ask for, each a sequence of segments
  MaxBody,            \* largest body a client declares
  MAX_SINGLE_PAGE, MaxTotal

ASSUME PagesAssumption ==
  /\ {MaxBody, MAX_SINGLE_PAGE, MaxTotal} \subseteq Nat \ {0}
  /\ Path \subseteq Seq(STRING)

VARIABLES pages, total

pagesVars == <<pages, total>>

KeyLen(path) == Len(path)

StorablePath(path) ==
  /\ path # <<"">>
  /\ path[1] \notin {"omi", "odf", "Objects"}
  /\ \A i \in DOMAIN path : path[i] \notin {"", ".", ".."}

PagesInit == pages = <<>> /\ total = 0

\* What the total becomes; a replaced page gives its content back, not its key.
NewTotal(path, size) ==
  IF path \in DOMAIN pages THEN total - pages[path].size + size
  ELSE total + size + KeyLen(path)

With(path, page) ==
  [p \in DOMAIN pages \cup {path} |-> IF p = path THEN page ELSE pages[p]]

\* PATCH /*: a body beyond the limit, not UTF-8 when plain, or not storable
\* leaves the store as it is.
Store(path, size, compressed) ==
  /\ size \in 1 .. MAX_SINGLE_PAGE
  /\ StorablePath(path)
  /\ NewTotal(path, size) <= MaxTotal
  /\ pages' = With(path, [size |-> size, compressed |-> compressed])
  /\ total' = NewTotal(path, size)

\* Mutant: a removed page does not give the bytes of its key back.
RemoveKeepsKey(path) ==
  /\ path \in DOMAIN pages
  /\ pages' = Restrict(pages, DOMAIN pages \ {path})
  /\ total' = total - pages[path].size

\* DELETE /*.
RemovePage(path) ==
  /\ path \in DOMAIN pages
  /\ pages' = Restrict(pages, DOMAIN pages \ {path})
  /\ total' = total - pages[path].size - KeyLen(path)

PagesNext ==
  \E path \in Path :
    \/ \E size \in 1 .. MaxBody, compressed \in BOOLEAN : Store(path, size, compressed)
    \/ RemovePage(path)

\* The units that a page takes, those of its content and those of its key.
Units(path, page) == {path} \X (1 .. page.size + KeyLen(path))

\* The running total is what the stored keys and contents add up to, whatever was
\* replaced, refused and removed: else the store fills up with nothing in it, or
\* grows past its limit (store_bytes, remove).
TotalIsExact ==
  /\ total = Cardinality(UNION {Units(p, pages[p]) : p \in DOMAIN pages})
  /\ total <= MaxTotal
=============================================================================
