------------------------------- MODULE Usrtc --------------------------------
(***************************************************************************)
(* The container of src/libdata/usrtc.c: one interface, five               *)
(* implementations, and conversions between them while nodes are linked    *)
(* in.  An operation is one step: each process has containers of its own.  *)
(*                                                                         *)
(* Fields that the current implementation does not read (the parents of a  *)
(* list, the tags of a plain tree, the links of a node that is out, the    *)
(* parent of the sentinel) are kept at Nil: every path to an               *)
(* implementation that reads them writes them first.                       *)
(***************************************************************************)
EXTENDS Tree

CONSTANT Kinds    \* the implementations that a run uses

ASSUME KindAssumption == Kinds \subseteq {"list", "bst", "redblack", "splay", "avl"}

VARIABLES
    kind,     \* futable
    rtc,      \* the links, tags and the count
    dupes,    \* dupes_allowed
    used,     \* the nodes that the caller has in the container
    wild      \* a pointer that was never written has been followed

vars == <<kind, rtc, dupes, used, wild>>

Init ==
    /\ kind \in Kinds
    /\ rtc = [Empty EXCEPT !.tag[Nil] = IF kind = "redblack" THEN Black ELSE 0]
    /\ dupes = FALSE
    /\ used = {}
    /\ wild = FALSE

-----------------------------------------------------------------------------
(***************************************************************************)
(* The functions table, for reading.                                       *)
(***************************************************************************)
First(k, t) == IF k = "list" THEN t.kid.right[Nil] ELSE TreeFirst(t)
LastOf(k, t) == IF k = "list" THEN t.kid.left[Nil] ELSE TreeLast(t)
NextTo(k, t, s, n) == IF k = "list" THEN t.kid[s][n] ELSE Neighbour(t, s, n)

Lookup(k, t, d, key) ==
    IF k = "list" THEN ListLookup(t, key) ELSE TreeLookup(t, d, key)

LowerBound(k, t, d, key) ==
    IF k = "list" THEN ListLowerBound(t, key) ELSE TreeLowerBound(t, d, key)

\* A caller's loop over usrtc_next() or usrtc_prev(); w is what it has met and
\* where it is.
WalkFrom(k, t, s, n) ==
    LET on == [w \in Seq(Node) \X Link |->
                  IF w[2] = Nil THEN w ELSE <<Append(w[1], w[2]), NextTo(k, t, s, w[2])>>]
    IN  Iterate(on, <<<<>>, n>>, Rounds + 1)[1]

Forward(k, t)  == WalkFrom(k, t, "right", First(k, t))
Backward(k, t) == WalkFrom(k, t, "left", LastOf(k, t))

-----------------------------------------------------------------------------
\* What the implementation k does not read is forgotten; In are the nodes.
Clean(k, In, t) ==
    LET On(f) == [n \in DOMAIN NoLinks |-> IF n \in In THEN f[n] ELSE Nil]
        Linked(f) == [On(f) EXCEPT ![Nil] = f[Nil]]
    IN  [t EXCEPT
           !.kid = [s \in Side |-> Linked(t.kid[s])],
           !.parent = IF k = "list" THEN NoLinks ELSE On(t.parent),
           !.tag = CASE k = "redblack" -> Linked(t.tag)
                     [] k = "avl" -> On(t.tag)
                     [] OTHER -> NoLinks]

Inserted(n) ==
    CASE kind = "list"     -> ListInsert(rtc, n)
      [] kind = "bst"      -> BstInsert(rtc, n)
      [] kind = "redblack" -> RbInsert(rtc, n)
      [] kind = "splay"    -> Splay(BstInsert(rtc, n), n)
      [] kind = "avl"      -> AvlInsert(rtc, n)

Deleted(n) ==
    CASE kind = "list"     -> ListDelete(rtc, n)
      [] kind = "redblack" -> RbDelete(rtc, n)
      [] kind = "avl"      -> AvlDelete(rtc, n)
      [] OTHER             -> BstDelete(rtc, n).t

\* usrtc_tree_insert() returns without a word when dupes_allowed is set and
\* the key is there; the list and the AVL tree have code of their own.
Refused(n) ==
    /\ kind \in {"bst", "redblack", "splay"}
    /\ dupes
    /\ Find(rtc, KeyOf[n], Root(rtc)) # Nil

Insert(n) ==
    /\ n \notin used
    /\ ~Refused(n)
    /\ used' = used \cup {n}
    /\ rtc' = Clean(kind, used', Inserted(n))
    /\ UNCHANGED <<kind, dupes, wild>>

\* After the silent return redblack_insert() and splay_insert() go on with
\* the parent of a node that has none.
InsertRefused(n) ==
    /\ n \notin used
    /\ Refused(n)
    /\ wild' = (kind # "bst")
    /\ UNCHANGED <<kind, rtc, dupes, used>>

Delete(n) ==
    /\ n \in used
    /\ used' = used \ {n}
    /\ rtc' = Clean(kind, used', Deleted(n))
    /\ UNCHANGED <<kind, dupes, wild>>

\* splay_lookup(); a lookup of the others leaves the container as it is.
SplayLookup(key) ==
    /\ kind = "splay"
    /\ LET n == Lookup(kind, rtc, dupes, key)
       IN  /\ n # Nil
           /\ rtc' = Clean(kind, used, Splay(rtc, n))
    /\ UNCHANGED <<kind, dupes, used, wild>>

ConvertTo(k) ==
    /\ k # kind
    /\ kind' = k
    /\ LET seq == Forward(kind, rtc)
       IN  rtc' = Clean(k, used,
             CASE kind # "list" /\ k \in {"bst", "splay"} -> rtc
               [] k = "list" -> ToList(rtc, seq)
               [] k = "avl"  -> AvlFromList(rtc, seq)
               [] OTHER      -> FromList(rtc, seq))
    /\ UNCHANGED <<dupes, used, wild>>

\* usrtc_allow_dupes() asks for nodes where the assertion it replaces asked
\* for none.
AllowDupes ==
    /\ ~dupes
    /\ rtc.count # 0
    /\ dupes' = TRUE
    /\ UNCHANGED <<kind, rtc, used, wild>>

Next ==
    /\ ~wild
    /\ \/ \E n \in Node : Insert(n) \/ InsertRefused(n) \/ Delete(n)
       \/ \E n \in used : SplayLookup(KeyOf[n])
       \/ \E k \in Kinds : ConvertTo(k)
       \/ AllowDupes

Spec == Init /\ [][Next]_vars

-----------------------------------------------------------------------------
(***************************************************************************)
(* Properties.                                                             *)
(***************************************************************************)
TypeOK ==
    LET Links == [Node \cup {Nil} -> Node \cup {Nil}]
    IN  /\ kind \in Kinds
        /\ rtc.kid \in [Side -> Links] /\ rtc.parent \in Links
        /\ rtc.tag \in [Node \cup {Nil} -> 0 .. 2]
        /\ rtc.count = Cardinality(used)
        /\ dupes \in BOOLEAN /\ wild \in BOOLEAN
        /\ used \subseteq Node

\* Every link has its way back: the parent of a child, the prev of a next.
LinksMatch ==
    IF kind = "list"
    THEN \A n \in used \cup {Nil} :
            /\ rtc.kid.right[rtc.kid.left[n]] = n
            /\ rtc.kid.left[rtc.kid.right[n]] = n
    ELSE /\ rtc.kid.right[Nil] = Nil
         /\ \A n \in used \cup {Nil}, s \in Side :
               rtc.kid[s][n] # Nil => rtc.parent[rtc.kid[s][n]] = n

\* A caller that goes from last by prev meets exactly the nodes it has
\* inserted, in the opposite order of one that goes from first by next.
BothWays ==
    /\ ToSet(Forward(kind, rtc)) = used
    /\ Backward(kind, rtc) = Reverse(Forward(kind, rtc))

\* Rotations, deletions and conversions leave no link without its way back and
\* no node that a walk in either direction misses: a parent pointer that a
\* rotation forgot shows only several operations later, as a walk gone astray.
WellLinked == LinksMatch /\ BothWays

\* lookup finds a node of the key if there is one, and the first of several
\* in a list and when duplicates are allowed, any of them where the tree was not
\* told of them (NoDuplicates); lower_bound finds where the key would stand.
SearchExact ==
    \A key \in {KeyOf[n] : n \in Node} :
        LET seq == Forward(kind, rtc)
            at == {i \in DOMAIN seq : KeyOf[seq[i]] = key}
            from == {i \in DOMAIN seq : KeyOf[seq[i]] >= key}
            found == Lookup(kind, rtc, dupes, key)
            bound == LowerBound(kind, rtc, dupes, key)
            FirstOf(S) == seq[CHOOSE i \in S : \A j \in S : i <= j]
        IN  IF at = {}
            THEN found = Nil /\ bound = (IF from = {} THEN Nil ELSE FirstOf(from))
            ELSE /\ found \in used /\ KeyOf[found] = key
                 /\ bound \in used /\ KeyOf[bound] = key
                 /\ dupes \/ kind = "list" => found = FirstOf(at) /\ bound = FirstOf(at)

\* tree.c:77, "trying to put duplicate to the disabled dupe tree", and
\* tree.c:184, "no duplicates": where duplicates are not allowed a tree that
\* inserts with usrtc_tree_insert() has no two nodes of the same key.
NoDuplicates ==
    kind \in {"bst", "redblack", "splay"} /\ ~dupes =>
        \A n, o \in used : KeyOf[n] = KeyOf[o] => n = o

\* The height of the subtree below each node.
Height(t) ==
    LET h[n \in Link] ==
            IF n = Nil THEN 0
            ELSE LET l == h[t.kid.left[n]]
                     r == h[t.kid.right[n]] IN 1 + (IF l < r THEN r ELSE l)
    IN  h

\* The balance of an AVL node is the difference of its subtrees, at most one.
AvlBalanced ==
    kind = "avl" => \A n \in used :
        LET l == Height(rtc)[rtc.kid.left[n]]
            r == Height(rtc)[rtc.kid.right[n]]
        IN  /\ l - r \in -1 .. 1
            /\ rtc.tag[n] = CASE l > r -> Heavy("left")
                              [] l < r -> Heavy("right")
                              [] l = r -> Balanced

\* The black nodes on the way down, the same on every way; -1 when they differ.
BlackHeight(t) ==
    LET h[n \in Link] ==
            IF n = Nil THEN 0
            ELSE LET l == h[t.kid.left[n]]
                     r == h[t.kid.right[n]]
                 IN  IF l = r /\ l # -1 THEN l + t.tag[n] ELSE -1
    IN  h

RedBlackBalanced ==
    kind = "redblack" =>
        /\ rtc.tag[Nil] = Black /\ rtc.tag[Root(rtc)] = Black
        /\ \A n \in used : rtc.tag[n] = Red => rtc.tag[rtc.parent[n]] = Black
        /\ BlackHeight(rtc)[Root(rtc)] # -1

\* The two balanced trees keep the shape their repairs work for after any
\* sequence of insertions, deletions and conversions: heights that differ by at
\* most one with tags that say so, and as many black nodes on every way down.
InBalance == AvlBalanced /\ RedBlackBalanced

\* Whatever the implementation, rotations and conversions included, the
\* container is the ordered bag of SortedBag.
Bag == INSTANCE SortedBag WITH Item <- Node, order <- Forward(kind, rtc)
IsSortedBag == Bag!Spec
=============================================================================
