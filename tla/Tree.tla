------------------------------- MODULE Tree ---------------------------------
(***************************************************************************)
(* The algorithms of src/libdata on linked nodes: tree.c, splay.c,         *)
(* redblack.c, avl.c and lslist.c.                                         *)
(*                                                                         *)
(* A container t has the links kid.left, kid.right and parent and the      *)
(* implementation's tag of every node and of the sentinel Nil, and the     *)
(* node count.  Code that comes twice, once per direction, is one operator *)
(* of the side s here.  NULL results are Nil.  Where the code has an early *)
(* return in place of an assertion, so does the model.                     *)
(***************************************************************************)
EXTENDS Integers, FiniteSets, Sequences, SequencesExt

CONSTANTS
    Node,     \* a set of positive numbers
    KeyOf     \* the key under which each node is inserted

ASSUME NodeAssumption ==
    Node \subseteq Nat \ {0} /\ IsFiniteSet(Node) /\ KeyOf \in [Node -> Nat]

Nil  == 0
Side == {"left", "right"}
Opp(s) == IF s = "left" THEN "right" ELSE "left"

\* The union usrtc_impldata_t: the enumerators share their numbers.
Red == 0
Black == 1
Balanced == 0
Heavy(s) == IF s = "left" THEN 1 ELSE 2

Link == Node \cup {Nil}

Container ==
    [kid    : [Side -> [Link -> Link]],
     parent : [Link -> Link],
     tag    : [Link -> 0 .. 2],
     count  : Nat]

NoLinks == [n \in Link |-> Nil]
Empty == [kid |-> [s \in Side |-> NoLinks], parent |-> NoLinks,
          tag |-> NoLinks, count |-> 0]

Root(t) == t.kid.left[Nil]

\* The pointer of p that leads to old leads to new.
Relink(t, p, old, new) ==
    LET s == IF t.kid.left[p] = old THEN "left" ELSE "right"
    IN  [t EXCEPT !.kid[s][p] = new]

Hang(t, s, p, c) == [t EXCEPT !.kid[s][p] = c, !.parent[c] = p]

Leaf(t, n) == [t EXCEPT !.kid = [s \in Side |-> [@[s] EXCEPT ![n] = Nil]]]

\* What k rounds of a loop make of x.  A round that leaves x as it is has met
\* the condition that ends the loop; none here takes more rounds than there are
\* nodes.
Iterate(step, x, k) ==
    LET it[i \in Nat] == IF i = 0 THEN x ELSE step[it[i - 1]] IN it[k]

Rounds == Cardinality(Node)

-----------------------------------------------------------------------------
(***************************************************************************)
(* Order: first, last, next, prev and the searches.                        *)
(***************************************************************************)
Deepest(t, s, n) ==
    Iterate([m \in Link |-> IF t.kid[s][m] = Nil THEN m ELSE t.kid[s][m]], n, Rounds)

TreeFirst(t) == Deepest(t, "left", Root(t))
TreeLast(t)  == Deepest(t, "right", Root(t))

Climb(t, s, n) ==
    LET up == [m \in Link |-> LET p == t.parent[m]
                              IN  IF p # Nil /\ t.kid[s][p] = m THEN p ELSE m]
    IN  t.parent[Iterate(up, n, Rounds)]

\* usrtc_tree_next for s = "right", usrtc_tree_prev for s = "left"
Neighbour(t, s, n) ==
    IF t.kid[s][n] # Nil THEN Deepest(t, Opp(s), t.kid[s][n]) ELSE Climb(t, s, n)

Find(t, k, n) ==
    LET down == [m \in Link |->
                    IF m = Nil \/ KeyOf[m] = k THEN m
                    ELSE t.kid[IF k < KeyOf[m] THEN "left" ELSE "right"][m]]
    IN  Iterate(down, n, Rounds)

OnSpine(t, k, n) ==
    Iterate([m \in Link |-> IF m = Nil \/ KeyOf[m] = k THEN m ELSE t.kid.right[m]],
            n, Rounds)

LeftOccurrence(t, k, n) ==
    LET before == [m \in Link |-> LET b == OnSpine(t, k, t.kid.left[m])
                                  IN  IF b = Nil THEN m ELSE b]
    IN  Iterate(before, n, Rounds)

TreeLookupAny(t, dupes, k) == Find(t, k, Root(t))    \* mutant: any occurrence

TreeLookup(t, dupes, k) ==
    LET n == Find(t, k, Root(t))
    IN  IF n # Nil /\ dupes THEN LeftOccurrence(t, k, n) ELSE n

\* x is the node and the tentative result.
BoundFrom(t, dupes, k, n) ==
    LET down == [x \in Link \X Link |->
                    IF x[1] = Nil THEN x
                    ELSE IF k > KeyOf[x[1]] THEN <<t.kid.right[x[1]], x[2]>>
                    ELSE IF k = KeyOf[x[1]] /\ ~dupes THEN <<Nil, x[1]>>
                    ELSE <<t.kid.left[x[1]], x[1]>>]
    IN  Iterate(down, <<n, Nil>>, Rounds)[2]

TreeLowerBound(t, dupes, k) == BoundFrom(t, dupes, k, Root(t))

-----------------------------------------------------------------------------
(***************************************************************************)
(* The plain binary tree.                                                  *)
(***************************************************************************)
\* Equal keys go to the right.
Way(k, p) == IF p = Nil \/ k < KeyOf[p] THEN "left" ELSE "right"

\* the parent where the search for k leaves the tree
Leaving(t, k) ==
    LET down == [p \in Link |-> LET c == t.kid[Way(k, p)][p]
                                IN  IF c = Nil THEN p ELSE c]
    IN  Iterate(down, Nil, Rounds)

BstInsert(t, n) ==
    LET p == Leaving(t, KeyOf[n])
    IN  [Hang(Leaf(t, n), Way(KeyOf[n], p), p, n) EXCEPT !.count = @ + 1]

\* usrtc_tree_delete(): swap is the node that took the place of n, child the
\* one that moved up.
BstDelete(t, n) ==
    LET dp == t.parent[n]
        both == t.kid.left[n] # Nil /\ t.kid.right[n] # Nil
        swap == IF both THEN Neighbour(t, "right", n) ELSE n
        child == IF ~both /\ t.kid.left[n] # Nil THEN t.kid.left[n]
                                                 ELSE t.kid.right[swap]
        out == [Relink(t, t.parent[swap], swap, child) EXCEPT
                   !.parent[child] = t.parent[swap], !.count = @ - 1]
        l == out.kid.left[n]
        r == out.kid.right[n]
        moved == Hang(Hang([out EXCEPT !.parent[swap] = dp], "left", swap, l),
                      "right", swap, r)
    IN  [t     |-> IF both THEN Relink(moved, dp, n, swap) ELSE out,
         swap  |-> swap,
         child |-> child]

RotateOpen(t, s, c, p) ==    \* mutant: the grandchild keeps its parent
    LET g == t.parent[p]
        lent == [t EXCEPT !.kid[Opp(s)][p] = t.kid[s][c], !.parent[c] = g]
    IN  IF t.kid[Opp(s)][p] # c THEN t ELSE Hang(Relink(lent, g, p, c), s, c, p)

\* rotate_left for s = "left": p becomes the left child of its right child c.
Rotate(t, s, c, p) ==
    LET g == t.parent[p]
        lent == [Hang(t, Opp(s), p, t.kid[s][c]) EXCEPT !.parent[c] = g]
    IN  IF t.kid[Opp(s)][p] # c THEN t ELSE Hang(Relink(lent, g, p, c), s, c, p)

SideOf(t, n) == IF t.kid.left[t.parent[n]] = n THEN "left" ELSE "right"

-----------------------------------------------------------------------------
(***************************************************************************)
(* Splay trees.                                                            *)
(***************************************************************************)
SplayStep(t, n) ==
    LET p == t.parent[n]
        g == t.parent[p]
        s == SideOf(t, n)
        o == Opp(s)
    IN  IF p = Root(t) THEN Rotate(t, o, n, p)
        ELSE IF t.kid[s][g] = p
        THEN Rotate(Rotate(t, o, p, g), o, n, p)    \* zig zig
        ELSE Rotate(Rotate(t, o, n, p), s, n, g)    \* zig zag

Splay(t, n) ==
    Iterate([u \in Container |-> IF Root(u) = n THEN u ELSE SplayStep(u, n)], t, Rounds)

-----------------------------------------------------------------------------
(***************************************************************************)
(* Red-black trees.                                                        *)
(***************************************************************************)
\* p and n are both red, and the brother of p is.
RedUncle(t, n) ==
    LET p == t.parent[n]
        g == t.parent[p]
    IN  t.tag[p] = Red /\ t.tag[t.kid[Opp(SideOf(t, p))][g]] = Red

\* x is the tree and the red node that is looked at.
Recolour(x) ==
    LET p == x[1].parent[x[2]]
        g == x[1].parent[p]
    IN  <<[x[1] EXCEPT !.tag[p] = Black, !.tag[x[1].kid[Opp(SideOf(x[1], p))][g]] = Black,
                       !.tag[g] = Red],
          g>>

\* The rotations that end it.
RbTurn(t, n) ==
    LET p == t.parent[n]
        g == t.parent[p]
        s == SideOf(t, p)
        o == Opp(s)
        inner == t.kid[o][p] = n
        turned == IF inner THEN Rotate(t, s, n, p) ELSE t
        top == IF inner THEN n ELSE p
    IN  IF t.tag[p] # Red THEN t
        ELSE Rotate([turned EXCEPT !.tag[top] = Black, !.tag[g] = Red], o, top, g)

RbRaise(t, n) ==
    LET up == [x \in Container \X Link |->
                  IF RedUncle(x[1], x[2]) THEN Recolour(x) ELSE x]
        end == Iterate(up, <<t, n>>, Rounds)
    IN  RbTurn(end[1], end[2])

RbInsertRedRoot(t, n) ==    \* mutant: the root stays red
    RbRaise([BstInsert(t, n) EXCEPT !.tag[n] = Red], n)

RbInsert(t, n) ==
    LET up == RbRaise([BstInsert(t, n) EXCEPT !.tag[n] = Red], n)
    IN  [up EXCEPT !.tag[Root(up)] = Black]

\* A red sister of c is rotated above the parent.
Sister(t, c) == t.kid[Opp(SideOf(t, c))][t.parent[c]]
BlackSister(t, c) ==
    IF t.tag[Sister(t, c)] = Red
    THEN Rotate([t EXCEPT !.tag[Sister(t, c)] = Black, !.tag[t.parent[c]] = Red],
                SideOf(t, c), Sister(t, c), t.parent[c])
    ELSE t

\* u is the tree with the black sister; both of her children are black.
BlackNephews(u, c) == \A s \in Side : u.tag[u.kid[s][Sister(u, c)]] = Black

\* u again; the rotations that end it.
RbSettle(u, c) ==
    LET p == u.parent[c]
        s == SideOf(u, c)
        o == Opp(s)
        sister == u.kid[o][p]
        near == u.kid[s][sister]
        v == IF u.tag[u.kid[o][sister]] = Black
             THEN Rotate([u EXCEPT !.tag[near] = Black, !.tag[sister] = Red],
                         o, near, sister)
             ELSE u
        top == v.kid[o][p]
    IN  Rotate([v EXCEPT !.tag[top] = v.tag[p], !.tag[v.kid[o][top]] = Black,
                         !.tag[p] = Black],
               s, top, p)

\* x is the tree and the node whose paths lack a black one.
RbMend(t, c) ==
    LET up == [x \in Container \X Link |->
                  LET u == BlackSister(x[1], x[2])
                  IN  IF \/ x[1].tag[x[2]] = Red
                         \/ Sister(u, x[2]) = Nil
                         \/ ~BlackNephews(u, x[2])
                      THEN x
                      ELSE <<[u EXCEPT !.tag[Sister(u, x[2])] = Red], u.parent[x[2]]>>]
        end == Iterate(up, <<t, c>>, Rounds)
        u == BlackSister(end[1], end[2])
        last == IF end[1].tag[end[2]] = Red THEN end[1] ELSE RbSettle(u, end[2])
    IN  IF end[1].tag[end[2]] # Red /\ Sister(u, end[2]) = Nil THEN u
        ELSE [last EXCEPT !.tag[end[2]] = Black, !.tag[Root(last)] = Black]

RbDelete(t, n) ==
    LET d == BstDelete(t, n)
        t1 == [d.t EXCEPT !.tag[n] = t.tag[d.swap], !.tag[d.swap] = t.tag[n]]
    IN  IF t1.tag[n] # Black THEN t1
        ELSE RbMend([t1 EXCEPT !.tag[Root(t1)] = Red], d.child)

-----------------------------------------------------------------------------
(***************************************************************************)
(* AVL trees.  The balance of the sentinel is written and never read, and  *)
(* left out.                                                               *)
(***************************************************************************)
\* fix_balance(): the subtree of n grew on side s or shrank on the other.
FixBalance(t, n, s) ==
    LET o == Opp(s)
        c == t.kid[s][n]
        g == t.kid[o][c]
        flat == [t EXCEPT !.tag[n] = Balanced, !.tag[c] = Balanced]
    IN  IF t.tag[n] = Balanced THEN [t EXCEPT !.tag[n] = Heavy(s)]
        ELSE IF t.tag[n] # Heavy(s) THEN [t EXCEPT !.tag[n] = Balanced]
        ELSE IF t.tag[c] = Heavy(s) THEN Rotate(flat, o, c, n)
        ELSE IF t.tag[c] = Balanced
        THEN Rotate([t EXCEPT !.tag[n] = Heavy(s), !.tag[c] = Heavy(o)], o, c, n)
        ELSE LET t1 == [flat EXCEPT
                           !.tag[n] = IF t.tag[g] = Heavy(s) THEN Heavy(o) ELSE Balanced,
                           !.tag[c] = IF t.tag[g] = Heavy(o) THEN Heavy(s) ELSE Balanced,
                           !.tag[g] = Balanced]
             IN  Rotate(Rotate(t1, s, g, c), o, g, n)

\* The way back through the calls of insert(): x.top is the root of a subtree
\* that has grown if x.grew.
AvlRaise(x) ==
    LET here == x.t.parent[x.top]
        fixed == FixBalance(x.t, here, SideOf(x.t, x.top))
        top == fixed.kid[SideOf(x.t, here)][x.t.parent[here]]
    IN  IF here = Nil \/ ~x.grew THEN x
        ELSE [t |-> fixed, top |-> top, grew |-> fixed.tag[top] # Balanced]

AvlInsert(t, n) ==
    LET hung == [BstInsert(t, n) EXCEPT !.tag[n] = Balanced]
        back == [x \in [t : Container, top : Link, grew : BOOLEAN] |-> AvlRaise(x)]
    IN  Iterate(back, [t |-> hung, top |-> n, grew |-> TRUE], Rounds).t

\* x.c is a child of x.p whose subtree became lower; p is Nil when it is over.
AvlLower(x) ==
    LET t == x.t
        p == x.p
        s == IF x.c = t.kid.left[p] THEN "left" ELSE "right"
        leaf == t.kid.left[p] = Nil /\ t.kid.right[p] = Nil
        t1 == IF leaf THEN [t EXCEPT !.tag[p] = Balanced] ELSE FixBalance(t, p, Opp(s))
        top == t1.kid[SideOf(t, p)][t.parent[p]]
    IN  IF p = Nil \/ x.c # t.kid[s][p] THEN [x EXCEPT !.p = Nil]
        ELSE [t |-> t1, c |-> top,
              p |-> IF t1.tag[top] = Balanced THEN t1.parent[top] ELSE Nil]

AvlMend(t, c, p) ==
    LET up == [x \in [t : Container, c : Link, p : Link] |-> AvlLower(x)]
    IN  Iterate(up, [t |-> t, c |-> c, p |-> p], Rounds).t

AvlDelete(t, n) ==
    LET d == BstDelete(t, n)
        t1 == [d.t EXCEPT !.tag[d.swap] = t.tag[n]]
    IN  AvlMend(t1, d.child, t1.parent[d.child])

-----------------------------------------------------------------------------
(***************************************************************************)
(* Lists, with next in kid.right and prev in kid.left.                     *)
(***************************************************************************)
ListFrom(t, k) ==
    LET on == [m \in Link |-> IF m = Nil \/ KeyOf[m] >= k THEN m ELSE t.kid.right[m]]
    IN  Iterate(on, t.kid.right[Nil], Rounds)

ListLowerBound(t, k) == ListFrom(t, k)

ListLookup(t, k) == OnSpine(t, k, t.kid.right[Nil])

\* b comes next to a.
Join(t, a, b) == [t EXCEPT !.kid.right[a] = b, !.kid.left[b] = a]

PutBefore(t, succ, n) ==
    [Join(Join(t, t.kid.left[succ], n), n, succ) EXCEPT !.count = @ + 1]

ListInsertBefore(t, n) == PutBefore(t, ListFrom(t, KeyOf[n]), n)    \* mutant: >= 0 for > 0
ListInsert(t, n) == PutBefore(t, ListFrom(t, KeyOf[n] + 1), n)

ListDeleteUncounted(t, n) == Join(t, t.kid.left[n], t.kid.right[n])    \* mutant: nodecount is left alone
ListDelete(t, n) == [Join(t, t.kid.left[n], t.kid.right[n]) EXCEPT !.count = @ - 1]

-----------------------------------------------------------------------------
(***************************************************************************)
(* Conversions.                                                            *)
(***************************************************************************)
\* usrtc_tree_convert_to_list(): the nodes in the order of usrtc_tree_next.
ToList(t, seq) ==
    LET ring == <<Nil>> \o seq \o <<Nil>>
        At(n) == CHOOSE i \in 2 .. Len(ring) : ring[i] = n
    IN  [t EXCEPT !.kid.right = [n \in DOMAIN NoLinks |->
                     IF n = Nil THEN ring[2]
                     ELSE IF Contains(seq, n) THEN ring[At(n) + 1] ELSE Nil],
                  !.kid.left  = [n \in DOMAIN NoLinks |->
                     IF n = Nil \/ Contains(seq, n) THEN ring[At(n) - 1] ELSE Nil]]

\* tree[] and the variables of the loop
Depth == 0 .. Cardinality(Node)
Builder == [t : Container, row : [Depth -> Link], done : Link, level : Depth,
            base : Depth, bottom : Int]

\* A row of the array tree[] waits for its right subtree; done is complete.
Carry(b) ==
    LET up == [x \in Builder |->
                  LET n == x.row[x.level]
                  IN  IF n = Nil THEN x
                      ELSE [x EXCEPT !.t = Hang(x.t, "right", n, x.done), !.done = n,
                                     !.row[x.level] = Nil, !.level = @ + 1]]
    IN  Iterate(up, b, Rounds)

\* One pass of the loop over the list, for node n.
Grow(b, n) ==
    LET b1 == IF b.done = Nil THEN [b EXCEPT !.bottom = @ - 1] ELSE b
        b2 == [b1 EXCEPT !.base = 1, !.level = 1, !.done = b.row[0]]
        b3 == IF b.done # Nil \/ b.bottom # 0 THEN b1
              ELSE IF b2.done = Nil THEN b2
              ELSE Carry([b2 EXCEPT !.row[0] = Nil, !.t.kid.right[b2.done] = Nil])
    IN  IF b3.done = Nil
        THEN Carry([b3 EXCEPT !.t = [Leaf(@, n) EXCEPT !.tag[n] = b3.level % 2],
                              !.done = n])
        ELSE [b3 EXCEPT !.t = [Hang(b3.t, "left", n, b3.done) EXCEPT
                                  !.tag[n] = (b3.level + 1) % 2],
                        !.row[b3.level] = n, !.done = Nil, !.level = b3.base]

USRTC_COUNT_T_MAX == 65535

\* 16 halvings leave nothing of it.
FullCount(full, count) ==
    Iterate([f \in Nat |-> IF f >= count THEN f \div 2 ELSE f], full, 16)

\* convert_from_list() of tree.c and, with its colours, of redblack.c
FromList(t, seq) ==
    LET start == [t |-> t, row |-> [d \in Depth |-> Nil], done |-> Nil,
                  level |-> 0, base |-> 0,
                  bottom |-> t.count - FullCount(USRTC_COUNT_T_MAX, t.count)]
        end == FoldLeft(Grow, start, seq)
        Close(b, d) == IF b.row[d] = Nil THEN b
                       ELSE [b EXCEPT !.t = Hang(b.t, "right", b.row[d], b.done),
                                      !.done = b.row[d]]
        all == FoldLeft(Close, end, [d \in 1 .. Cardinality(Node) |-> d - 1])
    IN  [Hang(all.t, "left", Nil, all.done) EXCEPT
            !.kid.right[Nil] = Nil, !.tag[all.done] = Black, !.tag[Nil] = Black]

\* make_tree(): the subtree of seq and its height
MakeTree(t, seq) ==
    LET make[x \in Container \X Seq(Node)] ==
            LET of == x[2]
                half == (Len(of) - 1) \div 2
                root == of[half + 1]
                l == make[<<x[1], SubSeq(of, 1, half)>>]
                r == make[<<l.t, SubSeq(of, half + 2, Len(of))>>]
            IN  IF of = <<>> THEN [t |-> x[1], root |-> Nil, height |-> 0]
                ELSE [t |-> [Hang(Hang(r.t, "left", root, l.root), "right", root, r.root)
                                EXCEPT !.tag[root] = IF l.height = r.height THEN Balanced
                                                     ELSE Heavy("right")],
                      root |-> root, height |-> r.height + 1]
    IN  make[<<t, seq>>]

AvlFromList(t, seq) ==
    LET made == MakeTree(t, seq)
    IN  IF t.count = 0 THEN t
        ELSE [Hang(made.t, "left", Nil, made.root) EXCEPT !.kid.right[Nil] = Nil]
=============================================================================
