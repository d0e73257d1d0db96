----------------------------- MODULE UsrtcProofs -----------------------------
(***************************************************************************)
(* Proofs about Usrtc, for any finite set of nodes and any keys: types,    *)
(* links, searches, and that a container is a SortedBag.                   *)
(***************************************************************************)
EXTENDS Usrtc, TreeProofs, SequenceTheorems

-----------------------------------------------------------------------------
(***************************************************************************)
(* What a caller's loop meets.                                             *)
(***************************************************************************)
Prefix(seq, i) == [j \in 1 .. i |-> seq[j]]

\* The node where the loop stands after it has met i of them.
After(seq, i) == IF i < Len(seq) THEN seq[i + 1] ELSE Nil

\* A prefix with the next element is the next prefix.
LEMMA PrefixGrows ==
    ASSUME NEW S, NEW seq \in Seq(S), NEW i \in Nat, i < Len(seq)
    PROVE  Append(Prefix(seq, i), seq[i + 1]) = Prefix(seq, i + 1)
<1>1. Prefix(seq, i) \in Seq(S) /\ Len(Prefix(seq, i)) = i /\ seq[i + 1] \in S
  BY DEF Prefix
<1>2. QED
  BY <1>1 DEF Prefix

\* If the next nodes from the first one on are those of seq, then the loop
\* meets seq.
LEMMA WalkMeets ==
    ASSUME NEW k, NEW t, NEW s, NEW seq \in Seq(Node), Len(seq) <= Rounds,
           \A i \in 1 .. Len(seq) : NextTo(k, t, s, seq[i]) = After(seq, i)
    PROVE  WalkFrom(k, t, s, After(seq, 0)) = seq
<1> DEFINE on == [w \in Seq(Node) \X Link |->
                     IF w[2] = Nil THEN w ELSE <<Append(w[1], w[2]), NextTo(k, t, s, w[2])>>]
           N == Len(seq)
           Met(i) == IF i <= N THEN i ELSE N
           x0 == <<Prefix(seq, 0), After(seq, 0)>>
           At(i) == <<Prefix(seq, Met(i)), After(seq, Met(i))>>
           X == {At(i) : i \in Nat}
           S == {i \in Nat : Iterate(on, x0, i) = At(i)}
<1>1. /\ N \in Nat /\ Rounds \in Nat /\ Nil \notin Node
      /\ \A i \in 1 .. N : seq[i] \in Node
      /\ \A i \in Nat : Met(i) \in 0 .. N
  BY Counted, Linked
<1>2. \A i \in 0 .. N : Prefix(seq, i) \in Seq(Node) /\ After(seq, i) \in Link
  BY <1>1 DEF Prefix, After, Link
<1>3. ASSUME NEW i \in Nat PROVE on[At(i)] = At(i + 1)
  <2>1. on[At(i)] = IF After(seq, Met(i)) = Nil THEN At(i)
                    ELSE <<Append(Prefix(seq, Met(i)), After(seq, Met(i))),
                           NextTo(k, t, s, After(seq, Met(i)))>>
    BY <1>1, <1>2
  <2> HIDE DEF on
  <2>2. CASE i < N
    <3>1. Met(i) = i /\ Met(i + 1) = i + 1 /\ After(seq, i) = seq[i + 1] /\ seq[i + 1] \in Node
      BY <1>1, <2>2 DEF After
    <3>2. Append(Prefix(seq, i), seq[i + 1]) = Prefix(seq, i + 1)
      BY <2>2, PrefixGrows
    <3>3. NextTo(k, t, s, seq[i + 1]) = After(seq, i + 1)
      BY <1>1, <2>2
    <3>4. QED
      BY <1>1, <2>1, <3>1, <3>2, <3>3
  <2>3. CASE i >= N
    <3>1. Met(i) = N /\ Met(i + 1) = N /\ After(seq, N) = Nil
      BY <1>1, <2>3 DEF After
    <3>2. QED
      BY <2>1, <3>1
  <2>4. QED
    BY <1>1, <2>2, <2>3
<1>4. x0 = At(0) /\ x0 \in X
  BY <1>1
<1> HIDE DEF on, At, x0
<1>5. \A y \in X : on[y] \in X
  <2>1. \A i \in Nat : i + 1 \in Nat /\ on[At(i)] = At(i + 1)
    BY <1>3
  <2>2. QED
    BY <2>1
<1> HIDE DEF X
<1>6. /\ Iterate(on, x0, 0) = x0
      /\ \A i \in Nat : Iterate(on, x0, i + 1) = on[Iterate(on, x0, i)]
  BY <1>4, <1>5, IterateSteps
<1>7. 0 \in S
  BY <1>4, <1>6
<1>8. ASSUME NEW i \in Nat, i \in S PROVE i + 1 \in S
  <2>1. Iterate(on, x0, i) = At(i) /\ Iterate(on, x0, i + 1) = on[Iterate(on, x0, i)]
    BY <1>6, <1>8
  <2>2. Iterate(on, x0, i + 1) = At(i + 1)
    BY <1>3, <2>1
  <2>3. QED
    BY <2>2
<1>9. Nat \subseteq S
  <2> HIDE DEF S
  <2> QED BY <1>7, <1>8, SetInduction
<1>10. Iterate(on, x0, Rounds + 1) = At(Rounds + 1)
  BY <1>1, <1>9
<1>11. At(Rounds + 1)[1] = seq
  <2>1. Met(Rounds + 1) = N
    BY <1>1
  <2>2. Prefix(seq, N) = seq
    BY DEF Prefix
  <2>3. QED
    BY <2>1, <2>2 DEF At
<1>12. x0 = <<<<>>, After(seq, 0)>>
  BY DEF x0, Prefix
<1>13. WalkFrom(k, t, s, After(seq, 0)) = Iterate(on, <<<<>>, After(seq, 0)>>, Rounds + 1)[1]
  BY DEF WalkFrom, on
<1>14. QED
  BY <1>10, <1>11, <1>12, <1>13

-----------------------------------------------------------------------------
(***************************************************************************)
(* The nodes in the order of their numbers, and the loops that meet them.  *)
(***************************************************************************)
Row(In, pos) == [i \in 1 .. Cardinality(In) |-> CHOOSE n \in In : pos[n] = i]

\* The row of the nodes has each of them at its number.
LEMMA RowNumbers ==
    ASSUME NEW In, NEW pos, Numbered(In, pos)
    PROVE  /\ Row(In, pos) \in Seq(Node) /\ Len(Row(In, pos)) = Cardinality(In)
           /\ In \in SUBSET Node /\ Cardinality(In) \in Nat /\ Cardinality(In) <= Rounds
           /\ \A i \in 1 .. Cardinality(In) : /\ Row(In, pos)[i] \in In
                                             /\ pos[Row(In, pos)[i]] = i
           /\ \A n \in In : pos[n] \in 1 .. Cardinality(In) /\ Row(In, pos)[pos[n]] = n
<1>1. In \in SUBSET Node /\ Cardinality(In) \in Nat /\ Cardinality(In) <= Rounds
  BY Counted DEF Numbered
<1>2. \A i \in 1 .. Cardinality(In) : /\ Row(In, pos)[i] \in In
                                     /\ pos[Row(In, pos)[i]] = i
  BY DEF Row, Numbered
<1>3. Row(In, pos) \in [1 .. Cardinality(In) -> Node]
  BY <1>1, <1>2 DEF Row
<1>4. Row(In, pos) \in Seq(Node) /\ Len(Row(In, pos)) = Cardinality(In)
  BY <1>1, <1>3
<1>5. \A n \in In : pos[n] \in 1 .. Cardinality(In) /\ Row(In, pos)[pos[n]] = n
  BY <1>2 DEF Numbered
<1>6. QED
  BY <1>1, <1>2, <1>4, <1>5

\* Where a step of a loop leads.
Stands(k, t, In, pos) ==
    /\ Numbered(In, pos)
    /\ First(k, t) \in Bin(In)
    /\ First(k, t) = Nil => Cardinality(In) = 0
    /\ First(k, t) # Nil => pos[First(k, t)] = 1
    /\ LastOf(k, t) \in Bin(In)
    /\ LastOf(k, t) = Nil => Cardinality(In) = 0
    /\ LastOf(k, t) # Nil => pos[LastOf(k, t)] = Cardinality(In)
    /\ \A n \in In, s \in Side :
          /\ NextTo(k, t, s, n) \in Bin(In)
          /\ NextTo(k, t, s, n) # Nil => pos[NextTo(k, t, s, n)] = pos[n] + Dir(s)
          /\ NextTo(k, t, s, n) = Nil => pos[n] = IF s = "left" THEN 1 ELSE Cardinality(In)

\* If every step of a loop leads to the next number, the loops of a caller meet
\* the row from its front and from its back.
LEMMA WalksMeet ==
    ASSUME NEW k, NEW t, NEW In, NEW pos, Stands(k, t, In, pos)
    PROVE  /\ Forward(k, t) = Row(In, pos)
           /\ Backward(k, t) = Reverse(Row(In, pos))
<1> DEFINE row == Row(In, pos)
           back == Reverse(row)
           N == Cardinality(In)
<1>1. Numbered(In, pos)
  BY DEF Stands
<1>2. /\ row \in Seq(Node) /\ Len(row) = N
      /\ In \in SUBSET Node /\ N \in Nat /\ N <= Rounds
      /\ \A i \in 1 .. N : row[i] \in In /\ pos[row[i]] = i
      /\ \A n \in In : pos[n] \in 1 .. N /\ row[pos[n]] = n
  BY <1>1, RowNumbers
<1>3. /\ back \in Seq(Node) /\ Len(back) = N
      /\ \A i \in 1 .. N : back[i] = row[N + 1 - i]
  BY <1>2, SMTT(20) DEF Reverse
<1>4. Nil \notin In /\ \A m \in Bin(In) : m \in In \/ m = Nil
  BY <1>2, Counted DEF Bin
<1> HIDE DEF row, back, N
<1>5. ASSUME NEW i \in 1 .. N, NEW s \in Side
      PROVE  LET c == NextTo(k, t, s, row[i])
             IN  /\ c # Nil => c \in In /\ pos[c] = i + Dir(s)
                 /\ c = Nil => i = IF s = "left" THEN 1 ELSE N
  BY <1>2, <1>4 DEF Stands, N
<1>6. \A i \in 1 .. N : NextTo(k, t, "right", row[i]) = After(row, i)
  <2> SUFFICES ASSUME NEW i \in 1 .. N PROVE NextTo(k, t, "right", row[i]) = After(row, i)
    OBVIOUS
  <2> DEFINE c == NextTo(k, t, "right", row[i])
  <2>1. /\ c # Nil => c \in In /\ pos[c] = i + 1
        /\ c = Nil => i = N
    BY <1>5 DEF Side, Dir
  <2> HIDE DEF c
  <2>2. c = After(row, i)
    BY <1>2, <2>1 DEF After
  <2>3. QED
    BY <2>2 DEF c
<1>7. \A i \in 1 .. N : NextTo(k, t, "left", back[i]) = After(back, i)
  <2> SUFFICES ASSUME NEW i \in 1 .. N PROVE NextTo(k, t, "left", back[i]) = After(back, i)
    OBVIOUS
  <2> DEFINE j == N + 1 - i
             c == NextTo(k, t, "left", row[j])
  <2>1. j \in 1 .. N /\ back[i] = row[j]
    BY <1>2, <1>3
  <2>2. /\ c # Nil => c \in In /\ pos[c] = j - 1
        /\ c = Nil => j = 1
    BY <1>5, <2>1 DEF Side, Dir
  <2> HIDE DEF c
  <2>3. c = After(back, i)
    <3>1. CASE c = Nil
      BY <1>2, <1>3, <2>2, <3>1 DEF After
    <3>2. CASE c # Nil
      <4>1. c = row[j - 1] /\ j - 1 \in 1 .. N
        BY <1>2, <2>2, <3>2
      <4>2. i < N /\ back[i + 1] = row[j - 1]
        BY <1>2, <1>3, <4>1
      <4>3. QED
        BY <1>3, <4>1, <4>2 DEF After
    <3>3. QED
      BY <3>1, <3>2
  <2>4. QED
    BY <2>1, <2>3 DEF c
<1>8. First(k, t) = After(row, 0)
  BY <1>2, <1>4 DEF Stands, After, N
<1>9. LastOf(k, t) = After(back, 0)
  <2>1. CASE N = 0
    BY <1>2, <1>3, <1>4, <2>1 DEF Stands, After, N
  <2>2. CASE N # 0
    <3>1. LastOf(k, t) \in In /\ pos[LastOf(k, t)] = N
      BY <1>4, <2>2 DEF Stands, N
    <3>2. back[1] = row[N] /\ After(back, 0) = back[1]
      BY <1>2, <1>3, <2>2 DEF After
    <3>3. QED
      BY <1>2, <3>1, <3>2
  <2>3. QED
    BY <2>1, <2>2
<1>10. Forward(k, t) = row
  BY <1>2, <1>6, <1>8, WalkMeets DEF Forward
<1>11. Backward(k, t) = back
  BY <1>2, <1>3, <1>7, <1>9, WalkMeets DEF Backward
<1>12. QED
  BY <1>10, <1>11 DEF row, back

\* The trees.
LEMMA TreeStands ==
    ASSUME NEW k, k # "list", NEW t \in Container, NEW In, NEW pos, Fits(t, In, pos)
    PROVE  Stands(k, t, In, pos)
<1>1. PICK b : Shape(t, In, pos, b)
  BY DEF Fits
<1>2. /\ In \in SUBSET Node /\ Cardinality(In) \in Nat
      /\ Nil \in Bin(In) /\ Nil \notin In
      /\ \A m \in Bin(In) : m \in In \/ m = Nil
      /\ "left" \in Side /\ "right" \in Side
      /\ \A m \in Bin(In) : pos[m] \in Nat /\ b["left"][m] \in Nat /\ b["right"][m] \in Nat
      /\ \A m \in In : pos[m] >= 1 /\ pos[m] <= Cardinality(In)
      /\ pos[Nil] = Cardinality(In) + 1
      /\ b["left"][Nil] = 0 /\ b["right"][Nil] = Cardinality(In) + 2
  BY <1>1, ShapeNumbers
<1>3. Numbered(In, pos)
  BY <1>1 DEF Shape
<1>4. Root(t) \in Bin(In) /\ KidFits(t, In, pos, b, Nil, "left")
  BY <1>1, <1>2, RootFits DEF Shape
<1>5. Root(t) = Nil => pos[Nil] = 1
  BY <1>2, <1>4 DEF KidFits, Root, Dir
<1>6. Root(t) # Nil => Root(t) \in In /\ b["left"][Root(t)] = 0 /\ b["right"][Root(t)] = pos[Nil]
  BY <1>2, <1>4 DEF KidFits, Root, Opp
<1>7. ASSUME NEW s \in Side
      PROVE  LET d == Deepest(t, s, Root(t))
             IN  d \in Bin(In) /\ (Root(t) \in In => d \in In) /\ t.kid[s][d] = Nil
                 /\ pos[d] = b[s][Root(t)] - Dir(s)
  BY <1>1, <1>4, DeepestEnds
<1>8. /\ First(k, t) \in Bin(In)
      /\ First(k, t) = Nil => Cardinality(In) = 0
      /\ First(k, t) # Nil => pos[First(k, t)] = 1
  <2> DEFINE d == Deepest(t, "left", Root(t))
  <2>1. First(k, t) = d
    BY DEF First, TreeFirst
  <2>2. /\ d \in Bin(In) /\ (Root(t) \in In => d \in In)
        /\ pos[d] = b["left"][Root(t)] + 1
    BY <1>2, <1>4, <1>7 DEF Dir
  <2> HIDE DEF d
  <2>3. QED
    BY <1>2, <1>4, <1>5, <1>6, <2>1, <2>2
<1>9. /\ LastOf(k, t) \in Bin(In)
      /\ LastOf(k, t) = Nil => Cardinality(In) = 0
      /\ LastOf(k, t) # Nil => pos[LastOf(k, t)] = Cardinality(In)
  <2> DEFINE d == Deepest(t, "right", Root(t))
  <2>1. LastOf(k, t) = d
    BY DEF LastOf, TreeLast
  <2>2. /\ d \in Bin(In) /\ (Root(t) \in In => d \in In) /\ t.kid["right"][d] = Nil
        /\ pos[d] = b["right"][Root(t)] - 1
    BY <1>2, <1>4, <1>7 DEF Dir
  <2> HIDE DEF d
  <2>3. QED
    BY <1>2, <1>4, <1>5, <1>6, <2>1, <2>2
<1>10. ASSUME NEW n \in In, NEW s \in Side
       PROVE  /\ NextTo(k, t, s, n) \in Bin(In)
              /\ NextTo(k, t, s, n) # Nil => pos[NextTo(k, t, s, n)] = pos[n] + Dir(s)
              /\ NextTo(k, t, s, n) = Nil => pos[n] = IF s = "left" THEN 1 ELSE Cardinality(In)
  BY <1>1, NeighbourEnds DEF NextTo
<1>11. QED
  BY <1>3, <1>8, <1>9, <1>10 DEF Stands

-----------------------------------------------------------------------------
(***************************************************************************)
(* Rows that get and lose a node.                                          *)
(***************************************************************************)
\* d is a with c behind it.
Concat(S, d, a, c) ==
    /\ d \in Seq(S) /\ Len(d) = Len(a) + Len(c)
    /\ \A i \in 1 .. Len(a) + Len(c) : d[i] = IF i <= Len(a) THEN a[i] ELSE c[i - Len(a)]

\* The elements of two sequences, one behind the other.
LEMMA ConcatElements ==
    ASSUME NEW S, NEW a \in Seq(S), NEW c \in Seq(S), NEW d, d = a \o c
    PROVE  Concat(S, d, a, c)
BY ConcatProperties DEF Concat

\* The elements of a sequence with e at q.
LEMMA InsertedElements ==
    ASSUME NEW S, NEW seq \in Seq(S), NEW e \in S, NEW q \in 1 .. Len(seq) + 1
    PROVE  /\ InsertAt(seq, q, e) \in Seq(S) /\ Len(InsertAt(seq, q, e)) = Len(seq) + 1
           /\ \A i \in 1 .. Len(seq) + 1 :
                 InsertAt(seq, q, e)[i] = IF i < q THEN seq[i]
                                          ELSE IF i = q THEN e ELSE seq[i - 1]
<1> DEFINE a == SubSeq(seq, 1, q - 1)
           c == SubSeq(seq, q, Len(seq))
           m == <<e>>
<1>1. a \in Seq(S) /\ Len(a) = q - 1 /\ \A i \in 1 .. q - 1 : a[i] = seq[i]
  OBVIOUS
<1>2. /\ c \in Seq(S) /\ Len(c) = Len(seq) + 1 - q
      /\ \A i \in 1 .. Len(seq) + 1 - q : c[i] = seq[i + q - 1]
  OBVIOUS
<1>3. m \in Seq(S) /\ Len(m) = 1 /\ m[1] = e
  OBVIOUS
<1> HIDE DEF a, c, m
<1> DEFINE d == a \o m
           u == d \o c
<1>4. Concat(S, d, a, m)
  BY <1>1, <1>3, ConcatElements
<1> HIDE DEF d
<1>5. Concat(S, u, d, c)
  <2>1. d \in Seq(S)
    BY <1>4 DEF Concat
  <2>2. QED
    BY <1>2, <2>1, ConcatElements
<1> HIDE DEF u
<1>6. ASSUME NEW i \in 1 .. Len(seq) + 1
      PROVE  u[i] = IF i < q THEN seq[i] ELSE IF i = q THEN e ELSE seq[i - 1]
  BY <1>1, <1>2, <1>3, <1>4, <1>5 DEF Concat
<1>7. InsertAt(seq, q, e) = u
  BY DEF InsertAt, a, c, d, m, u
<1>8. Len(u) = Len(seq) + 1 /\ u \in Seq(S)
  BY <1>1, <1>2, <1>3, <1>4, <1>5 DEF Concat
<1>9. QED
  BY <1>6, <1>7, <1>8

\* The elements of a sequence without the one at q.
LEMMA RemovedElements ==
    ASSUME NEW S, NEW seq \in Seq(S), NEW q \in 1 .. Len(seq)
    PROVE  /\ RemoveAt(seq, q) \in Seq(S) /\ Len(RemoveAt(seq, q)) = Len(seq) - 1
           /\ \A i \in 1 .. Len(seq) - 1 :
                 RemoveAt(seq, q)[i] = IF i < q THEN seq[i] ELSE seq[i + 1]
<1> DEFINE a == SubSeq(seq, 1, q - 1)
           c == SubSeq(seq, q + 1, Len(seq))
<1>1. a \in Seq(S) /\ Len(a) = q - 1 /\ \A i \in 1 .. q - 1 : a[i] = seq[i]
  OBVIOUS
<1>2. /\ c \in Seq(S) /\ Len(c) = Len(seq) - q
      /\ \A i \in 1 .. Len(seq) - q : c[i] = seq[i + q]
  OBVIOUS
<1> HIDE DEF a, c
<1> DEFINE u == a \o c
<1>3. Concat(S, u, a, c)
  BY <1>1, <1>2, ConcatElements
<1>4. RemoveAt(seq, q) = u
  BY DEF RemoveAt, a, c
<1> HIDE DEF u
<1>5. u \in Seq(S) /\ Len(u) = Len(seq) - 1
  BY <1>1, <1>2, <1>3 DEF Concat
<1>6. ASSUME NEW i \in 1 .. Len(seq) - 1
      PROVE  u[i] = IF i < q THEN seq[i] ELSE seq[i + 1]
  <2>1. Len(seq) \in Nat /\ q \in Nat /\ i \in Nat /\ i \in 1 .. (q - 1) + (Len(seq) - q)
    OBVIOUS
  <2>2. u[i] = IF i <= q - 1 THEN a[i] ELSE c[i - (q - 1)]
    BY <1>1, <1>2, <1>3, <2>1 DEF Concat
  <2>3. CASE i < q
    BY <1>1, <2>1, <2>2, <2>3
  <2>4. CASE i >= q
    <3>1. i - (q - 1) \in 1 .. Len(seq) - q /\ (i - (q - 1)) + q = i + 1
      BY <2>1, <2>4
    <3>2. QED
      BY <1>2, <2>1, <2>2, <2>4, <3>1
  <2>5. QED
    BY <2>1, <2>3, <2>4
<1>7. QED
  BY <1>4, <1>5, <1>6

\* A node at the place of its key joins the row as SortedBag puts it.
LEMMA RowOpens ==
    ASSUME NEW In, NEW pos, Numbered(In, pos), NEW n \in Node \ In,
           NEW q, Place(In, pos, KeyOf[n], q)
    PROVE  Row(In \cup {n}, Opened(pos, n, q)) = Bag!With(Row(In, pos), n)
<1> DEFINE row == Row(In, pos)
           open == Opened(pos, n, q)
           In2 == In \cup {n}
           more == Row(In2, open)
           N == Cardinality(In)
<1>1. /\ row \in Seq(Node) /\ Len(row) = N
      /\ In \in SUBSET Node /\ N \in Nat
      /\ \A i \in 1 .. N : row[i] \in In /\ pos[row[i]] = i
      /\ \A m \in In : pos[m] \in 1 .. N /\ row[pos[m]] = m
  BY RowNumbers
<1>2. q \in 1 .. N + 1 /\ \A x \in In : KeyOf[x] <= KeyOf[n] <=> pos[x] < q
  BY DEF Place
<1>3. Numbered(In2, open) /\ Cardinality(In2) = N + 1
  BY <1>2, OpenedNumbers
<1>4. /\ more \in Seq(Node) /\ Len(more) = N + 1
      /\ \A i \in 1 .. N + 1 : more[i] \in In2 /\ open[more[i]] = i
      /\ \A m \in In2 : open[m] \in 1 .. N + 1 /\ more[open[m]] = m
  <2> HIDE DEF In2, open, N
  <2>1. /\ more \in Seq(Node) /\ Len(more) = Cardinality(In2)
        /\ \A i \in 1 .. Cardinality(In2) : more[i] \in In2 /\ open[more[i]] = i
        /\ \A m \in In2 : open[m] \in 1 .. Cardinality(In2) /\ more[open[m]] = m
    BY <1>3, RowNumbers
  <2> HIDE DEF more
  <2>2. QED
    BY <1>3, <2>1
<1>5. open[n] = q /\ \A m \in In : open[m] = IF pos[m] >= q THEN pos[m] + 1 ELSE pos[m]
  BY <1>1 DEF Opened, Link
<1> HIDE DEF row, open, more, N
<1>6. ASSUME NEW i \in 1 .. N + 1
      PROVE  more[i] = IF i < q THEN row[i] ELSE IF i = q THEN n ELSE row[i - 1]
  <2>1. CASE i < q
    <3>1. i \in 1 .. N /\ row[i] \in In2 /\ open[row[i]] = i
      BY <1>1, <1>2, <1>5, <2>1
    <3>2. QED
      BY <1>4, <2>1, <3>1
  <2>2. CASE i = q
    BY <1>4, <1>5, <2>2
  <2>3. CASE i > q
    <3>1. i - 1 \in 1 .. N /\ row[i - 1] \in In2 /\ open[row[i - 1]] = i
      BY <1>1, <1>2, <1>5, <2>3
    <3>2. QED
      BY <1>2, <1>4, <2>3, <3>1
  <2>4. QED
    BY <1>2, <2>1, <2>2, <2>3
<1>7. /\ InsertAt(row, q, n) \in Seq(Node) /\ Len(InsertAt(row, q, n)) = N + 1
      /\ \A i \in 1 .. N + 1 : InsertAt(row, q, n)[i] = IF i < q THEN row[i]
                                                       ELSE IF i = q THEN n ELSE row[i - 1]
  <2>1. row \in Seq(Node) /\ n \in Node /\ q \in 1 .. Len(row) + 1
    BY <1>1, <1>2
  <2>2. /\ InsertAt(row, q, n) \in Seq(Node) /\ Len(InsertAt(row, q, n)) = Len(row) + 1
        /\ \A i \in 1 .. Len(row) + 1 : InsertAt(row, q, n)[i] = IF i < q THEN row[i]
                                                       ELSE IF i = q THEN n ELSE row[i - 1]
    BY <2>1, InsertedElements
  <2>3. QED
    BY <1>1, <2>2
<1>8. more = InsertAt(row, q, n)
  BY <1>4, <1>6, <1>7, SeqEqual
<1>9. {i \in DOMAIN row : KeyOf[row[i]] <= KeyOf[n]} = 1 .. q - 1
  BY <1>1, <1>2
<1>10. Cardinality(1 .. q - 1) + 1 = q
  <2>1. q \in Nat /\ q >= 1 /\ q - 1 \in Int /\ 1 \in Int
    BY <1>1, <1>2
  <2>2. Cardinality(1 .. q - 1) = IF 1 > q - 1 THEN 0 ELSE (q - 1) - 1 + 1
    BY <2>1, FS_Interval
  <2>3. QED
    BY <2>1, <2>2
<1>11. Bag!With(row, n) = InsertAt(row, q, n)
  <2> DEFINE low == {i \in DOMAIN row : KeyOf[row[i]] <= KeyOf[n]}
  <2>1. Bag!With(row, n) = InsertAt(row, Cardinality(low) + 1, n)
    BY DEF Bag!With, Bag!InsertAt, InsertAt, Bag!Cardinality, Cardinality
  <2>2. low = 1 .. q - 1
    BY <1>9
  <2> HIDE DEF low
  <2>3. Cardinality(low) + 1 = q
    BY <1>10, <2>2
  <2>4. QED
    BY <2>1, <2>3
<1>12. QED
  BY <1>8, <1>11 DEF more, row, open

\* A node taken out leaves the row.
LEMMA RowCloses ==
    ASSUME NEW In, NEW pos, Numbered(In, pos), NEW n \in In
    PROVE  Row(In \ {n}, Closed(pos, n)) = RemoveAt(Row(In, pos), pos[n])
<1> DEFINE row == Row(In, pos)
           close == Closed(pos, n)
           In2 == In \ {n}
           less == Row(In2, close)
           N == Cardinality(In)
           q == pos[n]
<1>1. /\ row \in Seq(Node) /\ Len(row) = N
      /\ In \in SUBSET Node /\ N \in Nat
      /\ \A i \in 1 .. N : row[i] \in In /\ pos[row[i]] = i
      /\ \A m \in In : pos[m] \in 1 .. N /\ row[pos[m]] = m
  BY RowNumbers
<1>2. q \in 1 .. N
  BY <1>1
<1>3. Numbered(In2, close) /\ Cardinality(In2) = N - 1
  BY ClosedNumbers
<1>4. /\ less \in Seq(Node) /\ Len(less) = N - 1
      /\ \A m \in In2 : less[close[m]] = m
  <2> HIDE DEF In2, close, N
  <2>1. /\ less \in Seq(Node) /\ Len(less) = Cardinality(In2)
        /\ \A m \in In2 : less[close[m]] = m
    BY <1>3, RowNumbers
  <2> HIDE DEF less
  <2>2. QED
    BY <1>3, <2>1
<1>5. \A m \in In : close[m] = IF pos[m] > q THEN pos[m] - 1 ELSE pos[m]
  BY <1>1 DEF Closed, Link
<1> HIDE DEF row, close, less, N
<1>6. ASSUME NEW i \in 1 .. N - 1
      PROVE  less[i] = IF i < q THEN row[i] ELSE row[i + 1]
  <2>1. CASE i < q
    <3>1. row[i] \in In2 /\ close[row[i]] = i
      BY <1>1, <1>2, <1>5, <2>1
    <3>2. QED
      BY <1>4, <2>1, <3>1
  <2>2. CASE i >= q
    <3>1. row[i + 1] \in In2 /\ close[row[i + 1]] = i
      BY <1>1, <1>2, <1>5, <2>2, SMTT(20)
    <3>2. QED
      BY <1>2, <1>4, <2>2, <3>1
  <2>3. QED
    BY <1>2, <2>1, <2>2
<1>7. /\ RemoveAt(row, q) \in Seq(Node) /\ Len(RemoveAt(row, q)) = N - 1
      /\ \A i \in 1 .. N - 1 : RemoveAt(row, q)[i] = IF i < q THEN row[i] ELSE row[i + 1]
  <2>1. row \in Seq(Node) /\ q \in 1 .. Len(row)
    BY <1>1, <1>2
  <2>2. /\ RemoveAt(row, q) \in Seq(Node) /\ Len(RemoveAt(row, q)) = Len(row) - 1
        /\ \A i \in 1 .. Len(row) - 1 :
              RemoveAt(row, q)[i] = IF i < q THEN row[i] ELSE row[i + 1]
    BY <2>1, RemovedElements
  <2>3. QED
    BY <1>1, <2>2
<1>8. less = RemoveAt(row, q)
  BY <1>1, <1>4, <1>6, <1>7, SeqEqual
<1>9. QED
  BY <1>8 DEF less, row, close

-----------------------------------------------------------------------------
(***************************************************************************)
(* What a search finds.                                                    *)
(***************************************************************************)
Finds(k, t, d, In, pos) ==
    \A key \in Nat :
        LET f == Lookup(k, t, d, key)
            b == LowerBound(k, t, d, key)
        IN  /\ f \in Bin(In) /\ b \in Bin(In)
            /\ f = Nil => \A x \in In : KeyOf[x] # key
            /\ f # Nil => /\ KeyOf[f] = key
                          /\ d \/ k = "list" => \A x \in In : KeyOf[x] = key => pos[f] <= pos[x]
            /\ b = Nil => \A x \in In : KeyOf[x] < key
            /\ b # Nil => /\ KeyOf[b] >= key
                          /\ d \/ k = "list" \/ KeyOf[b] # key =>
                                \A x \in In : KeyOf[x] >= key => pos[b] <= pos[x]

\* The searches of the trees find what they should.
LEMMA TreeFinds ==
    ASSUME NEW k, k # "list", NEW t \in Container, NEW In, NEW pos,
           Fits(t, In, pos), Ascending(In, pos), NEW d \in BOOLEAN
    PROVE  Finds(k, t, d, In, pos)
<1>1. PICK b : Shape(t, In, pos, b)
  BY DEF Fits
<1>2. ASSUME NEW key \in Nat
      PROVE  LET f == TreeLookup(t, d, key)
             IN  /\ f \in Bin(In)
                 /\ f # Nil => /\ KeyOf[f] = key
                               /\ d => \A x \in In : KeyOf[x] = key => pos[f] <= pos[x]
                 /\ f = Nil => \A x \in In : KeyOf[x] # key
  BY <1>1, TreeLookupEnds
<1>3. ASSUME NEW key \in Nat
      PROVE  LET f == TreeLowerBound(t, d, key)
             IN  /\ f \in Bin(In)
                 /\ f = Nil => \A x \in In : KeyOf[x] < key
                 /\ f # Nil => /\ KeyOf[f] >= key
                               /\ (d \/ KeyOf[f] # key) =>
                                     \A x \in In : KeyOf[x] >= key => pos[f] <= pos[x]
  BY <1>1, BoundEnds
<1>4. \A key : Lookup(k, t, d, key) = TreeLookup(t, d, key)
               /\ LowerBound(k, t, d, key) = TreeLowerBound(t, d, key)
  BY DEF Lookup, LowerBound
<1>5. QED
  BY <1>2, <1>3, <1>4 DEF Finds

\* The node at the least of some places of the row.
Least(row, S) == row[CHOOSE i \in S : \A j \in S : i <= j]

\* The node at the least place is the one that SearchExact means.
LEMMA LeastPlace ==
    ASSUME NEW In, NEW pos, Numbered(In, pos), NEW S \in SUBSET (1 .. Cardinality(In)),
           NEW f \in In, pos[f] \in S, \A i \in S : pos[f] <= i
    PROVE  Least(Row(In, pos), S) = f
<1>1. Cardinality(In) \in Nat /\ Row(In, pos)[pos[f]] = f
  BY RowNumbers
<1> DEFINE c == CHOOSE i \in S : \A j \in S : i <= j
<1>2. c \in S /\ \A j \in S : c <= j
  OBVIOUS
<1> HIDE DEF c
<1>3. c = pos[f]
  BY <1>1, <1>2
<1>4. QED
  BY <1>1, <1>3 DEF c, Least

\* SearchExact for one key.
ExactFor(key) ==
    LET seq == Forward(kind, rtc)
        at == {i \in DOMAIN seq : KeyOf[seq[i]] = key}
        from == {i \in DOMAIN seq : KeyOf[seq[i]] >= key}
        found == Lookup(kind, rtc, dupes, key)
        bound == LowerBound(kind, rtc, dupes, key)
        FirstOf(S) == seq[CHOOSE i \in S : \A j \in S : i <= j]
    IN  IF at = {}
        THEN found = Nil /\ bound = (IF from = {} THEN Nil ELSE FirstOf(from))
        ELSE /\ found \in used /\ KeyOf[found] = key
             /\ bound \in used /\ KeyOf[bound] = key
             /\ dupes \/ kind = "list" => found = FirstOf(at) /\ bound = FirstOf(at)

\* What the searches find on the numbers is what SearchExact says of the walk.
LEMMA SearchesFit ==
    ASSUME NEW pos, Numbered(used, pos), Ascending(used, pos), Forward(kind, rtc) = Row(used, pos),
           Finds(kind, rtc, dupes, used, pos)
    PROVE  SearchExact
<1>0. SUFFICES ASSUME NEW key \in {KeyOf[n] : n \in Node} PROVE ExactFor(key)
  BY DEF SearchExact, ExactFor
<1> DEFINE row == Row(used, pos)
           N == Cardinality(used)
           at == {i \in 1 .. N : KeyOf[row[i]] = key}
           from == {i \in 1 .. N : KeyOf[row[i]] >= key}
           found == Lookup(kind, rtc, dupes, key)
           bound == LowerBound(kind, rtc, dupes, key)
           all == dupes \/ kind = "list"
<1>1. /\ row \in Seq(Node) /\ Len(row) = N /\ DOMAIN row = 1 .. N
      /\ used \in SUBSET Node /\ N \in Nat
      /\ \A i \in 1 .. N : row[i] \in used /\ pos[row[i]] = i
      /\ \A x \in used : pos[x] \in 1 .. N /\ row[pos[x]] = x
      /\ key \in Nat /\ Nil \notin used
      /\ \A x \in Bin(used) : x \in used \/ x = Nil
      /\ \A x \in used : KeyOf[x] \in Nat
  <2>1. /\ row \in Seq(Node) /\ Len(row) = N
        /\ used \in SUBSET Node /\ N \in Nat
        /\ \A i \in 1 .. N : row[i] \in used /\ pos[row[i]] = i
        /\ \A x \in used : pos[x] \in 1 .. N /\ row[pos[x]] = x
    BY RowNumbers
  <2> HIDE DEF row, N
  <2>2. DOMAIN row = 1 .. N
    BY <2>1
  <2>3. Nil \notin used /\ \A x \in Bin(used) : x \in used \/ x = Nil
    BY <2>1, Linked DEF Bin
  <2>4. key \in Nat /\ \A x \in used : KeyOf[x] \in Nat
    BY <2>1, NodeAssumption
  <2>5. QED
    BY <2>1, <2>2, <2>3, <2>4
<1>2. /\ found \in Bin(used) /\ bound \in Bin(used)
      /\ found = Nil => \A x \in used : KeyOf[x] # key
      /\ found # Nil => KeyOf[found] = key
      /\ found # Nil /\ all => \A x \in used : KeyOf[x] = key => pos[found] <= pos[x]
      /\ bound = Nil => \A x \in used : KeyOf[x] < key
      /\ bound # Nil => KeyOf[bound] >= key
      /\ bound # Nil /\ (all \/ KeyOf[bound] # key) =>
            \A x \in used : KeyOf[x] >= key => pos[bound] <= pos[x]
  BY <1>1 DEF Finds
<1>3. Forward(kind, rtc) = row
  OBVIOUS
<1> HIDE DEF row, found, bound, all, N
<1>4. at \in SUBSET (1 .. N) /\ from \in SUBSET (1 .. N)
  OBVIOUS
<1>5. ASSUME NEW S \in SUBSET (1 .. N), NEW f \in used, pos[f] \in S,
             \A i \in S : pos[f] <= i
      PROVE  Least(row, S) = f
  BY <1>5, LeastPlace DEF row, N
<1>6. CASE at = {}
  <2>1. \A x \in used : KeyOf[x] # key
    BY <1>1, <1>6
  <2>2. found = Nil
    BY <1>1, <1>2, <2>1
  <2>3. from = {} => bound = Nil
    BY <1>1, <1>2
  <2>4. from # {} => bound \in used /\ pos[bound] \in from /\ \A i \in from : pos[bound] <= i
    <3> SUFFICES ASSUME from # {}
                 PROVE  bound \in used /\ pos[bound] \in from /\ \A i \in from : pos[bound] <= i
      OBVIOUS
    <3>1. bound \in used
      BY <1>1, <1>2
    <3>2. KeyOf[bound] # key /\ KeyOf[bound] >= key
      BY <1>1, <1>2, <2>1, <3>1
    <3>3. \A x \in used : KeyOf[x] >= key => pos[bound] <= pos[x]
      BY <1>1, <1>2, <3>1, <3>2
    <3>4. QED
      BY <1>1, <3>1, <3>2, <3>3
  <2>5. from # {} => bound = Least(row, from)
    BY <1>4, <1>5, <2>4
  <2>6. QED
    BY <1>1, <1>3, <1>6, <2>2, <2>3, <2>5 DEF found, bound, Least, ExactFor
<1>7. CASE at # {}
  <2>1. PICK x \in used : KeyOf[x] = key
    BY <1>1, <1>7
  <2>2. found \in used /\ KeyOf[found] = key
    BY <1>1, <1>2, <2>1
  <2>3. bound \in used
    BY <1>1, <1>2, <2>1
  <2>4. KeyOf[bound] = key
    <3>1. SUFFICES ASSUME KeyOf[bound] # key PROVE FALSE
      OBVIOUS
    <3>2. KeyOf[bound] >= key /\ \A y \in used : KeyOf[y] >= key => pos[bound] <= pos[y]
      BY <1>1, <1>2, <2>3, <3>1
    <3>3. KeyOf[x] < KeyOf[bound] /\ KeyOf[x] >= key
      BY <1>1, <2>1, <2>3, <3>1, <3>2
    <3>4. QED
      BY <1>1, <2>1, <2>3, <3>2, <3>3 DEF Ascending
  <2>5. ASSUME all PROVE found = Least(row, at) /\ bound = Least(row, at)
    <3>1. pos[found] \in at /\ \A i \in at : pos[found] <= i
      BY <1>1, <1>2, <2>2, <2>5
    <3>2. pos[bound] \in at /\ \A i \in at : pos[bound] <= i
      BY <1>1, <1>2, <2>3, <2>4, <2>5
    <3>3. QED
      BY <1>4, <1>5, <2>2, <2>3, <3>1, <3>2
  <2>6. QED
    BY <1>1, <1>3, <1>7, <2>2, <2>3, <2>4, <2>5 DEF found, bound, all, Least, ExactFor
<1>8. QED
  BY <1>6, <1>7

-----------------------------------------------------------------------------
(***************************************************************************)
(* The list.                                                               *)
(***************************************************************************)
LEMMA ListStands ==
    ASSUME NEW t \in Container, NEW In, NEW pos, Chain(t, In, pos)
    PROVE  Stands("list", t, In, pos)
<1>1. /\ In \in SUBSET Node /\ Cardinality(In) \in Nat
      /\ Nil \in Bin(In) /\ Nil \notin In /\ In \subseteq Bin(In)
      /\ \A m \in Bin(In) : m \in In \/ m = Nil
      /\ \A m \in Bin(In) : pos[m] \in Nat /\ pos[m] >= 1
      /\ pos[Nil] = Cardinality(In) + 1
      /\ \A m \in Bin(In) : /\ t.kid["left"][m] \in Bin(In)
                            /\ t.kid["right"][t.kid["left"][m]] = m
  BY ChainNumbers
<1>2. \A m \in Bin(In) : /\ t.kid["right"][m] \in Bin(In)
                         /\ pos[t.kid["right"][m]] = IF m = Nil THEN 1 ELSE pos[m] + 1
  BY DEF Chain
<1>3. \A m \in Bin(In) : pos[m] = IF t.kid["left"][m] = Nil THEN 1
                                  ELSE pos[t.kid["left"][m]] + 1
  BY <1>1, <1>2
<1>4. First("list", t) = t.kid["right"][Nil] /\ LastOf("list", t) = t.kid["left"][Nil]
      /\ \A s, n : NextTo("list", t, s, n) = t.kid[s][n]
  BY DEF First, LastOf, NextTo
<1>5. /\ First("list", t) \in Bin(In)
      /\ First("list", t) = Nil => Cardinality(In) = 0
      /\ First("list", t) # Nil => pos[First("list", t)] = 1
  BY <1>1, <1>2, <1>4
<1>6. /\ LastOf("list", t) \in Bin(In)
      /\ LastOf("list", t) = Nil => Cardinality(In) = 0
      /\ LastOf("list", t) # Nil => pos[LastOf("list", t)] = Cardinality(In)
  BY <1>1, <1>3, <1>4
<1>7. ASSUME NEW n \in In, NEW s \in Side
      PROVE  /\ NextTo("list", t, s, n) \in Bin(In)
             /\ NextTo("list", t, s, n) # Nil => pos[NextTo("list", t, s, n)] = pos[n] + Dir(s)
             /\ NextTo("list", t, s, n) = Nil => pos[n] = IF s = "left" THEN 1 ELSE Cardinality(In)
  <2>1. CASE s = "right"
    BY <1>1, <1>2, <1>4, <2>1 DEF Dir
  <2>2. CASE s = "left"
    <3> DEFINE m == t.kid["left"][n]
    <3>1. m \in Bin(In) /\ pos[n] = IF m = Nil THEN 1 ELSE pos[m] + 1
      BY <1>1, <1>3
    <3>2. NextTo("list", t, s, n) = m
      BY <1>4, <2>2
    <3> HIDE DEF m
    <3>3. QED
      BY <1>1, <2>2, <3>1, <3>2 DEF Dir
  <2>3. QED
    BY <2>1, <2>2 DEF Side
<1>8. Numbered(In, pos)
  BY DEF Chain
<1>9. QED
  BY <1>5, <1>6, <1>7, <1>8 DEF Stands

\* The searches of the list.
LEMMA ListFinds ==
    ASSUME NEW t \in Container, NEW In, NEW pos, Chain(t, In, pos), NEW d
    PROVE  Finds("list", t, d, In, pos)
<1> SUFFICES ASSUME NEW key \in Nat
             PROVE  LET f == Lookup("list", t, d, key)
                        b == LowerBound("list", t, d, key)
                    IN  /\ f \in Bin(In) /\ b \in Bin(In)
                        /\ f = Nil => \A x \in In : KeyOf[x] # key
                        /\ f # Nil => /\ KeyOf[f] = key
                                      /\ \A x \in In : KeyOf[x] = key => pos[f] <= pos[x]
                        /\ b = Nil => \A x \in In : KeyOf[x] < key
                        /\ b # Nil => /\ KeyOf[b] >= key
                                      /\ \A x \in In : KeyOf[x] >= key => pos[b] <= pos[x]
  BY DEF Finds
<1> DEFINE f == ListLookup(t, key)
           b == ListFrom(t, key)
<1>1. Lookup("list", t, d, key) = f /\ LowerBound("list", t, d, key) = b
  BY DEF Lookup, LowerBound, ListLowerBound
<1>2. /\ In \in SUBSET Node /\ Cardinality(In) \in Nat
      /\ \A x \in In : pos[x] \in Nat /\ pos[x] <= Cardinality(In) /\ KeyOf[x] \in Nat
      /\ \A x \in Bin(In) : pos[x] \in Nat
      /\ pos[Nil] = Cardinality(In) + 1
  BY ChainNumbers, NodeAssumption DEF Bin
<1>3. /\ f \in Bin(In)
      /\ f # Nil => KeyOf[f] = key
      /\ \A x \in In : pos[x] < pos[f] => KeyOf[x] # key
  BY ListLookupEnds
<1>4. /\ b \in Bin(In)
      /\ b # Nil => KeyOf[b] >= key
      /\ \A x \in In : pos[x] < pos[b] => KeyOf[x] < key
  BY ListFromEnds
<1> HIDE DEF f, b
<1>5. /\ f = Nil => \A x \in In : KeyOf[x] # key
      /\ f # Nil => \A x \in In : KeyOf[x] = key => pos[f] <= pos[x]
  BY <1>2, <1>3
<1>6. /\ b = Nil => \A x \in In : KeyOf[x] < key
      /\ b # Nil => \A x \in In : KeyOf[x] >= key => pos[b] <= pos[x]
  BY <1>2, <1>4
<1>7. QED
  BY <1>1, <1>3, <1>4, <1>5, <1>6

-----------------------------------------------------------------------------
(***************************************************************************)
(* What Clean leaves.                                                      *)
(***************************************************************************)
Cleaned(u, k, In, t) ==
    /\ u \in Container
    /\ \A s \in Side, m \in Link : u.kid[s][m] = IF m \in Bin(In) THEN t.kid[s][m] ELSE Nil
    /\ k # "list" => \A m \in In : u.parent[m] = t.parent[m]
    /\ k = "redblack" => \A m \in Bin(In) : u.tag[m] = t.tag[m]
    /\ k = "avl" => \A m \in In : u.tag[m] = t.tag[m]
    /\ u.count = t.count

\* Clean leaves what the implementation reads.
LEMMA CleanFields ==
    ASSUME NEW k, NEW In \in SUBSET Node, NEW t \in Container
    PROVE  Cleaned(Clean(k, In, t), k, In, t)
<1> DEFINE On(f) == [n \in DOMAIN NoLinks |-> IF n \in In THEN f[n] ELSE Nil]
           Joint(f) == [On(f) EXCEPT ![Nil] = f[Nil]]
           K == [s \in Side |-> Joint(t.kid[s])]
           P == IF k = "list" THEN NoLinks ELSE On(t.parent)
           T == CASE k = "redblack" -> Joint(t.tag)
                  [] k = "avl" -> On(t.tag)
                  [] OTHER -> NoLinks
<1>1. Clean(k, In, t) = [t EXCEPT !.kid = K, !.parent = P, !.tag = T]
  BY DEF Clean
<1>2. DOMAIN NoLinks = Link /\ Nil \in Link /\ In \subseteq Link /\ Nil \notin In
      /\ NoLinks \in [Link -> {0}]
  BY Linked DEF NoLinks, Nil
<1>3. \A f : /\ On(f) = [n \in Link |-> IF n \in In THEN f[n] ELSE Nil]
             /\ Joint(f) = [n \in Link |-> IF n \in Bin(In) THEN f[n] ELSE Nil]
  BY <1>2 DEF Bin
<1>4. /\ \A s \in Side : t.kid[s] \in [Link -> Link]
      /\ t.kid \in [Side -> [Link -> Link]]
      /\ t.parent \in [Link -> Link] /\ t.tag \in [Link -> 0 .. 2] /\ t.count \in Nat
  BY DEF Container
<1> HIDE DEF On, Joint
<1>5. K \in [Side -> [Link -> Link]]
      /\ \A s \in Side, m \in Link : K[s][m] = IF m \in Bin(In) THEN t.kid[s][m] ELSE Nil
  BY <1>2, <1>3, <1>4
<1>6. P \in [Link -> Link] /\ (k # "list" => \A m \in In : P[m] = t.parent[m])
  BY <1>2, <1>3, <1>4 DEF Nil
<1>7. /\ T \in [Link -> 0 .. 2]
      /\ k = "redblack" => \A m \in Bin(In) : T[m] = t.tag[m]
      /\ k = "avl" => \A m \in In : T[m] = t.tag[m]
  <2>1. CASE k = "redblack"
    BY <1>2, <1>3, <1>4, <2>1 DEF Nil, Bin
  <2>2. CASE k = "avl"
    BY <1>2, <1>3, <1>4, <2>2 DEF Nil
  <2>3. CASE k # "redblack" /\ k # "avl"
    BY <1>2, <2>3 DEF Nil
  <2>4. QED
    BY <2>1, <2>2, <2>3
<1> HIDE DEF K, P, T
<1> DEFINE u == [t EXCEPT !.kid = K, !.parent = P, !.tag = T]
<1>9. u \in Container /\ u.kid = K /\ u.parent = P /\ u.tag = T /\ u.count = t.count
  BY <1>5, <1>6, <1>7 DEF Container
<1> HIDE DEF u
<1>10. Cleaned(u, k, In, t)
  BY <1>5, <1>6, <1>7, <1>9 DEF Cleaned
<1>11. QED
  BY <1>1, <1>10 DEF u

\* Clean keeps a tree.
LEMMA CleanFits ==
    ASSUME NEW k, k # "list", NEW t \in Container, NEW In, NEW pos, Fits(t, In, pos)
    PROVE  Fits(Clean(k, In, t), In, pos)
<1> DEFINE u == Clean(k, In, t)
<1>1. PICK b : Shape(t, In, pos, b)
  BY DEF Fits
<1>2. In \in SUBSET Node /\ Bin(In) \subseteq Link /\ In \subseteq Bin(In)
  BY <1>1, ShapeNumbers
<1>3. Cleaned(u, k, In, t)
  BY <1>2, CleanFields
<1> HIDE DEF u
<1>4. ASSUME NEW m \in Bin(In), NEW s \in Side PROVE KidFits(u, In, pos, b, m, s)
  <2>1. KidFits(t, In, pos, b, m, s)
    BY <1>1 DEF Shape
  <2>2. u.kid[s][m] = t.kid[s][m] /\ \A c \in In : u.parent[c] = t.parent[c]
    BY <1>2, <1>3 DEF Cleaned
  <2>3. QED
    BY <2>1, <2>2 DEF KidFits
<1>5. ASSUME NEW m \in In
      PROVE  u.parent[m] \in Bin(In) /\ \E s \in Side : u.kid[s][u.parent[m]] = m
  BY <1>1, <1>2, <1>3 DEF Cleaned, Shape
<1>6. Shape(u, In, pos, b)
  BY <1>1, <1>4, <1>5 DEF Shape
<1>7. QED
  BY <1>6 DEF Fits, u

\* Clean keeps a list.
LEMMA CleanChain ==
    ASSUME NEW t \in Container, NEW In, NEW pos, Chain(t, In, pos)
    PROVE  Chain(Clean("list", In, t), In, pos)
<1> DEFINE u == Clean("list", In, t)
<1>1. In \in SUBSET Node /\ Bin(In) \subseteq Link /\ "left" \in Side /\ "right" \in Side
  BY ChainNumbers
<1>2. Cleaned(u, "list", In, t)
  BY <1>1, CleanFields
<1> HIDE DEF u
<1>3. \A m \in Bin(In) : /\ u.kid["right"][m] = t.kid["right"][m]
                         /\ u.kid["left"][m] = t.kid["left"][m]
  BY <1>1, <1>2 DEF Cleaned
<1>4. QED
  BY <1>3 DEF Chain, u

-----------------------------------------------------------------------------
(***************************************************************************)
(* The balance of the red-black tree.                                      *)
(***************************************************************************)
\* t is a red-black tree of the nodes In, and the other nodes have no kids.
Coloured(t, In) ==
    /\ \E h : RedBlack(t, t.tag, In, h)
    /\ \A m \in Link, s \in Side : m \notin Bin(In) => t.kid[s][m] = Nil

\* Clean keeps the colours.
LEMMA CleanColours ==
    ASSUME NEW t \in Container, NEW In, NEW pos, Fits(t, In, pos),
           NEW h, RedBlack(t, t.tag, In, h)
    PROVE  Coloured(Clean("redblack", In, t), In)
<1> DEFINE u == Clean("redblack", In, t)
<1>1. PICK b : Shape(t, In, pos, b)
  BY DEF Fits
<1>2. In \in SUBSET Node /\ Bin(In) \subseteq Link /\ In \subseteq Bin(In) /\ Nil \in Bin(In)
  BY <1>1, ShapeNumbers
<1>3. Cleaned(u, "redblack", In, t)
  BY <1>2, CleanFields
<1> HIDE DEF u
<1>4. /\ \A s \in Side, m \in Link : u.kid[s][m] = IF m \in Bin(In) THEN t.kid[s][m] ELSE Nil
      /\ \A m \in Bin(In) : u.tag[m] = t.tag[m]
  BY <1>3 DEF Cleaned
<1>5. \A s \in Side, m \in Bin(In) : u.kid[s][m] = t.kid[s][m] /\ t.kid[s][m] \in Bin(In)
  BY <1>1, <1>2, <1>4, ShapeKin DEF Kin
<1>6. Root(u) = Root(t) /\ Root(t) \in Bin(In)
  BY <1>2, <1>5 DEF Root, Side
<1>7. Even(u, u.tag, In, h, Nil, "left")
  BY <1>2, <1>4, <1>5 DEF RedBlack, Even
<1>8. Pale(u, u.tag, In, Nil)
  BY <1>2, <1>4, <1>5 DEF RedBlack, Pale
<1>9. RedBlack(u, u.tag, In, h)
  BY <1>4, <1>6, <1>7, <1>8 DEF RedBlack
<1>10. QED
  BY <1>4, <1>9 DEF Coloured, u

\* BlackHeight counts the black nodes on the way down.
LEMMA BlackCounts ==
    ASSUME NEW t \in Container, NEW In, NEW pos, Fits(t, In, pos),
           NEW h, RedBlack(t, t.tag, In, h),
           \A m \in Link, s \in Side : m \notin Bin(In) => t.kid[s][m] = Nil
    PROVE  BlackHeight(t)[Root(t)] # -1
<1> DEFINE Step(f) == [n \in Link |->
                         IF n = Nil THEN 0
                         ELSE IF f[t.kid["left"][n]] = f[t.kid["right"][n]] /\ f[t.kid["left"][n]] # -1
                              THEN f[t.kid["left"][n]] + t.tag[n] ELSE -1]
           f == CHOOSE g : g = Step(g)
           g == [n \in Link |-> IF n = Nil THEN 0 ELSE IF n \in In THEN h[n] ELSE t.tag[n]]
<1>1. BlackHeight(t) = f
  BY DEF BlackHeight
<1>2. PICK b : Shape(t, In, pos, b)
  BY DEF Fits
<1>3. /\ In \subseteq Node /\ In \subseteq Link /\ Nil \in Link /\ Nil \notin In
      /\ Bin(In) = In \cup {Nil} /\ Root(t) \in Bin(In)
      /\ \A n \in In, s \in Side : t.kid[s][n] \in Bin(In)
      /\ "left" \in Side /\ "right" \in Side
  <2>1. Kin(t, In)
    BY <1>2, ShapeKin
  <2>2. QED
    BY <2>1, Linked DEF Kin, Bin, Root, Side, Link
<1>4. /\ h \in [Link -> Nat] /\ h[Nil] = 0
      /\ \A n \in In, s \in Side : h[n] = h[t.kid[s][n]] + t.tag[n]
      /\ \A n \in Link : t.tag[n] \in 0 .. 2
  <2>1. /\ h \in [Link -> Nat] /\ h[Nil] = 0
        /\ \A n \in In, s \in Side : h[n] = h[t.kid[s][n]] + t.tag[n] + Lack(n, s, Nil, "left")
    BY Zenon DEF RedBlack, Even
  <2>2. \A n \in Link : t.tag[n] \in 0 .. 2
    BY DEF Container
  <2>3. ASSUME NEW n \in In, NEW s \in Side PROVE h[n] = h[t.kid[s][n]] + t.tag[n]
    <3>1. h[n] = h[t.kid[s][n]] + t.tag[n] + Lack(n, s, Nil, "left") /\ Lack(n, s, Nil, "left") = 0
      BY <1>3, <2>1, NoLack
    <3>2. h[t.kid[s][n]] \in Nat /\ t.tag[n] \in Nat
      BY <1>3, <2>1, <2>2
    <3>3. QED
      BY <3>1, <3>2
  <2>4. QED
    BY <2>1, <2>2, <2>3
<1>5. /\ \A n \in Bin(In) : g[n] = h[n] /\ g[n] \in Nat
      /\ \A n \in Link : n \notin Bin(In) => g[n] = t.tag[n]
      /\ g[Nil] = 0
  BY <1>3, <1>4
<1> DEFINE Val(n) == IF n = Nil THEN 0
                     ELSE IF g[t.kid["left"][n]] = g[t.kid["right"][n]] /\ g[t.kid["left"][n]] # -1
                          THEN g[t.kid["left"][n]] + t.tag[n] ELSE -1
<1>6. ASSUME NEW n \in Link PROVE g[n] = Val(n)
  <2> HIDE DEF g
  <2>1. CASE n = Nil
    BY <1>5, <2>1
  <2>2. CASE n \in In
    <3>1. /\ g[n] = h[n] /\ g[t.kid["left"][n]] = h[t.kid["left"][n]]
          /\ g[t.kid["right"][n]] = h[t.kid["right"][n]]
          /\ h[t.kid["left"][n]] \in Nat /\ h[t.kid["right"][n]] \in Nat
      BY <1>3, <1>4, <1>5, <2>2
    <3>2. h[n] = h[t.kid["left"][n]] + t.tag[n] /\ h[n] = h[t.kid["right"][n]] + t.tag[n]
      BY <1>3, <1>4, <2>2
    <3>3. t.tag[n] \in Nat /\ n # Nil
      BY <1>3, <1>4, <2>2
    <3>4. QED
      BY <3>1, <3>2, <3>3
  <2>3. CASE n \notin Bin(In)
    <3>1. t.kid["left"][n] = Nil /\ t.kid["right"][n] = Nil /\ n # Nil
      BY <1>3, <2>3
    <3>2. g[n] = t.tag[n] /\ g[Nil] = 0 /\ t.tag[n] \in Nat
      BY <1>3, <1>4, <1>5, <2>3
    <3>3. QED
      BY <3>1, <3>2
  <2>4. QED
    BY <1>3, <2>1, <2>2, <2>3
<1>7. g = Step(g)
  <2>1. g = [n \in Link |-> g[n]]
    OBVIOUS
  <2> HIDE DEF g
  <2>2. \A n \in Link : g[n] = Step(g)[n]
    BY <1>6
  <2>3. QED
    BY <2>1, <2>2
<1> HIDE DEF g
<1>8. f = Step(f)
  BY <1>7
<1> HIDE DEF f
<1>9. /\ f[Nil] = 0
      /\ \A n \in In : f[n] = IF f[t.kid["left"][n]] = f[t.kid["right"][n]] /\ f[t.kid["left"][n]] # -1
                               THEN f[t.kid["left"][n]] + t.tag[n] ELSE -1
  BY <1>3, <1>8
<1> HIDE DEF Step
<1> DEFINE S == {k \in Nat : \A n \in In : Wide(b, n) <= k => f[n] = h[n]}
<1>10. \A n \in In : Wide(b, n) \in Nat /\ Wide(b, n) >= 2
  BY <1>2, WideBelow
<1>11. 0 \in S
  BY <1>10
<1>12. ASSUME NEW k \in Nat, k \in S PROVE k + 1 \in S
  <2>1. ASSUME NEW n \in In, Wide(b, n) <= k + 1 PROVE f[n] = h[n]
    <3>1. ASSUME NEW s \in Side PROVE f[t.kid[s][n]] = h[t.kid[s][n]]
      <4>1. CASE t.kid[s][n] = Nil
        BY <1>4, <1>9, <4>1
      <4>2. CASE t.kid[s][n] # Nil
        <5>1. PICK c \in In : c = t.kid[s][n]
          BY <1>3, <4>2
        <5>2. t.parent[c] = n
          BY <1>2, <1>3, <4>2, <5>1 DEF Shape, KidFits
        <5>3. Wide(b, c) < Wide(b, n)
          BY <1>2, <5>2, WideBelow
        <5>4. Wide(b, c) <= k
          BY <1>10, <2>1, <5>3
        <5>5. QED
          BY <1>12, <5>1, <5>4
      <4>3. QED
        BY <4>1, <4>2
    <3>2. /\ f[t.kid["left"][n]] = h[t.kid["left"][n]] /\ f[t.kid["right"][n]] = h[t.kid["right"][n]]
          /\ h[t.kid["left"][n]] \in Nat /\ h[t.kid["right"][n]] \in Nat
          /\ h[n] = h[t.kid["left"][n]] + t.tag[n] /\ h[n] = h[t.kid["right"][n]] + t.tag[n]
          /\ t.tag[n] \in Nat
      BY <1>3, <1>4, <3>1
    <3>3. QED
      BY <1>9, <3>2
  <2>2. QED
    BY <2>1
<1>13. Nat \subseteq S
  <2> HIDE DEF S
  <2> QED BY <1>11, <1>12, SetInduction
<1>14. \A n \in Bin(In) : f[n] = h[n] /\ h[n] \in Nat
  BY <1>3, <1>4, <1>9, <1>10, <1>13
<1>15. QED
  BY <1>1, <1>3, <1>14

-----------------------------------------------------------------------------
(***************************************************************************)
(* A container that holds In in the order pos.                             *)
(***************************************************************************)
Placed(k, t, In, pos) == IF k = "list" THEN Chain(t, In, pos) ELSE Fits(t, In, pos)

\* t is a container of kind k that holds In in the order of pos.
Held(k, t, In, pos) ==
    /\ t \in Container /\ t.count = Cardinality(In)
    /\ Ascending(In, pos)
    /\ Placed(k, t, In, pos)

\* What a container holds is numbered, and the loops step along the numbers.
LEMMA HeldNumbers ==
    ASSUME NEW k, NEW t, NEW In, NEW pos, Held(k, t, In, pos)
    PROVE  /\ Numbered(In, pos) /\ In \in SUBSET Node /\ Cardinality(In) \in Nat
           /\ Stands(k, t, In, pos)
<1>1. Numbered(In, pos)
  BY DEF Held, Placed, Fits, Shape, Chain
<1>2. Stands(k, t, In, pos)
  BY TreeStands, ListStands DEF Held, Placed
<1>3. QED
  BY <1>1, <1>2, Counted DEF Numbered

\* The colours of a red-black tree; the other kinds have none.
Painted(k, t, In) == k = "redblack" => Coloured(t, In)

\* Clean keeps what a container holds.
LEMMA CleanHolds ==
    ASSUME NEW k, NEW t \in Container, NEW In, NEW pos, Numbered(In, pos), Ascending(In, pos),
           t.count = Cardinality(In), Placed(k, t, In, pos)
    PROVE  Held(k, Clean(k, In, t), In, pos)
<1>1. Cleaned(Clean(k, In, t), k, In, t)
  BY CleanFields DEF Numbered
<1>2. Placed(k, Clean(k, In, t), In, pos)
  BY CleanFits, CleanChain DEF Placed
<1>3. QED
  BY <1>1, <1>2 DEF Cleaned, Held

\* usrtc_insert puts a node behind those whose keys are not greater and keeps the
\* order of the others.
LEMMA InsertHolds ==
    ASSUME kind \in {"list", "bst", "splay", "redblack"}, NEW pos, Held(kind, rtc, used, pos),
           Painted(kind, rtc, used), NEW n \in Node \ used
    PROVE  \E q : /\ Place(used, pos, KeyOf[n], q)
                  /\ Held(kind, Clean(kind, used \cup {n}, Inserted(n)), used \cup {n},
                          Opened(pos, n, q))
                  /\ Painted(kind, Clean(kind, used \cup {n}, Inserted(n)), used \cup {n})
<1> DEFINE In2 == used \cup {n}
<1>1. Numbered(used, pos) /\ Ascending(used, pos) /\ rtc \in Container
      /\ rtc.count = Cardinality(used)
  BY HeldNumbers DEF Held
<1>2. \E q : /\ Place(used, pos, KeyOf[n], q)
             /\ Placed(kind, Inserted(n), In2, Opened(pos, n, q))
             /\ Inserted(n) \in Container
             /\ Inserted(n).count = rtc.count + 1
             /\ kind = "redblack" => \E h : RedBlack(Inserted(n), Inserted(n).tag, In2, h)
  <2>1. CASE kind = "list"
    <3>1. Chain(rtc, used, pos)
      BY <2>1 DEF Held, Placed
    <3>2. Inserted(n) = ListInsert(rtc, n)
      BY <2>1 DEF Inserted
    <3>3. QED
      BY <1>1, <2>1, <3>1, <3>2, ListInsertKeeps DEF Placed
  <2>2. CASE kind \in {"bst", "splay"}
    <3>1. Fits(rtc, used, pos)
      BY <2>2 DEF Held, Placed
    <3> DEFINE u == BstInsert(rtc, n)
    <3>2. PICK q : /\ Place(used, pos, KeyOf[n], q)
                   /\ Fits(u, In2, Opened(pos, n, q))
                   /\ u \in Container
                   /\ u.count = rtc.count + 1
      BY <1>1, <3>1, BstInsertKeeps
    <3> HIDE DEF u
    <3>3. CASE kind = "bst"
      BY <2>2, <3>2, <3>3 DEF Inserted, Placed, u
    <3>4. CASE kind = "splay"
      <4>1. Inserted(n) = Splay(u, n)
        BY <3>4 DEF Inserted, u
      <4>2. Turned(Splay(u, n), u, In2, Opened(pos, n, q))
        BY <3>2, SplayFits
      <4>3. QED
        BY <2>2, <3>2, <4>1, <4>2 DEF Turned, Placed
    <3>5. QED
      BY <2>2, <3>3, <3>4
  <2>3. CASE kind = "redblack"
    <3>1. Fits(rtc, used, pos)
      BY <2>3 DEF Held, Placed
    <3>2. PICK h : RedBlack(rtc, rtc.tag, used, h)
      BY <2>3 DEF Painted, Coloured
    <3>3. Inserted(n) = RbInsert(rtc, n)
      BY <2>3 DEF Inserted
    <3>4. /\ \E q : /\ Place(used, pos, KeyOf[n], q)
                    /\ Fits(Inserted(n), In2, Opened(pos, n, q))
          /\ Inserted(n) \in Container /\ Inserted(n).count = rtc.count + 1
          /\ \E h2 : RedBlack(Inserted(n), Inserted(n).tag, In2, h2)
      BY <1>1, <3>1, <3>2, <3>3, RbInsertKeeps
    <3>5. QED
      BY <2>3, <3>4 DEF Placed
  <2>4. QED
    BY <2>1, <2>2, <2>3
<1>3. PICK q : /\ Place(used, pos, KeyOf[n], q)
               /\ Placed(kind, Inserted(n), In2, Opened(pos, n, q))
               /\ Inserted(n) \in Container
               /\ Inserted(n).count = rtc.count + 1
               /\ kind = "redblack" => \E h : RedBlack(Inserted(n), Inserted(n).tag, In2, h)
  BY <1>2
<1>4. Numbered(In2, Opened(pos, n, q)) /\ Cardinality(In2) = Cardinality(used) + 1
  BY <1>1, <1>3, OpenedNumbers DEF Place
<1>5. Ascending(In2, Opened(pos, n, q))
  BY <1>1, <1>3, OpenedAscends
<1> HIDE DEF In2
<1>6. Held(kind, Clean(kind, In2, Inserted(n)), In2, Opened(pos, n, q))
  BY <1>1, <1>3, <1>4, <1>5, CleanHolds
<1>7. Painted(kind, Clean(kind, In2, Inserted(n)), In2)
  BY <1>3, CleanColours DEF Painted, Placed
<1>8. QED
  BY <1>3, <1>6, <1>7 DEF In2

\* usrtc_delete takes one node out and keeps the order of the others.
LEMMA DeleteHolds ==
    ASSUME kind \in {"list", "bst", "splay", "redblack"}, NEW pos, Held(kind, rtc, used, pos),
           Painted(kind, rtc, used), NEW n \in used
    PROVE  /\ Held(kind, Clean(kind, used \ {n}, Deleted(n)), used \ {n}, Closed(pos, n))
           /\ Painted(kind, Clean(kind, used \ {n}, Deleted(n)), used \ {n})
<1> DEFINE In2 == used \ {n}
           close == Closed(pos, n)
<1>1. Numbered(used, pos) /\ Ascending(used, pos) /\ rtc \in Container
      /\ rtc.count = Cardinality(used)
  BY HeldNumbers DEF Held
<1>2. Numbered(In2, close) /\ Cardinality(In2) = Cardinality(used) - 1
      /\ Cardinality(used) >= 1
  BY <1>1, ClosedNumbers
<1>3. Ascending(In2, close)
  BY <1>1, ClosedAscends
<1>4. /\ Placed(kind, Deleted(n), In2, close)
      /\ Deleted(n) \in Container /\ Deleted(n).count = rtc.count - 1
      /\ kind = "redblack" => \E h : RedBlack(Deleted(n), Deleted(n).tag, In2, h)
  <2>1. CASE kind = "list"
    <3>1. Chain(rtc, used, pos)
      BY <2>1 DEF Held, Placed
    <3>2. Deleted(n) = ListDelete(rtc, n)
      BY <2>1 DEF Deleted
    <3>3. QED
      BY <1>1, <1>2, <2>1, <3>1, <3>2, ListDeleteKeeps DEF Placed
  <2>2. CASE kind \in {"bst", "splay"}
    <3>1. PICK b : Shape(rtc, used, pos, b)
      BY <2>2 DEF Held, Placed, Fits
    <3> DEFINE u == BstDelete(rtc, n).t
    <3>2. /\ u \in Container /\ u.count = rtc.count - 1
          /\ \E b2 : Shape(u, In2, close, b2)
      BY <1>1, <1>2, <3>1, BstDeleteFits
    <3>3. Deleted(n) = u
      BY <2>2 DEF Deleted
    <3> HIDE DEF u
    <3>4. QED
      BY <2>2, <3>2, <3>3 DEF Placed, Fits
  <2>3. CASE kind = "redblack"
    <3>1. Fits(rtc, used, pos)
      BY <2>3 DEF Held, Placed
    <3>2. PICK h : RedBlack(rtc, rtc.tag, used, h)
      BY <2>3 DEF Painted, Coloured
    <3>3. Deleted(n) = RbDelete(rtc, n)
      BY <2>3 DEF Deleted
    <3>4. /\ Deleted(n) \in Container /\ Deleted(n).count = rtc.count - 1
          /\ Fits(Deleted(n), In2, close)
          /\ \E h2 : RedBlack(Deleted(n), Deleted(n).tag, In2, h2)
      BY <1>1, <1>2, <3>1, <3>2, <3>3, RbDeleteKeeps
    <3>5. QED
      BY <2>3, <3>4 DEF Placed
  <2>4. QED
    BY <2>1, <2>2, <2>3
<1> HIDE DEF In2, close
<1>5. Held(kind, Clean(kind, In2, Deleted(n)), In2, close)
  BY <1>1, <1>2, <1>3, <1>4, CleanHolds
<1>6. Painted(kind, Clean(kind, In2, Deleted(n)), In2)
  BY <1>4, CleanColours DEF Painted, Placed
<1>7. QED
  BY <1>5, <1>6 DEF In2, close

\* Splaying changes nothing of what a container holds, nor the order.
LEMMA SplayHolds ==
    ASSUME kind = "splay", NEW pos, Held(kind, rtc, used, pos), NEW n \in used
    PROVE  Held(kind, Clean(kind, used, Splay(rtc, n)), used, pos)
<1>1. Numbered(used, pos) /\ Ascending(used, pos) /\ rtc \in Container
      /\ rtc.count = Cardinality(used) /\ Fits(rtc, used, pos)
  BY HeldNumbers DEF Held, Placed
<1> DEFINE u == Splay(rtc, n)
<1>2. Turned(u, rtc, used, pos)
  BY <1>1, SplayFits
<1> HIDE DEF u
<1>3. u \in Container /\ u.count = Cardinality(used) /\ Placed(kind, u, used, pos)
  BY <1>1, <1>2 DEF Turned, Placed
<1>4. Held(kind, Clean(kind, used, u), used, pos)
  BY <1>1, <1>3, CleanHolds
<1>5. QED
  BY <1>4 DEF u

\* An initialised container holds nothing.
LEMMA EmptyHolds ==
    ASSUME NEW k, NEW t, NEW c \in 0 .. 2, t = [Empty EXCEPT !.tag[Nil] = c]
    PROVE  /\ \E pos : Held(k, t, {}, pos)
           /\ c = Black => Coloured(t, {})
<1> DEFINE pos == [m \in Link |-> 1]
           b == [s \in Side |-> [m \in Link |-> IF s = "left" THEN 0 ELSE 2]]
<1>1. Nil \in Link /\ "left" \in Side /\ "right" \in Side /\ Cardinality({}) = 0
      /\ Bin({}) = {Nil}
  BY Linked, FS_EmptySet DEF Side, Bin
<1>2. NoLinks \in [Link -> {0}] /\ \A m \in Link : NoLinks[m] = Nil
  BY DEF NoLinks, Nil
<1>3. /\ Empty \in Container /\ Empty.count = 0
      /\ \A s \in Side, m \in Link : Empty.kid[s][m] = Nil
  BY <1>1, <1>2 DEF Empty, Container, Nil
<1>4. t \in Container /\ t.count = 0 /\ t.kid = Empty.kid
  BY <1>3 DEF Container
<1>5. \A s \in Side : t.kid[s][Nil] = Nil
  BY <1>1, <1>3, <1>4
<1>6. Numbered({}, pos)
  BY <1>1 DEF Numbered
<1>7. Between({}, pos, b)
  BY <1>1 DEF Between
<1>8. Shape(t, {}, pos, b)
  <2>1. \A s \in Side : KidFits(t, {}, pos, b, Nil, s)
    BY <1>1, <1>5 DEF KidFits, Side, Dir
  <2>2. QED
    BY <1>1, <1>6, <1>7, <2>1 DEF Shape
<1>9. Chain(t, {}, pos)
  BY <1>1, <1>5, <1>6 DEF Chain
<1>10. \E at : Held(k, t, {}, at)
  BY <1>1, <1>4, <1>8, <1>9 DEF Held, Placed, Fits, Ascending
<1>11. ASSUME c = Black PROVE Coloured(t, {})
  <2> DEFINE h == [m \in Link |-> 0]
  <2>1. h \in [Link -> Nat] /\ h[Nil] = 0
    BY <1>1
  <2>2. t.tag[Nil] = Black /\ Root(t) = Nil
    <3>1. Empty.tag = NoLinks /\ t.tag = [Empty.tag EXCEPT ![Nil] = c]
      BY DEF Empty
    <3>2. t.tag[Nil] = Black
      BY <1>1, <1>2, <1>11, <3>1
    <3>3. QED
      BY <1>1, <1>5, <3>2 DEF Root
  <2> HIDE DEF h
  <2>3. RedBlack(t, t.tag, {}, h)
    BY <2>1, <2>2 DEF RedBlack, Even, Pale
  <2>4. \A m \in Link, s \in Side : t.kid[s][m] = Nil
    BY <1>3, <1>4
  <2>5. QED
    BY <2>3, <2>4 DEF Coloured
<1>12. QED
  BY <1>10, <1>11

-----------------------------------------------------------------------------
(***************************************************************************)
(* The inductive invariant: some numbers order what is in the container.   *)
(***************************************************************************)
IInv ==
    /\ kind \in Kinds /\ dupes \in BOOLEAN /\ wild \in BOOLEAN
    /\ \E pos : Held(kind, rtc, used, pos)
    /\ Painted(kind, rtc, used)

\* No conversion builds a list from a tree or a tree from a list, and none of the
\* trees is an AVL tree.
Settled ==
    \/ Kinds \subseteq {"bst", "splay"}
    \/ Kinds \subseteq {"list"}
    \/ Kinds \subseteq {"redblack"}

\* The invariant holds at first, with nothing for a walk to meet.
LEMMA InitHolds ==
    ASSUME Init
    PROVE  IInv /\ Forward(kind, rtc) = <<>>
<1>0. (\E pos : Held(kind, rtc, {}, pos)) /\ Painted(kind, rtc, {})
  <2>1. PICK c \in 0 .. 2 : rtc = [Empty EXCEPT !.tag[Nil] = c] /\ (kind = "redblack" => c = Black)
    BY Colours DEF Init
  <2>2. (\E pos : Held(kind, rtc, {}, pos)) /\ (c = Black => Coloured(rtc, {}))
    BY <2>1, EmptyHolds
  <2>3. QED
    BY <2>1, <2>2 DEF Painted
<1>1. PICK pos : Held(kind, rtc, {}, pos)
  BY <1>0
<1>2. used = {}
  BY DEF Init
<1>3. Forward(kind, rtc) = Row({}, pos) /\ Numbered({}, pos)
  BY <1>1, HeldNumbers, WalksMeet
<1>4. Len(Row({}, pos)) = 0 /\ Row({}, pos) \in Seq(Node)
  BY <1>3, RowNumbers, FS_EmptySet
<1>5. IInv
  BY <1>0, <1>1, <1>2 DEF Init, IInv
<1>6. QED
  BY <1>3, <1>4, <1>5

\* The order of a container that holds something is the row of its numbers.
LEMMA HeldRow ==
    ASSUME NEW k, NEW t, NEW In, NEW pos, Held(k, t, In, pos)
    PROVE  Forward(k, t) = Row(In, pos)
BY HeldNumbers, WalksMeet

\* Every operation keeps the invariant, and is a step of SortedBag or none.
LEMMA NextHolds ==
    ASSUME Settled, IInv, [Next]_vars
    PROVE  IInv' /\ [Bag!Next]_(Forward(kind, rtc))
<1>1. PICK pos : Held(kind, rtc, used, pos)
  BY DEF IInv
<1>2. /\ kind \in Kinds /\ dupes \in BOOLEAN /\ wild \in BOOLEAN
      /\ kind \in {"list", "bst", "splay", "redblack"} /\ Painted(kind, rtc, used)
      /\ Forward(kind, rtc) = Row(used, pos) /\ Numbered(used, pos)
      /\ used \in SUBSET Node
  BY <1>1, HeldNumbers, HeldRow DEF IInv, Settled
<1>3. ASSUME NEW pos2, Held(kind', rtc', used', pos2)
      PROVE  Forward(kind, rtc)' = Row(used', pos2)
  BY <1>3, HeldRow DEF Forward
<1>4. ASSUME NEW n \in Node, Insert(n) PROVE IInv' /\ Bag!Next
  <2>1. n \in Node \ used /\ used' = used \cup {n}
    BY <1>4 DEF Insert
  <2>2. PICK q : /\ Place(used, pos, KeyOf[n], q)
                 /\ Held(kind, Clean(kind, used \cup {n}, Inserted(n)), used \cup {n},
                         Opened(pos, n, q))
                 /\ Painted(kind, Clean(kind, used \cup {n}, Inserted(n)), used \cup {n})
    BY <1>1, <1>2, <2>1, InsertHolds
  <2>3. Held(kind', rtc', used', Opened(pos, n, q)) /\ Painted(kind', rtc', used')
    BY <1>4, <2>1, <2>2 DEF Insert
  <2>4. IInv'
    BY <1>2, <1>4, <2>3 DEF IInv, Insert
  <2>5. Forward(kind, rtc)' = Bag!With(Forward(kind, rtc), n)
    BY <1>2, <1>3, <2>1, <2>2, <2>3, RowOpens
  <2>6. n \notin Bag!ToSet(Forward(kind, rtc))
    <3>1. \A i \in DOMAIN Row(used, pos) : Row(used, pos)[i] \in used
      BY <1>2, RowNumbers
    <3>2. QED
      BY <1>2, <2>1, <3>1 DEF Bag!ToSet
  <2>7. Bag!Next
    BY <2>1, <2>5, <2>6 DEF Bag!Next, Bag!Insertions
  <2>8. QED
    BY <2>4, <2>7
<1>5. ASSUME NEW n \in Node, Delete(n) PROVE IInv' /\ Bag!Next
  <2>1. n \in used /\ used' = used \ {n}
    BY <1>5 DEF Delete
  <2>2. /\ Held(kind, Clean(kind, used \ {n}, Deleted(n)), used \ {n}, Closed(pos, n))
        /\ Painted(kind, Clean(kind, used \ {n}, Deleted(n)), used \ {n})
    BY <1>1, <1>2, <2>1, DeleteHolds
  <2>3. Held(kind', rtc', used', Closed(pos, n)) /\ Painted(kind', rtc', used')
    BY <1>5, <2>1, <2>2 DEF Delete
  <2>4. IInv'
    BY <1>2, <1>5, <2>3 DEF IInv, Delete
  <2>5. Forward(kind, rtc)' = RemoveAt(Forward(kind, rtc), pos[n])
    BY <1>2, <1>3, <2>1, <2>3, RowCloses
  <2>6. pos[n] \in DOMAIN Forward(kind, rtc)
    BY <1>2, <2>1, RowNumbers
  <2>7. Forward(kind, rtc)' = Bag!RemoveAt(Forward(kind, rtc), pos[n])
    BY <2>5 DEF RemoveAt, Bag!RemoveAt
  <2>8. Bag!Next
    BY <2>6, <2>7 DEF Bag!Next, Bag!Deletions
  <2>9. QED
    BY <2>4, <2>8
<1>6. ASSUME Held(kind', rtc', used', pos), Painted(kind', rtc', used'), UNCHANGED used,
             kind' \in Kinds, dupes' \in BOOLEAN, wild' \in BOOLEAN
      PROVE  IInv' /\ Forward(kind, rtc)' = Forward(kind, rtc)
  BY <1>2, <1>3, <1>6 DEF IInv
<1>7. ASSUME NEW n \in Node, InsertRefused(n)
      PROVE  IInv' /\ Forward(kind, rtc)' = Forward(kind, rtc)
  BY <1>1, <1>2, <1>6, <1>7 DEF InsertRefused
<1>8. ASSUME NEW key \in Nat, SplayLookup(key)
      PROVE  IInv' /\ Forward(kind, rtc)' = Forward(kind, rtc)
  <2> DEFINE n == Lookup(kind, rtc, dupes, key)
  <2>1. /\ kind = "splay" /\ n # Nil /\ rtc' = Clean(kind, used, Splay(rtc, n))
        /\ UNCHANGED <<kind, dupes, used, wild>>
    BY <1>8 DEF SplayLookup
  <2>2. n \in used
    <3>1. Finds(kind, rtc, dupes, used, pos)
      BY <1>1, <1>2, <2>1, TreeFinds DEF Held, Placed
    <3>2. QED
      BY <2>1, <3>1 DEF Finds, Bin
  <2> HIDE DEF n
  <2>3. Held(kind, Clean(kind, used, Splay(rtc, n)), used, pos)
    BY <1>1, <2>1, <2>2, SplayHolds
  <2>4. Held(kind', rtc', used', pos) /\ Painted(kind', rtc', used')
    BY <2>1, <2>3 DEF Painted
  <2>5. QED
    BY <1>2, <1>6, <2>1, <2>4
<1>9. ASSUME NEW k \in Kinds, ConvertTo(k)
      PROVE  IInv' /\ Forward(kind, rtc)' = Forward(kind, rtc)
  <2>1. kind \in {"bst", "splay"} /\ k \in {"bst", "splay"} /\ kind # "list" /\ k # "list"
    BY <1>2, <1>9 DEF ConvertTo, Settled
  <2>2. kind' = k /\ rtc' = Clean(k, used, rtc) /\ UNCHANGED <<dupes, used, wild>>
    BY <1>9, <2>1 DEF ConvertTo
  <2>3. Held(k, Clean(k, used, rtc), used, pos)
    BY <1>1, <1>2, <2>1, CleanHolds DEF Held, Placed
  <2>4. Painted(kind', rtc', used')
    BY <2>1, <2>2 DEF Painted
  <2>5. QED
    BY <1>2, <1>6, <2>2, <2>3, <2>4
<1>10. ASSUME AllowDupes
       PROVE  IInv' /\ Forward(kind, rtc)' = Forward(kind, rtc)
  BY <1>1, <1>2, <1>6, <1>10 DEF AllowDupes
<1>11. ASSUME UNCHANGED vars
       PROVE  IInv' /\ Forward(kind, rtc)' = Forward(kind, rtc)
  BY <1>1, <1>2, <1>6, <1>11 DEF vars
<1>12. \A n \in used : KeyOf[n] \in Nat
  BY <1>2, NodeAssumption
<1>13. QED
  BY <1>4, <1>5, <1>7, <1>8, <1>9, <1>10, <1>11, <1>12 DEF Next

\* What the invariant says of the state.
LEMMA HeldLinked ==
    ASSUME NEW pos, Held(kind, rtc, used, pos)
    PROVE  WellLinked
<1>1. /\ Numbered(used, pos) /\ used \in SUBSET Node
      /\ Forward(kind, rtc) = Row(used, pos)
      /\ Backward(kind, rtc) = Reverse(Row(used, pos))
  BY HeldNumbers, WalksMeet
<1>2. ToSet(Row(used, pos)) = used
  <2>1. /\ \A i \in DOMAIN Row(used, pos) : Row(used, pos)[i] \in used
        /\ \A n \in used : pos[n] \in DOMAIN Row(used, pos) /\ Row(used, pos)[pos[n]] = n
    BY <1>1, RowNumbers
  <2>2. QED
    BY <2>1 DEF ToSet
<1>3. BothWays
  BY <1>1, <1>2 DEF BothWays
<1>4. LinksMatch
  <2>1. CASE kind = "list"
    <3>1. Chain(rtc, used, pos)
      BY <2>1 DEF Held, Placed
    <3>2. \A n \in Bin(used) : /\ rtc.kid["right"][rtc.kid["left"][n]] = n
                               /\ rtc.kid["left"][rtc.kid["right"][n]] = n
      BY <3>1, ChainNumbers DEF Chain
    <3>3. QED
      BY <2>1, <3>2 DEF LinksMatch, Bin
  <2>2. CASE kind # "list"
    <3>1. PICK b : Shape(rtc, used, pos, b)
      BY <2>2 DEF Held, Placed, Fits
    <3>2. rtc.kid["right"][Nil] = Nil
      BY <2>2, RootFits DEF Held, Placed
    <3>3. \A n \in Bin(used), s \in Side :
             rtc.kid[s][n] # Nil => rtc.parent[rtc.kid[s][n]] = n
      BY <3>1 DEF Shape, KidFits
    <3>4. QED
      BY <2>2, <3>2, <3>3 DEF LinksMatch, Bin
  <2>3. QED
    BY <2>1, <2>2
<1>5. QED
  BY <1>3, <1>4 DEF WellLinked

\* The invariant implies that searches are exact.
LEMMA HeldSearched ==
    ASSUME NEW pos, Held(kind, rtc, used, pos), dupes \in BOOLEAN
    PROVE  SearchExact
<1>1. Finds(kind, rtc, dupes, used, pos)
  BY TreeFinds, ListFinds DEF Held, Placed
<1>2. QED
  BY <1>1, HeldNumbers, HeldRow, SearchesFit DEF Held

\* The invariant implies the types.
LEMMA HeldTyped ==
    ASSUME IInv
    PROVE  TypeOK
<1>1. PICK pos : Held(kind, rtc, used, pos)
  BY DEF IInv
<1>2. rtc \in Container /\ rtc.count = Cardinality(used) /\ used \in SUBSET Node
  BY <1>1, HeldNumbers DEF Held
<1>3. QED
  BY <1>2 DEF IInv, TypeOK, Container, Link

\* The invariant implies the balance.
LEMMA HeldBalanced ==
    ASSUME IInv, kind # "avl"
    PROVE  InBalance
<1>1. PICK pos : Held(kind, rtc, used, pos)
  BY DEF IInv
<1>2. AvlBalanced
  BY DEF AvlBalanced
<1>3. ASSUME kind = "redblack" PROVE RedBlackBalanced
  <2>1. rtc \in Container /\ Fits(rtc, used, pos) /\ Coloured(rtc, used)
    BY <1>1, <1>3 DEF IInv, Held, Placed, Painted
  <2>2. PICK h : RedBlack(rtc, rtc.tag, used, h)
    BY <2>1 DEF Coloured
  <2>3. BlackHeight(rtc)[Root(rtc)] # -1
    BY <2>1, <2>2, BlackCounts DEF Coloured
  <2>4. /\ rtc.tag[Nil] = Black /\ rtc.tag[Root(rtc)] = Black
        /\ \A n \in used : rtc.tag[n] \in {Red, Black}
        /\ \A n \in used, s \in Side : rtc.tag[n] = Red =>
              rtc.tag[rtc.kid[s][n]] = Black \/ rtc.kid[s][n] = Nil
    BY <2>2 DEF RedBlack, Even, Pale
  <2>5. ASSUME NEW n \in used, rtc.tag[n] = Red PROVE rtc.tag[rtc.parent[n]] = Black
    <3>1. Kin(rtc, used)
      BY <2>1, ShapeKin DEF Fits
    <3>2. /\ rtc.parent[n] \in used \cup {Nil} /\ n # Nil
          /\ \E s \in Side : rtc.kid[s][rtc.parent[n]] = n
      BY <3>1, NodeAssumption DEF Kin, Bin, Nil
    <3>3. QED
      BY <2>4, <2>5, <3>2, Colours
  <2>6. QED
    BY <2>3, <2>4, <2>5 DEF RedBlackBalanced
<1>4. QED
  BY <1>2, <1>3 DEF InBalance, RedBlackBalanced

-----------------------------------------------------------------------------
\* The invariant holds, whatever is inserted, looked up, deleted and converted.
THEOREM Ordered ==
    ASSUME Settled
    PROVE  Spec => []IInv
<1>1. Init => IInv
  BY InitHolds
<1>2. IInv /\ [Next]_vars => IInv'
  BY NextHolds
<1>3. QED
  BY <1>1, <1>2, PTL DEF Spec

\* The count is the number of nodes in the container after every sequence of
\* operations, and every link leads to a node or the sentinel.
THEOREM Typed ==
    ASSUME Settled
    PROVE  Spec => []TypeOK
<1>1. IInv => TypeOK
  BY HeldTyped
<1>2. QED
  BY <1>1, Ordered, PTL

\* WellLinked, for every number of nodes: insertion, splay_node(), deletion, the
\* rotations of redblack.c and list_insert() leave every link with its way back, and
\* usrtc_next() and usrtc_prev() meet exactly the nodes that are in.
THEOREM LinkedWell ==
    ASSUME Settled
    PROVE  Spec => []WellLinked
<1>1. IInv => WellLinked
  BY HeldLinked DEF IInv
<1>2. QED
  BY <1>1, Ordered, PTL

\* SearchExact, for every number of nodes and every choice of keys: lookup and
\* lower_bound stop where the key stands in the order of the walk.
THEOREM SearchedExactly ==
    ASSUME Settled
    PROVE  Spec => []SearchExact
<1>1. IInv => SearchExact
  BY HeldSearched DEF IInv
<1>2. QED
  BY <1>1, Ordered, PTL

\* InBalance, for every number of nodes: whatever is inserted and deleted, the
\* recolourings and rotations of redblack_insert() and redblack_delete() end with
\* as many black nodes on every way down and no red node below a red one.
THEOREM StaysBalanced ==
    ASSUME Settled
    PROVE  Spec => []InBalance
<1>1. IInv => InBalance
  <2>1. IInv => kind # "avl"
    BY DEF IInv, Settled
  <2>2. QED
    BY <2>1, HeldBalanced
<1>2. QED
  BY <1>1, Ordered, PTL

\* The refinement: whatever the tree looks like after rotations and deletions, the
\* walk over the container is that of SortedBag.
THEOREM SortsItsNodes ==
    ASSUME Settled
    PROVE  Spec => IsSortedBag
<1>1. Init => Bag!Init
  BY InitHolds DEF Bag!Init
<1>2. IInv /\ [Next]_vars => [Bag!Next]_(Forward(kind, rtc))
  BY NextHolds
<1>3. QED
  BY <1>1, <1>2, Ordered, PTL DEF Spec, IsSortedBag, Bag!Spec

===========================================================================
