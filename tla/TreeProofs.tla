------------------------------ MODULE TreeProofs ------------------------------
(***************************************************************************)
(* Proofs about the algorithms of Tree, for any finite set of nodes and    *)
(* any keys.                                                               *)
(*                                                                         *)
(* The loops are Iterate, so what a loop does is shown by a set that every *)
(* round keeps and a measure that falls.  That a container is a tree with  *)
(* the nodes In is said with ghosts: pos numbers the nodes from left to    *)
(* right and b gives the numbers between which the subtree of each stands  *)
(* (Shape, Fits); for a list pos alone (Chain).  Every operation keeps     *)
(* such numbers, or opens or closes one place among them.                  *)
(***************************************************************************)
EXTENDS Tree, WellFoundedInduction, FiniteSetTheorems, TLAPS

\* The order of the naturals, for induction.
Less == {ss \in Nat \X Nat : ss[1] < ss[2]}

\* The order of the naturals is well-founded.
LEMMA LessWellFounded == IsWellFoundedOn(Less, Nat)
  BY NatLessThanWellFounded DEF OpToRel, Less

\* Induction over the naturals, for a set: a theorem of the library takes an
\* operator, which no prover here can instantiate.
LEMMA SetInduction ==
    ASSUME NEW S, 0 \in S, \A n \in Nat : n \in S => n + 1 \in S
    PROVE  Nat \subseteq S
<1> SUFFICES ASSUME ~(Nat \subseteq S) PROVE FALSE
  OBVIOUS
<1> DEFINE T == Nat \ S
<1>1. T \subseteq Nat /\ T # {}
  OBVIOUS
<1>2. PICK m \in T : \A y \in T : <<y, m>> \notin Less
  <2> HIDE DEF T
  <2> QED BY <1>1, LessWellFounded, WFMin
<1>3. m \in Nat /\ m # 0 /\ m - 1 \in Nat /\ (m - 1) + 1 = m
  OBVIOUS
<1>4. m - 1 \in T
  BY <1>3
<1>5. <<m - 1, m>> \in Less
  BY <1>3 DEF Less
<1>6. QED
  BY <1>2, <1>4, <1>5

\* The iteration is defined: what the n-th value is depends on those before it.
Begun(step, x, n, g) == g[0] = x /\ \A i \in 1 .. n : g[i] = step[g[i - 1]]

\* The recursive function in Iterate is defined: what it is at n depends on the
\* numbers below n only.
LEMMA IterateExists ==
    ASSUME NEW X, NEW step, \A y \in X : step[y] \in X, NEW x \in X
    PROVE  \E it : it = [i \in Nat |-> IF i = 0 THEN x ELSE step[it[i - 1]]]
<1> DEFINE Part(n) == {g \in [0 .. n -> X] : Begun(step, x, n, g)}
           S == {n \in Nat : Part(n) # {}}
<1>1. 0 \in S
  <2>1. [i \in 0 .. 0 |-> x] \in Part(0)
    BY DEF Begun
  <2>2. QED
    BY <2>1
<1>2. ASSUME NEW n \in Nat, n \in S PROVE n + 1 \in S
  <2>1. PICK g \in [0 .. n -> X] : Begun(step, x, n, g)
    BY <1>2
  <2> DEFINE h == [i \in 0 .. n + 1 |-> IF i <= n THEN g[i] ELSE step[g[n]]]
  <2>2. h \in [0 .. n + 1 -> X]
    OBVIOUS
  <2>3. h[0] = x
    BY <2>1 DEF Begun
  <2>4. ASSUME NEW i \in 1 .. n + 1 PROVE h[i] = step[h[i - 1]]
    BY <2>1 DEF Begun
  <2>5. Begun(step, x, n + 1, h)
    <3> HIDE DEF h
    <3> QED BY <2>3, <2>4 DEF Begun
  <2>6. QED
    BY <2>2, <2>5
<1>3. \A n \in Nat : \E g \in [0 .. n -> X] : Begun(step, x, n, g)
  <2>1. Nat \subseteq S
    <3> HIDE DEF S
    <3> QED BY <1>1, <1>2, SetInduction
  <2>2. QED
    BY <2>1
<1>4. ASSUME NEW m \in Nat, NEW n \in Nat, m <= n,
             NEW g \in [0 .. m -> X], Begun(step, x, m, g),
             NEW h \in [0 .. n -> X], Begun(step, x, n, h)
      PROVE  \A i \in 0 .. m : g[i] = h[i]
  <2> DEFINE Same == {i \in Nat : i <= m => g[i] = h[i]}
  <2>1. 0 \in Same
    BY <1>4 DEF Begun
  <2>2. ASSUME NEW i \in Nat, i \in Same PROVE i + 1 \in Same
    <3>1. CASE i + 1 <= m
      <4>1. i <= m /\ g[i] = h[i] /\ i + 1 \in 1 .. m /\ i + 1 \in 1 .. n /\ (i + 1) - 1 = i
        BY <2>2, <3>1, <1>4
      <4>2. g[i + 1] = step[g[i]] /\ h[i + 1] = step[h[i]]
        BY <4>1, <1>4 DEF Begun
      <4>3. QED
        BY <4>1, <4>2
    <3>2. CASE ~(i + 1 <= m)
      BY <3>2
    <3>3. QED
      BY <3>1, <3>2
  <2>3. Nat \subseteq Same
    <3> HIDE DEF Same
    <3> QED BY <2>1, <2>2, SetInduction
  <2>4. QED
    BY <2>3
<1> DEFINE G == [n \in Nat |-> CHOOSE g \in [0 .. n -> X] : Begun(step, x, n, g)]
           it == [n \in Nat |-> G[n][n]]
<1>5. \A n \in Nat : G[n] \in [0 .. n -> X] /\ Begun(step, x, n, G[n])
  BY <1>3
<1>6. ASSUME NEW i \in Nat PROVE it[i] = IF i = 0 THEN x ELSE step[it[i - 1]]
  <2>0. it[i] = G[i][i] /\ (i # 0 => it[i - 1] = G[i - 1][i - 1])
    OBVIOUS
  <2> HIDE DEF G, it
  <2>1. CASE i = 0
    BY <1>5, <2>0, <2>1 DEF Begun
  <2>2. CASE i # 0
    <3>1. i - 1 \in Nat /\ i - 1 <= i /\ i - 1 \in 0 .. i - 1 /\ i \in 1 .. i
      BY <2>2
    <3>2. G[i - 1][i - 1] = G[i][i - 1]
      BY <1>4, <1>5, <3>1
    <3>3. G[i][i] = step[G[i][i - 1]]
      BY <1>5, <3>1 DEF Begun
    <3>4. QED
      BY <2>0, <2>2, <3>2, <3>3
  <2>3. QED
    BY <2>1, <2>2
<1>7. it = [i \in Nat |-> IF i = 0 THEN x ELSE step[it[i - 1]]]
  <2> HIDE DEF G
  <2>1. \A i \in Nat : it[i] = IF i = 0 THEN x ELSE step[it[i - 1]]
    BY <1>6
  <2>2. it = [i \in Nat |-> it[i]]
    OBVIOUS
  <2> HIDE DEF it
  <2>3. QED
    BY <2>1, <2>2
<1>8. QED
  BY <1>7

\* Iterate takes one round after the other.
LEMMA IterateSteps ==
    ASSUME NEW X, NEW step, \A y \in X : step[y] \in X, NEW x \in X
    PROVE  /\ Iterate(step, x, 0) = x
           /\ \A k \in Nat : Iterate(step, x, k + 1) = step[Iterate(step, x, k)]
<1> DEFINE it == CHOOSE it : it = [i \in Nat |-> IF i = 0 THEN x ELSE step[it[i - 1]]]
<1>1. it = [i \in Nat |-> IF i = 0 THEN x ELSE step[it[i - 1]]]
  BY IterateExists
<1>2. \A k : Iterate(step, x, k) = it[k]
  BY DEF Iterate
<1> HIDE DEF it
<1>3. it[0] = x /\ \A k \in Nat : it[k + 1] = step[it[k]]
  <2>1. it[0] = x
    BY <1>1
  <2>2. ASSUME NEW k \in Nat PROVE it[k + 1] = step[it[k]]
    <3>1. k + 1 \in Nat /\ k + 1 # 0 /\ (k + 1) - 1 = k
      OBVIOUS
    <3>2. it[k + 1] = step[it[(k + 1) - 1]]
      BY <1>1, <3>1
    <3>3. QED
      BY <3>1, <3>2
  <2>3. QED
    BY <2>1, <2>2
<1>4. QED
  BY <1>2, <1>3

\* What every round keeps, Iterate keeps.
LEMMA IterateKeeps ==
    ASSUME NEW P, NEW step, NEW x \in P,
           \A y \in P : step[y] \in P
    PROVE  \A k \in Nat : Iterate(step, x, k) \in P
<1> DEFINE S == {k \in Nat : Iterate(step, x, k) \in P}
<1>1. x \in P
  OBVIOUS
<1>2. 0 \in S
  BY <1>1, IterateSteps
<1>3. ASSUME NEW k \in Nat, k \in S PROVE k + 1 \in S
  BY <1>1, <1>3, IterateSteps
<1>4. Nat \subseteq S
  <2> HIDE DEF S
  <2> QED BY <1>2, <1>3, SetInduction
<1>5. QED
  BY <1>4

\* A loop ends within k rounds if a measure of at most k falls with every round
\* that changes something: no cap on the rounds is taken on trust.
LEMMA IterateEnds ==
    ASSUME NEW P, NEW step, NEW x \in P,
           \A y \in P : step[y] \in P,
           NEW m \in [P -> Nat],
           \A y \in P : step[y] # y => m[step[y]] < m[y],
           NEW k \in Nat, m[x] <= k
    PROVE  /\ Iterate(step, x, k) \in P
           /\ step[Iterate(step, x, k)] = Iterate(step, x, k)
<1> DEFINE I(i) == Iterate(step, x, i)
           S == {i \in Nat : step[I(i)] = I(i) \/ m[I(i)] + i <= m[x]}
<1>1. x \in P
  OBVIOUS
<1>2. I(0) = x /\ \A i \in Nat : I(i + 1) = step[I(i)]
  BY <1>1, IterateSteps
<1>3. \A i \in Nat : I(i) \in P
  BY IterateKeeps
<1> HIDE DEF I
<1>4. 0 \in S
  BY <1>2
<1>5. ASSUME NEW i \in Nat, i \in S PROVE i + 1 \in S
  <2>1. I(i) \in P /\ I(i + 1) \in P /\ I(i + 1) = step[I(i)]
    BY <1>2, <1>3
  <2>2. m[I(i)] \in Nat /\ m[I(i + 1)] \in Nat /\ m[x] \in Nat
    BY <2>1
  <2>3. CASE step[I(i)] = I(i)
    BY <2>1, <2>3
  <2>4. CASE step[I(i)] # I(i)
    <3>1. m[I(i)] + i <= m[x]
      BY <1>5, <2>4
    <3>2. m[I(i + 1)] < m[I(i)]
      BY <2>1, <2>4
    <3>3. m[I(i + 1)] + (i + 1) <= m[x]
      BY <2>2, <3>1, <3>2
    <3>4. QED
      BY <3>3
  <2>5. QED
    BY <2>3, <2>4
<1>6. Nat \subseteq S
  <2> HIDE DEF S
  <2> QED BY <1>4, <1>5, SetInduction
<1>7. I(k) \in P
  BY <1>3
<1>8. step[I(k)] = I(k)
  <2>1. k \in S
    BY <1>6
  <2>2. m[I(k)] \in Nat /\ m[x] \in Nat
    BY <1>7
  <2>3. CASE m[I(k)] + k <= m[x]
    <3>1. m[I(k)] = 0
      BY <2>2, <2>3
    <3>2. step[I(k)] \in P /\ m[step[I(k)]] \in Nat
      BY <1>7
    <3>3. QED
      BY <1>7, <3>1, <3>2
  <2>4. QED
    BY <2>1, <2>3
<1>9. QED
  BY <1>7, <1>8 DEF I


-----------------------------------------------------------------------------
\* The nodes and the sentinel.
Bin(In) == In \cup {Nil}

\* The nodes In have the numbers from 1 on, the sentinel the one behind.
Numbered(In, pos) ==
    /\ In \subseteq Node
    /\ pos \in [Link -> Nat]
    /\ pos[Nil] = Cardinality(In) + 1
    /\ \A n \in In : pos[n] \in 1 .. Cardinality(In)
    /\ \A m, n \in In : pos[m] = pos[n] => m = n
    /\ \A i \in 1 .. Cardinality(In) : \E n \in In : pos[n] = i

\* The way of side s among the numbers.
Dir(s) == IF s = "left" THEN -1 ELSE 1

\* b["left"][n] and b["right"][n] are the numbers around the subtree of n.
Between(In, pos, b) ==
    /\ b \in [Side -> [Link -> Nat]]
    /\ b["left"][Nil] = 0
    /\ b["right"][Nil] = Cardinality(In) + 2
    /\ \A n \in In : b["left"][n] < pos[n] /\ pos[n] < b["right"][n]
    /\ \A n \in In : b["right"][n] <= Cardinality(In) + 1

\* The kid on side s of n, if any, has the room between n and n's bound.
KidFits(t, In, pos, b, n, s) ==
    LET c == t.kid[s][n]
    IN  IF c = Nil THEN b[s][n] = pos[n] + Dir(s)
        ELSE /\ c \in In
             /\ t.parent[c] = n
             /\ b[s][c] = b[s][n]
             /\ b[Opp(s)][c] = pos[n]

\* t is a tree of the nodes In, standing in the order of pos.
Shape(t, In, pos, b) ==
    /\ Numbered(In, pos)
    /\ Between(In, pos, b)
    /\ \A n \in Bin(In), s \in Side : KidFits(t, In, pos, b, n, s)
    /\ \A n \in In : /\ t.parent[n] \in Bin(In)
                     /\ \E s \in Side : t.kid[s][t.parent[n]] = n

\* Nodes are finitely many, and a loop takes as many rounds as there are.
LEMMA Counted ==
    ASSUME NEW In \in SUBSET Node
    PROVE  /\ IsFiniteSet(In)
           /\ Cardinality(In) \in Nat /\ Rounds \in Nat
           /\ Cardinality(In) <= Rounds
           /\ Bin(In) \subseteq Link /\ Nil \notin In
BY NodeAssumption, FS_Subset, FS_CardinalityType DEF Rounds, Bin, Link, Nil

\* As far as one can go from n on side s, in the room that n has.
LEMMA DeepestEnds ==
    ASSUME NEW t \in Container, NEW In, NEW pos, NEW b,
           Shape(t, In, pos, b), NEW s \in Side, NEW n \in Bin(In)
    PROVE  LET d == Deepest(t, s, n)
           IN  /\ d \in Bin(In)
               /\ n \in In => d \in In
               /\ t.kid[s][d] = Nil
               /\ pos[d] = b[s][n] - Dir(s)
<1> DEFINE step == [m \in Link |-> IF t.kid[s][m] = Nil THEN m ELSE t.kid[s][m]]
           P == {m \in Bin(In) : b[s][m] = b[s][n] /\ (n \in In => m \in In)}
           left == [m \in P |-> IF s = "left" THEN pos[m] - b["left"][m] - 1
                                ELSE b["right"][m] - pos[m] - 1]
<1>1. /\ In \in SUBSET Node /\ Cardinality(In) \in Nat /\ Rounds \in Nat
      /\ Cardinality(In) <= Rounds /\ Bin(In) \subseteq Link /\ Nil \notin In
  BY Counted DEF Shape, Numbered
<1>2. n \in P
  OBVIOUS
<1>3. \A m \in P : step[m] \in P
  BY <1>1 DEF Shape, KidFits, Bin
<1>4. ASSUME NEW m \in P
       PROVE  /\ m \in Bin(In) /\ m \in Link
              /\ pos[m] \in Nat /\ b["left"][m] \in Nat /\ b["right"][m] \in Nat
              /\ b["left"][m] < pos[m] /\ pos[m] < b["right"][m]
  BY <1>1 DEF Shape, Between, Numbered, Side, Bin
<1>5. left \in [P -> Nat]
  <2>1. \A m \in P : (IF s = "left" THEN pos[m] - b["left"][m] - 1
                      ELSE b["right"][m] - pos[m] - 1) \in Nat
    <3> HIDE DEF P
    <3> QED BY <1>4
  <2>2. QED
    BY <2>1
<1>6. \A m \in P : step[m] # m => left[step[m]] < left[m]
  <2> SUFFICES ASSUME NEW m \in P, step[m] # m PROVE left[step[m]] < left[m]
    OBVIOUS
  <2>1. PICK c : c = t.kid[s][m]
    OBVIOUS
  <2>2. m \in Link /\ m \in Bin(In)
    BY <1>4
  <2>3. c # Nil /\ step[m] = c
    BY <2>1, <2>2
  <2>4. c \in P
    BY <1>3, <2>3
  <2>5. b[s][c] = b[s][m] /\ b[Opp(s)][c] = pos[m]
    <3>1. KidFits(t, In, pos, b, m, s)
      BY <2>2 DEF Shape
    <3>2. QED
      BY <2>1, <2>3, <3>1 DEF KidFits
  <2>6. left[c] = (IF s = "left" THEN pos[c] - b["left"][c] - 1 ELSE b["right"][c] - pos[c] - 1)
    BY <2>4
  <2>7. left[m] = (IF s = "left" THEN pos[m] - b["left"][m] - 1 ELSE b["right"][m] - pos[m] - 1)
    OBVIOUS
  <2>8. left[c] < left[m]
    <3>1. /\ pos[c] \in Nat /\ b["left"][c] \in Nat /\ b["right"][c] \in Nat
          /\ b["left"][c] < pos[c] /\ pos[c] < b["right"][c]
      BY <1>4, <2>4
    <3>2. /\ pos[m] \in Nat /\ b["left"][m] \in Nat /\ b["right"][m] \in Nat
      BY <1>4
    <3> HIDE DEF left, P
    <3>3. CASE s = "left"
      <4>1. b["left"][c] = b["left"][m] /\ b["right"][c] = pos[m]
        BY <2>5, <3>3 DEF Opp
      <4>2. QED
        BY <2>6, <2>7, <3>1, <3>2, <3>3, <4>1
    <3>4. CASE s = "right"
      <4>1. b["right"][c] = b["right"][m] /\ b["left"][c] = pos[m]
        BY <2>5, <3>4 DEF Opp
      <4>2. QED
        BY <2>6, <2>7, <3>1, <3>2, <3>4, <4>1
    <3>5. QED
      BY <3>3, <3>4 DEF Side
  <2>9. QED
    BY <2>3, <2>8
<1>7. left[n] <= Rounds
  BY <1>1, <1>2 DEF Shape, Between, Numbered, Side, Bin
<1> DEFINE d == Iterate(step, n, Rounds)
<1>8. d \in P /\ step[d] = d
  <2> HIDE DEF step, P, left
  <2> QED BY <1>1, <1>2, <1>3, <1>5, <1>6, <1>7, IterateEnds
<1>9. Deepest(t, s, n) = d
  BY DEF Deepest
<1> HIDE DEF d
<1>10. t.kid[s][d] = Nil
  BY <1>1, <1>8 DEF Shape, KidFits, Between, Numbered, Side, Bin, Opp
<1>11. b[s][d] = pos[d] + Dir(s)
  <2>1. d \in Bin(In) /\ KidFits(t, In, pos, b, d, s)
    BY <1>8 DEF Shape
  <2>2. QED
    BY <1>10, <2>1 DEF KidFits
<1>12. pos[d] = b[s][n] - Dir(s)
  <2>1. pos[d] \in Nat /\ Dir(s) \in Int /\ b[s][d] = b[s][n]
    BY <1>8, <1>4 DEF Dir
  <2>2. QED
    BY <1>11, <2>1
<1>13. QED
  BY <1>9, <1>8, <1>10, <1>12

\* Climbing on side s ends at the bound of n on that side, as a kid of it.
LEMMA ClimbEnds ==
    ASSUME NEW t \in Container, NEW In, NEW pos, NEW b,
           Shape(t, In, pos, b), NEW s \in Side, NEW n \in In
    PROVE  LET c == Climb(t, s, n)
           IN  /\ c \in Bin(In)
               /\ c # Nil => pos[c] = b[s][n] /\ t.kid[Opp(s)][c] # Nil
               /\ c = Nil => b[s][n] = IF s = "left" THEN 0 ELSE pos[Nil]
<1> DEFINE step == [m \in Link |-> LET p == t.parent[m]
                                   IN  IF p # Nil /\ t.kid[s][p] = m THEN p ELSE m]
           P == {m \in In : b[s][m] = b[s][n]}
           left == [m \in P |-> IF s = "left" THEN Cardinality(In) - pos[m] ELSE pos[m]]
<1>1. /\ In \in SUBSET Node /\ Cardinality(In) \in Nat /\ Rounds \in Nat
      /\ Cardinality(In) <= Rounds /\ Bin(In) \subseteq Link /\ Nil \notin In
  BY Counted DEF Shape, Numbered
<1>2. n \in P
  OBVIOUS
<1>3. \A m \in P : step[m] \in P
  BY <1>1 DEF Shape, KidFits, Bin
<1>4. ASSUME NEW m \in P
       PROVE  /\ m \in In /\ m \in Link /\ m # Nil
              /\ pos[m] \in Nat /\ pos[m] <= Cardinality(In)
  BY <1>1 DEF Shape, Numbered, Bin
<1>5. left \in [P -> Nat]
  <2>1. \A m \in P : (IF s = "left" THEN Cardinality(In) - pos[m] ELSE pos[m]) \in Nat
    <3> HIDE DEF P
    <3> QED BY <1>1, <1>4
  <2>2. QED
    BY <2>1
<1>6. \A m \in P : step[m] # m => left[step[m]] < left[m]
  <2> SUFFICES ASSUME NEW m \in P, step[m] # m PROVE left[step[m]] < left[m]
    OBVIOUS
  <2>1. PICK c : c = t.parent[m]
    OBVIOUS
  <2>2. m \in Link /\ m \in In /\ m # Nil
    BY <1>4
  <2>3. c # Nil /\ t.kid[s][c] = m /\ step[m] = c
    BY <2>1, <2>2
  <2>4. c \in P
    BY <1>3, <2>3
  <2>5. b[Opp(s)][m] = pos[c]
    <3>1. KidFits(t, In, pos, b, c, s)
      BY <1>4, <2>4 DEF Shape, Bin
    <3>2. QED
      BY <2>2, <2>3, <3>1 DEF KidFits
  <2>6. b["left"][m] < pos[m] /\ pos[m] < b["right"][m]
    BY <2>2 DEF Shape, Between
  <2>7. left[c] = (IF s = "left" THEN Cardinality(In) - pos[c] ELSE pos[c])
    BY <2>4
  <2>8. left[m] = (IF s = "left" THEN Cardinality(In) - pos[m] ELSE pos[m])
    OBVIOUS
  <2>9. left[c] < left[m]
    <3>1. pos[c] \in Nat /\ pos[m] \in Nat
      BY <1>4, <2>4
    <3> HIDE DEF left, P
    <3>2. CASE s = "left"
      <4>1. pos[m] < pos[c]
        BY <2>5, <2>6, <3>2 DEF Opp
      <4>2. QED
        BY <1>1, <2>7, <2>8, <3>1, <3>2, <4>1
    <3>3. CASE s = "right"
      <4>1. pos[c] < pos[m]
        BY <2>5, <2>6, <3>3 DEF Opp
      <4>2. QED
        BY <2>7, <2>8, <3>1, <3>3, <4>1
    <3>4. QED
      BY <3>2, <3>3 DEF Side
  <2>10. QED
    BY <2>3, <2>9
<1>7. left[n] <= Rounds
  BY <1>1, <1>2 DEF Shape, Between, Numbered, Side, Bin
<1> DEFINE d == Iterate(step, n, Rounds)
<1>8. d \in P /\ step[d] = d
  <2> HIDE DEF step, P, left
  <2> QED BY <1>1, <1>2, <1>3, <1>5, <1>6, <1>7, IterateEnds
<1>9. Climb(t, s, n) = t.parent[d]
  BY DEF Climb
<1> HIDE DEF d
<1> DEFINE p == t.parent[d]
<1>10. p \in Bin(In) /\ (p # Nil => t.kid[s][p] # d)
  BY <1>1, <1>8 DEF Shape, KidFits, Between, Numbered, Side, Bin, Opp
<1>11. PICK u \in Side : t.kid[u][p] = d
  BY <1>8 DEF Shape
<1>12. d \in In /\ d # Nil /\ b[s][d] = b[s][n]
  BY <1>1, <1>8
<1>13. b[Opp(u)][d] = pos[p] /\ b[u][d] = b[u][p]
  BY <1>1, <1>10, <1>11, <1>12 DEF Shape, KidFits
<1>14. p = Nil => u = "left"
  BY <1>1, <1>10, <1>11, <1>12, <1>13 DEF Shape, Between, Numbered, Side, Opp
<1>15. p # Nil => u = Opp(s)
  BY <1>10, <1>11 DEF Side, Opp
<1>16. QED
  BY <1>1, <1>9, <1>10, <1>11, <1>12, <1>13, <1>14, <1>15 DEF Shape, Between, Numbered, Side, Opp

\* usrtc_next and usrtc_prev: the node at the next place on side s.
LEMMA NeighbourEnds ==
    ASSUME NEW t \in Container, NEW In, NEW pos, NEW b,
           Shape(t, In, pos, b), NEW s \in Side, NEW n \in In
    PROVE  LET c == Neighbour(t, s, n)
           IN  /\ c \in Bin(In)
               /\ c # Nil => pos[c] = pos[n] + Dir(s)
               /\ c = Nil => pos[n] = IF s = "left" THEN 1 ELSE Cardinality(In)
               /\ t.kid[s][n] # Nil => c # Nil /\ t.kid[Opp(s)][c] = Nil
               /\ t.kid[s][n] = Nil => c = Nil \/ t.kid[Opp(s)][c] # Nil
<1>1. /\ In \in SUBSET Node /\ Cardinality(In) \in Nat
      /\ Bin(In) \subseteq Link /\ Nil \notin In /\ n # Nil /\ n \in Bin(In)
  BY Counted DEF Shape, Numbered, Bin
<1>2. KidFits(t, In, pos, b, n, s)
  BY <1>1 DEF Shape
<1>3. CASE t.kid[s][n] # Nil
  <2> DEFINE k == t.kid[s][n]
             d == Deepest(t, Opp(s), k)
  <2>1. k \in In /\ k \in Bin(In) /\ b[Opp(s)][k] = pos[n] /\ Opp(s) \in Side
    BY <1>2, <1>3 DEF KidFits, Bin, Side, Opp
  <2>2. d \in In /\ t.kid[Opp(s)][d] = Nil /\ pos[d] = b[Opp(s)][k] - Dir(Opp(s))
    <3> HIDE DEF k
    <3> QED BY <2>1, DeepestEnds
  <2>3. Neighbour(t, s, n) = d
    BY <1>3 DEF Neighbour
  <2> HIDE DEF d, k
  <2>4. pos[d] = pos[n] + Dir(s)
    BY <2>1, <2>2, <1>1 DEF Shape, Numbered, Dir, Opp, Side
  <2>5. QED
    BY <1>1, <1>3, <2>2, <2>3, <2>4 DEF Bin
<1>4. CASE t.kid[s][n] = Nil
  <2> DEFINE c == Climb(t, s, n)
  <2>1. /\ c \in Bin(In)
        /\ c # Nil => pos[c] = b[s][n] /\ t.kid[Opp(s)][c] # Nil
        /\ c = Nil => b[s][n] = IF s = "left" THEN 0 ELSE pos[Nil]
    BY ClimbEnds
  <2>2. Neighbour(t, s, n) = c
    BY <1>4 DEF Neighbour
  <2> HIDE DEF c
  <2>3. b[s][n] = pos[n] + Dir(s)
    BY <1>2, <1>4 DEF KidFits
  <2>4. QED
    BY <1>1, <1>4, <2>1, <2>2, <2>3 DEF Shape, Numbered, Dir, Side
<1>5. QED
  BY <1>3, <1>4

\* Between two neighbours, exactly one of the two links is there.
LEMMA Gap ==
    ASSUME NEW t \in Container, NEW In, NEW pos, NEW b,
           Shape(t, In, pos, b), NEW m \in In, NEW p \in Bin(In), pos[p] = pos[m] + 1
    PROVE  t.kid["right"][m] = Nil <=> t.kid["left"][p] # Nil
<1>1. /\ In \in SUBSET Node /\ Cardinality(In) \in Nat
      /\ Bin(In) \subseteq Link /\ Nil \notin In /\ m # Nil /\ m \in Bin(In)
  BY Counted DEF Shape, Numbered, Bin
<1> DEFINE c == Neighbour(t, "right", m)
<1>2. "right" \in Side /\ Opp("right") = "left" /\ Dir("right") = 1
  BY DEF Side, Opp, Dir
<1>3. /\ c \in Bin(In)
      /\ c # Nil => pos[c] = pos[m] + 1
      /\ c = Nil => pos[m] = Cardinality(In)
      /\ t.kid["right"][m] # Nil => c # Nil /\ t.kid["left"][c] = Nil
      /\ t.kid["right"][m] = Nil => c = Nil \/ t.kid["left"][c] # Nil
  BY <1>2, NeighbourEnds
<1> HIDE DEF c
<1>4. c = p
  BY <1>1, <1>3 DEF Shape, Numbered, Bin
<1>5. t.kid["left"][Nil] # Nil
  <2>1. KidFits(t, In, pos, b, Nil, "left") /\ "left" \in Side
    BY <1>1 DEF Shape, Bin, Side
  <2>2. CASE t.kid["left"][Nil] = Nil
    <3>1. b["left"][Nil] = pos[Nil] - 1
      BY <2>1, <2>2, <1>1 DEF KidFits, Dir, Shape, Numbered
    <3>2. QED
      BY <3>1, <1>1 DEF Shape, Numbered, Between
  <2>3. QED
    BY <2>2
<1>6. QED
  BY <1>3, <1>4, <1>5

-----------------------------------------------------------------------------
\* The nodes stand in the order of their keys.
Ascending(In, pos) == \A m, n \in In : KeyOf[m] < KeyOf[n] => pos[m] < pos[n]

\* The nodes of key k that stand before v.
LEMMA FindEnds ==
    ASSUME NEW t \in Container, NEW In, NEW pos, NEW b,
           Shape(t, In, pos, b), Ascending(In, pos), NEW k \in Nat
    PROVE  LET f == Find(t, k, Root(t))
           IN  /\ f \in Bin(In)
               /\ f # Nil => /\ KeyOf[f] = k
                             /\ \A x \in In : KeyOf[x] = k => /\ b["left"][f] < pos[x]
                                                              /\ pos[x] < b["right"][f]
               /\ f = Nil => \A x \in In : KeyOf[x] # k
<1> DEFINE step == [m \in Link |->
                       IF m = Nil \/ KeyOf[m] = k THEN m
                       ELSE t.kid[IF k < KeyOf[m] THEN "left" ELSE "right"][m]]
           P == {y \in Bin(In) : \A x \in In : KeyOf[x] = k =>
                                    y \in In /\ b["left"][y] < pos[x] /\ pos[x] < b["right"][y]}
           left == [m \in P |-> IF m = Nil THEN 0 ELSE b["right"][m] - b["left"][m] - 1]
<1>1. /\ In \in SUBSET Node /\ Cardinality(In) \in Nat /\ Rounds \in Nat
      /\ Cardinality(In) <= Rounds /\ Bin(In) \subseteq Link /\ Nil \notin In
      /\ Nil \in Bin(In)
  BY Counted DEF Shape, Numbered, Bin
<1>2. Root(t) \in P /\ (Root(t) # Nil => b["right"][Root(t)] = Cardinality(In) + 1
                                         /\ b["left"][Root(t)] = 0)
  <2>1. KidFits(t, In, pos, b, Nil, "left")
    BY <1>1 DEF Shape, Side
  <2>2. QED
    BY <1>1, <2>1 DEF Shape, KidFits, Between, Numbered, Root, Bin, Dir, Opp
<1>3. ASSUME NEW m \in P PROVE step[m] \in P /\ (step[m] # m => left[step[m]] < left[m])
  <2>1. CASE m = Nil \/ KeyOf[m] = k
    BY <1>1, <1>3, <2>1
  <2>2. CASE ~(m = Nil \/ KeyOf[m] = k)
    <3> DEFINE s == IF k < KeyOf[m] THEN "left" ELSE "right"
    <3>1. m \in In /\ s \in Side /\ step[m] = t.kid[s][m] /\ KeyOf[m] \in Nat
      BY <1>1, <2>2, NodeAssumption DEF Side, Bin
    <3>2. KidFits(t, In, pos, b, m, s)
      BY <1>1, <3>1 DEF Shape, Bin
    <3>3. \A x \in In : KeyOf[x] = k => IF s = "left" THEN pos[x] < pos[m] ELSE pos[m] < pos[x]
      BY <1>1, <2>2, <3>1 DEF Ascending
    <3> DEFINE c == t.kid[s][m]
    <3>4. b["left"][m] < pos[m] /\ pos[m] < b["right"][m]
      BY <3>1 DEF Shape, Between
    <3>5. c # Nil => /\ c \in In
                     /\ b["left"][c] = IF s = "left" THEN b["left"][m] ELSE pos[m]
                     /\ b["right"][c] = IF s = "left" THEN pos[m] ELSE b["right"][m]
      BY <3>2 DEF KidFits, Opp
    <3>6. c = Nil => b[s][m] = pos[m] + IF s = "left" THEN -1 ELSE 1
      BY <3>2 DEF KidFits, Dir
    <3>7. \A x \in In : pos[x] \in Nat
      BY <1>1 DEF Shape, Numbered
    <3>8. pos[m] \in Nat /\ b["left"][m] \in Nat /\ b["right"][m] \in Nat
      BY <1>1, <3>1 DEF Shape, Numbered, Between, Side
    <3>9. \A x \in In : KeyOf[x] = k => b["left"][m] < pos[x] /\ pos[x] < b["right"][m]
      BY <1>3
    <3> HIDE DEF s
    <3> HIDE DEF c
    <3>10. c \in P
      <4>1. CASE c = Nil
        <5>1. ASSUME NEW x \in In, KeyOf[x] = k PROVE FALSE
          BY <3>1, <3>3, <3>6, <3>7, <3>8, <3>9, <4>1, <5>1 DEF Side
        <5>2. QED
          BY <1>1, <4>1, <5>1
      <4>2. CASE c # Nil
        <5>1. c \in Bin(In) /\ c \in In
          BY <3>5, <4>2 DEF Bin
        <5>2. ASSUME NEW x \in In, KeyOf[x] = k PROVE b["left"][c] < pos[x] /\ pos[x] < b["right"][c]
          BY <3>3, <3>5, <3>7, <3>8, <3>9, <4>2, <5>2
        <5>3. QED
          BY <5>1, <5>2
      <4>3. QED
        BY <4>1, <4>2
    <3>11. left[c] < left[m]
      BY <1>1, <1>3, <2>2, <3>4, <3>5, <3>8, <3>10
    <3>12. step[m] = c
      BY <3>1 DEF c
    <3>13. QED
      BY <3>10, <3>11, <3>12
  <2>3. QED
    BY <2>1, <2>2
<1>4. left \in [P -> Nat]
  BY <1>1 DEF Shape, Between, Numbered, Side, Bin
<1>5. left[Root(t)] <= Rounds
  BY <1>1, <1>2
<1> DEFINE d == Iterate(step, Root(t), Rounds)
<1>6. d \in P /\ step[d] = d
  <2> HIDE DEF step, P, left
  <2> QED BY <1>1, <1>2, <1>3, <1>4, <1>5, IterateEnds
<1>7. Find(t, k, Root(t)) = d
  BY DEF Find
<1> HIDE DEF d
<1>8. d = Nil \/ KeyOf[d] = k
  <2> SUFFICES ASSUME d \in In, KeyOf[d] # k PROVE FALSE
    BY <1>6 DEF Bin
  <2> DEFINE s == IF k < KeyOf[d] THEN "left" ELSE "right"
  <2>1. KidFits(t, In, pos, b, d, s) /\ s \in Side /\ d # Nil /\ t.kid[s][d] = d
    BY <1>1, <1>6 DEF Shape, Side, Bin
  <2> HIDE DEF s
  <2>2. QED
    BY <1>1, <2>1 DEF KidFits, Shape, Between, Numbered, Opp, Side
<1>9. QED
  BY <1>1, <1>6, <1>7, <1>8 DEF Bin

\* Down to the right from the left kid of n, a node of key k is met if any
\* stands between n's bound and n.
LEMMA SpineEnds ==
    ASSUME NEW t \in Container, NEW In, NEW pos, NEW b,
           Shape(t, In, pos, b), Ascending(In, pos), NEW k \in Nat, NEW n \in In,
           KeyOf[n] = k
    PROVE  LET f == OnSpine(t, k, t.kid["left"][n])
           IN  /\ f \in Bin(In)
               /\ f # Nil => /\ KeyOf[f] = k /\ pos[f] < pos[n]
                             /\ b["right"][f] = pos[n]
                             /\ \A x \in In : KeyOf[x] = k /\ b["left"][n] < pos[x] /\ pos[x] < pos[n]
                                                 => b["left"][f] < pos[x]
               /\ f = Nil => \A x \in In : KeyOf[x] = k => ~(b["left"][n] < pos[x] /\ pos[x] < pos[n])
<1> DEFINE step == [y \in Link |-> IF y = Nil \/ KeyOf[y] = k THEN y ELSE t.kid.right[y]]
           P == {y \in Bin(In) :
                   /\ y # Nil => b["right"][y] = pos[n]
                   /\ \A x \in In : KeyOf[x] = k /\ b["left"][n] < pos[x] /\ pos[x] < pos[n]
                                       => y # Nil /\ b["left"][y] < pos[x]}
           left == [y \in P |-> IF y = Nil THEN 0 ELSE b["right"][y] - pos[y]]
           start == t.kid["left"][n]
<1>1. /\ In \in SUBSET Node /\ Cardinality(In) \in Nat /\ Rounds \in Nat
      /\ Cardinality(In) <= Rounds /\ Bin(In) \subseteq Link /\ Nil \notin In
      /\ Nil \in Bin(In)
  BY Counted DEF Shape, Numbered, Bin
<1>2. start \in P
  <2>1. KidFits(t, In, pos, b, n, "left")
    BY <1>1 DEF Shape, Side, Bin
  <2>2. QED
    BY <1>1, <2>1 DEF Shape, KidFits, Between, Numbered, Bin, Dir, Opp, Side
<1>3. ASSUME NEW y \in P PROVE step[y] \in P /\ (step[y] # y => left[step[y]] < left[y])
  <2>1. CASE y = Nil \/ KeyOf[y] = k
    BY <1>1, <1>3, <2>1
  <2>2. CASE ~(y = Nil \/ KeyOf[y] = k)
    <3>1. y \in In /\ step[y] = t.kid["right"][y] /\ KeyOf[y] \in Nat /\ "right" \in Side
      BY <1>1, <2>2, NodeAssumption DEF Side, Bin
    <3>2. KidFits(t, In, pos, b, y, "right")
      BY <1>1, <3>1 DEF Shape, Bin
    <3>3. pos[y] < pos[n]
      BY <1>1, <3>1 DEF Shape, Between
    <3>4. KeyOf[y] < k
      BY <1>1, <2>2, <3>1, <3>3, NodeAssumption DEF Ascending, Shape, Numbered
    <3>5. \A x \in In : KeyOf[x] = k => pos[y] < pos[x]
      BY <1>1, <3>1, <3>4 DEF Ascending
    <3>6. b["right"][y] = pos[n] /\ b["right"][y] \in Nat /\ pos[y] \in Nat /\ pos[y] < b["right"][y]
      BY <1>1, <2>2, <3>1 DEF Shape, Between, Numbered, Side, Bin
    <3>7. CASE step[y] = Nil
      <4>1. b["right"][y] = pos[y] + 1
        BY <3>1, <3>2, <3>7 DEF KidFits, Dir
      <4>2. \A x \in In : ~(KeyOf[x] = k /\ b["left"][n] < pos[x] /\ pos[x] < pos[n])
        <5>1. \A x \in In : pos[x] \in Nat
          BY <1>1 DEF Shape, Numbered, Bin
        <5> HIDE DEF P, left, step, start
        <5> QED BY <3>5, <3>6, <4>1, <5>1
      <4>3. Nil \in P
        BY <1>1, <4>2
      <4>4. left[Nil] = 0 /\ left[y] = b["right"][y] - pos[y]
        BY <2>2, <4>3
      <4>5. left[Nil] < left[y]
        <5> HIDE DEF P, left, step, start
        <5> QED BY <3>6, <4>4
      <4>6. QED
        BY <3>7, <4>3, <4>5
    <3>8. CASE step[y] # Nil
      <4> PICK c : c = step[y]
        OBVIOUS
      <4>1. /\ c \in In /\ b["right"][c] = b["right"][y] /\ b["left"][c] = pos[y]
        BY <3>1, <3>2, <3>8 DEF KidFits, Opp
      <4>2. c \in P
        BY <1>1, <3>5, <3>6, <4>1 DEF Bin
      <4>3. pos[c] \in Nat /\ b["left"][c] < pos[c] /\ b["right"][c] \in Nat
        BY <1>1, <4>1 DEF Shape, Between, Numbered, Side, Bin
      <4>4. left[c] = b["right"][c] - pos[c] /\ left[y] = b["right"][y] - pos[y]
        BY <1>1, <2>2, <3>8, <4>2
      <4>5. left[c] < left[y]
        <5> HIDE DEF P, left, step, start
        <5> QED BY <3>6, <4>1, <4>3, <4>4
      <4>6. QED
        BY <4>2, <4>5
    <3>9. QED
      BY <3>7, <3>8
  <2>3. QED
    BY <2>1, <2>2
<1>4. left \in [P -> Nat]
  BY <1>1 DEF Shape, Between, Numbered, Side, Bin
<1>5. left[start] <= Rounds
  BY <1>1, <1>2 DEF Shape, Between, Numbered, Side, Bin
<1> DEFINE d == Iterate(step, start, Rounds)
<1>6. d \in P /\ step[d] = d
  <2> HIDE DEF step, P, left, start
  <2>1. (\A y \in P : step[y] \in P) /\ (\A y \in P : step[y] # y => left[step[y]] < left[y])
    BY <1>3
  <2> QED BY <2>1, <1>1, <1>2, <1>3, <1>4, <1>5, IterateEnds
<1>7. OnSpine(t, k, start) = d
  BY DEF OnSpine
<1> HIDE DEF d
<1>8. d = Nil \/ KeyOf[d] = k
  <2> SUFFICES ASSUME d \in In, KeyOf[d] # k PROVE FALSE
    BY <1>6 DEF Bin
  <2>1. KidFits(t, In, pos, b, d, "right") /\ "right" \in Side /\ d # Nil /\ t.kid["right"][d] = d
    BY <1>1, <1>6 DEF Shape, Side, Bin
  <2>2. QED
    BY <1>1, <2>1 DEF KidFits, Shape, Between, Numbered, Opp, Side
<1>9. QED
  BY <1>1, <1>6, <1>7, <1>8 DEF Bin, Shape, Between

\* The leftmost node of the key, whatever node of the key is met first.
LEMMA LeftOccurrenceEnds ==
    ASSUME NEW t \in Container, NEW In, NEW pos, NEW b,
           Shape(t, In, pos, b), Ascending(In, pos), NEW k \in Nat, NEW n \in In,
           KeyOf[n] = k,
           \A x \in In : KeyOf[x] = k => b["left"][n] < pos[x]
    PROVE  LET f == LeftOccurrence(t, k, n)
           IN  /\ f \in In /\ KeyOf[f] = k
               /\ \A x \in In : KeyOf[x] = k => pos[f] <= pos[x]
<1> DEFINE step == [y \in Link |-> LET z == OnSpine(t, k, t.kid.left[y])
                                   IN  IF z = Nil THEN y ELSE z]
           P == {y \in In : KeyOf[y] = k /\ \A x \in In : KeyOf[x] = k => b["left"][y] < pos[x]}
           left == [y \in P |-> pos[y]]
<1>1. /\ In \in SUBSET Node /\ Cardinality(In) \in Nat /\ Rounds \in Nat
      /\ Cardinality(In) <= Rounds /\ Bin(In) \subseteq Link /\ Nil \notin In
      /\ Nil \in Bin(In) /\ In \subseteq Link
  BY Counted DEF Shape, Numbered, Bin
<1>2. n \in P
  OBVIOUS
<1>3. ASSUME NEW y \in P
      PROVE  /\ step[y] \in P
             /\ step[y] # y => left[step[y]] < left[y]
             /\ step[y] = y => \A x \in In : KeyOf[x] = k => pos[y] <= pos[x]
  <2> DEFINE z == OnSpine(t, k, t.kid["left"][y])
  <2>1. y \in In /\ KeyOf[y] = k /\ \A x \in In : KeyOf[x] = k => b["left"][y] < pos[x]
    OBVIOUS
  <2>2. step[y] = IF z = Nil THEN y ELSE z
    BY <1>1, <2>1
  <2>3. /\ z \in Bin(In)
        /\ z # Nil => /\ KeyOf[z] = k /\ pos[z] < pos[y]
                      /\ \A x \in In : KeyOf[x] = k /\ b["left"][y] < pos[x] /\ pos[x] < pos[y]
                                          => b["left"][z] < pos[x]
        /\ z = Nil => \A x \in In : KeyOf[x] = k => ~(b["left"][y] < pos[x] /\ pos[x] < pos[y])
    <3> HIDE DEF step, P, left, z
    <3> QED BY <2>1, SpineEnds DEF z
  <2> HIDE DEF z
  <2>4. /\ \A x \in In : pos[x] \in Nat /\ b["left"][x] \in Nat
        /\ \A x \in In : b["left"][x] < pos[x]
    BY <1>1 DEF Shape, Numbered, Between, Side
  <2>5. CASE z = Nil
    BY <2>1, <2>2, <2>3, <2>4, <2>5
  <2>6. CASE z # Nil
    <3>1. z \in In /\ KeyOf[z] = k /\ pos[z] < pos[y]
      BY <2>3, <2>6 DEF Bin
    <3>2. ASSUME NEW x \in In, KeyOf[x] = k PROVE b["left"][z] < pos[x]
      <4>1. b["left"][y] < pos[x]
        BY <2>1, <3>2
      <4>2. CASE pos[x] < pos[y]
        BY <2>3, <2>6, <3>2, <4>1, <4>2
      <4>3. CASE ~(pos[x] < pos[y])
        BY <2>1, <2>4, <3>1, <4>3
      <4>4. QED
        BY <4>2, <4>3
    <3>3. z \in P
      BY <3>1, <3>2
    <3>4. QED
      BY <2>1, <2>2, <2>6, <3>1, <3>3, <2>4
  <2>7. QED
    BY <2>5, <2>6
<1>4. left \in [P -> Nat]
  BY <1>1 DEF Shape, Numbered
<1>5. left[n] <= Rounds
  BY <1>1, <1>2 DEF Shape, Numbered
<1> DEFINE d == Iterate(step, n, Rounds)
<1>6. d \in P /\ step[d] = d
  <2> HIDE DEF step, P, left
  <2>1. (\A y \in P : step[y] \in P) /\ (\A y \in P : step[y] # y => left[step[y]] < left[y])
    BY <1>3
  <2> QED BY <2>1, <1>1, <1>2, <1>3, <1>4, <1>5, IterateEnds
<1>7. LeftOccurrence(t, k, n) = d
  BY DEF LeftOccurrence
<1> HIDE DEF d
<1>8. d \in In /\ KeyOf[d] = k
  BY <1>6
<1>9. \A x \in In : KeyOf[x] = k => pos[d] <= pos[x]
  <2> HIDE DEF step, P, left
  <2> QED BY <1>3, <1>6
<1>10. QED
  BY <1>7, <1>8, <1>9

\* lookup: a node of the key if there is one, the first one with duplicates.
LEMMA TreeLookupEnds ==
    ASSUME NEW t \in Container, NEW In, NEW pos, NEW b,
           Shape(t, In, pos, b), Ascending(In, pos), NEW d \in BOOLEAN, NEW k \in Nat
    PROVE  LET f == TreeLookup(t, d, k)
           IN  /\ f \in Bin(In)
               /\ f # Nil => /\ KeyOf[f] = k
                             /\ d => \A x \in In : KeyOf[x] = k => pos[f] <= pos[x]
               /\ f = Nil => \A x \in In : KeyOf[x] # k
<1> DEFINE n == Find(t, k, Root(t))
<1>1. /\ n \in Bin(In)
      /\ n # Nil => /\ KeyOf[n] = k
                    /\ \A x \in In : KeyOf[x] = k => b["left"][n] < pos[x]
      /\ n = Nil => \A x \in In : KeyOf[x] # k
  BY FindEnds
<1>2. TreeLookup(t, d, k) = IF n # Nil /\ d THEN LeftOccurrence(t, k, n) ELSE n
  BY DEF TreeLookup
<1> HIDE DEF n
<1>3. Nil \notin In
  BY Counted DEF Shape, Numbered
<1>4. CASE n # Nil /\ d
  <2>1. n \in In /\ KeyOf[n] = k /\ \A x \in In : KeyOf[x] = k => b["left"][n] < pos[x]
    BY <1>1, <1>4 DEF Bin
  <2>2. LET f == LeftOccurrence(t, k, n)
        IN  /\ f \in In /\ KeyOf[f] = k
            /\ \A x \in In : KeyOf[x] = k => pos[f] <= pos[x]
    BY <2>1, LeftOccurrenceEnds
  <2>3. QED
    BY <1>2, <1>3, <1>4, <2>2 DEF Bin
<1>5. CASE ~(n # Nil /\ d)
  BY <1>1, <1>2, <1>5
<1>6. QED
  BY <1>4, <1>5

\* lower_bound, in the trees: the first node whose key is not less, and with
\* no duplicates a node of the key if there is one.
LEMMA BoundEnds ==
    ASSUME NEW t \in Container, NEW In, NEW pos, NEW b,
           Shape(t, In, pos, b), Ascending(In, pos), NEW d \in BOOLEAN, NEW k \in Nat
    PROVE  LET f == TreeLowerBound(t, d, k)
           IN  /\ f \in Bin(In)
               /\ f = Nil => \A x \in In : KeyOf[x] < k
               /\ f # Nil => /\ KeyOf[f] >= k
                             /\ (d \/ KeyOf[f] # k) => \A x \in In : KeyOf[x] >= k => pos[f] <= pos[x]
<1> DEFINE step == [x \in Link \X Link |->
                       IF x[1] = Nil THEN x
                       ELSE IF k > KeyOf[x[1]] THEN <<t.kid.right[x[1]], x[2]>>
                       ELSE IF k = KeyOf[x[1]] /\ ~d THEN <<Nil, x[1]>>
                       ELSE <<t.kid.left[x[1]], x[1]>>]
           \* every candidate other than x[2] is in the room of x[1]
           P == {x \in Bin(In) \X Bin(In) :
                   /\ x[2] # Nil => KeyOf[x[2]] >= k
                   /\ x[1] # Nil =>
                        /\ x[2] # Nil => b["right"][x[1]] = pos[x[2]]
                        /\ \A y \in In : KeyOf[y] >= k /\ (x[2] # Nil => pos[y] < pos[x[2]])
                                            => b["left"][x[1]] < pos[y] /\ pos[y] < b["right"][x[1]]
                   /\ x[1] = Nil =>
                        \/ x[2] # Nil /\ KeyOf[x[2]] = k /\ ~d
                        \/ \A y \in In : KeyOf[y] >= k => x[2] # Nil /\ pos[x[2]] <= pos[y]}
           left == [x \in P |-> IF x[1] = Nil THEN 0 ELSE b["right"][x[1]] - b["left"][x[1]] - 1]
           start == <<Root(t), Nil>>
<1>1. /\ In \in SUBSET Node /\ Cardinality(In) \in Nat /\ Rounds \in Nat
      /\ Cardinality(In) <= Rounds /\ Bin(In) \subseteq Link /\ Nil \notin In
      /\ Nil \in Bin(In) /\ In \subseteq Link
  BY Counted DEF Shape, Numbered, Bin
<1>2. /\ \A x \in In : pos[x] \in Nat /\ b["left"][x] \in Nat /\ b["right"][x] \in Nat
      /\ \A x \in In : b["left"][x] < pos[x] /\ pos[x] < b["right"][x]
      /\ \A x \in In : pos[x] >= 1 /\ pos[x] <= Cardinality(In)
      /\ \A x \in In : KeyOf[x] \in Nat
  BY <1>1, NodeAssumption DEF Shape, Numbered, Between, Side
<1>3. start \in P /\ left[start] <= Rounds
  <2>1. KidFits(t, In, pos, b, Nil, "left")
    BY <1>1 DEF Shape, Side
  <2>2. Root(t) \in Bin(In) /\ (Root(t) # Nil => b["right"][Root(t)] = Cardinality(In) + 1
                                                 /\ b["left"][Root(t)] = 0)
    BY <1>1, <2>1 DEF Shape, KidFits, Between, Numbered, Root, Bin, Opp
  <2>3. Root(t) = Nil => Cardinality(In) = 0
    BY <1>1, <2>1 DEF Shape, KidFits, Between, Numbered, Root, Bin, Dir
  <2>4. start \in P
    BY <1>1, <1>2, <2>2, <2>3
  <2>5. QED
    BY <1>1, <2>2, <2>4
<1>4. ASSUME NEW x \in P PROVE step[x] \in P /\ (step[x] # x => left[step[x]] < left[x])
  <2> DEFINE n == x[1]
             r == x[2]
  <2>1. /\ n \in Bin(In) /\ r \in Bin(In) /\ x = <<n, r>>
        /\ r # Nil => KeyOf[r] >= k
        /\ n # Nil =>
              /\ r # Nil => b["right"][n] = pos[r]
              /\ \A y \in In : KeyOf[y] >= k /\ (r # Nil => pos[y] < pos[r])
                                  => b["left"][n] < pos[y] /\ pos[y] < b["right"][n]
    OBVIOUS
  <2>2. step[x] = IF n = Nil THEN x
                  ELSE IF k > KeyOf[n] THEN <<t.kid["right"][n], r>>
                  ELSE IF k = KeyOf[n] /\ ~d THEN <<Nil, n>>
                  ELSE <<t.kid["left"][n], n>>
    BY <1>1
  <2> HIDE DEF step, n, r
  <2>3. CASE n = Nil
    BY <2>2, <2>3
  <2>4. CASE n # Nil /\ k > KeyOf[n]
    <3> DEFINE c == t.kid["right"][n]
    <3>1. n \in In /\ "right" \in Side
      BY <2>1, <2>4 DEF Bin, Side
    <3>2. KidFits(t, In, pos, b, n, "right")
      BY <1>1, <3>1 DEF Shape, Bin
    <3>3. /\ c = Nil => b["right"][n] = pos[n] + 1
          /\ c # Nil => c \in In /\ b["right"][c] = b["right"][n] /\ b["left"][c] = pos[n]
      BY <3>2 DEF KidFits, Opp, Dir
    <3>4. \A y \in In : KeyOf[y] >= k => pos[n] < pos[y]
      BY <1>2, <2>4, <3>1 DEF Ascending
    <3> HIDE DEF c
    <3>5. step[x] = <<c, r>>
      BY <2>2, <2>4 DEF c
    <3>6. CASE c = Nil
      <4>1. \A y \in In : KeyOf[y] >= k => r # Nil /\ pos[r] <= pos[y]
        <5>1. ASSUME NEW y \in In, KeyOf[y] >= k, ~(r # Nil /\ pos[r] <= pos[y]) PROVE FALSE
          <6>1. r # Nil => pos[y] < pos[r]
            BY <1>2, <2>1, <5>1 DEF Bin
          <6>2. pos[n] < pos[y] /\ pos[y] < b["right"][n]
            BY <2>1, <2>4, <3>4, <5>1, <6>1
          <6>3. QED
            BY <1>2, <3>1, <3>3, <3>6, <6>2
        <5>2. QED
          BY <5>1
      <4>2. <<c, r>> \in P
        BY <1>1, <2>1, <3>6, <4>1
      <4>3. QED
        BY <1>2, <2>1, <2>4, <3>1, <3>5, <3>6, <4>2
    <3>7. CASE c # Nil
      <4>1. <<c, r>> \in P
        BY <1>1, <1>2, <2>1, <2>4, <3>1, <3>3, <3>4, <3>7 DEF Bin
      <4>2. QED
        BY <1>2, <2>1, <2>4, <3>1, <3>3, <3>5, <3>7, <4>1
    <3>8. QED
      BY <3>6, <3>7
  <2>5. CASE n # Nil /\ k = KeyOf[n] /\ ~d
    <3>1. n \in In /\ step[x] = <<Nil, n>>
      BY <1>2, <2>1, <2>2, <2>5 DEF Bin
    <3>2. <<Nil, n>> \in P
      BY <1>1, <1>2, <2>5, <3>1 DEF Bin
    <3>3. QED
      BY <1>2, <2>1, <2>5, <3>1, <3>2
  <2>6. CASE n # Nil /\ ~(k > KeyOf[n]) /\ ~(k = KeyOf[n] /\ ~d)
    <3> DEFINE c == t.kid["left"][n]
    <3>1. n \in In /\ "left" \in Side
      BY <2>1, <2>6 DEF Bin, Side
    <3>2. KidFits(t, In, pos, b, n, "left")
      BY <1>1, <3>1 DEF Shape, Bin
    <3>3. /\ c = Nil => b["left"][n] = pos[n] - 1
          /\ c # Nil => c \in In /\ b["left"][c] = b["left"][n] /\ b["right"][c] = pos[n]
      BY <1>2, <3>1, <3>2 DEF KidFits, Opp, Dir
    <3>4. KeyOf[n] >= k
      BY <1>2, <2>6, <3>1
    <3> HIDE DEF c
    <3>5. step[x] = <<c, n>>
      BY <2>2, <2>6 DEF c
    <3>6. \A y \in In : KeyOf[y] >= k /\ pos[y] < pos[n] => b["left"][n] < pos[y]
      <4>1. ASSUME NEW y \in In, KeyOf[y] >= k, pos[y] < pos[n] PROVE b["left"][n] < pos[y]
        <5>1. r # Nil => pos[n] < pos[r]
          BY <1>2, <2>1, <2>6, <3>1
        <5>2. r # Nil => pos[y] < pos[r]
          BY <1>2, <2>1, <3>1, <4>1, <5>1 DEF Bin
        <5>3. QED
          BY <2>1, <2>6, <4>1, <5>2
      <4>2. QED
        BY <4>1
    <3>7. CASE c = Nil
      <4>1. \A y \in In : KeyOf[y] >= k => pos[n] <= pos[y]
        BY <1>2, <3>1, <3>3, <3>6, <3>7
      <4>2. <<c, n>> \in P
        BY <1>1, <2>6, <3>1, <3>4, <3>7, <4>1 DEF Bin
      <4>3. QED
        BY <1>2, <2>1, <2>6, <3>1, <3>5, <3>7, <4>2
    <3>8. CASE c # Nil
      <4>1. <<c, n>> \in P
        BY <1>1, <1>2, <3>1, <3>3, <3>4, <3>6, <3>8 DEF Bin
      <4>2. QED
        BY <1>2, <2>1, <2>6, <3>1, <3>3, <3>5, <3>8, <4>1
    <3>9. QED
      BY <3>7, <3>8
  <2>7. QED
    BY <2>3, <2>4, <2>5, <2>6
<1>5. left \in [P -> Nat]
  BY <1>1, <1>2 DEF Bin
<1> DEFINE e == Iterate(step, start, Rounds)
<1>6. e \in P /\ step[e] = e
  <2> HIDE DEF step, P, left, start
  <2>1. (\A y \in P : step[y] \in P) /\ (\A y \in P : step[y] # y => left[step[y]] < left[y])
    BY <1>4
  <2> QED BY <2>1, <1>1, <1>3, <1>5, IterateEnds
<1>7. TreeLowerBound(t, d, k) = e[2]
  BY DEF TreeLowerBound, BoundFrom
<1> HIDE DEF e
<1>8. e[1] = Nil
  <2> SUFFICES ASSUME e[1] # Nil PROVE FALSE
    OBVIOUS
  <2>1. e \in Link \X Link /\ e[1] \in In
    BY <1>1, <1>6 DEF Bin
  <2>2. \A s \in Side : t.kid[s][e[1]] # e[1]
    <3>1. \A s \in Side : KidFits(t, In, pos, b, e[1], s)
      BY <2>1 DEF Shape, Bin
    <3>2. QED
      BY <1>2, <2>1, <3>1 DEF KidFits, Opp, Side
  <2>3. QED
    BY <1>6, <2>1, <2>2 DEF Side
<1>9. QED
  BY <1>1, <1>2, <1>6, <1>7, <1>8 DEF Bin

\* Where the search for k leaves the tree there is room for it, behind the
\* nodes whose key is not greater.
LEMMA LeavingEnds ==
    ASSUME NEW t \in Container, NEW In, NEW pos, NEW b,
           Shape(t, In, pos, b), Ascending(In, pos), NEW k \in Nat
    PROVE  LET p == Leaving(t, k)
           IN  /\ p \in Bin(In) /\ Way(k, p) \in Side
               /\ t.kid[Way(k, p)][p] = Nil
               /\ \A x \in In : KeyOf[x] <= k <=> pos[x] < pos[p] + IF Way(k, p) = "left" THEN 0 ELSE 1
<1> DEFINE step == [p \in Link |-> LET c == t.kid[Way(k, p)][p] IN IF c = Nil THEN p ELSE c]
           P == {y \in Bin(In) : \A x \in In : /\ pos[x] <= b["left"][y] => KeyOf[x] <= k
                                               /\ pos[x] >= b["right"][y] => k < KeyOf[x]}
           left == [y \in P |-> b["right"][y] - b["left"][y] - 2]
<1>1. /\ In \in SUBSET Node /\ Cardinality(In) \in Nat /\ Rounds \in Nat
      /\ Cardinality(In) <= Rounds /\ Bin(In) \subseteq Link /\ Nil \notin In
      /\ Nil \in Bin(In) /\ In \subseteq Link
  BY Counted DEF Shape, Numbered, Bin
<1>2. /\ \A x \in Bin(In) : pos[x] \in Nat /\ b["left"][x] \in Nat /\ b["right"][x] \in Nat
      /\ \A x \in Bin(In) : b["left"][x] < pos[x] /\ pos[x] < b["right"][x]
      /\ \A x \in In : pos[x] >= 1 /\ pos[x] <= Cardinality(In)
      /\ \A x \in In : KeyOf[x] \in Nat
      /\ b["left"][Nil] = 0 /\ b["right"][Nil] = Cardinality(In) + 2
      /\ pos[Nil] = Cardinality(In) + 1
  BY <1>1, NodeAssumption DEF Shape, Numbered, Between, Side, Bin
<1>3. Nil \in P /\ left[Nil] <= Rounds
  BY <1>1, <1>2 DEF Bin
<1>4. ASSUME NEW y \in P
      PROVE  /\ step[y] \in P /\ (step[y] # y => left[step[y]] < left[y])
             /\ step[y] = y => t.kid[Way(k, y)][y] = Nil
  <2> DEFINE s == Way(k, y)
             c == t.kid[s][y]
  <2>1. y \in Bin(In) /\ s \in Side
    BY DEF Way, Side
  <2>2. KidFits(t, In, pos, b, y, s)
    BY <2>1 DEF Shape
  <2>3. c # Nil => /\ c \in In /\ c # y
                   /\ b["left"][c] = IF s = "left" THEN b["left"][y] ELSE pos[y]
                   /\ b["right"][c] = IF s = "left" THEN pos[y] ELSE b["right"][y]
    BY <1>1, <1>2, <2>1, <2>2 DEF KidFits, Opp, Side
  <2>4. step[y] = IF c = Nil THEN y ELSE c
    BY <1>1, <2>1
  <2>5. s = "left" => \A x \in In : pos[x] >= pos[y] => k < KeyOf[x]
    <3>1. CASE y = Nil
      BY <1>1, <1>2, <3>1 DEF Bin
    <3>2. CASE y # Nil
      <4>1. s = "left" => k < KeyOf[y]
        BY <3>2 DEF Way
      <4>2. QED
        BY <1>1, <1>2, <2>1, <3>2, <4>1 DEF Bin, Ascending
    <3>3. QED
      BY <3>1, <3>2
  <2>6. s # "left" => \A x \in In : pos[x] <= pos[y] => KeyOf[x] <= k
    <3>1. s # "left" => y # Nil /\ ~(k < KeyOf[y])
      BY DEF Way
    <3>2. QED
      BY <1>1, <1>2, <2>1, <3>1 DEF Bin, Ascending
  <2>7. \A x \in In : /\ pos[x] <= b["left"][y] => KeyOf[x] <= k
                      /\ pos[x] >= b["right"][y] => k < KeyOf[x]
    OBVIOUS
  <2> HIDE DEF s, c, step
  <2>8. CASE c = Nil
    BY <2>4, <2>8 DEF c, s
  <2>9. CASE c # Nil
    <3>1. c \in Bin(In)
      BY <2>3, <2>9 DEF Bin
    <3>2. c \in P
      BY <2>3, <2>5, <2>6, <2>7, <2>9, <3>1
    <3>3. left[c] < left[y]
      BY <1>2, <2>1, <2>3, <2>9, <3>1, <3>2
    <3>4. QED
      BY <2>3, <2>4, <2>9, <3>2, <3>3
  <2>10. QED
    BY <2>8, <2>9
<1>5. left \in [P -> Nat]
  BY <1>1, <1>2
<1> DEFINE d == Iterate(step, Nil, Rounds)
<1>6. d \in P /\ step[d] = d
  <2> HIDE DEF step, P, left
  <2>1. (\A y \in P : step[y] \in P) /\ (\A y \in P : step[y] # y => left[step[y]] < left[y])
    BY <1>4
  <2> QED BY <2>1, <1>1, <1>3, <1>5, IterateEnds
<1>7. Leaving(t, k) = d
  BY DEF Leaving
<1>8. t.kid[Way(k, d)][d] = Nil
  <2> HIDE DEF step, P, left, d
  <2> QED BY <1>4, <1>6
<1> HIDE DEF d
<1>9. d \in Bin(In) /\ Way(k, d) \in Side
  BY <1>6 DEF Way, Side
<1>10. b[Way(k, d)][d] = pos[d] + Dir(Way(k, d))
  BY <1>8, <1>9 DEF Shape, KidFits
<1>11. \A x \in In : KeyOf[x] <= k <=> pos[x] < pos[d] + IF Way(k, d) = "left" THEN 0 ELSE 1
  <2> TAKE x \in In
  <2>1. /\ pos[x] <= b["left"][d] => KeyOf[x] <= k
        /\ pos[x] >= b["right"][d] => k < KeyOf[x]
    BY <1>6
  <2>2. CASE Way(k, d) = "left"
    <3>1. b["left"][d] = pos[d] - 1
      BY <1>2, <1>9, <1>10, <2>2 DEF Dir
    <3>2. pos[x] >= pos[d] => k < KeyOf[x]
      <4>1. CASE d = Nil
        BY <1>1, <1>2, <4>1 DEF Bin
      <4>2. CASE d # Nil
        <5>1. k < KeyOf[d]
          BY <2>2, <4>2 DEF Way
        <5>2. QED
          BY <1>1, <1>2, <1>9, <4>2, <5>1 DEF Bin, Ascending
      <4>3. QED
        BY <4>1, <4>2
    <3>3. QED
      BY <1>2, <1>9, <2>1, <2>2, <3>1, <3>2 DEF Bin
  <2>3. CASE Way(k, d) # "left"
    <3>1. b["right"][d] = pos[d] + 1
      BY <1>2, <1>9, <1>10, <2>3 DEF Dir, Side
    <3>2. pos[x] <= pos[d] => KeyOf[x] <= k
      <4>1. d # Nil /\ ~(k < KeyOf[d])
        BY <2>3 DEF Way
      <4>2. QED
        BY <1>1, <1>2, <1>9, <4>1 DEF Bin, Ascending
    <3>3. QED
      BY <1>2, <1>9, <2>1, <2>3, <3>1, <3>2 DEF Bin
  <2>4. QED
    BY <2>2, <2>3
<1>12. QED
  BY <1>7, <1>8, <1>9, <1>11

-----------------------------------------------------------------------------
\* The numbers with n at q, and without n.
Opened(pos, n, q) ==
    [m \in Link |-> IF m = n THEN q ELSE IF pos[m] >= q THEN pos[m] + 1 ELSE pos[m]]
Closed(pos, n) == [m \in Link |-> IF pos[m] > pos[n] THEN pos[m] - 1 ELSE pos[m]]

\* With n at place q the numbers are again those of a row.
LEMMA OpenedNumbers ==
    ASSUME NEW In, NEW pos, Numbered(In, pos), NEW n \in Node \ In,
           NEW q \in 1 .. Cardinality(In) + 1
    PROVE  /\ Numbered(In \cup {n}, Opened(pos, n, q))
           /\ Cardinality(In \cup {n}) = Cardinality(In) + 1
<1> DEFINE N == Cardinality(In)
           open == Opened(pos, n, q)
           In2 == In \cup {n}
<1>1. /\ In \in SUBSET Node /\ N \in Nat /\ IsFiniteSet(In)
      /\ In \subseteq Link /\ Nil \notin In /\ Nil \in Link /\ n # Nil /\ n \in Link
  BY Counted, NodeAssumption DEF Numbered, Bin, Link, Nil
<1>2. Cardinality(In2) = N + 1
  BY <1>1, FS_AddElement
<1>3. \A m \in Link : open[m] = IF m = n THEN q ELSE IF pos[m] >= q THEN pos[m] + 1 ELSE pos[m]
  BY DEF Opened
<1>4. open \in [Link -> Nat]
  BY <1>1 DEF Opened, Numbered
<1> HIDE DEF open, N
<1>5. pos \in [Link -> Nat] /\ pos[Nil] = N + 1 /\ (\A m \in In : pos[m] \in 1 .. N) /\ q \in 1 .. N + 1
  BY DEF Numbered, N
<1>6. open[Nil] = N + 2
  BY <1>1, <1>3, <1>5
<1>7. \A m \in In2 : open[m] \in 1 .. N + 1
  BY <1>1, <1>3, <1>5
<1>8. \A m, x \in In2 : open[m] = open[x] => m = x
  BY <1>1, <1>3, <1>5 DEF Numbered
<1>9. ASSUME NEW i \in 1 .. N + 1 PROVE \E m \in In2 : open[m] = i
  <2>1. CASE i = q
    BY <1>1, <1>3, <2>1
  <2>2. CASE i < q
    <3>1. PICK m \in In : pos[m] = i
      BY <1>1, <1>5, <2>2 DEF Numbered, N
    <3>2. QED
      BY <1>1, <1>3, <1>5, <2>2, <3>1
  <2>3. CASE i > q
    <3>1. i - 1 \in 1 .. N
      BY <1>1, <1>5, <2>3
    <3>2. PICK m \in In : pos[m] = i - 1
      BY <3>1 DEF Numbered, N
    <3>3. QED
      BY <1>1, <1>3, <1>5, <2>3, <3>2
  <2>4. QED
    BY <1>1, <1>5, <2>1, <2>2, <2>3
<1>10. In2 \subseteq Node
  BY <1>1
<1>11. QED
  BY <1>1, <1>2, <1>4, <1>6, <1>7, <1>8, <1>9, <1>10, SMTT(20) DEF Numbered, open, N

\* Without n the numbers are again those of a row.
LEMMA ClosedNumbers ==
    ASSUME NEW In, NEW pos, Numbered(In, pos), NEW n \in In
    PROVE  /\ Numbered(In \ {n}, Closed(pos, n))
           /\ Cardinality(In \ {n}) = Cardinality(In) - 1
           /\ Cardinality(In) >= 1
<1> DEFINE N == Cardinality(In)
           shut == Closed(pos, n)
           In2 == In \ {n}
<1>1. /\ In \in SUBSET Node /\ N \in Nat /\ IsFiniteSet(In)
      /\ In \subseteq Link /\ Nil \notin In /\ Nil \in Link /\ n # Nil /\ n \in Link
  BY Counted, NodeAssumption DEF Numbered, Bin, Link, Nil
<1>2. Cardinality(In2) = N - 1
  BY <1>1, FS_RemoveElement
<1>3. \A m \in Link : shut[m] = IF pos[m] > pos[n] THEN pos[m] - 1 ELSE pos[m]
  BY DEF Closed
<1>4. shut \in [Link -> Nat]
  BY <1>1 DEF Closed, Numbered
<1> HIDE DEF shut, N
<1>5. pos \in [Link -> Nat] /\ pos[Nil] = N + 1 /\ (\A m \in In : pos[m] \in 1 .. N)
  BY DEF Numbered, N
<1>6. shut[Nil] = N /\ N >= 1
  BY <1>1, <1>3, <1>5
<1>7. \A m \in In2 : shut[m] \in 1 .. N - 1
  BY <1>1, <1>3, <1>5 DEF Numbered
<1>8. \A m, x \in In2 : shut[m] = shut[x] => m = x
  BY <1>1, <1>3, <1>5 DEF Numbered
<1>9. ASSUME NEW i \in 1 .. N - 1 PROVE \E m \in In2 : shut[m] = i
  <2>1. CASE i < pos[n]
    <3>1. PICK m \in In : pos[m] = i
      BY <1>1, <1>5 DEF Numbered, N
    <3>2. QED
      BY <1>1, <1>3, <1>5, <2>1, <3>1
  <2>2. CASE i >= pos[n]
    <3>1. i + 1 \in 1 .. N
      BY <1>1, <1>5
    <3>2. PICK m \in In : pos[m] = i + 1
      BY <3>1 DEF Numbered, N
    <3>3. QED
      BY <1>1, <1>3, <1>5, <2>2, <3>2
  <2>3. QED
    BY <1>1, <1>5, <2>1, <2>2
<1>10. In2 \subseteq Node
  BY <1>1
<1>11. QED
  BY <1>1, <1>2, <1>4, <1>6, <1>7, <1>8, <1>9, <1>10 DEF Numbered, shut, N

\* The operators that write links, field by field.
LEMMA SideOpp == \A s \in Side : /\ Opp(s) \in Side /\ Opp(s) # s /\ Opp(Opp(s)) = s
                                 /\ \A r \in Side : r = s \/ r = Opp(s)
BY DEF Side, Opp

\* The links of a container lead to nodes or to the sentinel.
LEMMA Linked ==
    /\ Nil \in Link /\ Node \subseteq Link /\ Nil \notin Node
    /\ \A t \in Container, s \in Side, n \in Link :
          t.kid[s][n] \in Link /\ t.parent[n] \in Link /\ Root(t) \in Link
BY NodeAssumption DEF Link, Nil, Container, Root, Side

\* u is t after one write.
KidWritten(u, t, s, p, c) ==
    /\ u \in Container
    /\ \A r \in Side, m \in Link :
          u.kid[r][m] = IF r = s /\ m = p THEN c ELSE t.kid[r][m]
    /\ u.parent = t.parent /\ u.tag = t.tag /\ u.count = t.count

ParentWritten(u, t, c, p) ==
    /\ u \in Container
    /\ \A m \in Link : u.parent[m] = IF m = c THEN p ELSE t.parent[m]
    /\ u.kid = t.kid /\ u.tag = t.tag /\ u.count = t.count

CountWritten(u, t, i) ==
    /\ u \in Container
    /\ u.kid = t.kid /\ u.parent = t.parent /\ u.tag = t.tag /\ u.count = i

LeafMade(u, t, n) ==
    /\ u \in Container
    /\ \A r \in Side, m \in Link : u.kid[r][m] = IF m = n THEN Nil ELSE t.kid[r][m]
    /\ u.parent = t.parent /\ u.tag = t.tag /\ u.count = t.count

Hung(u, t, s, p, c) ==
    /\ u \in Container
    /\ \A r \in Side, m \in Link :
          u.kid[r][m] = IF r = s /\ m = p THEN c ELSE t.kid[r][m]
    /\ \A m \in Link : u.parent[m] = IF m = c THEN p ELSE t.parent[m]
    /\ u.tag = t.tag /\ u.count = t.count

\* Writing one kid.
LEMMA KidFields ==
    ASSUME NEW t \in Container, NEW s \in Side, NEW p \in Link, NEW c \in Link
    PROVE  KidWritten([t EXCEPT !.kid[s][p] = c], t, s, p, c)
BY DEF Container, KidWritten

\* Writing one parent.
LEMMA ParentFields ==
    ASSUME NEW t \in Container, NEW p \in Link, NEW c \in Link
    PROVE  ParentWritten([t EXCEPT !.parent[c] = p], t, c, p)
BY DEF Container, ParentWritten

\* Writing the count.
LEMMA CountFields ==
    ASSUME NEW t \in Container, NEW i \in Nat
    PROVE  CountWritten([t EXCEPT !.count = i], t, i)
BY DEF Container, CountWritten

\* Taking the kids of a node away.
LEMMA LeafFields ==
    ASSUME NEW t \in Container, NEW n \in Link
    PROVE  LeafMade(Leaf(t, n), t, n)
<1>1. Leaf(t, n) \in Container
  <2>1. [s \in Side |-> [t.kid[s] EXCEPT ![n] = Nil]] \in [Side -> [Link -> Link]]
    BY Linked DEF Container
  <2>2. QED
    BY <2>1 DEF Leaf, Container
<1>2. QED
  BY <1>1 DEF Leaf, Container, LeafMade

\* Hanging c below p writes the kid of one and the parent of the other.
LEMMA HangFields ==
    ASSUME NEW t \in Container, NEW s \in Side, NEW p \in Link, NEW c \in Link
    PROVE  Hung(Hang(t, s, p, c), t, s, p, c)
BY DEF Hang, Container, Hung

\* p has old as a kid.
LEMMA RelinkFields ==
    ASSUME NEW t \in Container, NEW p \in Link, NEW old \in Link, NEW new \in Link,
           NEW s \in Side, t.kid[s][p] = old, t.kid[Opp(s)][p] # old
    PROVE  KidWritten(Relink(t, p, old, new), t, s, p, new)
<1>1. Relink(t, p, old, new) = [t EXCEPT !.kid[s][p] = new]
  BY DEF Relink, Side, Opp
<1>2. QED
  BY <1>1, KidFields

\* u is t with n as a kid of p on side s.
BstInserted(u, t, n, p, s) ==
    /\ u \in Container
    /\ \A r \in Side, m \in Link :
          u.kid[r][m] = IF r = s /\ m = p THEN n
                        ELSE IF m = n THEN Nil ELSE t.kid[r][m]
    /\ \A m \in Link : u.parent[m] = IF m = n THEN p ELSE t.parent[m]
    /\ u.tag = t.tag /\ u.count = t.count + 1

\* usrtc_tree_insert, field by field.
LEMMA BstInsertFields ==
    ASSUME NEW t \in Container, NEW n \in Node,
           NEW p, p = Leaving(t, KeyOf[n]), p \in Link, p # n,
           NEW s, s = Way(KeyOf[n], p)
    PROVE  BstInserted(BstInsert(t, n), t, n, p, s)
<1> DEFINE l == Leaf(t, n)
           h == Hang(l, s, p, n)
           u == [h EXCEPT !.count = h.count + 1]
<1>1. s \in Side /\ n \in Link
  BY Linked DEF Way, Side
<1>2. BstInsert(t, n) = u
  BY DEF BstInsert
<1>3. LeafMade(l, t, n)
  BY <1>1, LeafFields
<1> HIDE DEF l
<1>4. Hung(h, l, s, p, n)
  BY <1>1, <1>3, HangFields DEF LeafMade
<1> HIDE DEF h
<1>5. h \in Container /\ h.count + 1 \in Nat
  BY <1>4 DEF Hung, Container
<1>6. CountWritten(u, h, h.count + 1)
  BY <1>5, CountFields
<1> HIDE DEF u
<1>7. \A q \in Side, m \in Link :
         u.kid[q][m] = IF q = s /\ m = p THEN n ELSE IF m = n THEN Nil ELSE t.kid[q][m]
  BY <1>1, <1>3, <1>4, <1>6 DEF Hung, LeafMade, CountWritten
<1>8. QED
  BY <1>2, <1>3, <1>4, <1>6, <1>7 DEF BstInserted, Hung, LeafMade, CountWritten

\* u is t after the rotation of p and its kid c to side s; g is the parent of
\* p, x the kid that p takes over.
Rotated(u, t, s, c, p, g, r, x) ==
    /\ u \in Container
    /\ \A q \in Side, m \in Link :
          u.kid[q][m] = IF m = g /\ q = r THEN c
                        ELSE IF m = p /\ q = Opp(s) THEN x
                        ELSE IF m = c /\ q = s THEN p
                        ELSE t.kid[q][m]
    /\ \A m \in Link : u.parent[m] = IF m = p THEN c
                                      ELSE IF m = c THEN g
                                      ELSE IF m = x THEN p ELSE t.parent[m]
    /\ u.tag = t.tag /\ u.count = t.count

\* p, the kid of g on side r, takes the kid x of its own kid c.
LEMMA RotateFields ==
    ASSUME NEW t \in Container, NEW s \in Side, NEW c \in Link, NEW p \in Link, NEW r \in Side,
           NEW g, g = t.parent[p], NEW x, x = t.kid[s][c],
           t.kid[Opp(s)][p] = c, t.kid[r][g] = p, t.kid[Opp(r)][g] # p,
           g # p, g # c, c # p, x # c
    PROVE  Rotated(Rotate(t, s, c, p), t, s, c, p, g, r, x)
<1> DEFINE a == Hang(t, Opp(s), p, x)
           lent == [a EXCEPT !.parent[c] = g]
           up == Relink(lent, g, p, c)
           u == Hang(up, s, c, p)
<1>1. g \in Link /\ x \in Link /\ Opp(s) \in Side /\ Opp(s) # s
  BY Linked, SideOpp
<1>2. Rotate(t, s, c, p) = u
  BY DEF Rotate
<1>3. Hung(a, t, Opp(s), p, x)
  BY <1>1, HangFields
<1> HIDE DEF a
<1>4. ParentWritten(lent, a, c, g)
  BY <1>1, <1>3, ParentFields DEF Hung
<1> HIDE DEF lent
<1>5. lent.kid[r][g] = p /\ lent.kid[Opp(r)][g] # p /\ lent \in Container
  BY <1>1, <1>3, <1>4, SideOpp DEF Hung, ParentWritten
<1>6. KidWritten(up, lent, r, g, c)
  BY <1>1, <1>5, RelinkFields
<1> HIDE DEF up
<1>7. Hung(u, up, s, c, p)
  BY <1>6, HangFields DEF KidWritten
<1> HIDE DEF u
<1>8. u \in Container /\ u.tag = t.tag /\ u.count = t.count
  BY <1>3, <1>4, <1>6, <1>7 DEF Hung, ParentWritten, KidWritten
<1>9. \A q \in Side, m \in Link :
         u.kid[q][m] = IF m = g /\ q = r THEN c
                       ELSE IF m = p /\ q = Opp(s) THEN x
                       ELSE IF m = c /\ q = s THEN p
                       ELSE t.kid[q][m]
  BY <1>1, <1>3, <1>4, <1>6, <1>7 DEF Hung, ParentWritten, KidWritten
<1>10. \A m \in Link : u.parent[m] = IF m = p THEN c
                                      ELSE IF m = c THEN g
                                      ELSE IF m = x THEN p ELSE t.parent[m]
  BY <1>1, <1>3, <1>4, <1>6, <1>7 DEF Hung, ParentWritten, KidWritten
<1>11. QED
  BY <1>2, <1>8, <1>9, <1>10 DEF Rotated

-----------------------------------------------------------------------------
\* What Shape says of the numbers, for use in arithmetic.
LEMMA ShapeNumbers ==
    ASSUME NEW t, NEW In, NEW pos, NEW b, Shape(t, In, pos, b)
    PROVE  /\ In \in SUBSET Node /\ Cardinality(In) \in Nat
           /\ Bin(In) \subseteq Link /\ In \subseteq Bin(In)
           /\ Nil \in Bin(In) /\ Nil \notin In /\ Nil \in Link
           /\ \A m \in Bin(In) : m \in In \/ m = Nil
           /\ "left" \in Side /\ "right" \in Side
           /\ \A m \in Bin(In) : /\ pos[m] \in Nat /\ pos[m] >= 1 /\ pos[m] <= Cardinality(In) + 1
                                 /\ b["left"][m] \in Nat /\ b["right"][m] \in Nat
                                 /\ b["left"][m] < pos[m] /\ pos[m] < b["right"][m]
           /\ \A m \in In : pos[m] <= Cardinality(In) /\ b["right"][m] <= Cardinality(In) + 1
           /\ pos[Nil] = Cardinality(In) + 1
           /\ b["left"][Nil] = 0 /\ b["right"][Nil] = Cardinality(In) + 2
           /\ \A m, x \in Bin(In) : pos[m] = pos[x] => m = x
<1>1. /\ In \in SUBSET Node /\ Cardinality(In) \in Nat
      /\ Bin(In) \subseteq Link /\ Nil \notin In
  BY Counted DEF Shape, Numbered
<1>2. QED
  BY <1>1 DEF Shape, Numbered, Between, Bin, Side, Link

\* Where n stands, as a kid of p on side s.
LEMMA KidPlace ==
    ASSUME NEW t, NEW In, NEW pos, NEW b, Shape(t, In, pos, b),
           NEW n \in In, NEW p \in Bin(In), NEW s \in Side, t.kid[s][p] = n
    PROVE  /\ t.parent[n] = p /\ p # n /\ t.kid[Opp(s)][p] # n
           /\ b[s][n] = b[s][p] /\ b[Opp(s)][n] = pos[p]
           /\ \A v \in Side : /\ t.kid[v][n] # n
                              /\ t.kid[v][n] \in Bin(In)
                              /\ t.kid[v][n] # Nil => t.kid[v][n] # p
<1>1. /\ Nil \notin In /\ In \subseteq Bin(In) /\ n \in Bin(In)
      /\ \A m \in Bin(In) : /\ pos[m] \in Nat /\ b["left"][m] \in Nat /\ b["right"][m] \in Nat
                            /\ b["left"][m] < pos[m] /\ pos[m] < b["right"][m]
  BY ShapeNumbers
<1>2. KidFits(t, In, pos, b, p, s) /\ KidFits(t, In, pos, b, p, Opp(s))
  BY SideOpp DEF Shape
<1>3. t.parent[n] = p /\ b[s][n] = b[s][p] /\ b[Opp(s)][n] = pos[p]
  BY <1>1, <1>2 DEF KidFits
<1>4. t.kid[Opp(s)][p] = n => b[s][n] = pos[p]
  BY <1>1, <1>2, SideOpp DEF KidFits
<1>5. p # n /\ t.kid[Opp(s)][p] # n
  BY <1>1, <1>3, <1>4 DEF Side, Opp
<1>6. ASSUME NEW v \in Side
      PROVE  /\ t.kid[v][n] # n /\ t.kid[v][n] \in Bin(In)
             /\ t.kid[v][n] # Nil => t.kid[v][n] # p
  <2>1. KidFits(t, In, pos, b, n, v)
    BY <1>1 DEF Shape
  <2>2. QED
    BY <1>1, <1>3, <2>1 DEF KidFits, Bin, Side, Opp
<1>7. QED
  BY <1>3, <1>5, <1>6

\* A leaf hung where a kid was missing: the tree has its shape, with the new
\* node at the place of the gap.
LEMMA InsertFits ==
    ASSUME NEW t \in Container, NEW In, NEW pos, NEW b, Shape(t, In, pos, b),
           NEW n \in Node \ In, NEW p \in Bin(In), NEW s \in Side, t.kid[s][p] = Nil,
           p = Nil => s = "left",
           NEW u, BstInserted(u, t, n, p, s),
           NEW q, q = pos[p] + IF s = "left" THEN 0 ELSE 1
    PROVE  /\ q \in 1 .. Cardinality(In) + 1
           /\ \E b2 : Shape(u, In \cup {n}, Opened(pos, n, q), b2)
<1> DEFINE N == Cardinality(In)
           In2 == In \cup {n}
           open == Opened(pos, n, q)
           b2 == [r \in Side |-> [m \in Link |->
                    IF m = n THEN IF r = "left" THEN q - 1 ELSE q + 1
                    ELSE IF b[r][m] >= q THEN b[r][m] + 1 ELSE b[r][m]]]
<1>1. /\ In \in SUBSET Node /\ N \in Nat
      /\ Bin(In) \subseteq Link /\ In \subseteq Bin(In)
      /\ Nil \in Bin(In) /\ Nil \notin In /\ Nil \in Link
      /\ \A m \in Bin(In) : m \in In \/ m = Nil
      /\ "left" \in Side /\ "right" \in Side
      /\ \A m \in Bin(In) : /\ pos[m] \in Nat /\ pos[m] >= 1 /\ pos[m] <= N + 1
                            /\ b["left"][m] \in Nat /\ b["right"][m] \in Nat
                            /\ b["left"][m] < pos[m] /\ pos[m] < b["right"][m]
      /\ \A m \in In : pos[m] <= N /\ b["right"][m] <= N + 1
      /\ pos[Nil] = N + 1
      /\ b["left"][Nil] = 0 /\ b["right"][Nil] = N + 2
      /\ \A m, x \in Bin(In) : pos[m] = pos[x] => m = x
  BY ShapeNumbers
<1>2. n \in Link /\ n # Nil /\ n \notin Bin(In) /\ n # p
  BY <1>1, Linked DEF Bin
<1> HIDE DEF N
<1>3. q \in 1 .. N + 1
  BY <1>1 DEF Side
<1>4. Numbered(In2, open) /\ Cardinality(In2) = N + 1
  BY <1>3, OpenedNumbers DEF Shape, N
<1>5. \A m \in Link : open[m] = IF m = n THEN q ELSE IF pos[m] >= q THEN pos[m] + 1 ELSE pos[m]
  BY DEF Opened
<1>6. \A r \in Side, m \in Link : b2[r][m] = IF m = n THEN IF r = "left" THEN q - 1 ELSE q + 1
                                             ELSE IF b[r][m] >= q THEN b[r][m] + 1 ELSE b[r][m]
  OBVIOUS
<1>7. b2 \in [Side -> [Link -> Nat]]
  BY <1>1, <1>3 DEF Shape, Between
<1>8. Between(In2, open, b2)
  <2> HIDE DEF b2, open, In2
  <2>1. b2["left"][Nil] = 0 /\ b2["right"][Nil] = N + 3
    BY <1>1, <1>2, <1>3, <1>6
  <2>2. \A m \in In2 : /\ b2["left"][m] < open[m] /\ open[m] < b2["right"][m]
                       /\ b2["right"][m] <= N + 2
    BY <1>1, <1>2, <1>3, <1>5, <1>6 DEF In2
  <2>3. QED
    BY <1>1, <1>4, <1>7, <2>1, <2>2 DEF Between
<1>9. /\ \A r \in Side, m \in Link :
            u.kid[r][m] = IF r = s /\ m = p THEN n ELSE IF m = n THEN Nil ELSE t.kid[r][m]
      /\ \A m \in Link : u.parent[m] = IF m = n THEN p ELSE t.parent[m]
  BY DEF BstInserted
<1>10. \A m \in Bin(In), r \in Side : t.kid[r][m] = Nil /\ ~(m = p /\ r = s)
                                   => b2[r][m] = open[m] + Dir(r)
  <2> SUFFICES ASSUME NEW m \in Bin(In), NEW r \in Side, t.kid[r][m] = Nil, ~(m = p /\ r = s)
               PROVE  b2[r][m] = open[m] + Dir(r)
    OBVIOUS
  <2>1. b[r][m] = pos[m] + Dir(r)
    BY DEF Shape, KidFits
  <2>2. CASE r = "right" /\ pos[m] = q - 1
    <3>1. m \in In
      BY <1>1, <1>3, <2>2
    <3>2. CASE s = "left"
      <4>1. pos[p] = pos[m] + 1
        BY <1>1, <2>2, <3>2
      <4>2. t.kid["left"][p] # Nil
        BY <2>2, <3>1, <4>1, Gap
      <4>3. QED
        BY <3>2, <4>2
    <3>3. CASE s = "right"
      BY <1>1, <2>2, <3>3
    <3>4. QED
      BY <3>2, <3>3 DEF Side
  <2>3. CASE r = "left" /\ pos[m] = q
    <3>1. CASE s = "right"
      <4>1. p \in In
        BY <1>1, <3>1
      <4>2. pos[m] = pos[p] + 1
        BY <1>1, <2>3, <3>1
      <4>3. t.kid["right"][p] # Nil
        BY <2>3, <4>1, <4>2, Gap
      <4>4. QED
        BY <3>1, <4>3
    <3>2. CASE s = "left"
      BY <1>1, <2>3, <3>2
    <3>3. QED
      BY <3>1, <3>2 DEF Side
  <2>4. CASE ~(r = "right" /\ pos[m] = q - 1) /\ ~(r = "left" /\ pos[m] = q)
    <3> HIDE DEF b2, open
    <3>1. m \in Link /\ m # n
      BY <1>1, <1>2
    <3>2. b2[r][m] = IF b[r][m] >= q THEN b[r][m] + 1 ELSE b[r][m]
      BY <1>6, <3>1
    <3>3. open[m] = IF pos[m] >= q THEN pos[m] + 1 ELSE pos[m]
      BY <1>5, <3>1
    <3>4. CASE r = "left"
      BY <1>1, <1>3, <2>1, <2>4, <3>2, <3>3, <3>4 DEF Dir
    <3>5. CASE r = "right"
      BY <1>1, <1>3, <2>1, <2>4, <3>2, <3>3, <3>5 DEF Dir
    <3>6. QED
      BY <3>4, <3>5 DEF Side
  <2>5. QED
    BY <2>2, <2>3, <2>4
<1> HIDE DEF b2, open
<1>11. \A m \in Bin(In2), r \in Side : KidFits(u, In2, open, b2, m, r)
  <2> SUFFICES ASSUME NEW m \in Bin(In2), NEW r \in Side
               PROVE  KidFits(u, In2, open, b2, m, r)
    OBVIOUS
  <2>1. m \in Bin(In) \/ m = n
    BY DEF Bin
  <2>2. CASE m = n
    <3>1. u.kid[r][m] = Nil
      BY <1>2, <1>9, <2>2
    <3>2. b2[r][m] = open[m] + Dir(r)
      BY <1>2, <1>3, <1>5, <1>6, <2>2 DEF Dir, Side
    <3>3. QED
      BY <3>1, <3>2 DEF KidFits
  <2>3. CASE m = p /\ r = s
    <3>1. u.kid[r][m] = n /\ u.parent[n] = m /\ n \in In2
      BY <1>1, <1>2, <1>9, <2>3
    <3>2. b[s][p] = pos[p] + Dir(s)
      BY DEF Shape, KidFits
    <3>3. p \in Link /\ n # p
      BY <1>1, <1>2
    <3>4. b2[r][n] = b2[r][m] /\ b2[Opp(r)][n] = open[m]
      BY <1>1, <1>2, <1>3, <1>5, <1>6, <2>3, <3>2, <3>3 DEF Dir, Side, Opp
    <3>5. QED
      BY <1>2, <3>1, <3>4 DEF KidFits
  <2>4. CASE m \in Bin(In) /\ ~(m = p /\ r = s)
    <3> DEFINE c == t.kid[r][m]
    <3>1. m \in Link /\ m # n
      BY <1>1, <1>2, <2>4
    <3>2. u.kid[r][m] = c
      BY <1>9, <2>4, <3>1
    <3>3. KidFits(t, In, pos, b, m, r)
      BY <2>4 DEF Shape
    <3>4. CASE c = Nil
      BY <1>10, <2>4, <3>2, <3>4 DEF KidFits
    <3>5. CASE c # Nil
      <4>1. c \in In /\ t.parent[c] = m /\ b[r][c] = b[r][m] /\ b[Opp(r)][c] = pos[m]
        BY <3>3, <3>5 DEF KidFits
      <4> HIDE DEF c
      <4>2. c \in Link /\ c # n /\ Opp(r) \in Side /\ c \in In2
        BY <1>1, <4>1, SideOpp
      <4>3. u.parent[c] = m
        BY <1>9, <4>1, <4>2
      <4>4. b2[r][c] = b2[r][m] /\ b2[Opp(r)][c] = open[m]
        BY <1>5, <1>6, <3>1, <4>1, <4>2
      <4>5. QED
        BY <3>2, <3>5, <4>2, <4>3, <4>4 DEF KidFits
    <3>6. QED
      BY <3>4, <3>5
  <2>5. QED
    BY <2>1, <2>2, <2>3, <2>4
<1>12. ASSUME NEW m \in In2 PROVE u.parent[m] \in Bin(In2) /\ \E r \in Side : u.kid[r][u.parent[m]] = m
  <2>1. CASE m = n
    BY <1>1, <1>2, <1>9, <2>1 DEF Bin
  <2>2. CASE m \in In
    <3>1. u.parent[m] = t.parent[m] /\ t.parent[m] \in Bin(In)
      BY <1>1, <1>2, <1>9, <2>2 DEF Shape
    <3>2. PICK r \in Side : t.kid[r][t.parent[m]] = m
      BY <2>2 DEF Shape
    <3>3. ~(r = s /\ t.parent[m] = p) /\ t.parent[m] # n /\ t.parent[m] \in Link
      BY <1>1, <1>2, <2>2, <3>1, <3>2
    <3>4. u.kid[r][u.parent[m]] = m
      BY <1>9, <3>1, <3>2, <3>3
    <3>5. QED
      BY <3>1, <3>4 DEF Bin
  <2>3. QED
    BY <2>1, <2>2
<1>13. QED
  BY <1>3, <1>4, <1>8, <1>11, <1>12 DEF Shape, N, open

-----------------------------------------------------------------------------
\* n, the kid of p on side s, is out, and c stands where it stood.
Unlinked(u, t, p, s, c) ==
    /\ u \in Container
    /\ \A r \in Side, m \in Link : u.kid[r][m] = IF r = s /\ m = p THEN c ELSE t.kid[r][m]
    /\ \A m \in Link : u.parent[m] = IF m = c THEN p ELSE t.parent[m]
    /\ u.tag = t.tag /\ u.count = t.count - 1

\* usrtc_tree_delete of a node that lacks a kid, field by field.
LEMMA UnlinkFields ==
    ASSUME NEW t \in Container, NEW n \in Link, NEW c \in Link, NEW p, p = t.parent[n],
           NEW s \in Side, t.kid[s][p] = n, t.kid[Opp(s)][p] # n, t.count >= 1
    PROVE  Unlinked([Relink(t, p, n, c) EXCEPT !.parent[c] = p, !.count = @ - 1], t, p, s, c)
<1> DEFINE h == Relink(t, p, n, c)
           g == [h EXCEPT !.parent[c] = p]
           u == [g EXCEPT !.count = g.count - 1]
<1>1. p \in Link
  BY Linked
<1>2. KidWritten(h, t, s, p, c)
  BY <1>1, RelinkFields
<1>3. [Relink(t, p, n, c) EXCEPT !.parent[c] = p, !.count = @ - 1] = u
  OBVIOUS
<1> HIDE DEF h
<1>4. ParentWritten(g, h, c, p)
  BY <1>1, <1>2, ParentFields DEF KidWritten
<1> HIDE DEF g
<1>5. g \in Container /\ g.count - 1 \in Nat
  <2>1. g \in Container /\ g.count = t.count /\ t.count \in Nat
    BY <1>2, <1>4 DEF KidWritten, ParentWritten, Container
  <2>2. QED
    BY <2>1
<1>6. CountWritten(u, g, g.count - 1)
  BY <1>5, CountFields
<1> HIDE DEF u
<1>7. Unlinked(u, t, p, s, c)
  BY <1>2, <1>4, <1>6 DEF KidWritten, ParentWritten, CountWritten, Unlinked
<1>8. QED
  BY <1>3, <1>7

\* Taking out a node that lacks a kid leaves a tree, and the others in their
\* order.
LEMMA UnlinkFits ==
    ASSUME NEW t \in Container, NEW In, NEW pos, NEW b, Shape(t, In, pos, b),
           NEW n \in In, NEW p, p = t.parent[n], NEW s \in Side, t.kid[s][p] = n,
           NEW v \in Side, t.kid[v][n] = Nil, NEW c, c = t.kid[Opp(v)][n],
           NEW u, Unlinked(u, t, p, s, c)
    PROVE  \E b2 : Shape(u, In \ {n}, Closed(pos, n), b2)
<1> DEFINE N == Cardinality(In)
           In2 == In \ {n}
           shut == Closed(pos, n)
           q == pos[n]
           b2 == [r \in Side |-> [m \in Link |->
                    IF b[r][m] > q \/ (r = "left" /\ b[r][m] = q) THEN b[r][m] - 1 ELSE b[r][m]]]
<1>1. /\ In \in SUBSET Node /\ N \in Nat
      /\ Bin(In) \subseteq Link /\ In \subseteq Bin(In)
      /\ Nil \in Bin(In) /\ Nil \notin In /\ Nil \in Link
      /\ \A m \in Bin(In) : m \in In \/ m = Nil
      /\ "left" \in Side /\ "right" \in Side
      /\ \A m \in Bin(In) : /\ pos[m] \in Nat /\ pos[m] >= 1 /\ pos[m] <= N + 1
                            /\ b["left"][m] \in Nat /\ b["right"][m] \in Nat
                            /\ b["left"][m] < pos[m] /\ pos[m] < b["right"][m]
      /\ \A m \in In : pos[m] <= N /\ b["right"][m] <= N + 1
      /\ pos[Nil] = N + 1
      /\ b["left"][Nil] = 0 /\ b["right"][Nil] = N + 2
      /\ \A m, x \in Bin(In) : pos[m] = pos[x] => m = x
  BY ShapeNumbers
<1>2. Numbered(In2, shut) /\ Cardinality(In2) = N - 1 /\ N >= 1
  BY ClosedNumbers DEF Shape
<1>3. \A m \in Link : shut[m] = IF pos[m] > q THEN pos[m] - 1 ELSE pos[m]
  BY DEF Closed
<1>4. \A r \in Side, m \in Link : b2[r][m] =
         IF b[r][m] > q \/ (r = "left" /\ b[r][m] = q) THEN b[r][m] - 1 ELSE b[r][m]
  OBVIOUS
<1>5. b2 \in [Side -> [Link -> Nat]]
  BY <1>1 DEF Shape, Between
<1>6. /\ \A r \in Side, m \in Link : u.kid[r][m] = IF r = s /\ m = p THEN c ELSE t.kid[r][m]
      /\ \A m \in Link : u.parent[m] = IF m = c THEN p ELSE t.parent[m]
  BY DEF Unlinked
<1> HIDE DEF N, shut, b2
<1>7. Between(In2, shut, b2)
  <2>1. b2["left"][Nil] = 0 /\ b2["right"][Nil] = N + 1
    BY <1>1, <1>4
  <2>2. \A m \in In2 : /\ b2["left"][m] < shut[m] /\ shut[m] < b2["right"][m]
                       /\ b2["right"][m] <= N
    BY <1>1, <1>3, <1>4
  <2>3. Cardinality(In2) + 2 = N + 1 /\ Cardinality(In2) + 1 = N
    BY <1>1, <1>2
  <2>4. QED
    BY <1>5, <2>1, <2>2, <2>3 DEF Between
\* where things stand around n
<1>8. /\ p \in Bin(In) /\ p # n /\ b[s][n] = b[s][p] /\ b[Opp(s)][n] = pos[p]
      /\ t.kid[Opp(s)][p] # n
  <2>1. p \in Bin(In)
    BY DEF Shape
  <2>2. KidFits(t, In, pos, b, p, s) /\ KidFits(t, In, pos, b, p, Opp(s))
    BY <2>1, SideOpp DEF Shape
  <2>3. n # Nil
    BY <1>1
  <2>4. b[s][n] = b[s][p] /\ b[Opp(s)][n] = pos[p]
    BY <2>2, <2>3 DEF KidFits
  <2>5. t.kid[Opp(s)][p] = n => b[s][n] = pos[p]
    BY <2>2, <2>3, SideOpp DEF KidFits
  <2>6. QED
    BY <1>1, <2>1, <2>4, <2>5 DEF Side, Opp
<1>9. b[v][n] = pos[n] + Dir(v)
  BY <1>1 DEF Shape, KidFits
<1>10. \/ c = Nil /\ b[Opp(v)][n] = pos[n] + Dir(Opp(v))
       \/ /\ c \in In /\ c # Nil /\ t.parent[c] = n
          /\ b[Opp(v)][c] = b[Opp(v)][n] /\ b[v][c] = pos[n]
  <2>1. Opp(v) \in Side /\ Opp(Opp(v)) = v /\ n \in Bin(In)
    BY <1>1, SideOpp
  <2>2. KidFits(t, In, pos, b, n, Opp(v))
    BY <2>1 DEF Shape
  <2>3. QED
    BY <2>1, <2>2 DEF KidFits
<1>11. c # n /\ (c # Nil => c # p)
  BY <1>1, <1>8, <1>10 DEF Side, Opp
<1>12. ASSUME NEW m \in Bin(In2), NEW r \in Side PROVE KidFits(u, In2, shut, b2, m, r)
  <2>1. m \in Bin(In) /\ m # n /\ m \in Link
    BY <1>1 DEF Bin
  <2>2. KidFits(t, In, pos, b, m, r)
    BY <2>1 DEF Shape
  <2>3. CASE m = p /\ r = s
    <3>1. u.kid[r][m] = c
      BY <1>6, <2>1, <2>3
    <3>2. CASE c = Nil
      <4>1. b[Opp(v)][n] = pos[n] + Dir(Opp(v)) /\ b[v][n] = pos[n] + Dir(v)
        BY <1>1, <1>9, <1>10, <3>2
      <4>2. b[s][n] = pos[n] + Dir(s) /\ b[Opp(s)][n] = pos[n] + Dir(Opp(s))
        BY <4>1 DEF Side, Opp
      <4>3. b2[s][p] = shut[p] + Dir(s)
        <5>1. p \in Link
          BY <2>1, <2>3
        <5>2. CASE s = "left"
          <6>1. b["left"][p] = q - 1 /\ pos[p] = q + 1
            BY <1>1, <1>8, <4>2, <5>2 DEF Opp, Dir
          <6>2. QED
            BY <1>1, <1>3, <1>4, <5>1, <5>2, <6>1 DEF Dir
        <5>3. CASE s = "right"
          <6>1. b["right"][p] = q + 1 /\ pos[p] = q - 1
            BY <1>1, <1>8, <4>2, <5>3 DEF Opp, Dir
          <6>2. QED
            BY <1>1, <1>3, <1>4, <5>1, <5>3, <6>1 DEF Dir
        <5>4. QED
          BY <5>2, <5>3 DEF Side
      <4>4. QED
        BY <2>3, <3>1, <3>2, <4>3 DEF KidFits
    <3>3. CASE c # Nil
      <4>1. c \in In2 /\ c \in Link /\ u.parent[c] = m
        BY <1>1, <1>6, <1>10, <1>11, <2>3, <3>3
      <4>2. b[Opp(v)][c] = b[Opp(v)][n] /\ b[v][c] = pos[n]
        BY <1>10, <3>3
      <4>3. p \in Link
        BY <2>1, <2>3
      <4>4. b2[s][c] = b2[s][p] /\ b2[Opp(s)][c] = shut[p]
        <5>1. CASE v = "left" /\ s = "left"
          BY <1>1, <1>3, <1>4, <1>8, <1>9, <4>1, <4>2, <4>3, <5>1 DEF Opp, Dir
        <5>2. CASE v = "left" /\ s = "right"
          BY <1>1, <1>3, <1>4, <1>8, <1>9, <4>1, <4>2, <4>3, <5>2 DEF Opp, Dir
        <5>3. CASE v = "right" /\ s = "left"
          BY <1>1, <1>3, <1>4, <1>8, <1>9, <4>1, <4>2, <4>3, <5>3 DEF Opp, Dir
        <5>4. CASE v = "right" /\ s = "right"
          BY <1>1, <1>3, <1>4, <1>8, <1>9, <4>1, <4>2, <4>3, <5>4 DEF Opp, Dir
        <5>5. QED
          BY <5>1, <5>2, <5>3, <5>4 DEF Side
      <4>5. QED
        BY <2>3, <3>1, <3>3, <4>1, <4>4 DEF KidFits
    <3>4. QED
      BY <3>2, <3>3
  <2>4. CASE ~(m = p /\ r = s)
    <3> DEFINE k == t.kid[r][m]
    <3>1. u.kid[r][m] = k
      BY <1>6, <2>1, <2>4
    <3>2. CASE k = Nil
      <4>1. b[r][m] = pos[m] + Dir(r)
        BY <2>2, <3>2 DEF KidFits
      <4>2. pos[m] # q
        BY <1>1, <2>1
      <4>3. b2[r][m] = shut[m] + Dir(r)
        BY <1>1, <1>3, <1>4, <2>1, <4>1, <4>2 DEF Side, Dir
      <4>4. QED
        BY <3>1, <3>2, <4>3 DEF KidFits
    <3>3. CASE k # Nil
      <4>1. k \in In /\ t.parent[k] = m /\ b[r][k] = b[r][m] /\ b[Opp(r)][k] = pos[m]
        BY <2>2, <3>3 DEF KidFits
      <4> HIDE DEF k
      <4>2. k # n
        <5>1. k = n => m = p
          BY <4>1
        <5>2. k = n => r = Opp(s)
          BY <2>4, <5>1, SideOpp
        <5>3. QED
          BY <1>8, <5>1, <5>2 DEF k
      <4>3. k # c
        <5>1. c # Nil => t.parent[c] = n
          BY <1>10
        <5>2. QED
          BY <2>1, <3>3, <4>1, <5>1
      <4>4. k \in In2 /\ k \in Link /\ u.parent[k] = m
        BY <1>1, <1>6, <4>1, <4>2, <4>3
      <4>5. pos[m] # q
        BY <1>1, <2>1
      <4>6. b2[r][k] = b2[r][m] /\ b2[Opp(r)][k] = shut[m]
        BY <1>1, <1>3, <1>4, <2>1, <4>1, <4>4, <4>5 DEF Side, Opp
      <4>7. QED
        BY <3>1, <3>3, <4>4, <4>6 DEF KidFits
    <3>4. QED
      BY <3>2, <3>3
  <2>5. QED
    BY <2>3, <2>4
<1>13. ASSUME NEW m \in In2 PROVE u.parent[m] \in Bin(In2) /\ \E r \in Side : u.kid[r][u.parent[m]] = m
  <2>1. m \in In /\ m # n /\ m # Nil /\ m \in Link
    BY <1>1
  <2>2. CASE m = c
    <3>1. u.parent[m] = p /\ p \in Bin(In2) /\ p \in Link
      BY <1>1, <1>6, <1>8, <2>1, <2>2 DEF Bin
    <3>2. u.kid[s][p] = m
      BY <1>6, <2>2, <3>1
    <3>3. QED
      BY <3>1, <3>2
  <2>3. CASE m # c
    <3>1. u.parent[m] = t.parent[m] /\ t.parent[m] \in Bin(In) /\ t.parent[m] \in Link
      BY <1>1, <1>6, <2>1, <2>3 DEF Shape
    <3>2. PICK r \in Side : t.kid[r][t.parent[m]] = m
      BY <2>1 DEF Shape
    <3>3. t.parent[m] # n
      <4>1. t.parent[m] = n => r = v \/ r = Opp(v)
        BY SideOpp
      <4>2. QED
        BY <2>1, <2>3, <3>2, <4>1
    <3>4. ~(r = s /\ t.parent[m] = p)
      BY <2>1, <3>2
    <3>5. u.kid[r][u.parent[m]] = m
      BY <1>6, <3>1, <3>2, <3>4
    <3>6. QED
      BY <3>1, <3>3, <3>5 DEF Bin
  <2>4. QED
    BY <2>2, <2>3
<1>14. QED
  BY <1>2, <1>7, <1>12, <1>13 DEF Shape, shut

\* w, which is out, stands where n stood.
Replaced(u, t, n, w, p, s, l, r) ==
    /\ u \in Container
    /\ \A q \in Side, m \in Link :
          u.kid[q][m] = IF q = s /\ m = p THEN w
                        ELSE IF m = w THEN IF q = "left" THEN l ELSE r
                        ELSE t.kid[q][m]
    /\ \A m \in Link : u.parent[m] = IF m = l \/ m = r THEN w
                                      ELSE IF m = w THEN p ELSE t.parent[m]
    /\ u.tag = t.tag /\ u.count = t.count

\* usrtc_tree_delete of a node with two kids, field by field: its successor is
\* unlinked and takes over its links.
LEMMA ReplaceFields ==
    ASSUME NEW t \in Container, NEW n \in Link, NEW w \in Link, NEW p \in Link,
           NEW s \in Side, t.kid[s][p] = n, t.kid[Opp(s)][p] # n, w # p,
           NEW l, l = t.kid["left"][n], NEW r, r = t.kid["right"][n], l # w, r # w
    PROVE  Replaced(Relink(Hang(Hang([t EXCEPT !.parent[w] = p], "left", w, l),
                                "right", w, r), p, n, w),
                    t, n, w, p, s, l, r)
<1> DEFINE a == [t EXCEPT !.parent[w] = p]
           c == Hang(a, "left", w, l)
           d == Hang(c, "right", w, r)
           u == Relink(d, p, n, w)
<1>1. "left" \in Side /\ "right" \in Side /\ l \in Link /\ r \in Link
  BY Linked DEF Side
<1>2. ParentWritten(a, t, w, p)
  BY ParentFields
<1>3. Relink(Hang(Hang([t EXCEPT !.parent[w] = p], "left", w, l), "right", w, r), p, n, w) = u
  OBVIOUS
<1> HIDE DEF a
<1>4. Hung(c, a, "left", w, l)
  BY <1>1, <1>2, HangFields DEF ParentWritten
<1> HIDE DEF c
<1>5. Hung(d, c, "right", w, r)
  <2>1. c \in Container
    BY <1>4 DEF Hung
  <2>2. QED
    BY <1>1, <2>1, HangFields
<1> HIDE DEF d
<1>6. d \in Container /\ d.kid[s][p] = n /\ d.kid[Opp(s)][p] # n
  BY <1>2, <1>4, <1>5, SideOpp DEF Hung, ParentWritten
<1>7. KidWritten(u, d, s, p, w)
  BY <1>6, RelinkFields
<1> HIDE DEF u
<1>8. \A q \in Side, m \in Link :
         u.kid[q][m] = IF q = s /\ m = p THEN w
                       ELSE IF m = w THEN IF q = "left" THEN l ELSE r
                       ELSE t.kid[q][m]
  BY <1>1, <1>2, <1>4, <1>5, <1>7 DEF Hung, ParentWritten, KidWritten, Side
<1>9. \A m \in Link : u.parent[m] = IF m = l \/ m = r THEN w
                                    ELSE IF m = w THEN p ELSE t.parent[m]
  BY <1>1, <1>2, <1>4, <1>5, <1>7 DEF Hung, ParentWritten, KidWritten
<1>10. u \in Container /\ u.tag = t.tag /\ u.count = t.count
  BY <1>2, <1>4, <1>5, <1>7 DEF Hung, ParentWritten, KidWritten
<1>11. Replaced(u, t, n, w, p, s, l, r)
  BY <1>8, <1>9, <1>10 DEF Replaced
<1>12. QED
  BY <1>3, <1>11

\* w in the place of n
Swapped(In, n, w) == (In \ {n}) \cup {w}

\* With the successor in the place of the node the tree has its shape.
LEMMA ReplaceFits ==
    ASSUME NEW t \in Container, NEW In, NEW pos, NEW b, Shape(t, In, pos, b),
           NEW n \in In, NEW w \in Node \ In,
           NEW p, p = t.parent[n], NEW s \in Side, t.kid[s][p] = n,
           NEW l, l = t.kid["left"][n], NEW r, r = t.kid["right"][n],
           NEW u, Replaced(u, t, n, w, p, s, l, r),
           Cardinality(Swapped(In, n, w)) = Cardinality(In),
           NEW pos2 \in [Link -> Nat], pos2[w] = pos[n],
           \A m \in Bin(In) \ {n} : pos2[m] = pos[m]
    PROVE  \E b2 : Shape(u, Swapped(In, n, w), pos2, b2)
<1> DEFINE N == Cardinality(In)
           In2 == Swapped(In, n, w)
           b2 == [q \in Side |-> [m \in Link |-> IF m = w THEN b[q][n] ELSE b[q][m]]]
<1>1. /\ In \in SUBSET Node /\ N \in Nat
      /\ Bin(In) \subseteq Link /\ In \subseteq Bin(In)
      /\ Nil \in Bin(In) /\ Nil \notin In /\ Nil \in Link
      /\ \A m \in Bin(In) : m \in In \/ m = Nil
      /\ "left" \in Side /\ "right" \in Side
      /\ \A m \in Bin(In) : /\ pos[m] \in Nat /\ pos[m] >= 1 /\ pos[m] <= N + 1
                            /\ b["left"][m] \in Nat /\ b["right"][m] \in Nat
                            /\ b["left"][m] < pos[m] /\ pos[m] < b["right"][m]
      /\ \A m \in In : pos[m] <= N /\ b["right"][m] <= N + 1
      /\ pos[Nil] = N + 1
      /\ b["left"][Nil] = 0 /\ b["right"][Nil] = N + 2
      /\ \A m, x \in Bin(In) : pos[m] = pos[x] => m = x
  BY ShapeNumbers
<1>2. w \in Link /\ w # Nil /\ w \notin Bin(In) /\ n \in Link /\ n # w /\ n # Nil
  BY <1>1, Linked DEF Bin
<1>3. \A q \in Side, m \in Link : b2[q][m] = IF m = w THEN b[q][n] ELSE b[q][m]
  OBVIOUS
<1>4. b2 \in [Side -> [Link -> Nat]]
  BY <1>1 DEF Shape, Between
<1> HIDE DEF b2
<1>0. In2 = (In \ {n}) \cup {w} /\ Cardinality(In2) = N
  BY DEF Swapped
<1> HIDE DEF In2
<1>5. Numbered(In2, pos2)
  <2>1. \A i \in 1 .. N : \E m \in In2 : pos2[m] = i
    <3> SUFFICES ASSUME NEW i \in 1 .. N PROVE \E m \in In2 : pos2[m] = i
      OBVIOUS
    <3>1. PICK m \in In : pos[m] = i
      BY DEF Shape, Numbered
    <3>2. QED
      BY <1>0, <1>1, <3>1
  <2>2. \A m \in In2 : pos2[m] \in 1 .. N
    BY <1>0, <1>1
  <2>3. \A m, x \in In2 : pos2[m] = pos2[x] => m = x
    BY <1>0, <1>1
  <2>4. QED
    BY <1>0, <1>1, <1>2, <2>1, <2>2, <2>3 DEF Numbered
<1>6. Between(In2, pos2, b2)
  <2>1. \A m \in In2 : /\ b2["left"][m] < pos2[m] /\ pos2[m] < b2["right"][m]
                       /\ b2["right"][m] <= N + 1
    BY <1>0, <1>1, <1>2, <1>3
  <2>2. b2["left"][Nil] = 0 /\ b2["right"][Nil] = N + 2
    BY <1>0, <1>1, <1>2, <1>3
  <2>3. QED
    BY <1>0, <1>4, <2>1, <2>2 DEF Between
<1>7. /\ \A q \in Side, m \in Link :
            u.kid[q][m] = IF q = s /\ m = p THEN w
                          ELSE IF m = w THEN IF q = "left" THEN l ELSE r
                          ELSE t.kid[q][m]
      /\ \A m \in Link : u.parent[m] = IF m = l \/ m = r THEN w
                                       ELSE IF m = w THEN p ELSE t.parent[m]
  BY DEF Replaced
<1>8. /\ p \in Bin(In) /\ p # n /\ b[s][n] = b[s][p] /\ b[Opp(s)][n] = pos[p]
      /\ p # w /\ p \in Link /\ p \in Bin(In2) /\ t.kid[Opp(s)][p] # n
  <2>1. p \in Bin(In)
    BY DEF Shape
  <2>2. KidFits(t, In, pos, b, p, s) /\ KidFits(t, In, pos, b, p, Opp(s))
    BY <2>1, SideOpp DEF Shape
  <2>3. b[s][n] = b[s][p] /\ b[Opp(s)][n] = pos[p]
    BY <1>2, <2>2 DEF KidFits
  <2>4. p # n
    BY <1>0, <1>1, <2>1, <2>3 DEF Side, Opp
  <2>5. t.kid[Opp(s)][p] = n => b[s][n] = pos[p]
    BY <1>2, <2>2, SideOpp DEF KidFits
  <2>6. t.kid[Opp(s)][p] # n
    BY <1>0, <1>1, <2>1, <2>3, <2>5 DEF Side, Opp
  <2>7. QED
    BY <1>0, <1>1, <1>2, <2>1, <2>3, <2>4, <2>6 DEF Bin
<1>9. /\ KidFits(t, In, pos, b, n, "left") /\ KidFits(t, In, pos, b, n, "right")
      /\ l # w /\ r # w /\ l # n /\ r # n
  <2>1. KidFits(t, In, pos, b, n, "left") /\ KidFits(t, In, pos, b, n, "right")
    BY <1>0, <1>1 DEF Shape
  <2>2. QED
    BY <1>0, <1>1, <1>2, <2>1 DEF KidFits, Opp
<1>10. ASSUME NEW m \in Bin(In2), NEW q \in Side PROVE KidFits(u, In2, pos2, b2, m, q)
  <2>1. CASE m = w
    <3> DEFINE c == t.kid[q][n]
    <3>1. u.kid[q][m] = c /\ KidFits(t, In, pos, b, n, q)
      BY <1>2, <1>7, <1>8, <1>9, <2>1 DEF Side
    <3>2. CASE c = Nil
      BY <1>0, <1>1, <1>2, <1>3, <2>1, <3>1, <3>2 DEF KidFits
    <3>3. CASE c # Nil
      <4>1. c \in In /\ b[q][c] = b[q][n] /\ b[Opp(q)][c] = pos[n]
        BY <3>1, <3>3 DEF KidFits
      <4>2. c \in In2 /\ c \in Link /\ u.parent[c] = w
        BY <1>0, <1>1, <1>2, <1>7, <1>9, <4>1 DEF Side
      <4>3. b2[q][c] = b2[q][w] /\ b2[Opp(q)][c] = pos2[w]
        BY <1>0, <1>1, <1>2, <1>3, <4>1, <4>2, SideOpp
      <4>4. QED
        BY <2>1, <3>1, <3>3, <4>2, <4>3 DEF KidFits
    <3>4. QED
      BY <3>2, <3>3
  <2>2. CASE m = p /\ q = s
    <3>1. u.kid[q][m] = w /\ u.parent[w] = m
      BY <1>2, <1>7, <1>8, <1>9, <2>2
    <3>2. b2[q][w] = b2[q][m] /\ b2[Opp(q)][w] = pos2[m]
      BY <1>0, <1>1, <1>2, <1>3, <1>8, <2>2, SideOpp
    <3>3. QED
      BY <1>0, <1>2, <3>1, <3>2 DEF KidFits
  <2>3. CASE m # w /\ ~(m = p /\ q = s)
    <3> DEFINE c == t.kid[q][m]
    <3>1. m \in Bin(In) /\ m # n /\ m \in Link
      BY <1>0, <1>1, <1>2, <2>3 DEF Bin
    <3>2. u.kid[q][m] = c /\ KidFits(t, In, pos, b, m, q)
      BY <1>7, <2>3, <3>1 DEF Shape
    <3>3. CASE c = Nil
      BY <1>3, <2>3, <3>1, <3>2, <3>3 DEF KidFits
    <3>4. CASE c # Nil
      <4>1. c \in In /\ t.parent[c] = m /\ b[q][c] = b[q][m] /\ b[Opp(q)][c] = pos[m]
        BY <3>2, <3>4 DEF KidFits
      <4>2. c # n
        <5>1. c = n => m = p
          BY <4>1
        <5>2. c = n => q = Opp(s)
          BY <2>3, <5>1, SideOpp
        <5>3. QED
          BY <1>8, <5>1, <5>2
      <4>3. c # l /\ c # r
        <5>1. c = l => t.parent[c] = n
          BY <1>9, <3>4 DEF KidFits
        <5>2. c = r => t.parent[c] = n
          BY <1>9, <3>4 DEF KidFits
        <5>3. QED
          BY <3>1, <4>1, <5>1, <5>2
      <4> HIDE DEF c
      <4>4. c \in In2 /\ c \in Link /\ c # w /\ u.parent[c] = m
        BY <1>0, <1>1, <1>2, <1>7, <4>1, <4>2, <4>3
      <4>5. b2[q][c] = b2[q][m] /\ b2[Opp(q)][c] = pos2[m]
        BY <1>3, <2>3, <3>1, <4>1, <4>4, SideOpp
      <4>6. QED
        BY <3>2, <3>4, <4>4, <4>5 DEF KidFits
    <3>5. QED
      BY <3>3, <3>4
  <2>4. QED
    BY <2>1, <2>2, <2>3
<1>11. ASSUME NEW m \in In2 PROVE u.parent[m] \in Bin(In2) /\ \E q \in Side : u.kid[q][u.parent[m]] = m
  <2>1. CASE m = w
    <3>1. u.parent[m] = p
      BY <1>2, <1>7, <1>9, <2>1
    <3>2. QED
      BY <1>7, <1>8, <2>1, <3>1
  <2>2. CASE m # w /\ (m = l \/ m = r)
    <3>1. u.parent[m] = w /\ w \in Bin(In2)
      BY <1>0, <1>1, <1>7, <2>2 DEF Bin
    <3>2. u.kid["left"][w] = l /\ u.kid["right"][w] = r
      BY <1>0, <1>1, <1>2, <1>7, <1>8
    <3>3. QED
      BY <1>0, <1>1, <2>2, <3>1, <3>2
  <2>3. CASE m # w /\ m # l /\ m # r
    <3>1. m \in In /\ m \in Link /\ m # n
      BY <1>0, <1>1, <2>3
    <3>2. u.parent[m] = t.parent[m] /\ t.parent[m] \in Bin(In) /\ t.parent[m] \in Link
          /\ t.parent[m] # w
      BY <1>0, <1>1, <1>2, <1>7, <2>3, <3>1 DEF Shape
    <3>3. PICK q \in Side : t.kid[q][t.parent[m]] = m
      BY <3>1 DEF Shape
    <3>4. t.parent[m] # n
      BY <2>3, <3>3 DEF Side
    <3>5. ~(q = s /\ t.parent[m] = p)
      BY <3>1, <3>3
    <3>6. u.kid[q][u.parent[m]] = m
      BY <1>7, <3>2, <3>3, <3>5
    <3>7. QED
      BY <1>0, <3>2, <3>4, <3>6 DEF Bin
  <2>4. QED
    BY <2>1, <2>2, <2>3
<1>12. QED
  BY <1>5, <1>6, <1>10, <1>11 DEF Shape, In2

\* w has the number of n.
Repositioned(In, pos, n, w, pos2) ==
    /\ Cardinality(Swapped(In, n, w)) = Cardinality(In)
    /\ pos2 \in [Link -> Nat]
    /\ pos2[w] = pos[n]
    /\ \A m \in Bin(In) \ {n} : pos2[m] = pos[m]

\* u is t with w in the links of n.
Replacing(u, t, n, w, s) ==
    /\ t.kid[s][t.parent[n]] = n
    /\ Replaced(u, t, n, w, t.parent[n], s, t.kid["left"][n], t.kid["right"][n])

\* t is a tree of the nodes In, in the order of pos.
Fits(t, In, pos) == \E b : Shape(t, In, pos, b)

\* Deleting a node with two kids leaves a tree, and the others in their order.
LEMMA ReplacingFits ==
    ASSUME NEW t \in Container, NEW In, NEW pos, Fits(t, In, pos),
           NEW n \in In, NEW w \in Node \ In, NEW s \in Side,
           NEW u, Replacing(u, t, n, w, s),
           NEW pos2, Repositioned(In, pos, n, w, pos2)
    PROVE  Fits(u, Swapped(In, n, w), pos2)
<1>1. PICK b : Shape(t, In, pos, b)
  BY DEF Fits
<1>2. \E b2 : Shape(u, Swapped(In, n, w), pos2, b2)
  BY <1>1, ReplaceFits, SMTT(20) DEF Replacing, Repositioned
<1>3. QED
  BY <1>2 DEF Fits

\* o is t without w, and c stands where w stood.
TakenOut(o, t, In, pos, w, c) ==
    /\ Fits(o, In \ {w}, Closed(pos, w))
    /\ \E v, s \in Side : /\ t.kid[v][w] = Nil /\ c = t.kid[Opp(v)][w]
                         /\ t.kid[s][t.parent[w]] = w
                         /\ Unlinked(o, t, t.parent[w], s, c)

\* u is t without n; w is out first and, if it is another, takes the place of n.
Taken(u, t, In, pos, n, w, c) ==
    \E o : /\ TakenOut(o, t, In, pos, w, c)
          /\ \/ w = n /\ u = o
             \/ /\ w # n /\ c # n /\ t.kid["left"][n] # Nil /\ t.kid["right"][n] # Nil
                /\ \E e \in Side : Replacing(u, o, n, w, e)

\* usrtc_tree_delete: n is out, the others keep their order; swap took the
\* place of n, and child, if there is one, moved up.
LEMMA BstDeleteFits ==
    ASSUME NEW t \in Container, NEW In, NEW pos, NEW b, Shape(t, In, pos, b),
           NEW n \in In, t.count >= 1
    PROVE  LET d == BstDelete(t, n)
           IN  /\ d.t \in Container /\ d.swap \in In /\ d.child \in Bin(In \ {n})
               /\ d.t.tag = t.tag /\ d.t.count = t.count - 1
               /\ \E b2 : Shape(d.t, In \ {n}, Closed(pos, n), b2)
               /\ Taken(d.t, t, In, pos, n, d.swap, d.child)
<1> DEFINE both == t.kid["left"][n] # Nil /\ t.kid["right"][n] # Nil
           next == Neighbour(t, "right", n)
           swap == IF both THEN next ELSE n
           child == IF ~both /\ t.kid["left"][n] # Nil THEN t.kid["left"][n]
                    ELSE t.kid["right"][swap]
           p == t.parent[swap]
           out == [Relink(t, p, swap, child) EXCEPT !.parent[child] = p, !.count = @ - 1]
           dp == t.parent[n]
           l == out.kid["left"][n]
           r == out.kid["right"][n]
           res == Relink(Hang(Hang([out EXCEPT !.parent[swap] = dp], "left", swap, l),
                              "right", swap, r), dp, n, swap)
<1>1. BstDelete(t, n) = [t |-> IF both THEN res ELSE out, swap |-> swap, child |-> child]
  BY DEF BstDelete
<1>2. /\ In \in SUBSET Node /\ Cardinality(In) \in Nat
      /\ Bin(In) \subseteq Link /\ In \subseteq Bin(In)
      /\ Nil \in Bin(In) /\ Nil \notin In /\ Nil \in Link
      /\ \A m \in Bin(In) : m \in In \/ m = Nil
      /\ "left" \in Side /\ "right" \in Side
      /\ \A m \in Bin(In) : /\ pos[m] \in Nat /\ b["left"][m] \in Nat /\ b["right"][m] \in Nat
                            /\ b["left"][m] < pos[m] /\ pos[m] < b["right"][m]
      /\ \A m, x \in Bin(In) : pos[m] = pos[x] => m = x
  BY ShapeNumbers
<1>3. both => next \in In /\ pos[next] = pos[n] + 1 /\ t.kid["left"][next] = Nil
  <2>1. /\ next \in Bin(In)
        /\ next # Nil => pos[next] = pos[n] + Dir("right")
        /\ t.kid["right"][n] # Nil => next # Nil /\ t.kid[Opp("right")][next] = Nil
    BY <1>2, NeighbourEnds
  <2>2. QED
    BY <1>2, <2>1 DEF Dir, Opp
<1> HIDE DEF next
<1>4. PICK v \in Side : t.kid[v][swap] = Nil /\ child = t.kid[Opp(v)][swap]
  <2>1. CASE both
    BY <1>2, <1>3, <2>1 DEF Opp
  <2>2. CASE ~both /\ t.kid["left"][n] # Nil
    BY <1>2, <2>2 DEF Opp
  <2>3. CASE ~both /\ t.kid["left"][n] = Nil
    BY <1>2, <2>3 DEF Opp
  <2>4. QED
    BY <2>1, <2>2, <2>3
<1>5. swap \in In /\ p \in Bin(In)
  BY <1>3 DEF Shape
<1> HIDE DEF swap, child
<1>6. PICK s \in Side : t.kid[s][p] = swap
  BY <1>5 DEF Shape
<1>7. t.kid[Opp(s)][p] # swap
  BY <1>5, <1>6, KidPlace
<1>8. child \in Bin(In) /\ child # swap /\ child \in Link /\ swap \in Link
  BY <1>2, <1>4, <1>5, <1>6, SideOpp, KidPlace
<1>9. Unlinked(out, t, p, s, child)
  BY <1>6, <1>7, <1>8, UnlinkFields
<1>10. PICK b1 : Shape(out, In \ {swap}, Closed(pos, swap), b1)
  BY <1>4, <1>5, <1>6, <1>9, UnlinkFits
<1> HIDE DEF out
<1>11. out \in Container /\ out.tag = t.tag /\ out.count = t.count - 1
  BY <1>9 DEF Unlinked
<1>0. TakenOut(out, t, In, pos, swap, child)
  BY <1>4, <1>6, <1>9, <1>10 DEF TakenOut, Fits
<1>12. CASE ~both
  <2>1. swap = n
    BY <1>12 DEF swap
  <2>2. child \in Bin(In \ {n})
    BY <1>8, <2>1 DEF Bin
  <2>3. Taken(out, t, In, pos, n, swap, child)
    BY <1>0, <2>1 DEF Taken
  <2>4. QED
    BY <1>1, <1>5, <1>10, <1>11, <1>12, <2>1, <2>2, <2>3, SMTT(20)
<1>13. CASE both
  <2>1. swap = next /\ pos[swap] = pos[n] + 1 /\ swap # n /\ swap \in Node \ (In \ {swap})
    BY <1>2, <1>3, <1>5, <1>13 DEF swap
  <2>2. child = t.kid["right"][swap] /\ child # n
    <3>1. child = t.kid["right"][swap]
      BY <1>13 DEF child
    <3>2. KidFits(t, In, pos, b, swap, "right")
      BY <1>2, <1>5 DEF Shape
    <3>3. QED
      BY <1>2, <2>1, <3>1, <3>2 DEF KidFits, Opp
  <2> DEFINE In1 == In \ {swap}
             pos1 == Closed(pos, swap)
  <2>3. n \in In1 /\ n \in Link
    BY <1>2, <2>1
  <2>4. dp = out.parent[n]
    BY <1>9, <2>2, <2>3 DEF Unlinked
  <2>5. PICK e \in Side : out.kid[e][dp] = n
    BY <1>10, <2>3, <2>4 DEF Shape
  <2>6. dp \in Bin(In1)
    BY <1>10, <2>3, <2>4 DEF Shape
  <2> HIDE DEF In1, pos1
  <2>7. Shape(out, In1, pos1, b1)
    BY <1>10 DEF In1, pos1
  <2>8. out.kid[Opp(e)][dp] # n /\ l \in Bin(In1) /\ r \in Bin(In1)
    BY <1>2, <2>3, <2>5, <2>6, <2>7, KidPlace
  <2>9. l # swap /\ r # swap /\ dp # swap /\ swap \in Link /\ dp \in Link
    BY <1>2, <1>5, <2>6, <2>8 DEF In1, Bin
  <2> HIDE DEF dp, l, r
  <2>10. Replaced(res, out, n, swap, dp, e, l, r)
    BY <1>11, <2>3, <2>5, <2>8, <2>9, ReplaceFields DEF l, r
  <2> HIDE DEF res
  <2> DEFINE In2 == In \ {n}
             pos2 == Closed(pos, n)
  <2>11. In2 = Swapped(In1, n, swap)
    BY <1>5, <2>1 DEF In1, Swapped
  <2>12. Cardinality(In2) = Cardinality(In1)
    BY <1>2, <1>5, ClosedNumbers DEF In1, Shape
  <2>13. pos2 \in [Link -> Nat]
    BY ClosedNumbers DEF Shape, Numbered
  <2>14. \A m \in Link : /\ pos2[m] = IF pos[m] > pos[n] THEN pos[m] - 1 ELSE pos[m]
                         /\ pos1[m] = IF pos[m] > pos[swap] THEN pos[m] - 1 ELSE pos[m]
    BY DEF Closed, pos1
  <2>15. pos2[swap] = pos1[n]
    BY <1>2, <1>5, <2>1, <2>3, <2>9, <2>14
  <2>16. \A m \in Bin(In1) \ {n} : pos2[m] = pos1[m]
    <3> SUFFICES ASSUME NEW m \in Bin(In1) \ {n} PROVE pos2[m] = pos1[m]
      OBVIOUS
    <3>1. m \in Bin(In) /\ m # swap /\ m # n /\ m \in Link
      BY <1>2, <1>5 DEF In1, Bin
    <3>2. pos[m] # pos[swap] /\ pos[m] # pos[n]
      BY <1>2, <1>5, <3>1
    <3>3. QED
      BY <1>2, <1>5, <2>1, <2>14, <3>1, <3>2
  <2> HIDE DEF pos2, In2
  <2>17. \E b2 : Shape(res, In2, pos2, b2)
    <3>1. l = out.kid["left"][n] /\ r = out.kid["right"][n]
      BY DEF l, r
    <3>2. swap \in Node \ In1
      BY <2>1 DEF In1
    <3>3. out \in Container /\ Shape(out, In1, pos1, b1) /\ n \in In1
      BY <1>11, <2>3, <2>7
    <3>4. dp = out.parent[n] /\ out.kid[e][dp] = n /\ e \in Side
      BY <2>4, <2>5
    <3>5. pos2 \in [Link -> Nat] /\ pos2[swap] = pos1[n] /\ \A m \in Bin(In1) \ {n} : pos2[m] = pos1[m]
      BY <2>13, <2>15, <2>16
    <3>6. Cardinality(Swapped(In1, n, swap)) = Cardinality(In1)
      BY <2>11, <2>12, Zenon
    <3>7. Replacing(res, out, n, swap, e)
      BY <2>10, <3>1, <3>4 DEF Replacing
    <3>8. Repositioned(In1, pos1, n, swap, pos2)
      BY <3>5, <3>6 DEF Repositioned
    <3>9. Fits(out, In1, pos1)
      BY <3>3 DEF Fits
    <3>10. Fits(res, Swapped(In1, n, swap), pos2)
      BY <3>2, <3>3, <3>4, <3>7, <3>8, <3>9, ReplacingFits
    <3>11. QED
      BY <2>11, <3>10 DEF Fits
  <2>18. child \in Bin(In2) /\ Taken(res, t, In, pos, n, swap, child)
    <3>1. child \in Bin(In2)
      BY <1>8, <2>2 DEF In2, Bin
    <3>2. Replacing(res, out, n, swap, e)
      BY <2>4, <2>5, <2>10 DEF Replacing, l, r
    <3>3. Taken(res, t, In, pos, n, swap, child)
      BY <1>0, <1>13, <2>1, <2>2, <3>2 DEF Taken
    <3>4. QED
      BY <3>1, <3>3
  <2>19. res \in Container /\ res.tag = out.tag /\ res.count = out.count
    BY <2>10 DEF Replaced
  <2>20. QED
    BY <1>1, <1>5, <1>11, <1>13, <2>17, <2>18, <2>19 DEF In2, pos2
<1>14. QED
  BY <1>12, <1>13

\* A rotation keeps the order: only the room of the two nodes changes.
LEMMA RotateFits ==
    ASSUME NEW t \in Container, NEW In, NEW pos, Fits(t, In, pos),
           NEW s \in Side, NEW c \in In, NEW p \in In, t.kid[Opp(s)][p] = c
    PROVE  /\ Fits(Rotate(t, s, c, p), In, pos)
           /\ \E r \in Side : Rotated(Rotate(t, s, c, p), t, s, c, p, t.parent[p], r, t.kid[s][c])
                              /\ t.kid[r][t.parent[p]] = p
<1>1. PICK b : Shape(t, In, pos, b)
  BY DEF Fits
<1> DEFINE g == t.parent[p]
           x == t.kid[s][c]
           o == Opp(s)
           u == Rotate(t, s, c, p)
           N == Cardinality(In)
           b2 == [q \in Side |-> [m \in Link |->
                     IF m = c THEN b[q][p]
                     ELSE IF m = p /\ q = o THEN pos[c] ELSE b[q][m]]]
<1>2. /\ In \in SUBSET Node /\ N \in Nat
      /\ Bin(In) \subseteq Link /\ In \subseteq Bin(In)
      /\ Nil \in Bin(In) /\ Nil \notin In /\ Nil \in Link
      /\ \A m \in Bin(In) : m \in In \/ m = Nil
      /\ "left" \in Side /\ "right" \in Side
      /\ \A m \in Bin(In) : /\ pos[m] \in Nat /\ b["left"][m] \in Nat /\ b["right"][m] \in Nat
                            /\ b["left"][m] < pos[m] /\ pos[m] < b["right"][m]
      /\ \A m \in In : pos[m] <= N /\ b["right"][m] <= N + 1
      /\ pos[Nil] = N + 1
      /\ b["left"][Nil] = 0 /\ b["right"][Nil] = N + 2
  BY <1>1, ShapeNumbers
<1> HIDE DEF N
<1>3. o \in Side /\ o # s /\ Opp(o) = s /\ \A q \in Side : q = s \/ q = o
  BY SideOpp
<1>4. g \in Bin(In) /\ \E r \in Side : t.kid[r][g] = p
  BY <1>1 DEF Shape
<1>5. PICK r \in Side : t.kid[r][g] = p
  BY <1>4
<1>6. /\ g # p /\ t.kid[Opp(r)][g] # p
      /\ b[r][p] = b[r][g] /\ b[Opp(r)][p] = pos[g]
      /\ \A v \in Side : /\ t.kid[v][p] # p /\ t.kid[v][p] \in Bin(In)
                         /\ t.kid[v][p] # Nil => t.kid[v][p] # g
  BY <1>1, <1>4, <1>5, KidPlace
<1>7. /\ t.parent[c] = p /\ c # p /\ t.kid[s][p] # c
      /\ b[o][c] = b[o][p] /\ b[s][c] = pos[p]
      /\ \A v \in Side : /\ t.kid[v][c] # c /\ t.kid[v][c] \in Bin(In)
                         /\ t.kid[v][c] # Nil => t.kid[v][c] # p
  BY <1>1, <1>2, <1>3, KidPlace
<1>8. g # c /\ x # c /\ x \in Bin(In) /\ (x # Nil => x # p)
  BY <1>2, <1>3, <1>6, <1>7
<1>9. Rotated(u, t, s, c, p, g, r, x)
  BY <1>2, <1>3, <1>4, <1>5, <1>6, <1>7, <1>8, RotateFields
<1>10. /\ \A q \in Side, m \in Link :
             u.kid[q][m] = IF m = g /\ q = r THEN c
                           ELSE IF m = p /\ q = o THEN x
                           ELSE IF m = c /\ q = s THEN p
                           ELSE t.kid[q][m]
       /\ \A m \in Link : u.parent[m] = IF m = p THEN c
                                         ELSE IF m = c THEN g
                                         ELSE IF m = x THEN p ELSE t.parent[m]
  BY <1>9 DEF Rotated
<1>11. \A m \in Bin(In), q \in Side : KidFits(t, In, pos, b, m, q)
  BY <1>1 DEF Shape
<1>12. \A q \in Side, m \in Link : b2[q][m] = IF m = c THEN b[q][p]
                                             ELSE IF m = p /\ q = o THEN pos[c] ELSE b[q][m]
  OBVIOUS
<1>13. b \in [Side -> [Link -> Nat]] /\ pos \in [Link -> Nat]
  BY <1>1 DEF Shape, Numbered, Between
<1>14. b2 \in [Side -> [Link -> Nat]]
  BY <1>2, <1>13
<1> HIDE DEF b2, u, g, x
<1>15. x = t.kid[s][c]
  BY DEF x
<1>16. Between(In, pos, b2)
  <2>1. b2["left"][Nil] = 0 /\ b2["right"][Nil] = N + 2
    BY <1>2, <1>12
  <2>2. ASSUME NEW m \in In
        PROVE  b2["left"][m] < pos[m] /\ pos[m] < b2["right"][m] /\ b2["right"][m] <= N + 1
    <3>1. CASE s = "left"
      BY <1>2, <1>7, <1>12, <3>1 DEF Opp
    <3>2. CASE s = "right"
      BY <1>2, <1>7, <1>12, <3>2 DEF Opp
    <3>3. QED
      BY <3>1, <3>2 DEF Side
  <2>3. QED
    BY <1>14, <2>1, <2>2 DEF Between, N
<1>17. ASSUME NEW m \in Bin(In), NEW q \in Side PROVE KidFits(u, In, pos, b2, m, q)
  <2>0. m \in Link /\ c \in Link /\ p \in Link /\ g \in Link /\ c # Nil /\ p # Nil
    BY <1>2, <1>4
  <2>1. CASE m = g /\ q = r
    <3>1. u.kid[q][m] = c /\ u.parent[c] = m
      BY <1>7, <1>10, <2>0, <2>1
    <3>2. b2[q][c] = b2[q][m] /\ b2[Opp(q)][c] = pos[m]
      BY <1>6, <1>8, <1>12, <2>0, <2>1, SideOpp
    <3>3. QED
      BY <2>0, <3>1, <3>2 DEF KidFits
  <2>2. CASE m = p /\ q = o
    <3>1. u.kid[q][m] = x
      BY <1>6, <1>10, <2>0, <2>2
    <3>2. b2[q][m] = pos[c]
      BY <1>7, <1>12, <2>0, <2>2
    <3>3. KidFits(t, In, pos, b, c, s)
      BY <1>2, <1>11
    <3>4. CASE x = Nil
      <4>1. b[s][c] = pos[c] + Dir(s)
        BY <1>15, <3>3, <3>4 DEF KidFits
      <4>2. pos[c] = pos[p] + Dir(o)
        BY <1>2, <1>7, <4>1 DEF Dir, Side, Opp
      <4>3. QED
        BY <2>2, <3>1, <3>2, <3>4, <4>2 DEF KidFits
    <3>5. CASE x # Nil
      <4>1. x \in In /\ b[s][x] = b[s][c] /\ b[o][x] = pos[c]
        BY <1>15, <3>3, <3>5 DEF KidFits
      <4>2. u.parent[x] = p
        BY <1>8, <1>10, <2>0, <1>2, <3>5
      <4>3. b2[o][x] = pos[c] /\ b2[s][x] = pos[p]
        BY <1>2, <1>3, <1>7, <1>8, <1>12, <3>5, <4>1
      <4>4. QED
        BY <1>3, <2>2, <3>1, <3>2, <3>5, <4>1, <4>2, <4>3 DEF KidFits
    <3>6. QED
      BY <3>4, <3>5
  <2>3. CASE m = c /\ q = s
    <3>1. u.kid[q][m] = p /\ u.parent[p] = m
      BY <1>7, <1>8, <1>10, <2>0, <2>3
    <3>2. b2[q][p] = b2[q][m] /\ b2[Opp(q)][p] = pos[m]
      BY <1>3, <1>7, <1>12, <2>0, <2>3
    <3>3. QED
      BY <2>0, <3>1, <3>2 DEF KidFits
  <2>4. CASE ~(m = g /\ q = r) /\ ~(m = p /\ q = o) /\ ~(m = c /\ q = s)
    <3> DEFINE y == t.kid[q][m]
    <3>1. u.kid[q][m] = y
      BY <1>10, <2>0, <2>4
    <3>2. KidFits(t, In, pos, b, m, q)
      BY <1>11
    <3>3. b2[q][m] = b[q][m]
      BY <1>3, <1>7, <1>12, <2>0, <2>4
    <3>4. CASE y = Nil
      BY <3>1, <3>2, <3>3, <3>4 DEF KidFits
    <3>5. CASE y # Nil
      <4>1. y \in In /\ t.parent[y] = m /\ b[q][y] = b[q][m] /\ b[Opp(q)][y] = pos[m]
        BY <3>2, <3>5 DEF KidFits
      <4>2. y # c
        BY <1>3, <1>7, <2>4, <4>1
      <4>3. y # p
        <5>1. y = p => m = g
          BY <4>1 DEF g
        <5>2. y = p => q = r
          BY <1>6, <5>1, SideOpp
        <5>3. QED
          BY <2>4, <5>1, <5>2
      <4>4. y # x
        <5>1. KidFits(t, In, pos, b, c, s)
          BY <1>2, <1>11
        <5>2. y = x => m = c
          BY <1>15, <3>5, <4>1, <5>1 DEF KidFits
        <5>3. y = x => q = o
          BY <1>3, <2>4, <5>2
        <5>4. y = x => b[s][y] = b[s][c] /\ b[s][y] = pos[c]
          BY <1>3, <1>15, <3>5, <4>1, <5>1, <5>2, <5>3 DEF KidFits
        <5>5. b[s][c] # pos[c]
          BY <1>2 DEF Side
        <5>6. QED
          BY <5>4, <5>5
      <4>5. u.parent[y] = m
        BY <1>2, <1>10, <4>1, <4>2, <4>3, <4>4
      <4>6. b2[q][y] = b[q][y] /\ b2[Opp(q)][y] = b[Opp(q)][y]
        BY <1>2, <1>12, <4>1, <4>2, <4>3, SideOpp
      <4>7. QED
        BY <3>1, <3>3, <3>5, <4>1, <4>5, <4>6 DEF KidFits
    <3>6. QED
      BY <3>4, <3>5
  <2>5. QED
    BY <2>1, <2>2, <2>3, <2>4
<1>18. ASSUME NEW m \in In
       PROVE  u.parent[m] \in Bin(In) /\ \E q \in Side : u.kid[q][u.parent[m]] = m
  <2>0. m \in Link /\ c \in Link /\ p \in Link /\ g \in Link /\ x \in Link /\ c # Nil /\ p # Nil /\ m # Nil
    BY <1>2, <1>4, <1>8
  <2>1. CASE m = p
    BY <1>2, <1>7, <1>8, <1>10, <2>0, <2>1
  <2>2. CASE m = c
    BY <1>2, <1>4, <1>7, <1>10, <2>0, <2>2
  <2>3. CASE m = x /\ m # p /\ m # c
    BY <1>2, <1>3, <1>6, <1>8, <1>10, <2>0, <2>3
  <2>4. CASE m # x /\ m # p /\ m # c
    <3>1. u.parent[m] = t.parent[m] /\ t.parent[m] \in Bin(In)
      BY <1>1, <1>10, <2>0, <2>4 DEF Shape
    <3>2. PICK q \in Side : t.kid[q][t.parent[m]] = m
      BY <1>1 DEF Shape
    <3>3. t.parent[m] \in Link
      BY <1>2, <3>1
    <3>4. u.kid[q][t.parent[m]] = m
      BY <1>5, <1>10, <1>15, <2>4, <3>2, <3>3
    <3>5. QED
      BY <3>1, <3>4
  <2>5. QED
    BY <2>1, <2>2, <2>3, <2>4
<1>19. Shape(u, In, pos, b2)
  BY <1>1, <1>16, <1>17, <1>18 DEF Shape
<1>20. QED
  <2>1. Fits(u, In, pos)
    BY <1>19 DEF Fits
  <2>2. QED
    BY <1>5, <1>9, <2>1 DEF u, g, x

\* u has the nodes, the order, the tags and the count of t.
Turned(u, t, In, pos) ==
    /\ u \in Container
    /\ Fits(u, In, pos)
    /\ u.tag = t.tag /\ u.count = t.count

\* The sentinel has a kid on its left only.
LEMMA RootFits ==
    ASSUME NEW t \in Container, NEW In, NEW pos, Fits(t, In, pos)
    PROVE  t.kid["right"][Nil] = Nil /\ Root(t) \in Bin(In)
<1>1. PICK b : Shape(t, In, pos, b)
  BY DEF Fits
<1>2. /\ Cardinality(In) \in Nat /\ Nil \in Bin(In) /\ "left" \in Side /\ "right" \in Side
      /\ \A m \in In : b["right"][m] \in Nat /\ b["right"][m] <= Cardinality(In) + 1
      /\ b["right"][Nil] = Cardinality(In) + 2
  BY <1>1, ShapeNumbers
<1>3. KidFits(t, In, pos, b, Nil, "right") /\ KidFits(t, In, pos, b, Nil, "left")
  BY <1>1, <1>2 DEF Shape
<1>4. t.kid["right"][Nil] = Nil
  BY <1>2, <1>3 DEF KidFits
<1>5. Root(t) \in Bin(In)
  BY <1>3 DEF KidFits, Root, Bin
<1>6. QED
  BY <1>4, <1>5

\* Where a node that is not the root stands.
LEMMA BelowFits ==
    ASSUME NEW t \in Container, NEW In, NEW pos, Fits(t, In, pos),
           NEW n \in In, Root(t) # n
    PROVE  /\ t.parent[n] \in In /\ SideOf(t, n) \in Side
           /\ t.kid[SideOf(t, n)][t.parent[n]] = n
           /\ t.parent[n] # n
           /\ \A v \in Side : t.kid[v][n] # t.parent[n]
<1>1. PICK b : Shape(t, In, pos, b)
  BY DEF Fits
<1>2. t.parent[n] \in Bin(In) /\ \E s \in Side : t.kid[s][t.parent[n]] = n
  BY <1>1 DEF Shape
<1>3. SideOf(t, n) \in Side /\ t.kid[SideOf(t, n)][t.parent[n]] = n
  BY <1>2 DEF SideOf, Side
<1>4. Nil \notin In
  BY <1>1, ShapeNumbers
<1>5. t.parent[n] # Nil
  BY <1>3, <1>4, RootFits DEF Root, Side
<1>6. t.parent[n] \in In
  BY <1>2, <1>5 DEF Bin
<1>7. /\ t.parent[n] # n
      /\ \A v \in Side : t.kid[v][n] # Nil => t.kid[v][n] # t.parent[n]
  BY <1>1, <1>2, <1>3, KidPlace
<1>8. QED
  BY <1>3, <1>5, <1>6, <1>7

\* A rotation at a node keeps the shape, and the order that it stands for.
LEMMA TurnFits ==
    ASSUME NEW t \in Container, NEW In, NEW pos, Fits(t, In, pos),
           NEW s \in Side, NEW c \in In, NEW p \in In, t.kid[Opp(s)][p] = c
    PROVE  Turned(Rotate(t, s, c, p), t, In, pos)
BY RotateFits DEF Turned, Rotated

\* A round of splay_node() keeps the shape.
LEMMA SplayStepFits ==
    ASSUME NEW t \in Container, NEW In, NEW pos, Fits(t, In, pos),
           NEW n \in In, Root(t) # n
    PROVE  Turned(SplayStep(t, n), t, In, pos)
<1> DEFINE p == t.parent[n]
           g == t.parent[p]
           s == SideOf(t, n)
           o == Opp(s)
<1>1. /\ p \in In /\ s \in Side /\ t.kid[s][p] = n /\ p # n
      /\ o \in Side /\ Opp(o) = s /\ o # s /\ \A q \in Side : q = s \/ q = o
  BY BelowFits, SideOpp
<1>2. In \subseteq Link /\ Nil \notin In /\ Bin(In) \subseteq Link
  BY ShapeNumbers DEF Fits
<1>0. /\ SplayStep(t, n) = IF p = Root(t) THEN Rotate(t, o, n, p)
                           ELSE IF t.kid[s][g] = p THEN Rotate(Rotate(t, o, p, g), o, n, p)
                           ELSE Rotate(Rotate(t, o, n, p), s, n, g)
      /\ g = t.parent[p] /\ o = Opp(s)
  BY DEF SplayStep
<1> HIDE DEF p, s, o
<1>3. CASE p = Root(t)
  BY <1>0, <1>1, <1>3, TurnFits
<1>4. ASSUME p # Root(t)
      PROVE  /\ g \in In /\ g # p /\ t.kid[SideOf(t, p)][g] = p /\ SideOf(t, p) \in Side
             /\ \A v \in Side : t.kid[v][p] # g
  BY <1>1, <1>4, BelowFits
<1> HIDE DEF g
<1>5. CASE p # Root(t) /\ t.kid[s][g] = p
  <2> DEFINE u == Rotate(t, o, p, g)
  <2>1. SplayStep(t, n) = Rotate(u, o, n, p)
    BY <1>0, <1>5
  <2>2. PICK r \in Side : /\ Rotated(u, t, o, p, g, t.parent[g], r, t.kid[o][p])
                          /\ t.kid[r][t.parent[g]] = g
    <3>1. o \in Side /\ p \in In /\ g \in In /\ t.kid[Opp(o)][g] = p
      BY <1>1, <1>4, <1>5
    <3>2. QED
      BY <3>1, RotateFits
  <2>3. Turned(u, t, In, pos)
    BY <1>1, <1>4, <1>5, TurnFits
  <2>4. t.parent[g] # p
    <3>1. PICK b : Shape(t, In, pos, b)
      BY DEF Fits
    <3>2. t.parent[g] \in Bin(In)
      BY <1>4, <1>5, <3>1 DEF Shape
    <3>3. g \in In /\ t.kid[r][t.parent[g]] = g
      BY <1>4, <1>5, <2>2
    <3>4. \A v \in Side : t.kid[v][g] # Nil => t.kid[v][g] # t.parent[g]
      BY <3>1, <3>2, <3>3, KidPlace
    <3>5. QED
      BY <1>1, <1>2, <1>5, <3>4
  <2>5. u.kid[s][p] = n
    BY <1>1, <1>2, <1>4, <1>5, <2>2, <2>4 DEF Rotated
  <2> HIDE DEF u
  <2>6. Turned(Rotate(u, o, n, p), u, In, pos)
    BY <1>1, <2>3, <2>5, TurnFits DEF Turned
  <2>7. QED
    BY <2>1, <2>3, <2>6 DEF Turned
<1>6. CASE p # Root(t) /\ t.kid[s][g] # p
  <2> DEFINE u == Rotate(t, o, n, p)
  <2>1. SplayStep(t, n) = Rotate(u, s, n, g)
    BY <1>0, <1>6
  <2>2. PICK r \in Side : /\ Rotated(u, t, o, n, p, g, r, t.kid[o][n])
                          /\ t.kid[r][g] = p
    BY <1>0, <1>1, RotateFits
  <2>3. Turned(u, t, In, pos)
    BY <1>1, TurnFits
  <2>4. r = o
    BY <1>1, <1>6, <2>2
  <2>5. u.kid[o][g] = n
    BY <1>1, <1>2, <1>4, <1>6, <2>2, <2>4 DEF Rotated
  <2> HIDE DEF u
  <2>6. Turned(Rotate(u, s, n, g), u, In, pos)
    <3>1. /\ u \in Container /\ Fits(u, In, pos) /\ s \in Side /\ n \in In /\ g \in In
          /\ u.kid[Opp(s)][g] = n
      BY <1>0, <1>1, <1>4, <1>6, <2>3, <2>5 DEF Turned
    <3>2. QED
      BY <3>1, TurnFits
  <2>7. QED
    BY <2>1, <2>3, <2>6 DEF Turned
<1>7. QED
  BY <1>3, <1>5, <1>6

\* Splaying changes no order, and no more than the links.
LEMMA SplayFits ==
    ASSUME NEW t \in Container, NEW In, NEW pos, Fits(t, In, pos), NEW n \in In
    PROVE  Turned(Splay(t, n), t, In, pos)
<1> DEFINE P == {u \in Container : Turned(u, t, In, pos)}
           step == [u \in Container |-> IF Root(u) = n THEN u ELSE SplayStep(u, n)]
<1>1. t \in P
  BY DEF Turned
<1>2. ASSUME NEW u \in P PROVE step[u] \in P
  <2>1. CASE Root(u) = n
    BY <2>1
  <2>2. CASE Root(u) # n
    <3>1. Turned(SplayStep(u, n), u, In, pos)
      BY <1>2, <2>2, SplayStepFits DEF Turned
    <3>2. Turned(SplayStep(u, n), t, In, pos)
      BY <1>2, <3>1 DEF Turned
    <3>3. QED
      BY <2>2, <3>2 DEF Turned
  <2>3. QED
    BY <2>1, <2>2
<1>3. Rounds \in Nat
  BY Counted DEF Fits, Shape, Numbered
<1>4. Iterate(step, t, Rounds) \in P
  <2> HIDE DEF P, step
  <2> QED BY <1>1, <1>2, <1>3, IterateKeeps
<1>5. QED
  BY <1>4 DEF Splay

-----------------------------------------------------------------------------
\* The order of the keys through an insertion and a deletion.
\* q is the place behind every node whose key is not greater.
Place(In, pos, k, q) ==
    /\ q \in 1 .. Cardinality(In) + 1
    /\ \A x \in In : KeyOf[x] <= k <=> pos[x] < q

\* A node put behind those whose keys are not greater keeps the order of keys.
LEMMA OpenedAscends ==
    ASSUME NEW In, NEW pos, Numbered(In, pos), Ascending(In, pos),
           NEW n \in Node \ In, NEW q, Place(In, pos, KeyOf[n], q)
    PROVE  Ascending(In \cup {n}, Opened(pos, n, q))
<1> DEFINE open == Opened(pos, n, q)
<1>1. In \in SUBSET Node /\ n \in Link /\ KeyOf[n] \in Nat /\ q \in Nat
      /\ \A m \in In : m \in Link /\ m # n /\ pos[m] \in Nat /\ KeyOf[m] \in Nat
  BY Counted, NodeAssumption DEF Numbered, Place, Link
<1>2. open[n] = q /\ \A m \in In : open[m] = IF pos[m] >= q THEN pos[m] + 1 ELSE pos[m]
  BY <1>1 DEF Opened
<1> HIDE DEF open
<1>3. ASSUME NEW x \in In \cup {n}, NEW y \in In \cup {n}, KeyOf[x] < KeyOf[y]
      PROVE  open[x] < open[y]
  <2>1. CASE x \in In /\ y \in In
    BY <1>1, <1>2, <1>3, <2>1 DEF Ascending
  <2>2. CASE x = n /\ y \in In
    BY <1>1, <1>2, <1>3, <2>2 DEF Place
  <2>3. CASE x \in In /\ y = n
    BY <1>1, <1>2, <1>3, <2>3 DEF Place
  <2>4. CASE x = n /\ y = n
    BY <1>1, <1>3, <2>4
  <2>5. QED
    BY <2>1, <2>2, <2>3, <2>4
<1>4. QED
  BY <1>3 DEF Ascending, open

\* Taking a node out keeps the order of keys.
LEMMA ClosedAscends ==
    ASSUME NEW In, NEW pos, Numbered(In, pos), Ascending(In, pos), NEW n \in In
    PROVE  Ascending(In \ {n}, Closed(pos, n))
<1>1. In \in SUBSET Node
      /\ \A m \in In : m \in Link /\ pos[m] \in Nat /\ (m # n => pos[m] # pos[n])
  BY DEF Numbered, Link
<1>2. \A m \in In : Closed(pos, n)[m] = IF pos[m] > pos[n] THEN pos[m] - 1 ELSE pos[m]
  BY <1>1 DEF Closed
<1>3. QED
  BY <1>1, <1>2 DEF Ascending

\* usrtc_tree_insert: n goes to its place.
LEMMA BstInsertKeeps ==
    ASSUME NEW t \in Container, NEW In, NEW pos, Fits(t, In, pos), Ascending(In, pos),
           NEW n \in Node \ In
    PROVE  \E q : /\ Place(In, pos, KeyOf[n], q)
                  /\ Fits(BstInsert(t, n), In \cup {n}, Opened(pos, n, q))
                  /\ BstInsert(t, n) \in Container
                  /\ BstInsert(t, n).tag = t.tag
                  /\ BstInsert(t, n).count = t.count + 1
                  /\ \E p \in Bin(In), s \in Side :
                        /\ t.kid[s][p] = Nil /\ (p = Nil => s = "left")
                        /\ BstInserted(BstInsert(t, n), t, n, p, s)
<1> DEFINE p == Leaving(t, KeyOf[n])
           s == Way(KeyOf[n], p)
           u == BstInsert(t, n)
           q == pos[p] + IF s = "left" THEN 0 ELSE 1
<1>1. PICK b : Shape(t, In, pos, b)
  BY DEF Fits
<1>2. KeyOf[n] \in Nat
  BY NodeAssumption
<1>3. /\ p \in Bin(In) /\ s \in Side /\ t.kid[s][p] = Nil
      /\ \A x \in In : KeyOf[x] <= KeyOf[n] <=> pos[x] < q
  BY <1>1, <1>2, LeavingEnds
<1>4. p \in Link /\ p # n
  BY <1>1, <1>3, ShapeNumbers, Linked DEF Bin
<1>5. p = Nil => s = "left"
  BY DEF Way
<1> HIDE DEF p, s
<1>6. BstInserted(u, t, n, p, s)
  BY <1>4, BstInsertFields DEF p, s
<1>7. /\ q \in 1 .. Cardinality(In) + 1
      /\ \E b2 : Shape(u, In \cup {n}, Opened(pos, n, q), b2)
  BY <1>1, <1>3, <1>5, <1>6, InsertFits
<1>8. u \in Container /\ u.tag = t.tag /\ u.count = t.count + 1
  BY <1>6 DEF BstInserted
<1> HIDE DEF q
<1>9. Place(In, pos, KeyOf[n], q) /\ Fits(u, In \cup {n}, Opened(pos, n, q))
  BY <1>3, <1>7 DEF Place, Fits, q
<1>10. QED
  BY <1>3, <1>5, <1>6, <1>8, <1>9

-----------------------------------------------------------------------------
(***************************************************************************)
(* The list.                                                               *)
(***************************************************************************)
\* next leads to the next number, around the sentinel, and prev back.
Chain(t, In, pos) ==
    /\ Numbered(In, pos)
    /\ \A m \in Bin(In) :
          LET c == t.kid["right"][m]
          IN  /\ c \in Bin(In)
              /\ pos[c] = IF m = Nil THEN 1 ELSE pos[m] + 1
              /\ t.kid["left"][c] = m

\* What a Chain says of the numbers and of the way back.
LEMMA ChainNumbers ==
    ASSUME NEW t, NEW In, NEW pos, Chain(t, In, pos)
    PROVE  /\ In \in SUBSET Node /\ Cardinality(In) \in Nat
           /\ Bin(In) \subseteq Link /\ In \subseteq Bin(In)
           /\ Nil \in Bin(In) /\ Nil \notin In /\ Nil \in Link
           /\ \A m \in Bin(In) : m \in In \/ m = Nil
           /\ "left" \in Side /\ "right" \in Side
           /\ \A m \in Bin(In) : pos[m] \in Nat /\ pos[m] >= 1 /\ pos[m] <= Cardinality(In) + 1
           /\ \A m \in In : pos[m] <= Cardinality(In)
           /\ pos[Nil] = Cardinality(In) + 1
           /\ \A m, x \in Bin(In) : pos[m] = pos[x] => m = x
           /\ \A m \in Bin(In) : /\ t.kid["left"][m] \in Bin(In)
                                 /\ t.kid["right"][t.kid["left"][m]] = m
<1>1. /\ In \in SUBSET Node /\ Cardinality(In) \in Nat
      /\ Bin(In) \subseteq Link /\ Nil \notin In
  BY Counted DEF Chain, Numbered
<1>2. /\ \A m \in Bin(In) : pos[m] \in Nat /\ pos[m] >= 1 /\ pos[m] <= Cardinality(In) + 1
      /\ \A m \in In : pos[m] <= Cardinality(In)
      /\ pos[Nil] = Cardinality(In) + 1
      /\ \A m, x \in Bin(In) : pos[m] = pos[x] => m = x
  BY <1>1 DEF Chain, Numbered, Bin
<1>3. ASSUME NEW m \in Bin(In)
      PROVE  t.kid["left"][m] \in Bin(In) /\ t.kid["right"][t.kid["left"][m]] = m
  <2>1. PICK x \in Bin(In) : pos[m] = IF x = Nil THEN 1 ELSE pos[x] + 1
    <3>1. CASE pos[m] = 1
      BY <3>1 DEF Bin
    <3>2. CASE pos[m] # 1
      <4>1. pos[m] - 1 \in 1 .. Cardinality(In)
        BY <1>1, <1>2, <3>2
      <4>2. PICK x \in In : pos[x] = pos[m] - 1
        BY <4>1 DEF Chain, Numbered
      <4>3. QED
        BY <1>1, <1>2, <4>2 DEF Bin
    <3>3. QED
      BY <3>1, <3>2
  <2>2. t.kid["right"][x] = m
    BY <1>2, <2>1 DEF Chain
  <2>3. QED
    BY <2>1, <2>2 DEF Chain
<1>4. QED
  BY <1>1, <1>2, <1>3 DEF Bin, Side, Link

\* The node where a walk along next ends, which stops at the end of the list
\* and where Stop says so, if it has not passed such a node.
LEMMA ChainEnds ==
    ASSUME NEW t \in Container, NEW In, NEW pos, Chain(t, In, pos),
           NEW Stop \in SUBSET Node, NEW f,
           f = Iterate([m \in Link |-> IF m = Nil \/ m \in Stop THEN m ELSE t.kid["right"][m]],
                       t.kid["right"][Nil], Rounds)
    PROVE  /\ f \in Bin(In)
           /\ f # Nil => f \in Stop
           /\ \A x \in In : pos[x] < pos[f] => x \notin Stop
<1> DEFINE step == [m \in Link |-> IF m = Nil \/ m \in Stop THEN m ELSE t.kid["right"][m]]
           P == {m \in Bin(In) : \A x \in In : pos[x] < pos[m] => x \notin Stop}
           left == [m \in P |-> Cardinality(In) + 1 - pos[m]]
           n == t.kid["right"][Nil]
<1>1. /\ In \in SUBSET Node /\ Cardinality(In) \in Nat
      /\ Bin(In) \subseteq Link /\ In \subseteq Bin(In)
      /\ Nil \in Bin(In) /\ Nil \notin In
      /\ \A m \in Bin(In) : m \in In \/ m = Nil
      /\ \A m \in Bin(In) : pos[m] \in Nat /\ pos[m] >= 1 /\ pos[m] <= Cardinality(In) + 1
      /\ pos[Nil] = Cardinality(In) + 1
      /\ \A m, x \in Bin(In) : pos[m] = pos[x] => m = x
  BY ChainNumbers
<1>2. Rounds \in Nat /\ Cardinality(In) <= Rounds
  BY <1>1, Counted
<1>3. n \in P /\ pos[n] = 1
  BY <1>1 DEF Chain
<1>4. ASSUME NEW m \in P
      PROVE  step[m] \in P /\ (step[m] # m => pos[step[m]] = pos[m] + 1)
  <2>1. CASE m = Nil \/ m \in Stop
    BY <1>1, <2>1
  <2>2. CASE ~(m = Nil \/ m \in Stop)
    <3>1. step[m] = t.kid["right"][m] /\ m \in In
      BY <1>1, <2>2
    <3>2. step[m] \in Bin(In) /\ pos[step[m]] = pos[m] + 1
      BY <1>1, <2>2, <3>1 DEF Chain
    <3>3. ASSUME NEW x \in In, pos[x] < pos[step[m]] PROVE x \notin Stop
      BY <1>1, <2>2, <3>1, <3>2, <3>3
    <3>4. QED
      BY <3>2, <3>3
  <2>3. QED
    BY <2>1, <2>2
<1>5. left \in [P -> Nat] /\ \A m \in P : left[m] = Cardinality(In) + 1 - pos[m]
  BY <1>1
<1>6. \A m \in P : step[m] \in P /\ (step[m] # m => left[step[m]] < left[m])
  BY <1>1, <1>4, <1>5
<1>7. left[n] <= Rounds
  <2> HIDE DEF left, P, n
  <2>1. left[n] = Cardinality(In) + 1 - 1
    BY <1>3, <1>5
  <2>2. QED
    BY <1>1, <1>2, <2>1
<1>8. Iterate(step, n, Rounds) \in P /\ step[Iterate(step, n, Rounds)] = Iterate(step, n, Rounds)
  <2> HIDE DEF step, P, left, n
  <2> QED BY <1>2, <1>3, <1>5, <1>6, <1>7, IterateEnds
<1>9. f \in P /\ step[f] = f
  BY <1>8
<1>10. f # Nil => f \in Stop
  BY <1>1, <1>4, <1>9 DEF Chain
<1>11. QED
  BY <1>9, <1>10

\* list_lower_bound
LEMMA ListFromEnds ==
    ASSUME NEW t \in Container, NEW In, NEW pos, Chain(t, In, pos), NEW k \in Nat
    PROVE  LET f == ListFrom(t, k)
           IN  /\ f \in Bin(In)
               /\ f # Nil => KeyOf[f] >= k
               /\ \A x \in In : pos[x] < pos[f] => KeyOf[x] < k
<1> DEFINE Stop == {m \in Node : KeyOf[m] >= k}
           f == ListFrom(t, k)
<1>1. [m \in Link |-> IF m = Nil \/ KeyOf[m] >= k THEN m ELSE t.kid["right"][m]]
      = [m \in Link |-> IF m = Nil \/ m \in Stop THEN m ELSE t.kid["right"][m]]
  BY DEF Link
<1>2. f = Iterate([m \in Link |-> IF m = Nil \/ m \in Stop THEN m ELSE t.kid["right"][m]],
                  t.kid["right"][Nil], Rounds)
  BY <1>1 DEF ListFrom
<1>3. Stop \in SUBSET Node /\ \A m \in Node : m \in Stop <=> KeyOf[m] >= k
  OBVIOUS
<1> HIDE DEF f, Stop
<1>4. /\ f \in Bin(In)
      /\ f # Nil => f \in Stop
      /\ \A x \in In : pos[x] < pos[f] => x \notin Stop
  BY <1>2, <1>3, ChainEnds
<1>5. In \in SUBSET Node /\ \A x \in In : KeyOf[x] \in Nat
  BY ChainNumbers, NodeAssumption
<1>6. QED
  BY <1>3, <1>4, <1>5 DEF f

\* list_lookup
LEMMA ListLookupEnds ==
    ASSUME NEW t \in Container, NEW In, NEW pos, Chain(t, In, pos), NEW k \in Nat
    PROVE  LET f == ListLookup(t, k)
           IN  /\ f \in Bin(In)
               /\ f # Nil => KeyOf[f] = k
               /\ \A x \in In : pos[x] < pos[f] => KeyOf[x] # k
<1> DEFINE Stop == {m \in Node : KeyOf[m] = k}
           f == ListLookup(t, k)
<1>1. [m \in Link |-> IF m = Nil \/ KeyOf[m] = k THEN m ELSE t.kid["right"][m]]
      = [m \in Link |-> IF m = Nil \/ m \in Stop THEN m ELSE t.kid["right"][m]]
  BY DEF Link
<1>2. f = Iterate([m \in Link |-> IF m = Nil \/ m \in Stop THEN m ELSE t.kid["right"][m]],
                  t.kid["right"][Nil], Rounds)
  BY <1>1 DEF ListLookup, OnSpine
<1>3. Stop \in SUBSET Node /\ \A m \in Node : m \in Stop <=> KeyOf[m] = k
  OBVIOUS
<1> HIDE DEF f, Stop
<1>4. /\ f \in Bin(In)
      /\ f # Nil => f \in Stop
      /\ \A x \in In : pos[x] < pos[f] => x \notin Stop
  BY <1>2, <1>3, ChainEnds
<1>5. In \in SUBSET Node
  BY ChainNumbers
<1>6. QED
  BY <1>3, <1>4, <1>5 DEF f

-----------------------------------------------------------------------------
\* u is t with b behind a.
Behind(u, t, a, b) ==
    /\ u \in Container
    /\ \A m \in Link : /\ u.kid["right"][m] = IF m = a THEN b ELSE t.kid["right"][m]
                       /\ u.kid["left"][m] = IF m = b THEN a ELSE t.kid["left"][m]
    /\ u.parent = t.parent /\ u.tag = t.tag /\ u.count = t.count

\* Joining two nodes writes next of one and prev of the other.
LEMMA JoinFields ==
    ASSUME NEW t \in Container, NEW a \in Link, NEW b \in Link
    PROVE  Behind(Join(t, a, b), t, a, b)
<1> DEFINE v == [t EXCEPT !.kid["right"][a] = b]
           u == [v EXCEPT !.kid["left"][b] = a]
<1>1. "left" \in Side /\ "right" \in Side
  BY DEF Side
<1>2. KidWritten(v, t, "right", a, b)
  BY <1>1, KidFields
<1>3. Join(t, a, b) = u
  BY DEF Join
<1> HIDE DEF v
<1>4. v \in Container
  BY <1>2 DEF KidWritten
<1>5. KidWritten(u, v, "left", b, a)
  BY <1>1, <1>4, KidFields
<1> HIDE DEF u
<1>6. QED
  BY <1>1, <1>2, <1>3, <1>5 DEF KidWritten, Behind

\* u is t with n between p and s.
Between3(u, t, p, n, s) ==
    /\ u \in Container
    /\ \A m \in Link : /\ u.kid["right"][m] = IF m = p THEN n
                                                ELSE IF m = n THEN s ELSE t.kid["right"][m]
                       /\ u.kid["left"][m] = IF m = n THEN p
                                               ELSE IF m = s THEN n ELSE t.kid["left"][m]
    /\ u.tag = t.tag /\ u.count = t.count + 1

\* insert_before, field by field.
LEMMA PutBeforeFields ==
    ASSUME NEW t \in Container, NEW s \in Link, NEW n \in Link,
           NEW p, p = t.kid["left"][s], p \in Link, p # n, s # n
    PROVE  Between3(PutBefore(t, s, n), t, p, n, s)
<1> DEFINE v == Join(t, p, n)
           w == Join(v, n, s)
           u == [w EXCEPT !.count = @ + 1]
<1>1. PutBefore(t, s, n) = u
  BY DEF PutBefore
<1>2. Behind(v, t, p, n)
  BY JoinFields
<1> HIDE DEF v
<1>3. Behind(w, v, n, s)
  BY <1>2, JoinFields DEF Behind
<1> HIDE DEF w
<1>4. w \in Container /\ w.count = t.count /\ w.count + 1 \in Nat
  BY <1>2, <1>3 DEF Behind, Container
<1>5. CountWritten(u, w, w.count + 1)
  BY <1>4, CountFields
<1> HIDE DEF u
<1>6. QED
  BY <1>1, <1>2, <1>3, <1>4, <1>5 DEF Behind, CountWritten, Between3

\* u is t with n at place q.
Put(u, t, In, pos, n, q) ==
    /\ u \in Container /\ u.tag = t.tag /\ u.count = t.count + 1
    /\ q \in 1 .. Cardinality(In) + 1
    /\ Chain(u, In \cup {n}, Opened(pos, n, q))

\* n comes to the place that its successor had.
LEMMA PutBeforeFits ==
    ASSUME NEW t \in Container, NEW In, NEW pos, Chain(t, In, pos),
           NEW n \in Node \ In, NEW s \in Bin(In), NEW q, q = pos[s],
           NEW u, u = PutBefore(t, s, n)
    PROVE  Put(u, t, In, pos, n, q)
<1> DEFINE N == Cardinality(In)
           In2 == In \cup {n}
           open == Opened(pos, n, q)
           p == t.kid["left"][s]
<1>1. /\ In \in SUBSET Node /\ N \in Nat
      /\ Bin(In) \subseteq Link /\ In \subseteq Bin(In)
      /\ Nil \in Bin(In) /\ Nil \notin In /\ Nil \in Link
      /\ \A m \in Bin(In) : m \in In \/ m = Nil
      /\ \A m \in Bin(In) : pos[m] \in Nat /\ pos[m] >= 1 /\ pos[m] <= N + 1
      /\ \A m, x \in Bin(In) : pos[m] = pos[x] => m = x
      /\ p \in Bin(In) /\ t.kid["right"][p] = s
  BY ChainNumbers
<1>2. n \in Link /\ n # Nil /\ n \notin Bin(In) /\ n # p /\ n # s
  BY <1>1, Linked DEF Bin
<1>3. \A m \in Bin(In) : /\ t.kid["right"][m] \in Bin(In)
                         /\ pos[t.kid["right"][m]] = IF m = Nil THEN 1 ELSE pos[m] + 1
                         /\ t.kid["left"][t.kid["right"][m]] = m
  BY DEF Chain
<1> HIDE DEF p, N
<1>4. Between3(u, t, p, n, s)
  BY <1>1, <1>2, PutBeforeFields DEF p
<1>5. q \in 1 .. N + 1
  BY <1>1
<1>6. Numbered(In2, open)
  BY <1>5, OpenedNumbers DEF Chain, N
<1>7. \A m \in Link : open[m] = IF m = n THEN q ELSE IF pos[m] >= q THEN pos[m] + 1 ELSE pos[m]
  BY DEF Opened
<1> HIDE DEF open
<1>8. ASSUME NEW m \in Bin(In2)
      PROVE  LET c == u.kid["right"][m]
             IN  /\ c \in Bin(In2)
                 /\ open[c] = IF m = Nil THEN 1 ELSE open[m] + 1
                 /\ u.kid["left"][c] = m
  <2>1. m = n \/ m \in Bin(In)
    BY DEF Bin
  <2>2. CASE m = n
    BY <1>1, <1>2, <1>4, <1>5, <1>7, <2>2 DEF Between3, Bin
  <2>3. CASE m = p
    <3>1. u.kid["right"][m] = n /\ u.kid["left"][n] = m
      BY <1>1, <1>2, <1>4, <2>3 DEF Between3
    <3>2. q = IF m = Nil THEN 1 ELSE pos[m] + 1
      BY <1>1, <1>3, <2>3
    <3>3. open[n] = q /\ (m # Nil => open[m] = pos[m])
      BY <1>1, <1>2, <1>7, <2>3, <3>2
    <3>4. QED
      BY <1>2, <3>1, <3>2, <3>3 DEF Bin
  <2>4. CASE m \in Bin(In) /\ m # p
    <3> DEFINE c == t.kid["right"][m]
    <3>1. c \in Bin(In) /\ pos[c] = (IF m = Nil THEN 1 ELSE pos[m] + 1) /\ t.kid["left"][c] = m
      BY <1>3, <2>4
    <3>2. c # s /\ c # n /\ m # n
      BY <1>2, <2>4, <3>1 DEF p
    <3>3. u.kid["right"][m] = c /\ u.kid["left"][c] = m
      BY <1>1, <1>4, <2>4, <3>1, <3>2 DEF Between3
    <3>4. pos[c] # q
      BY <1>1, <3>1, <3>2
    <3>5. open[c] = IF m = Nil THEN 1 ELSE open[m] + 1
      BY <1>1, <1>2, <1>5, <1>7, <2>4, <3>1, <3>2, <3>4
    <3>6. QED
      BY <3>1, <3>3, <3>5 DEF Bin
  <2>5. QED
    BY <2>1, <2>2, <2>3, <2>4
<1>9. Chain(u, In2, open)
  BY <1>6, <1>8 DEF Chain
<1>10. QED
  BY <1>4, <1>5, <1>9 DEF Between3, N, open, Put

\* list_insert
LEMMA ListInsertKeeps ==
    ASSUME NEW t \in Container, NEW In, NEW pos, Chain(t, In, pos), Ascending(In, pos),
           NEW n \in Node \ In
    PROVE  \E q : /\ Place(In, pos, KeyOf[n], q)
                  /\ Chain(ListInsert(t, n), In \cup {n}, Opened(pos, n, q))
                  /\ ListInsert(t, n) \in Container
                  /\ ListInsert(t, n).tag = t.tag
                  /\ ListInsert(t, n).count = t.count + 1
<1> DEFINE s == ListFrom(t, KeyOf[n] + 1)
           q == pos[s]
           u == ListInsert(t, n)
<1>1. /\ In \in SUBSET Node /\ Cardinality(In) \in Nat
      /\ Nil \in Bin(In) /\ Nil \notin In /\ In \subseteq Bin(In)
      /\ \A m \in Bin(In) : m \in In \/ m = Nil
      /\ \A m \in Bin(In) : pos[m] \in Nat
      /\ \A m \in In : pos[m] <= Cardinality(In)
      /\ pos[Nil] = Cardinality(In) + 1
  BY ChainNumbers
<1>2. KeyOf[n] + 1 \in Nat /\ KeyOf[n] \in Nat /\ \A x \in In : KeyOf[x] \in Nat
  BY <1>1, NodeAssumption
<1>3. /\ s \in Bin(In)
      /\ s # Nil => KeyOf[s] >= KeyOf[n] + 1
      /\ \A x \in In : pos[x] < pos[s] => KeyOf[x] < KeyOf[n] + 1
  BY <1>2, ListFromEnds
<1>4. u = PutBefore(t, s, n) /\ q = pos[s]
  BY DEF ListInsert
<1> HIDE DEF s, u, q
<1>5. Put(u, t, In, pos, n, q)
  BY <1>3, <1>4, PutBeforeFits
<1>6. ASSUME NEW x \in In PROVE KeyOf[x] <= KeyOf[n] <=> pos[x] < q
  <2>1. CASE pos[x] < q
    BY <1>2, <1>3, <1>4, <2>1
  <2>2. CASE pos[x] >= q
    <3>1. s \in In
      BY <1>1, <1>3, <1>4, <2>2
    <3>2. KeyOf[x] >= KeyOf[s]
      BY <1>1, <1>2, <1>4, <2>2, <3>1 DEF Ascending
    <3>3. QED
      BY <1>1, <1>2, <1>3, <1>4, <2>2, <3>1, <3>2
  <2>3. QED
    BY <1>1, <1>3, <1>4, <2>1, <2>2
<1>7. Place(In, pos, KeyOf[n], q)
  BY <1>5, <1>6 DEF Place, Put
<1>8. QED
  BY <1>5, <1>7 DEF u, Put

\* list_delete
LEMMA ListDeleteKeeps ==
    ASSUME NEW t \in Container, NEW In, NEW pos, Chain(t, In, pos), NEW n \in In,
           t.count >= 1
    PROVE  /\ ListDelete(t, n) \in Container /\ ListDelete(t, n).tag = t.tag
           /\ ListDelete(t, n).count = t.count - 1
           /\ Chain(ListDelete(t, n), In \ {n}, Closed(pos, n))
<1> DEFINE N == Cardinality(In)
           In2 == In \ {n}
           close == Closed(pos, n)
           p == t.kid["left"][n]
           s == t.kid["right"][n]
           v == Join(t, p, s)
           u == [v EXCEPT !.count = @ - 1]
<1>1. /\ In \in SUBSET Node /\ N \in Nat
      /\ Bin(In) \subseteq Link /\ In \subseteq Bin(In)
      /\ Nil \in Bin(In) /\ Nil \notin In /\ Nil \in Link
      /\ \A m \in Bin(In) : m \in In \/ m = Nil
      /\ \A m \in Bin(In) : pos[m] \in Nat /\ pos[m] >= 1 /\ pos[m] <= N + 1
      /\ \A m, x \in Bin(In) : pos[m] = pos[x] => m = x
      /\ p \in Bin(In) /\ t.kid["right"][p] = n
  BY ChainNumbers
<1>2. \A m \in Bin(In) : /\ t.kid["right"][m] \in Bin(In)
                         /\ pos[t.kid["right"][m]] = IF m = Nil THEN 1 ELSE pos[m] + 1
                         /\ t.kid["left"][t.kid["right"][m]] = m
  BY DEF Chain
<1>3. /\ s \in Bin(In) /\ t.kid["left"][s] = n /\ pos[s] = pos[n] + 1
      /\ n # Nil /\ n \in Bin(In)
  BY <1>1, <1>2
<1>4. p # n /\ s # n
  BY <1>1, <1>2, <1>3
<1>5. ListDelete(t, n) = u
  BY DEF ListDelete
<1> HIDE DEF p, s, N
<1>6. Behind(v, t, p, s)
  BY <1>1, <1>3, JoinFields
<1> HIDE DEF v
<1>7. v \in Container /\ v.count = t.count /\ v.count - 1 \in Nat
  BY <1>6 DEF Behind, Container
<1>8. CountWritten(u, v, v.count - 1)
  BY <1>7, CountFields
<1> HIDE DEF u
<1>9. /\ u \in Container /\ u.tag = t.tag /\ u.count = t.count - 1
      /\ \A m \in Link : /\ u.kid["right"][m] = IF m = p THEN s ELSE t.kid["right"][m]
                         /\ u.kid["left"][m] = IF m = s THEN p ELSE t.kid["left"][m]
  BY <1>6, <1>7, <1>8 DEF Behind, CountWritten
<1>10. Numbered(In2, close)
  BY ClosedNumbers DEF Chain
<1>11. \A m \in Link : close[m] = IF pos[m] > pos[n] THEN pos[m] - 1 ELSE pos[m]
  BY DEF Closed
<1> HIDE DEF close
<1>12. ASSUME NEW m \in Bin(In2)
       PROVE  LET c == u.kid["right"][m]
              IN  /\ c \in Bin(In2)
                  /\ close[c] = IF m = Nil THEN 1 ELSE close[m] + 1
                  /\ u.kid["left"][c] = m
  <2>0. m \in Bin(In) /\ m # n /\ m \in Link
    BY <1>1, <1>3 DEF Bin
  <2>1. CASE m = p
    <3>1. u.kid["right"][m] = s /\ u.kid["left"][s] = m /\ s \in Bin(In2)
      BY <1>1, <1>3, <1>4, <1>9, <2>0, <2>1 DEF Bin
    <3>2. pos[n] = IF m = Nil THEN 1 ELSE pos[m] + 1
      BY <1>1, <1>2, <2>0, <2>1
    <3>3. close[s] = pos[n] /\ (m # Nil => close[m] = pos[m])
      BY <1>1, <1>3, <1>11, <2>0, <3>2
    <3>4. QED
      BY <3>1, <3>2, <3>3
  <2>2. CASE m # p
    <3> DEFINE c == t.kid["right"][m]
    <3>1. c \in Bin(In) /\ pos[c] = (IF m = Nil THEN 1 ELSE pos[m] + 1) /\ t.kid["left"][c] = m
      BY <1>2, <2>0
    <3>2. c # s /\ c # n
      BY <1>3, <2>0, <2>2, <3>1 DEF p
    <3>3. u.kid["right"][m] = c /\ u.kid["left"][c] = m
      BY <1>1, <1>9, <2>0, <2>2, <3>1, <3>2
    <3>4. pos[c] # pos[n] /\ pos[c] # pos[s] /\ pos[m] # pos[n]
      BY <1>1, <1>3, <2>0, <3>1, <3>2
    <3>5. close[c] = IF m = Nil THEN 1 ELSE close[m] + 1
      BY <1>1, <1>3, <1>11, <2>0, <3>1, <3>4
    <3>6. QED
      BY <3>1, <3>2, <3>3, <3>5 DEF Bin
  <2>3. QED
    BY <2>1, <2>2
<1>13. Chain(u, In2, close)
  BY <1>10, <1>12 DEF Chain
<1>14. QED
  BY <1>5, <1>9, <1>13 DEF close

-----------------------------------------------------------------------------
(***************************************************************************)
(* The links of a tree without their numbers, and tags.                    *)
(***************************************************************************)
\* Every kid leads back, and nobody is the kid of two.
Kin(t, In) ==
    /\ In \subseteq Node
    /\ \A n \in Bin(In), s \in Side :
          /\ t.kid[s][n] \in Bin(In)
          /\ t.kid[s][n] # Nil => t.parent[t.kid[s][n]] = n /\ t.kid[s][n] # n
    /\ \A n \in In : /\ t.parent[n] \in Bin(In) /\ t.parent[n] # n
                     /\ SideOf(t, n) \in Side
                     /\ t.kid[SideOf(t, n)][t.parent[n]] = n
                     /\ t.kid[Opp(SideOf(t, n))][t.parent[n]] # n
                     /\ t.parent[n] = Nil => Root(t) = n
                     /\ \A s \in Side : t.kid[s][n] # Nil => t.kid[s][n] # t.parent[n]
    /\ t.kid["right"][Nil] = Nil
    /\ \A n \in In : Root(t) = n => t.parent[n] = Nil /\ SideOf(t, n) = "left"

\* A tree has such links.
LEMMA ShapeKin ==
    ASSUME NEW t \in Container, NEW In, NEW pos, NEW b, Shape(t, In, pos, b)
    PROVE  Kin(t, In)
<1>1. Fits(t, In, pos)
  BY DEF Fits
<1>2. /\ In \in SUBSET Node /\ Nil \notin In /\ Nil \in Bin(In) /\ Bin(In) \subseteq Link
      /\ In \subseteq Bin(In) /\ "left" \in Side /\ "right" \in Side
      /\ \A m \in Bin(In) : m \in In \/ m = Nil
  BY ShapeNumbers
<1>3. t.kid["right"][Nil] = Nil /\ Root(t) \in Bin(In)
  BY <1>1, RootFits
<1>4. ASSUME NEW n \in Bin(In), NEW s \in Side
      PROVE  /\ t.kid[s][n] \in Bin(In)
             /\ t.kid[s][n] # Nil => t.parent[t.kid[s][n]] = n /\ t.kid[s][n] # n
  <2>1. KidFits(t, In, pos, b, n, s)
    BY DEF Shape
  <2>2. CASE t.kid[s][n] = Nil
    BY <1>2, <2>2
  <2>3. CASE t.kid[s][n] # Nil
    <3>1. t.kid[s][n] \in In /\ t.parent[t.kid[s][n]] = n
      BY <2>1, <2>3 DEF KidFits
    <3>2. n # t.kid[s][n]
      BY <3>1, KidPlace
    <3>3. QED
      BY <1>2, <3>1, <3>2
  <2>4. QED
    BY <2>2, <2>3
<1>5. ASSUME NEW n \in In
      PROVE  /\ t.parent[n] \in Bin(In) /\ t.parent[n] # n
             /\ SideOf(t, n) \in Side
             /\ t.kid[SideOf(t, n)][t.parent[n]] = n
             /\ t.kid[Opp(SideOf(t, n))][t.parent[n]] # n
             /\ t.parent[n] = Nil => Root(t) = n
             /\ \A s \in Side : t.kid[s][n] # Nil => t.kid[s][n] # t.parent[n]
  <2>1. t.parent[n] \in Bin(In) /\ \E s \in Side : t.kid[s][t.parent[n]] = n
    BY DEF Shape
  <2>2. SideOf(t, n) \in Side /\ t.kid[SideOf(t, n)][t.parent[n]] = n
    BY <2>1 DEF SideOf, Side
  <2>3. /\ t.parent[n] # n /\ t.kid[Opp(SideOf(t, n))][t.parent[n]] # n
        /\ \A v \in Side : t.kid[v][n] # Nil => t.kid[v][n] # t.parent[n]
    BY <2>1, <2>2, KidPlace
  <2>4. t.parent[n] = Nil => Root(t) = n
    BY <1>2, <1>3, <2>2 DEF Root, Side
  <2>5. QED
    BY <2>1, <2>2, <2>3, <2>4
<1>6. \A n \in In : Root(t) = n => t.parent[n] = Nil /\ SideOf(t, n) = "left"
  BY <1>2, <1>4 DEF Root, SideOf
<1>7. QED
  BY <1>2, <1>3, <1>4, <1>5, <1>6 DEF Kin

\* u is t with some tags written.
Tagged(u, t) ==
    u \in Container /\ u.kid = t.kid /\ u.parent = t.parent /\ u.count = t.count

\* u is t with one, two or three tags written.
TagWritten(u, t, n, v) ==
    /\ Tagged(u, t)
    /\ \A m \in Link : u.tag[m] = IF m = n THEN v ELSE t.tag[m]

TwoWritten(u, t, n, v, k, w) ==
    /\ Tagged(u, t)
    /\ \A m \in Link : u.tag[m] = IF m = k THEN w ELSE IF m = n THEN v ELSE t.tag[m]

ThreeWritten(u, t, n, v, k, w, l, x) ==
    /\ Tagged(u, t)
    /\ \A m \in Link : u.tag[m] = IF m = l THEN x ELSE IF m = k THEN w
                                   ELSE IF m = n THEN v ELSE t.tag[m]

Tag(t, n, v) == [t EXCEPT !.tag[n] = v]
TagTwo(t, n, v, k, w) == [t EXCEPT !.tag[n] = v, !.tag[k] = w]
TagThree(t, n, v, k, w, l, x) == [t EXCEPT !.tag[n] = v, !.tag[k] = w, !.tag[l] = x]

\* Writing tags.
LEMMA TagFields ==
    ASSUME NEW t \in Container, NEW n \in Link, NEW v \in 0 .. 2
    PROVE  TagWritten(Tag(t, n, v), t, n, v)
BY DEF Tag, Tagged, TagWritten, Container

\* Writing two tags.
LEMMA TwoTagFields ==
    ASSUME NEW t \in Container, NEW n \in Link, NEW v \in 0 .. 2, NEW k \in Link, NEW w \in 0 .. 2
    PROVE  TwoWritten(TagTwo(t, n, v, k, w), t, n, v, k, w)
BY DEF TagTwo, Tagged, TwoWritten, Container

\* Writing three tags.
LEMMA ThreeTagFields ==
    ASSUME NEW t \in Container, NEW n \in Link, NEW v \in 0 .. 2, NEW k \in Link, NEW w \in 0 .. 2,
           NEW l \in Link, NEW x \in 0 .. 2
    PROVE  ThreeWritten(TagThree(t, n, v, k, w, l, x), t, n, v, k, w, l, x)
BY DEF TagThree, Tagged, ThreeWritten, Container

\* The colours are tags.
LEMMA Colours == Red \in 0 .. 2 /\ Black \in 0 .. 2 /\ Red = 0 /\ Black = 1 /\ Red # Black
BY DEF Red, Black

\* Tags are not part of the shape.
LEMMA TaggedShape ==
    ASSUME NEW t, NEW u, Tagged(u, t), NEW In, NEW pos, NEW b, Shape(t, In, pos, b)
    PROVE  Shape(u, In, pos, b)
BY DEF Tagged, Shape, KidFits

-----------------------------------------------------------------------------
(***************************************************************************)
(* Red-black trees.  The colours a are not those of the tree while a        *)
(* deletion has painted the root, so they are a parameter of their own.    *)
(***************************************************************************)
\* One black node is missing below the kid on side q of p.
Lack(n, s, p, q) == IF n = p /\ s = q THEN 1 ELSE 0

\* h counts the black nodes of every way down from a node.
Even(t, a, In, h, p, q) ==
    /\ h \in [Link -> Nat] /\ h[Nil] = 0 /\ a[Nil] = Black
    /\ \A n \in In : a[n] \in {Red, Black}
    /\ \A n \in In, s \in Side : h[n] = h[t.kid[s][n]] + a[n] + Lack(n, s, p, q)

\* The kids of a red node are black, except x.
Pale(t, a, In, x) ==
    \A n \in In, s \in Side :
        a[n] = Red => a[t.kid[s][n]] = Black \/ t.kid[s][n] = x

\* Nothing is missing and no red node has a red kid.
RedBlack(t, a, In, h) ==
    Even(t, a, In, h, Nil, "left") /\ Pale(t, a, In, Nil) /\ a[Root(t)] = Black

\* The links of u are those of t after the rotation of p and its kid c.
Spun(u, t, s, c, p, r) ==
    /\ t.kid[r][t.parent[p]] = p
    /\ \A q \in Side, m \in Link :
          u.kid[q][m] = IF m = t.parent[p] /\ q = r THEN c
                        ELSE IF m = p /\ q = Opp(s) THEN t.kid[s][c]
                        ELSE IF m = c /\ q = s THEN p
                        ELSE t.kid[q][m]
    /\ \A m \in Link : u.parent[m] = IF m = p THEN c
                                      ELSE IF m = c THEN t.parent[p]
                                      ELSE IF m = t.kid[s][c] THEN p ELSE t.parent[m]

\* The colours a2 are a with those of c and p exchanged.
Exchanged(a2, a, c, p) ==
    \A m \in Link : a2[m] = IF m = c THEN a[p] ELSE IF m = p THEN a[c] ELSE a[m]

\* A rotation does not look at tags.
LEMMA RotateSpins ==
    ASSUME NEW t \in Container, NEW In, NEW pos, Fits(t, In, pos),
           NEW s \in Side, NEW c \in In, NEW p \in In, t.kid[Opp(s)][p] = c,
           NEW w, Tagged(w, t)
    PROVE  LET u == Rotate(w, s, c, p)
           IN  /\ u \in Container /\ u.tag = w.tag /\ u.count = t.count /\ Fits(u, In, pos)
               /\ \E r \in Side : Spun(u, t, s, c, p, r)
<1> DEFINE u == Rotate(w, s, c, p)
<1>1. PICK b : Shape(t, In, pos, b)
  BY DEF Fits
<1>2. Shape(w, In, pos, b)
  BY <1>1, TaggedShape
<1>3. Fits(w, In, pos) /\ w \in Container /\ w.kid[Opp(s)][p] = c
  BY <1>2 DEF Fits, Tagged
<1>4. PICK r \in Side : /\ Rotated(u, w, s, c, p, w.parent[p], r, w.kid[s][c])
                        /\ w.kid[r][w.parent[p]] = p
  BY <1>3, RotateFits
<1>5. Fits(u, In, pos)
  BY <1>3, RotateFits
<1> HIDE DEF u
<1>6. /\ Rotated(u, w, s, c, p, t.parent[p], r, t.kid[s][c]) /\ w.count = t.count
      /\ w.kid = t.kid /\ w.parent = t.parent /\ t.kid[r][t.parent[p]] = p
  BY <1>4 DEF Tagged
<1>7. Spun(u, t, s, c, p, r)
  BY <1>6 DEF Spun, Rotated
<1>8. u \in Container /\ u.tag = w.tag /\ u.count = t.count
  BY <1>6 DEF Rotated
<1>9. QED
  BY <1>5, <1>7, <1>8 DEF u

\* Where the two nodes of a rotation and their kids are.
LEMMA SpunKin ==
    ASSUME NEW t \in Container, NEW In, Kin(t, In),
           NEW s \in Side, NEW c \in In, NEW p \in In, t.kid[Opp(s)][p] = c,
           NEW g, g = t.parent[p], NEW x, x = t.kid[s][c], NEW y, y = t.kid[s][p],
           NEW z, z = t.kid[Opp(s)][c], NEW r \in Side, t.kid[r][g] = p
    PROVE  /\ c # p /\ g # p /\ g # c /\ x # c /\ x # p /\ y # c /\ y # p /\ z # c /\ z # p
           /\ g \in Bin(In) /\ x \in Bin(In) /\ y \in Bin(In) /\ z \in Bin(In)
           /\ In \subseteq Link /\ Bin(In) \subseteq Link /\ Nil \in Link /\ Nil \notin In
           /\ t.parent[c] = p
           /\ Opp(s) \in Side /\ Opp(s) # s /\ \A q \in Side : q = s \/ q = Opp(s)
           /\ \A n \in In, q \in Side :
                 /\ t.kid[q][n] = p => n = g /\ q = r
                 /\ t.kid[q][n] = c => n = p /\ q = Opp(s)
<1>1. In \subseteq Link /\ Bin(In) \subseteq Link /\ Nil \in Link /\ Nil \notin In
  BY Linked DEF Kin, Bin, Link
<1>2. Opp(s) \in Side /\ Opp(s) # s /\ \A q \in Side : q = s \/ q = Opp(s)
  BY SideOpp
<1>3. \A n \in In, q \in Side : /\ t.kid[q][n] \in Bin(In)
                                /\ t.kid[q][n] # Nil => t.parent[t.kid[q][n]] = n /\ t.kid[q][n] # n
                                                          /\ t.kid[q][n] # t.parent[n]
  BY DEF Kin, Bin
<1>4. c # p /\ t.parent[c] = p /\ c # g /\ g \in Bin(In) /\ g # p
  BY <1>1, <1>2, <1>3 DEF Kin
<1>5. x \in Bin(In) /\ y \in Bin(In) /\ z \in Bin(In)
  BY <1>2, <1>3
<1>6. x # c /\ x # p /\ z # c /\ z # p /\ y # p
  BY <1>1, <1>2, <1>3, <1>4
<1>7. ASSUME NEW n \in In PROVE t.kid[SideOf(t, n)][t.parent[n]] = n
                                /\ SideOf(t, n) \in Side /\ t.kid[Opp(SideOf(t, n))][t.parent[n]] # n
  BY DEF Kin
<1>8. SideOf(t, c) = Opp(s)
  <2>1. CASE SideOf(t, c) = s
    <3>1. t.kid[Opp(s)][p] # c
      BY <1>4, <1>7, <2>1
    <3>2. QED
      BY <3>1
  <2>2. QED
    BY <1>2, <1>7, <2>1
<1>9. y # c
  <2>1. Opp(Opp(s)) = s
    BY SideOpp
  <2>2. QED
    BY <1>4, <1>7, <1>8, <2>1
<1>10. SideOf(t, p) = r
  <2>1. r = SideOf(t, p) \/ r = Opp(SideOf(t, p))
    BY <1>7, SideOpp
  <2>2. QED
    BY <1>7, <2>1
<1>11. ASSUME NEW n \in In, NEW q \in Side
       PROVE  /\ t.kid[q][n] = p => n = g /\ q = r
              /\ t.kid[q][n] = c => n = p /\ q = Opp(s)
  <2>1. ASSUME NEW k \in In, t.kid[q][n] = k PROVE n = t.parent[k] /\ q = SideOf(t, k)
    <3>1. n = t.parent[k]
      BY <1>1, <1>3, <2>1
    <3>2. t.kid[Opp(SideOf(t, k))][n] # k /\ (q = SideOf(t, k) \/ q = Opp(SideOf(t, k)))
      BY <1>7, <3>1, SideOpp
    <3>3. QED
      BY <2>1, <3>1, <3>2
  <2>2. QED
    BY <1>4, <1>8, <1>10, <2>1
<1>12. QED
  BY <1>1, <1>2, <1>4, <1>5, <1>6, <1>9, <1>11

\* A rotation that exchanges the colours of its two nodes keeps the counts if
\* the kid is red; otherwise what was missing on one side goes to the other.
LEMMA TurnEven ==
    ASSUME NEW t \in Container, NEW In, Kin(t, In),
           NEW s \in Side, NEW c \in In, NEW p \in In, t.kid[Opp(s)][p] = c,
           NEW u, NEW r \in Side, Spun(u, t, s, c, p, r),
           NEW a, NEW h, NEW p0, NEW q0, Even(t, a, In, h, p0, q0),
           NEW a2, Exchanged(a2, a, c, p),
           p0 # c, ~(p0 = p /\ q0 = Opp(s)),
           NEW p2, NEW q2,
           \/ a[c] = Red /\ p2 = p0 /\ q2 = q0
           \/ a[c] = Black /\ p0 = p /\ q0 = s /\ p2 = c /\ q2 = Opp(s)
    PROVE  \E h2 : Even(u, a2, In, h2, p2, q2)
<1>1. PICK g, x, y, z : g = t.parent[p] /\ x = t.kid[s][c] /\ y = t.kid[s][p] /\ z = t.kid[Opp(s)][c]
  OBVIOUS
<1>2. t.kid[r][g] = p
  BY <1>1 DEF Spun
<1>3. /\ c # p /\ g # p /\ g # c /\ x # c /\ x # p /\ y # c /\ y # p /\ z # c /\ z # p
      /\ g \in Bin(In) /\ x \in Bin(In) /\ y \in Bin(In) /\ z \in Bin(In)
      /\ In \subseteq Link /\ Bin(In) \subseteq Link /\ Nil \in Link /\ Nil \notin In
      /\ Opp(s) \in Side /\ Opp(s) # s /\ \A q \in Side : q = s \/ q = Opp(s)
      /\ \A n \in In, q \in Side :
            /\ t.kid[q][n] = p => n = g /\ q = r
            /\ t.kid[q][n] = c => n = p /\ q = Opp(s)
  BY <1>1, <1>2, SpunKin
<1>4. \A q \in Side, m \in Link :
          u.kid[q][m] = IF m = g /\ q = r THEN c
                        ELSE IF m = p /\ q = Opp(s) THEN x
                        ELSE IF m = c /\ q = s THEN p
                        ELSE t.kid[q][m]
  BY <1>1 DEF Spun
<1>5. /\ h \in [Link -> Nat] /\ h[Nil] = 0 /\ a[Nil] = Black
      /\ \A n \in In : a[n] \in {Red, Black}
      /\ \A n \in In, q \in Side : h[n] = h[t.kid[q][n]] + a[n] + Lack(n, q, p0, q0)
  BY DEF Even
<1> DEFINE h2 == [m \in Link |-> IF m = c THEN h[p] ELSE IF m = p THEN h[c] ELSE h[m]]
<1>6. /\ h2 \in [Link -> Nat] /\ h2[c] = h[p] /\ h2[p] = h[c]
      /\ \A m \in Link : m # c /\ m # p => h2[m] = h[m]
  BY <1>3, <1>5
<1> HIDE DEF h2
<1>7. a2[c] = a[p] /\ a2[p] = a[c] /\ \A m \in Link : m # c /\ m # p => a2[m] = a[m]
  BY <1>3 DEF Exchanged
<1>8. /\ h[p] \in Nat /\ h[c] \in Nat /\ h[x] \in Nat /\ h[y] \in Nat /\ h[z] \in Nat
      /\ a[p] \in {0, 1} /\ a[c] \in {0, 1}
  BY <1>3, <1>5 DEF Red, Black
<1>9. /\ h[p] = h[c] + a[p] /\ h[c] = h[x] + a[c] /\ h[c] = h[z] + a[c]
      /\ h[p] = h[y] + a[p] + Lack(p, s, p0, q0)
  <2>1. Lack(p, Opp(s), p0, q0) = 0 /\ Lack(c, s, p0, q0) = 0 /\ Lack(c, Opp(s), p0, q0) = 0
    BY DEF Lack
  <2>2. /\ h[p] = h[t.kid[Opp(s)][p]] + a[p] + Lack(p, Opp(s), p0, q0)
        /\ h[c] = h[t.kid[s][c]] + a[c] + Lack(c, s, p0, q0)
        /\ h[c] = h[t.kid[Opp(s)][c]] + a[c] + Lack(c, Opp(s), p0, q0)
        /\ h[p] = h[t.kid[s][p]] + a[p] + Lack(p, s, p0, q0)
    BY <1>3, <1>5
  <2>3. QED
    BY <1>1, <1>8, <2>1, <2>2
<1>10. /\ Lack(p, Opp(s), p2, q2) = 0 /\ Lack(c, s, p2, q2) = 0
       /\ Lack(c, Opp(s), p2, q2) = a[c]
       /\ Lack(p, s, p0, q0) = a[c] + Lack(p, s, p2, q2)
       /\ Lack(p, s, p2, q2) \in {0, 1}
  BY <1>3, Colours DEF Lack
<1>11. \A n \in In, q \in Side : n # p /\ n # c => Lack(n, q, p2, q2) = Lack(n, q, p0, q0)
  BY <1>3 DEF Lack
<1>12. ASSUME NEW n \in In, NEW q \in Side
       PROVE  h2[n] = h2[u.kid[q][n]] + a2[n] + Lack(n, q, p2, q2)
  <2>1. n \in Link /\ t.kid[q][n] \in Bin(In)
    BY <1>3 DEF Kin, Bin
  <2>2. CASE n = p /\ q = Opp(s)
    <3>1. u.kid[q][n] = x
      BY <1>3, <1>4, <2>1, <2>2
    <3>2. h2[x] = h[x]
      BY <1>3, <1>6
    <3>3. QED
      BY <1>6, <1>7, <1>8, <1>9, <1>10, <2>2, <3>1, <3>2
  <2>3. CASE n = p /\ q = s
    <3>1. u.kid[q][n] = y
      BY <1>1, <1>3, <1>4, <2>1, <2>3
    <3>2. h2[y] = h[y]
      BY <1>3, <1>6
    <3>3. h[c] = h[y] + Lack(p, s, p0, q0)
      BY <1>8, <1>9, <1>10
    <3>4. QED
      BY <1>6, <1>7, <1>8, <1>10, <2>3, <3>1, <3>2, <3>3
  <2>4. CASE n = c /\ q = s
    <3>1. u.kid[q][n] = p
      BY <1>3, <1>4, <2>1, <2>4
    <3>2. QED
      BY <1>6, <1>7, <1>8, <1>9, <1>10, <2>4, <3>1
  <2>5. CASE n = c /\ q = Opp(s)
    <3>1. u.kid[q][n] = z
      BY <1>1, <1>3, <1>4, <2>1, <2>5
    <3>2. h2[z] = h[z]
      BY <1>3, <1>6
    <3>3. QED
      BY <1>6, <1>7, <1>8, <1>9, <1>10, <2>5, <3>1, <3>2
  <2>6. CASE n # p /\ n # c
    <3>1. /\ h2[n] = h[n] /\ a2[n] = a[n] /\ Lack(n, q, p2, q2) = Lack(n, q, p0, q0)
          /\ h[n] = h[t.kid[q][n]] + a[n] + Lack(n, q, p0, q0)
      BY <1>5, <1>6, <1>7, <1>11, <2>1, <2>6
    <3>2. CASE n = g /\ q = r
      <4>1. u.kid[q][n] = c /\ t.kid[q][n] = p
        BY <1>2, <1>4, <2>1, <3>2
      <4>2. QED
        BY <1>6, <3>1, <4>1
    <3>3. CASE ~(n = g /\ q = r)
      <4>1. u.kid[q][n] = t.kid[q][n]
        BY <1>4, <2>1, <2>6, <3>3
      <4>2. t.kid[q][n] # p /\ t.kid[q][n] # c /\ t.kid[q][n] \in Link
        BY <1>3, <2>1, <2>6, <3>3
      <4>3. QED
        BY <1>6, <3>1, <4>1, <4>2
    <3>4. QED
      BY <3>2, <3>3
  <2>7. QED
    BY <1>3, <2>2, <2>3, <2>4, <2>5, <2>6
<1>13. /\ \A n \in In : a2[n] \in {Red, Black}
       /\ h2[Nil] = 0 /\ a2[Nil] = Black
  BY <1>3, <1>5, <1>6, <1>7
<1>14. Even(u, a2, In, h2, p2, q2)
  BY <1>6, <1>12, <1>13 DEF Even
<1>15. QED
  BY <1>14

\* The two ways to use it.
LEMMA RedTurnEven ==
    ASSUME NEW t \in Container, NEW In, Kin(t, In),
           NEW s \in Side, NEW c \in In, NEW p \in In, t.kid[Opp(s)][p] = c,
           NEW u, NEW r \in Side, Spun(u, t, s, c, p, r),
           NEW a, NEW h, NEW p0, NEW q0, Even(t, a, In, h, p0, q0),
           NEW a2, Exchanged(a2, a, c, p),
           p0 # c, ~(p0 = p /\ q0 = Opp(s)), a[c] = Red
    PROVE  \E h2 : Even(u, a2, In, h2, p0, q0)
<1>1. PICK p2, q2 : p2 = p0 /\ q2 = q0
  OBVIOUS
<1>2. \/ a[c] = Red /\ p2 = p0 /\ q2 = q0
      \/ a[c] = Black /\ p0 = p /\ q0 = s /\ p2 = c /\ q2 = Opp(s)
  BY <1>1
<1>3. \E h2 : Even(u, a2, In, h2, p2, q2)
  BY <1>2, TurnEven
<1>4. QED
  BY <1>1, <1>3

LEMMA BlackTurnEven ==
    ASSUME NEW t \in Container, NEW In, Kin(t, In),
           NEW s \in Side, NEW c \in In, NEW p \in In, t.kid[Opp(s)][p] = c,
           NEW u, NEW r \in Side, Spun(u, t, s, c, p, r),
           NEW a, NEW h, Even(t, a, In, h, p, s),
           NEW a2, Exchanged(a2, a, c, p), c # p, a[c] = Black
    PROVE  \E h2 : Even(u, a2, In, h2, c, Opp(s))
<1>1. PICK p0, q0, p2, q2 : p0 = p /\ q0 = s /\ p2 = c /\ q2 = Opp(s)
  OBVIOUS
<1>2. /\ \/ a[c] = Red /\ p2 = p0 /\ q2 = q0
         \/ a[c] = Black /\ p0 = p /\ q0 = s /\ p2 = c /\ q2 = Opp(s)
      /\ p0 # c /\ ~(p0 = p /\ q0 = Opp(s)) /\ Even(t, a, In, h, p0, q0)
  BY <1>1, SideOpp
<1>3. \E h2 : Even(u, a2, In, h2, p2, q2)
  BY <1>2, TurnEven
<1>4. QED
  BY <1>1, <1>3

\* The same, for the colours of the kids: x may be a red kid of a red node
\* before, x2 after.
LEMMA TurnPale ==
    ASSUME NEW t \in Container, NEW In, Kin(t, In),
           NEW s \in Side, NEW c \in In, NEW p \in In, t.kid[Opp(s)][p] = c,
           NEW u, NEW r \in Side, Spun(u, t, s, c, p, r),
           NEW a, NEW a2, Exchanged(a2, a, c, p), NEW x, Pale(t, a, In, x),
           NEW y, y = t.kid[s][p], NEW z, z = t.kid[Opp(s)][c], NEW x2,
           a[Nil] = Black, a[c] \in {Red, Black},
           x # p, x \in {x2, c, z, Nil},
           a[p] = Red /\ a[c] = Red => x2 = p,
           a[c] = Red => a[y] = Black,
           a[p] = Red => a[z] = Black \/ z = x2
    PROVE  Pale(u, a2, In, x2)
<1>1. PICK g, m1 : g = t.parent[p] /\ m1 = t.kid[s][c]
  OBVIOUS
<1>2. t.kid[r][g] = p
  BY <1>1 DEF Spun
<1>3. /\ c # p /\ g # p /\ g # c /\ m1 # c /\ m1 # p /\ y # c /\ y # p /\ z # c /\ z # p
      /\ g \in Bin(In) /\ m1 \in Bin(In) /\ y \in Bin(In) /\ z \in Bin(In)
      /\ In \subseteq Link /\ Bin(In) \subseteq Link /\ Nil \in Link /\ Nil \notin In
      /\ t.parent[c] = p
      /\ Opp(s) \in Side /\ Opp(s) # s /\ \A q \in Side : q = s \/ q = Opp(s)
      /\ \A n \in In, q \in Side :
            /\ t.kid[q][n] = p => n = g /\ q = r
            /\ t.kid[q][n] = c => n = p /\ q = Opp(s)
  BY <1>1, <1>2, SpunKin
<1>4. \A q \in Side, m \in Link :
          u.kid[q][m] = IF m = g /\ q = r THEN c
                        ELSE IF m = p /\ q = Opp(s) THEN m1
                        ELSE IF m = c /\ q = s THEN p
                        ELSE t.kid[q][m]
  BY <1>1 DEF Spun
<1>5. a2[c] = a[p] /\ a2[p] = a[c] /\ \A m \in Link : m # c /\ m # p => a2[m] = a[m]
  BY <1>3 DEF Exchanged
<1>6. \A n \in In, q \in Side : a[n] = Red => a[t.kid[q][n]] = Black \/ t.kid[q][n] = x
  BY DEF Pale
<1>7. ASSUME NEW n \in In, NEW q \in Side, a2[n] = Red
      PROVE  a2[u.kid[q][n]] = Black \/ u.kid[q][n] = x2
  <2>1. /\ n \in Link /\ t.kid[q][n] \in Bin(In)
        /\ t.kid[q][n] # Nil => t.parent[t.kid[q][n]] = n
    BY <1>3 DEF Kin, Bin
  <2>2. CASE n = p /\ q = Opp(s)
    <3>1. u.kid[q][n] = m1 /\ a[c] = Red
      BY <1>3, <1>4, <1>5, <1>7, <2>1, <2>2
    <3>2. a[m1] = Black \/ m1 = x
      BY <1>1, <1>6, <3>1
    <3>3. a2[m1] = a[m1]
      BY <1>3, <1>5
    <3>4. z # m1 \/ z = Nil
      <4>1. z # Nil => SideOf(t, z) = Opp(s)
        <5>1. z # Nil => z \in In /\ t.parent[z] = c
          BY <1>3 DEF Kin, Bin
        <5>2. z # Nil => t.kid[Opp(SideOf(t, z))][c] # z /\ SideOf(t, z) \in Side
          BY <5>1 DEF Kin
        <5>3. QED
          BY <1>3, <5>2, SideOpp
      <4>2. m1 # Nil => m1 \in In /\ t.parent[m1] = c /\ t.kid[Opp(SideOf(t, m1))][c] # m1
        BY <1>1, <1>3 DEF Kin, Bin
      <4>3. Opp(Opp(s)) = s
        BY SideOpp
      <4>4. QED
        BY <1>1, <4>1, <4>2, <4>3
    <3>5. QED
      BY <1>3, <3>1, <3>2, <3>3, <3>4
  <2>3. CASE n = p /\ q = s
    <3>1. u.kid[q][n] = y /\ a[c] = Red /\ a2[y] = a[y]
      BY <1>3, <1>4, <1>5, <1>7, <2>1, <2>3
    <3>2. QED
      BY <3>1
  <2>4. CASE n = c /\ q = s
    <3>1. u.kid[q][n] = p /\ a[p] = Red /\ a2[p] = a[c]
      BY <1>3, <1>4, <1>5, <1>7, <2>1, <2>4
    <3>2. QED
      BY <3>1
  <2>5. CASE n = c /\ q = Opp(s)
    <3>1. u.kid[q][n] = z /\ a[p] = Red /\ a2[z] = a[z]
      BY <1>3, <1>4, <1>5, <1>7, <2>1, <2>5
    <3>2. QED
      BY <3>1
  <2>6. CASE n # p /\ n # c
    <3>1. a[n] = Red
      BY <1>5, <1>7, <2>1, <2>6
    <3>2. CASE n = g /\ q = r
      <4>1. u.kid[q][n] = c /\ t.kid[q][n] = p
        BY <1>2, <1>4, <2>1, <3>2
      <4>2. a[p] = Black
        BY <1>6, <3>1, <4>1
      <4>3. QED
        BY <1>5, <4>1, <4>2
    <3>3. CASE ~(n = g /\ q = r)
      <4>1. u.kid[q][n] = t.kid[q][n]
        BY <1>4, <2>1, <2>6, <3>3
      <4>2. t.kid[q][n] # p /\ t.kid[q][n] # c /\ t.kid[q][n] \in Link
        BY <1>3, <2>1, <2>6, <3>3
      <4>3. a2[t.kid[q][n]] = a[t.kid[q][n]]
        BY <1>5, <4>2
      <4>4. t.kid[q][n] = z => z = Nil
        <5>1. z # Nil => t.parent[z] = c
          BY <1>3 DEF Kin, Bin
        <5>2. QED
          BY <2>1, <2>6, <5>1
      <4>5. a[t.kid[q][n]] = Black \/ t.kid[q][n] = x
        BY <1>6, <3>1
      <4>6. QED
        BY <4>1, <4>2, <4>3, <4>4, <4>5
    <3>4. QED
      BY <3>2, <3>3
  <2>7. QED
    BY <1>3, <2>2, <2>3, <2>4, <2>5, <2>6
<1>8. QED
  BY <1>7 DEF Pale

-----------------------------------------------------------------------------
\* Nothing is missing below a node when it is missing nowhere.
LEMMA NoLack == \A n \in Node : \A s, q : Lack(n, s, Nil, q) = 0
BY Linked DEF Lack

\* A node is the kid of one node, on one side.
LEMMA SideIs ==
    ASSUME NEW t \in Container, NEW In, Kin(t, In), NEW n \in In, NEW s \in Side, NEW p \in Bin(In),
           t.kid[s][p] = n
    PROVE  t.parent[n] = p /\ SideOf(t, n) = s /\ t.kid[Opp(s)][p] # n
<1>1. Nil \notin In
  BY Linked DEF Kin
<1>2. t.parent[n] = p
  BY <1>1 DEF Kin
<1>3. /\ SideOf(t, n) \in Side /\ t.kid[SideOf(t, n)][p] = n
      /\ t.kid[Opp(SideOf(t, n))][p] # n
  BY <1>2 DEF Kin
<1>4. s = SideOf(t, n) \/ s = Opp(SideOf(t, n))
  BY <1>3, SideOpp
<1>5. QED
  BY <1>2, <1>3, <1>4

\* Painting the node black that is below where one is missing.
LEMMA PaintEven ==
    ASSUME NEW t \in Container, NEW In, Kin(t, In), NEW a, NEW h, NEW p, NEW q \in Side,
           Even(t, a, In, h, p, q), NEW c \in In, a[c] = Red, p \in Bin(In), t.kid[q][p] = c,
           NEW a2, \A m \in Link : a2[m] = IF m = c THEN Black ELSE a[m]
    PROVE  \E h2 : Even(t, a2, In, h2, Nil, "left")
<1> DEFINE h2 == [m \in Link |-> IF m = c THEN h[c] + 1 ELSE h[m]]
<1>1. In \subseteq Link /\ Nil \in Link /\ Nil \notin In /\ Bin(In) \subseteq Link /\ In \subseteq Node
  BY Linked DEF Kin, Bin, Link
<1>2. /\ h \in [Link -> Nat] /\ h[Nil] = 0 /\ a[Nil] = Black
      /\ \A n \in In : a[n] \in {Red, Black}
      /\ \A n \in In, s \in Side : h[n] = h[t.kid[s][n]] + a[n] + Lack(n, s, p, q)
  BY DEF Even
<1>3. /\ h2 \in [Link -> Nat] /\ h2[c] = h[c] + 1 /\ h[c] \in Nat
      /\ \A m \in Link : m # c => h2[m] = h[m]
  BY <1>1, <1>2
<1> HIDE DEF h2
<1>4. ASSUME NEW n \in In, NEW s \in Side PROVE h2[n] = h2[t.kid[s][n]] + a2[n] + Lack(n, s, Nil, "left")
  <2>0. Lack(n, s, Nil, "left") = 0
    BY <1>1, NoLack
  <2>1. /\ n \in Link /\ t.kid[s][n] \in Bin(In) /\ t.kid[s][n] \in Link
        /\ (t.kid[s][n] # Nil => t.parent[t.kid[s][n]] = n /\ t.kid[s][n] # n)
    BY <1>1 DEF Kin, Bin
  <2>2. /\ h[n] = h[t.kid[s][n]] + a[n] + Lack(n, s, p, q)
        /\ h[n] \in Nat /\ h[t.kid[s][n]] \in Nat /\ a[n] \in {0, 1}
    BY <1>2, <2>1 DEF Red, Black
  <2>3. CASE n = p /\ s = q
    <3>1. t.kid[s][n] = c /\ n # c /\ Lack(n, s, p, q) = 1
      BY <1>1, <2>1, <2>3 DEF Lack
    <3>2. QED
      BY <1>3, <2>0, <2>1, <2>2, <3>1
  <2>4. CASE ~(n = p /\ s = q)
    <3>1. Lack(n, s, p, q) = 0
      BY <2>4 DEF Lack
    <3>2. t.kid[s][n] # c
      <4>1. t.kid[s][n] = c => n = p
        BY <1>1, <2>1 DEF Kin
      <4>2. t.kid[s][n] = c => s = q
        BY <1>1, <4>1, SideIs DEF Bin
      <4>3. QED
        BY <2>4, <4>1, <4>2
    <3>3. h2[t.kid[s][n]] = h[t.kid[s][n]]
      BY <1>3, <2>1, <3>2
    <3>4. CASE n = c
      BY <1>1, <1>3, <2>0, <2>2, <3>1, <3>3, <3>4, Colours
    <3>5. CASE n # c
      BY <1>3, <2>0, <2>1, <2>2, <3>1, <3>3, <3>5
    <3>6. QED
      BY <3>4, <3>5
  <2>5. QED
    BY <2>3, <2>4
<1>5. /\ h2[Nil] = 0 /\ a2[Nil] = Black /\ \A n \in In : a2[n] \in {Red, Black}
  BY <1>1, <1>2, <1>3
<1>6. Even(t, a2, In, h2, Nil, "left")
  BY <1>3, <1>4, <1>5 DEF Even
<1>7. QED
  BY <1>6

LEMMA PaintPale ==
    ASSUME NEW t \in Container, NEW In, Kin(t, In), NEW a, NEW x, Pale(t, a, In, x),
           NEW c \in Link, NEW a2, \A m \in Link : a2[m] = IF m = c THEN Black ELSE a[m],
           NEW e, x \in {e, c}
    PROVE  Pale(t, a2, In, e)
<1>1. ASSUME NEW n \in In, NEW s \in Side, a2[n] = Red
      PROVE  a2[t.kid[s][n]] = Black \/ t.kid[s][n] = e
  <2>1. n \in Link /\ t.kid[s][n] \in Link
    BY Linked DEF Kin, Bin, Link
  <2>2. a[n] = Red
    BY <1>1, <2>1, Colours
  <2>3. a[t.kid[s][n]] = Black \/ t.kid[s][n] = x
    BY <2>2 DEF Pale
  <2>4. QED
    BY <2>1, <2>3
<1>2. QED
  BY <1>1 DEF Pale

\* An exception below a black node is none.
LEMMA PaleBelow ==
    ASSUME NEW t \in Container, NEW In, Kin(t, In), NEW a, NEW x \in In, Pale(t, a, In, x),
           a[t.parent[x]] # Red, NEW e
    PROVE  Pale(t, a, In, e)
<1>1. \A n \in In, s \in Side : t.kid[s][n] = x => n = t.parent[x]
  BY Linked DEF Kin, Bin
<1>2. QED
  BY <1>1 DEF Pale

\* But for the colour of the root this is a red-black tree.
RedTop(t, In) ==
    \E h : Even(t, t.tag, In, h, Nil, "left") /\ Pale(t, t.tag, In, Nil)

\* The end of redblack_insert and of redblack_delete: the root is painted.
LEMMA PaintRoot ==
    ASSUME NEW t \in Container, NEW In, Kin(t, In), RedTop(t, In), NEW w, w = Tag(t, Root(t), Black)
    PROVE  Tagged(w, t) /\ \E h : RedBlack(w, w.tag, In, h)
<1>1. PICK h : Even(t, t.tag, In, h, Nil, "left") /\ Pale(t, t.tag, In, Nil)
  BY DEF RedTop
<1>2. Root(t) \in Bin(In) /\ Root(t) \in Link /\ Root(t) = t.kid["left"][Nil] /\ "left" \in Side
      /\ In \subseteq Node
  BY Linked DEF Kin, Root, Bin, Side
<1>3. TagWritten(w, t, Root(t), Black)
  BY <1>2, TagFields, Colours
<1>4. Tagged(w, t) /\ \A m \in Link : w.tag[m] = IF m = Root(t) THEN Black ELSE t.tag[m]
  BY <1>3 DEF TagWritten
<1>5. w.kid = t.kid /\ Root(w) = Root(t)
  BY <1>4 DEF Tagged, Root
<1>6. Pale(t, w.tag, In, Nil)
  BY <1>1, <1>2, <1>4, PaintPale
<1>7. \E h2 : Even(t, w.tag, In, h2, Nil, "left")
  <2>1. CASE t.tag[Root(t)] = Red
    <3>1. Root(t) \in In
      BY <1>1, <1>2, <2>1, Colours DEF Even, Bin
    <3>2. Nil \in Bin(In)
      BY DEF Bin
    <3>3. QED
      BY <1>1, <1>2, <1>4, <2>1, <3>1, <3>2, PaintEven
  <2>2. CASE t.tag[Root(t)] # Red
    <3>1. t.tag[Root(t)] = Black
      BY <1>1, <1>2, <2>2 DEF Even, Bin
    <3>2. \A m \in Link : w.tag[m] = t.tag[m]
      BY <1>4, <3>1
    <3>3. In \subseteq Link /\ Nil \in Link
      BY <1>2, Linked DEF Link
    <3>4. Even(t, w.tag, In, h, Nil, "left")
      BY <1>1, <3>2, <3>3 DEF Even
    <3>5. QED
      BY <3>4
  <2>3. QED
    BY <2>1, <2>2
<1>8. PICK h2 : Even(t, w.tag, In, h2, Nil, "left")
  BY <1>7
<1>9. Even(w, w.tag, In, h2, Nil, "left") /\ Pale(w, w.tag, In, Nil)
  BY <1>5, <1>6, <1>8 DEF Even, Pale
<1>10. w.tag[Root(w)] = Black
  BY <1>2, <1>4, <1>5
<1>11. RedBlack(w, w.tag, In, h2)
  BY <1>9, <1>10 DEF RedBlack
<1>12. QED
  BY <1>4, <1>11

-----------------------------------------------------------------------------
(***************************************************************************)
(* Insertion into a red-black tree.                                        *)
(***************************************************************************)
\* x is red and may have a red parent; nothing else is wrong.
RedPair(t, In, x) ==
    /\ x \in In /\ t.tag[x] = Red /\ Pale(t, t.tag, In, x)
    /\ t.tag[Root(t)] = Black \/ Root(t) = x
    /\ \E h : Even(t, t.tag, In, h, Nil, "left")

\* The black grandparent of a pair of red nodes, and the uncle.
Pair(t, In, x, p, g, s, y) ==
    /\ x \in In /\ p \in In /\ g \in In /\ p # x /\ p # g /\ g # x
    /\ Root(t) # x /\ Root(t) # p
    /\ t.tag[x] = Red /\ t.tag[p] = Red /\ t.tag[g] = Black /\ t.tag[Root(t)] = Black
    /\ s \in Side /\ t.kid[s][g] = p /\ y = t.kid[Opp(s)][g] /\ y \in Bin(In)
    /\ y # p /\ y # g /\ y # x
    /\ t.parent[x] = p /\ t.parent[p] = g /\ SideOf(t, p) = s
    /\ \E q \in Side : t.kid[q][p] = x

\* Where a pair of red nodes is, there is a black grandparent.
LEMMA PairKin ==
    ASSUME NEW t \in Container, NEW In, Kin(t, In), NEW x, RedPair(t, In, x),
           NEW p, p = t.parent[x], NEW g, g = t.parent[p], t.tag[p] = Red,
           NEW s, s = SideOf(t, p), NEW y, y = t.kid[Opp(s)][g]
    PROVE  Pair(t, In, x, p, g, s, y)
<1>1. /\ x \in In /\ t.tag[x] = Red /\ t.tag[Nil] = Black
      /\ t.tag[Root(t)] = Black \/ Root(t) = x
      /\ \A n \in In, q \in Side : t.tag[n] = Red => t.tag[t.kid[q][n]] = Black \/ t.kid[q][n] = x
      /\ \A n \in In : t.tag[n] \in {Red, Black}
  BY DEF RedPair, Even, Pale
<1>2. Nil \notin In
  BY Linked DEF Kin
<1>3. p \in In /\ p # x /\ t.kid[SideOf(t, x)][p] = x /\ SideOf(t, x) \in Side
  BY <1>1, Colours DEF Kin, Bin
<1>4. Root(t) # x
  BY <1>1, <1>2, <1>3 DEF Kin
<1>5. Root(t) # p /\ t.tag[Root(t)] = Black
  BY <1>1, <1>4, Colours
<1>6. g \in In /\ p # g /\ s \in Side /\ t.kid[s][g] = p /\ t.kid[Opp(s)][g] # p
  BY <1>3, <1>5 DEF Kin, Bin
<1>7. g # x
  BY <1>1, <1>2, <1>3, <1>6 DEF Kin
<1>8. t.tag[g] = Black
  <2>1. t.tag[g] # Red
    BY <1>1, <1>3, <1>6, Colours
  <2>2. QED
    BY <1>1, <1>6, <2>1
<1>9. y \in Bin(In) /\ y # g /\ (y # Nil => t.parent[y] = g)
  <2>1. Opp(s) \in Side /\ g \in Bin(In)
    BY <1>6, SideOpp DEF Bin
  <2>2. QED
    BY <1>2, <1>6, <2>1 DEF Kin, Bin
<1>10. y # x
  BY <1>1, <1>2, <1>3, <1>6, <1>9 DEF Kin
<1>11. QED
  BY <1>1, <1>3, <1>4, <1>5, <1>6, <1>7, <1>8, <1>9, <1>10 DEF Pair

\* A tree whose colours are painted has the links it had.
LEMMA TaggedKin ==
    ASSUME NEW t, NEW u, Tagged(u, t), NEW In, Kin(t, In)
    PROVE  Kin(u, In) /\ Root(u) = Root(t)
BY DEF Tagged, Kin, Root, SideOf

\* Recolouring moves the red pair up.
LEMMA RecolourKeeps ==
    ASSUME NEW t \in Container, NEW In, Kin(t, In), NEW x, RedPair(t, In, x), RedUncle(t, x)
    PROVE  LET v == Recolour(<<t, x>>)
           IN  /\ Tagged(v[1], t) /\ v[2] = t.parent[t.parent[x]] /\ v = <<v[1], v[2]>>
               /\ t.parent[x] \in In /\ v[2] # x /\ RedPair(v[1], In, v[2])
<1> DEFINE u == [t EXCEPT !.tag[t.parent[x]] = Black,
                          !.tag[t.kid[Opp(SideOf(t, t.parent[x]))][t.parent[t.parent[x]]]] = Black,
                          !.tag[t.parent[t.parent[x]]] = Red]
<1>1. PICK p, g, s, y : /\ p = t.parent[x] /\ g = t.parent[p] /\ s = SideOf(t, p)
                        /\ y = t.kid[Opp(s)][g]
  OBVIOUS
<1>2. t.tag[p] = Red /\ t.tag[y] = Red
  BY <1>1 DEF RedUncle
<1>3. Pair(t, In, x, p, g, s, y)
  BY <1>1, <1>2, PairKin
<1>4. Recolour(<<t, x>>) = <<u, g>> /\ u = TagThree(t, p, Black, y, Black, g, Red)
  BY <1>1 DEF Recolour, TagThree
<1> HIDE DEF u
<1>5. In \subseteq Link /\ In \subseteq Node /\ Nil \in Link /\ Nil \notin In /\ Bin(In) \subseteq Link
  BY Linked DEF Kin, Bin, Link
<1>6. PICK h : Even(t, t.tag, In, h, Nil, "left")
  BY DEF RedPair
<1>7. /\ h \in [Link -> Nat] /\ h[Nil] = 0 /\ t.tag[Nil] = Black
      /\ \A n \in In, q \in Side : h[n] = h[t.kid[q][n]] + t.tag[n] + Lack(n, q, Nil, "left")
      /\ \A n \in In : t.tag[n] \in {Red, Black}
  BY <1>6 DEF Even
<1>8. /\ p \in In /\ g \in In /\ p # x /\ p # g /\ g # x
      /\ t.tag[g] = Black /\ t.tag[Root(t)] = Black /\ t.tag[x] = Red /\ x \in In
      /\ s \in Side /\ t.kid[s][g] = p /\ y # p /\ y # g /\ y # x
      /\ t.kid[Opp(s)][g] = y /\ t.parent[x] = p /\ t.parent[p] = g
  BY <1>3 DEF Pair
<1>9. y \in In
  BY <1>2, <1>3, <1>7, Colours DEF Bin, Pair
<1>10. /\ Tagged(u, t)
       /\ \A m \in Link : u.tag[m] = IF m = g THEN Red ELSE IF m = y THEN Black
                                     ELSE IF m = p THEN Black ELSE t.tag[m]
  <2>1. p \in Link /\ y \in Link /\ g \in Link
    BY <1>5, <1>8, <1>9
  <2>2. ThreeWritten(u, t, p, Black, y, Black, g, Red)
    BY <1>4, <2>1, Colours, ThreeTagFields
  <2>3. QED
    BY <2>2 DEF ThreeWritten
<1>11. u.kid = t.kid /\ u.parent = t.parent /\ Root(u) = Root(t)
  BY <1>10 DEF Tagged, Root
<1>12. u.tag[g] = Red /\ u.tag[y] = Black /\ u.tag[p] = Black
       /\ \A m \in Link : m # g /\ m # y /\ m # p => u.tag[m] = t.tag[m]
  BY <1>5, <1>8, <1>9, <1>10
<1>13. ASSUME NEW n \in In, NEW q \in Side
       PROVE  /\ n \in Link /\ t.kid[q][n] \in Link
              /\ t.kid[q][n] # Nil => t.parent[t.kid[q][n]] = n
              /\ n = g => t.kid[q][n] = p \/ t.kid[q][n] = y
              /\ n # g => t.kid[q][n] # p /\ t.kid[q][n] # y
  <2>1. /\ n \in Link /\ t.kid[q][n] \in Link
        /\ t.kid[q][n] # Nil => t.parent[t.kid[q][n]] = n
    BY <1>5 DEF Kin, Bin
  <2>2. n = g => t.kid[q][n] = p \/ t.kid[q][n] = y
    BY <1>8, SideOpp
  <2>3. t.parent[y] = g
    BY <1>5, <1>8, <1>9, SideOpp, SideIs DEF Bin
  <2>4. QED
    BY <1>5, <1>8, <1>9, <2>1, <2>2, <2>3
<1> DEFINE h2 == [m \in Link |-> IF m = p \/ m = y THEN h[m] + 1 ELSE h[m]]
<1>14. /\ h2 \in [Link -> Nat] /\ h2[p] = h[p] + 1 /\ h2[y] = h[y] + 1
       /\ \A m \in Link : m # p /\ m # y => h2[m] = h[m]
       /\ \A m \in Link : h[m] \in Nat
  BY <1>5, <1>7, <1>8, <1>9
<1> HIDE DEF h2
<1>15. ASSUME NEW n \in In, NEW q \in Side
       PROVE  h2[n] = h2[u.kid[q][n]] + u.tag[n] + Lack(n, q, Nil, "left")
  <2> PICK k : k = t.kid[q][n]
    OBVIOUS
  <2>1. Lack(n, q, Nil, "left") = 0
    BY <1>5, NoLack
  <2>2. /\ h[n] = h[k] + t.tag[n] /\ h[n] \in Nat /\ h[k] \in Nat /\ n \in Link /\ k \in Link
        /\ t.tag[n] \in {0, 1}
    <3>1. h[n] = h[k] + t.tag[n] + Lack(n, q, Nil, "left") /\ t.tag[n] \in {0, 1}
      BY <1>7, Colours
    <3>2. n \in Link /\ k \in Link
      BY <1>13
    <3>3. QED
      BY <1>14, <2>1, <3>1, <3>2
  <2>3. CASE n = g
    <3>1. h2[n] = h[n] /\ h2[k] = h[k] + 1 /\ u.tag[n] = 0 /\ t.tag[n] = 1
      BY <1>8, <1>12, <1>13, <1>14, <2>2, <2>3, Colours
    <3>2. QED
      BY <1>11, <2>1, <2>2, <3>1
  <2>4. CASE n = p \/ n = y
    <3>1. h2[n] = h[n] + 1 /\ h2[k] = h[k] /\ u.tag[n] = 1 /\ t.tag[n] = 0
      BY <1>2, <1>8, <1>12, <1>13, <1>14, <2>2, <2>4, Colours
    <3>2. QED
      BY <1>11, <2>1, <2>2, <3>1
  <2>5. CASE n # g /\ n # p /\ n # y
    <3>1. h2[n] = h[n] /\ h2[k] = h[k] /\ u.tag[n] = t.tag[n]
      BY <1>12, <1>13, <1>14, <2>2, <2>5
    <3>2. QED
      BY <1>11, <2>1, <2>2, <3>1
  <2>6. QED
    BY <2>3, <2>4, <2>5
<1>16. /\ h2[Nil] = 0 /\ u.tag[Nil] = Black /\ \A n \in In : u.tag[n] \in {Red, Black}
  BY <1>5, <1>7, <1>8, <1>9, <1>12, <1>14
<1>17. Even(u, u.tag, In, h2, Nil, "left")
  BY <1>14, <1>15, <1>16 DEF Even
<1>18. ASSUME NEW n \in In, NEW q \in Side, u.tag[n] = Red
       PROVE  u.tag[t.kid[q][n]] = Black \/ t.kid[q][n] = g
  <2>1. n # p /\ n # y
    BY <1>12, <1>18, Colours
  <2>2. CASE n = g
    BY <1>12, <1>13, <2>2
  <2>3. CASE n # g
    <3>1. t.tag[n] = Red
      BY <1>12, <1>13, <1>18, <2>1, <2>3
    <3>2. t.kid[q][n] # x
      BY <1>5, <1>8, <1>13, <2>1
    <3>3. t.tag[t.kid[q][n]] = Black
      BY <3>1, <3>2 DEF RedPair, Pale
    <3>4. QED
      BY <1>12, <1>13, <2>3, <3>3
  <2>4. QED
    BY <2>2, <2>3
<1>19. Pale(u, u.tag, In, g)
  BY <1>11, <1>18 DEF Pale
<1>20. u.tag[Root(u)] = Black \/ Root(u) = g
  <2>1. Root(t) \in Link
    BY Linked DEF Side
  <2>2. QED
    BY <1>8, <1>11, <1>12, <2>1
<1>21. RedPair(u, In, g)
  BY <1>8, <1>12, <1>17, <1>19, <1>20 DEF RedPair
<1>22. /\ Recolour(<<t, x>>)[1] = u /\ Recolour(<<t, x>>)[2] = g
       /\ Recolour(<<t, x>>) = <<u, g>>
  BY <1>4
<1>23. g = t.parent[t.parent[x]]
  BY <1>1
<1>24. t.parent[x] \in In /\ g # x /\ Tagged(u, t)
  BY <1>8, <1>10
<1> HIDE DEF u
<1>25. QED
  BY <1>21, <1>22, <1>23, <1>24

-----------------------------------------------------------------------------
\* How many places the nodes below n take.
Wide(b, n) == b["right"][n] - b["left"][n]

\* A kid takes fewer places than its parent.
LEMMA WideBelow ==
    ASSUME NEW t, NEW In, NEW pos, NEW b, Shape(t, In, pos, b), NEW n \in In, NEW p, p = t.parent[n]
    PROVE  Wide(b, n) \in Nat /\ Wide(b, p) \in Nat /\ Wide(b, n) < Wide(b, p) /\ Wide(b, n) >= 2
           /\ Wide(b, n) <= Cardinality(In) + 1
<1>1. p \in Bin(In) /\ \E s \in Side : t.kid[s][p] = n
  BY DEF Shape
<1>2. PICK s \in Side : t.kid[s][p] = n
  BY <1>1
<1>3. b[s][n] = b[s][p] /\ b[Opp(s)][n] = pos[p]
  BY <1>1, <1>2, KidPlace
<1>4. /\ b["left"][p] < pos[p] /\ pos[p] < b["right"][p]
      /\ b["left"][p] \in Nat /\ b["right"][p] \in Nat /\ pos[p] \in Nat
  BY <1>1, ShapeNumbers
<1>5. /\ b["left"][n] < pos[n] /\ pos[n] < b["right"][n]
      /\ b["left"][n] \in Nat /\ b["right"][n] \in Nat /\ pos[n] \in Nat
      /\ b["right"][n] <= Cardinality(In) + 1 /\ Cardinality(In) \in Nat
  BY ShapeNumbers DEF Bin
<1>6. CASE s = "left"
  BY <1>3, <1>4, <1>5, <1>6 DEF Wide, Opp
<1>7. CASE s = "right"
  BY <1>3, <1>4, <1>5, <1>7 DEF Wide, Opp
<1>8. QED
  BY <1>6, <1>7 DEF Side

\* The loop of redblack_insert ends where the uncle is not red.
LEMMA RaiseEnds ==
    ASSUME NEW t \in Container, NEW In, NEW pos, Fits(t, In, pos), NEW n, RedPair(t, In, n)
    PROVE  LET up == [x \in Container \X Link |-> IF RedUncle(x[1], x[2]) THEN Recolour(x) ELSE x]
               end == Iterate(up, <<t, n>>, Rounds)
           IN  /\ Tagged(end[1], t) /\ RedPair(end[1], In, end[2])
               /\ ~RedUncle(end[1], end[2])
<1> DEFINE up == [x \in Container \X Link |-> IF RedUncle(x[1], x[2]) THEN Recolour(x) ELSE x]
           end == Iterate(up, <<t, n>>, Rounds)
           N == Cardinality(In)
           P == {y \in Container \X Link : Tagged(y[1], t) /\ RedPair(y[1], In, y[2])}
<1>1. PICK b : Shape(t, In, pos, b)
  BY DEF Fits
<1> DEFINE m == [y \in P |-> N + 2 - Wide(b, y[2])]
<1>2. /\ In \in SUBSET Node /\ N \in Nat /\ Bin(In) \subseteq Link /\ In \subseteq Bin(In)
  BY <1>1, ShapeNumbers
<1>3. Kin(t, In)
  BY <1>1, ShapeKin
<1>4. \A y \in P : /\ y[1] \in Container /\ y[2] \in In /\ Tagged(y[1], t)
                   /\ RedPair(y[1], In, y[2]) /\ y = <<y[1], y[2]>>
  BY DEF RedPair
<1>5. \A y \in P : up[y] = IF RedUncle(y[1], y[2]) THEN Recolour(y) ELSE y
  OBVIOUS
<1>6. ASSUME NEW y \in P PROVE m[y] = N + 2 - Wide(b, y[2]) /\ m[y] \in Nat
  <2>1. Wide(b, y[2]) \in Nat /\ Wide(b, y[2]) <= N + 1
    BY <1>1, <1>4, WideBelow
  <2>2. QED
    BY <1>2, <2>1
<1>7. ASSUME NEW y \in P, RedUncle(y[1], y[2])
      PROVE  up[y] \in P /\ m[up[y]] < m[y]
  <2>1. PICK w, x : w = y[1] /\ x = y[2]
    OBVIOUS
  <2>2. w \in Container /\ Tagged(w, t) /\ x \in In /\ RedPair(w, In, x) /\ RedUncle(w, x) /\ y = <<w, x>>
    BY <1>4, <1>7, <2>1
  <2>3. Kin(w, In)
    BY <1>3, <2>2, TaggedKin
  <2>4. PICK v : v = Recolour(<<w, x>>)
    OBVIOUS
  <2>5. /\ Tagged(v[1], w) /\ v[2] = w.parent[w.parent[x]] /\ v = <<v[1], v[2]>>
        /\ w.parent[x] \in In /\ RedPair(v[1], In, v[2])
    BY <2>2, <2>3, <2>4, RecolourKeeps
  <2>6. up[y] = v
    BY <1>5, <1>7, <2>2, <2>4
  <2>7. Tagged(v[1], t) /\ v[1] \in Container /\ v[2] \in In
    BY <2>2, <2>5 DEF Tagged, RedPair
  <2>8. v \in P
    BY <1>2, <2>5, <2>6, <2>7
  <2>9. w.parent = t.parent
    BY <2>2 DEF Tagged
  <2>10. Wide(b, x) < Wide(b, t.parent[x]) /\ Wide(b, x) \in Nat /\ Wide(b, t.parent[x]) \in Nat
    BY <1>1, <2>2, WideBelow
  <2>11. Wide(b, t.parent[x]) < Wide(b, v[2]) /\ Wide(b, v[2]) \in Nat
    BY <1>1, <2>5, <2>9, WideBelow
  <2>12. m[y] = N + 2 - Wide(b, x) /\ m[v] = N + 2 - Wide(b, v[2])
    BY <1>6, <2>1, <2>8
  <2> HIDE DEF m, P, up
  <2>13. QED
    BY <1>2, <2>6, <2>8, <2>10, <2>11, <2>12
<1>8. <<t, n>> \in P
  BY <1>2 DEF RedPair, Tagged
<1>9. m[<<t, n>>] <= Rounds
  <2>1. Wide(b, n) >= 2 /\ Wide(b, n) \in Nat
    BY <1>1, <1>4, <1>8, WideBelow
  <2>2. N <= Rounds /\ Rounds \in Nat
    BY <1>2, Counted
  <2>3. m[<<t, n>>] = N + 2 - Wide(b, n)
    BY <1>6, <1>8
  <2> HIDE DEF m
  <2>4. QED
    BY <1>2, <2>1, <2>2, <2>3
<1>10. Rounds \in Nat /\ m \in [P -> Nat]
  BY <1>2, <1>6, Counted
<1> HIDE DEF m, P, up
<1>11. /\ \A y \in P : up[y] \in P
       /\ \A y \in P : up[y] # y => m[up[y]] < m[y]
  BY <1>5, <1>7
<1>12. end \in P /\ up[end] = end
  BY <1>8, <1>9, <1>10, <1>11, IterateEnds
<1> HIDE DEF end
<1>13. ~RedUncle(end[1], end[2])
  <2>1. CASE RedUncle(end[1], end[2])
    <3>1. m[end] < m[end] /\ m[end] \in Nat
      BY <1>6, <1>7, <1>12, <2>1
    <3>2. QED
      BY <3>1
  <2>2. QED
    BY <2>1
<1>14. QED
  BY <1>4, <1>12, <1>13 DEF end, up

-----------------------------------------------------------------------------
\* u is t with other colours and turns, and red-black but for its root.
Mended(u, t, In, pos) ==
    u \in Container /\ u.count = t.count /\ Fits(u, In, pos) /\ RedTop(u, In)

\* e and its parent are red, the uncle is black; e is on the outside.
Outer(t, In, s, e, p, g, y) ==
    /\ e \in In /\ p \in In /\ g \in In /\ s \in Side
    /\ t.kid[s][g] = p /\ t.kid[s][p] = e /\ t.kid[Opp(s)][g] = y
    /\ t.tag[p] = Red /\ t.tag[g] = Black /\ t.tag[y] = Black
    /\ Pale(t, t.tag, In, e) /\ \E h : Even(t, t.tag, In, h, Nil, "left")

\* The rotation of the grandparent.
LEMMA OuterTurn ==
    ASSUME NEW t \in Container, NEW In, NEW pos, Fits(t, In, pos),
           NEW s, NEW e, NEW p, NEW g, NEW y, Outer(t, In, s, e, p, g, y),
           NEW u, u = Rotate(TagTwo(t, p, Black, g, Red), Opp(s), p, g)
    PROVE  Mended(u, t, In, pos)
<1>1. /\ e \in In /\ p \in In /\ g \in In /\ s \in Side
      /\ t.kid[s][g] = p /\ t.kid[s][p] = e /\ t.kid[Opp(s)][g] = y
      /\ t.tag[p] = Red /\ t.tag[g] = Black /\ t.tag[y] = Black
      /\ Pale(t, t.tag, In, e)
  BY DEF Outer
<1>2. PICK h : Even(t, t.tag, In, h, Nil, "left")
  BY DEF Outer
<1>3. Kin(t, In)
  BY ShapeKin DEF Fits
<1>4. PICK w, o : w = TagTwo(t, p, Black, g, Red) /\ o = Opp(s)
  OBVIOUS
<1>5. o \in Side /\ Opp(o) = s
  BY <1>1, <1>4, SideOpp
<1>6. In \subseteq Link /\ Nil \notin In /\ In \subseteq Node
  BY <1>3, Linked DEF Kin
<1>7. Tagged(w, t) /\ \A m \in Link : w.tag[m] = IF m = g THEN Red ELSE IF m = p THEN Black ELSE t.tag[m]
  <2>1. TwoWritten(w, t, p, Black, g, Red)
    BY <1>1, <1>4, <1>6, TwoTagFields, Colours
  <2>2. QED
    BY <2>1 DEF TwoWritten
<1>8. t.kid[Opp(o)][g] = p /\ u = Rotate(w, o, p, g)
  BY <1>1, <1>4, <1>5
<1>9. /\ u \in Container /\ u.tag = w.tag /\ u.count = t.count /\ Fits(u, In, pos)
      /\ \E r \in Side : Spun(u, t, o, p, g, r)
  BY <1>1, <1>5, <1>7, <1>8, RotateSpins
<1>10. PICK r \in Side : Spun(u, t, o, p, g, r)
  BY <1>9
<1>11. p # g /\ e # g /\ e # Nil /\ g # Nil
  <2>1. p # g /\ t.parent[p] = g /\ e # t.parent[p]
    BY <1>1, <1>3, <1>6 DEF Kin, Bin
  <2>2. QED
    BY <1>1, <1>6, <2>1
<1>12. Exchanged(w.tag, t.tag, p, g)
  BY <1>1, <1>7, <1>11 DEF Exchanged
<1>13. \E h2 : Even(u, w.tag, In, h2, Nil, "left")
  <2>1. t.tag[p] = Red /\ Nil # p /\ Nil # g
    BY <1>1, <1>6
  <2>2. QED
    BY <1>1, <1>2, <1>3, <1>5, <1>8, <1>10, <1>12, <2>1, RedTurnEven
<1>14. Pale(u, w.tag, In, Nil)
  <2>1. t.tag[Nil] = Black /\ t.tag[p] \in {Red, Black}
    BY <1>1, <1>2 DEF Even
  <2>2. /\ y = t.kid[o][g] /\ e = t.kid[Opp(o)][p] /\ e # g /\ e \in {Nil, p, e, Nil}
        /\ t.tag[g] # Red
    BY <1>1, <1>4, <1>5, <1>11, Colours
  <2>3. QED
    BY <1>1, <1>3, <1>5, <1>8, <1>10, <1>12, <2>1, <2>2, TurnPale
<1>15. QED
  BY <1>9, <1>13, <1>14 DEF Mended, RedTop

\* The rotation of the parent brings a red node on the inside to the outside.
LEMMA InnerTurn ==
    ASSUME NEW t \in Container, NEW In, NEW pos, Fits(t, In, pos), NEW x, RedPair(t, In, x),
           NEW p, NEW g, NEW s, NEW y, Pair(t, In, x, p, g, s, y),
           t.kid[Opp(s)][p] = x, t.tag[y] = Black,
           NEW v, v = Rotate(t, s, x, p)
    PROVE  /\ v \in Container /\ v.tag = t.tag /\ v.count = t.count /\ Fits(v, In, pos)
           /\ Outer(v, In, s, p, x, g, y)
<1>1. /\ x \in In /\ p \in In /\ g \in In /\ p # x /\ p # g /\ g # x
      /\ t.tag[x] = Red /\ t.tag[p] = Red /\ t.tag[g] = Black
      /\ s \in Side /\ t.kid[s][g] = p /\ y = t.kid[Opp(s)][g] /\ y \in Bin(In)
      /\ t.parent[x] = p /\ t.parent[p] = g
  BY DEF Pair
<1>2. PICK h : Even(t, t.tag, In, h, Nil, "left")
  BY DEF RedPair
<1>3. Kin(t, In)
  BY ShapeKin DEF Fits
<1>4. In \subseteq Link /\ Nil \notin In /\ In \subseteq Node /\ Opp(s) \in Side /\ Opp(s) # s
  BY <1>1, <1>3, Linked, SideOpp DEF Kin
<1>5. Tagged(t, t)
  BY DEF Tagged
<1>6. /\ v \in Container /\ v.tag = t.tag /\ v.count = t.count /\ Fits(v, In, pos)
      /\ \E r \in Side : Spun(v, t, s, x, p, r)
  BY <1>1, <1>5, RotateSpins
<1>7. PICK r \in Side : Spun(v, t, s, x, p, r)
  BY <1>6
<1>8. r = s
  <2>1. t.kid[r][g] = p /\ (r = s \/ r = Opp(s))
    BY <1>1, <1>7, SideOpp DEF Spun
  <2>2. t.kid[Opp(s)][g] # p
    BY <1>1, <1>3, SideIs DEF Bin
  <2>3. QED
    BY <2>1, <2>2
<1>9. Exchanged(t.tag, t.tag, x, p)
  BY <1>1 DEF Exchanged
<1>10. \E h2 : Even(v, t.tag, In, h2, Nil, "left")
  <2>1. Nil # x /\ Nil # p /\ t.tag[x] = Red /\ x \in In /\ p \in In /\ s \in Side
    BY <1>1, <1>4
  <2>2. QED
    BY <1>2, <1>3, <1>7, <1>9, <2>1, RedTurnEven
<1>11. Pale(t, t.tag, In, x) /\ t.tag[Nil] = Black /\ t.tag[x] \in {Red, Black}
  BY <1>1, <1>2 DEF RedPair, Even
<1>12. PICK k, z : k = t.kid[s][p] /\ z = t.kid[Opp(s)][x]
  OBVIOUS
<1>13. t.tag[k] = Black /\ t.tag[z] = Black
  <2>1. t.kid[s][p] # x
    BY <1>1, <1>3, <1>4, SideIs, SideOpp DEF Bin
  <2>2. t.kid[Opp(s)][x] # x
    BY <1>1, <1>3, <1>4 DEF Kin, Bin
  <2>3. QED
    BY <1>1, <1>4, <1>11, <1>12, <2>1, <2>2 DEF Pale
<1>14. Pale(v, t.tag, In, p)
  <2>1. x # p /\ x \in {p, x, z, Nil} /\ p = p
    BY <1>1
  <2>2. QED
    BY <1>1, <1>3, <1>7, <1>9, <1>11, <1>12, <1>13, <2>1, TurnPale
<1>15. v.kid[s][g] = x /\ v.kid[s][x] = p /\ v.kid[Opp(s)][g] = y
  BY <1>1, <1>4, <1>7, <1>8 DEF Spun
<1>16. Outer(v, In, s, p, x, g, y)
  BY <1>1, <1>6, <1>10, <1>14, <1>15 DEF Outer
<1>17. QED
  BY <1>6, <1>16

\* The rotations that end an insertion.
LEMMA RbTurnMends ==
    ASSUME NEW t \in Container, NEW In, NEW pos, Fits(t, In, pos), NEW x, RedPair(t, In, x),
           ~RedUncle(t, x)
    PROVE  Mended(RbTurn(t, x), t, In, pos)
<1>1. PICK p, g, s, y : /\ p = t.parent[x] /\ g = t.parent[p] /\ s = SideOf(t, p)
                        /\ y = t.kid[Opp(s)][g]
  OBVIOUS
<1>2. Kin(t, In)
  BY ShapeKin DEF Fits
<1>3. x \in In /\ Pale(t, t.tag, In, x) /\ \E h : Even(t, t.tag, In, h, Nil, "left")
  BY DEF RedPair
<1>4. CASE t.tag[p] # Red
  <2>1. RbTurn(t, x) = t
    BY <1>1, <1>4 DEF RbTurn
  <2>2. Pale(t, t.tag, In, Nil)
    BY <1>1, <1>2, <1>3, <1>4, PaleBelow
  <2>3. RedTop(t, In)
    BY <1>3, <2>2 DEF RedTop
  <2>4. QED
    BY <2>1, <2>3 DEF Mended
<1>5. CASE t.tag[p] = Red
  <2>1. Pair(t, In, x, p, g, s, y)
    BY <1>1, <1>2, <1>5, PairKin
  <2>2. /\ x \in In /\ p \in In /\ g \in In /\ s \in Side /\ t.kid[s][g] = p
        /\ t.tag[p] = Red /\ t.tag[g] = Black /\ y \in Bin(In)
        /\ \E q \in Side : t.kid[q][p] = x
    BY <2>1 DEF Pair
  <2>3. t.tag[y] = Black
    <3>1. t.tag[y] # Red
      BY <1>1, <1>5 DEF RedUncle
    <3>2. QED
      BY <1>3, <2>2, <3>1 DEF Even, Bin
  <2>4. CASE t.kid[Opp(s)][p] = x
    <3>1. PICK v : v = Rotate(t, s, x, p)
      OBVIOUS
    <3>2. /\ v \in Container /\ v.tag = t.tag /\ v.count = t.count /\ Fits(v, In, pos)
          /\ Outer(v, In, s, p, x, g, y)
      BY <2>1, <2>3, <2>4, <3>1, InnerTurn
    <3>3. RbTurn(t, x) = Rotate(TagTwo(v, x, Black, g, Red), Opp(s), x, g)
      BY <1>1, <1>5, <2>4, <3>1 DEF RbTurn, TagTwo
    <3>4. Mended(RbTurn(t, x), v, In, pos)
      BY <3>2, <3>3, OuterTurn
    <3>5. QED
      BY <3>2, <3>4 DEF Mended
  <2>5. CASE t.kid[Opp(s)][p] # x
    <3>1. t.kid[s][p] = x
      BY <2>2, <2>5, SideOpp
    <3>2. Outer(t, In, s, x, p, g, y)
      BY <1>1, <1>3, <2>2, <2>3, <3>1 DEF Outer
    <3>3. RbTurn(t, x) = Rotate(TagTwo(t, p, Black, g, Red), Opp(s), p, g)
      BY <1>1, <1>5, <2>5 DEF RbTurn, TagTwo
    <3>4. QED
      BY <3>2, <3>3, OuterTurn
  <2>6. QED
    BY <2>4, <2>5
<1>6. QED
  BY <1>4, <1>5

-----------------------------------------------------------------------------
\* Tags are not part of the order.
LEMMA TaggedFits ==
    ASSUME NEW t, NEW u, Tagged(u, t), NEW In, NEW pos, Fits(t, In, pos)
    PROVE  u \in Container /\ u.count = t.count /\ Fits(u, In, pos)
BY TaggedShape DEF Tagged, Fits

\* A new red leaf has at most a red parent.
LEMMA LeafPair ==
    ASSUME NEW t \in Container, NEW In, Kin(t, In), NEW h, RedBlack(t, t.tag, In, h),
           NEW n \in Node \ In, NEW p \in Bin(In), NEW s \in Side,
           t.kid[s][p] = Nil, p = Nil => s = "left",
           NEW u, BstInserted(u, t, n, p, s), NEW w, TagWritten(w, u, n, Red)
    PROVE  RedPair(w, In \cup {n}, n)
<1>1. /\ In \subseteq Node /\ In \subseteq Link /\ Nil \in Link /\ Nil \notin In /\ n \in Link
      /\ n # Nil /\ Bin(In) \subseteq Link /\ n \notin Bin(In) /\ "left" \in Side
  BY Linked DEF Kin, Bin, Link, Side
<1>2. /\ h \in [Link -> Nat] /\ h[Nil] = 0 /\ t.tag[Nil] = Black
      /\ \A m \in In : t.tag[m] \in {Red, Black}
      /\ \A m \in In, q \in Side : h[m] = h[t.kid[q][m]] + t.tag[m] + Lack(m, q, Nil, "left")
      /\ \A m \in In, q \in Side : t.tag[m] = Red => t.tag[t.kid[q][m]] = Black \/ t.kid[q][m] = Nil
      /\ t.tag[Root(t)] = Black
  BY DEF RedBlack, Even, Pale
<1>3. /\ \A r \in Side, m \in Link : w.kid[r][m] = IF r = s /\ m = p THEN n
                                                   ELSE IF m = n THEN Nil ELSE t.kid[r][m]
      /\ \A m \in Link : w.tag[m] = IF m = n THEN Red ELSE t.tag[m]
  BY DEF BstInserted, TagWritten, Tagged
<1>4. \A m \in In, q \in Side : t.kid[q][m] \in Bin(In)
  BY DEF Kin, Bin
<1>5. w.tag[n] = Red /\ \A m \in Bin(In) : w.tag[m] = t.tag[m] /\ m \in Link /\ m # n
  BY <1>1, <1>3
<1>6. \A q \in Side : w.kid[q][n] = Nil
  BY <1>1, <1>3
<1>7. ASSUME NEW m \in In, NEW q \in Side
      PROVE  \/ w.kid[q][m] = n /\ t.kid[q][m] = Nil
             \/ w.kid[q][m] = t.kid[q][m] /\ t.kid[q][m] \in Bin(In)
  BY <1>1, <1>3, <1>4
<1> DEFINE h2 == [m \in Link |-> IF m = n THEN 0 ELSE h[m]]
<1>8. h2 \in [Link -> Nat] /\ h2[n] = 0 /\ \A m \in Bin(In) : h2[m] = h[m] /\ h[m] \in Nat
  BY <1>1, <1>2
<1> HIDE DEF h2
<1>9. ASSUME NEW m \in In \cup {n}, NEW q \in Side
      PROVE  h2[m] = h2[w.kid[q][m]] + w.tag[m] + Lack(m, q, Nil, "left")
  <2>1. Lack(m, q, Nil, "left") = 0
    BY <1>1, NoLack
  <2>2. Nil \in Bin(In)
    BY DEF Bin
  <2>3. CASE m = n
    <3>1. h2[w.kid[q][m]] = 0 /\ w.tag[m] = 0 /\ h2[m] = 0
      BY <1>2, <1>5, <1>6, <1>8, <2>2, <2>3, Colours
    <3>2. QED
      BY <2>1, <3>1
  <2>4. CASE m \in In
    <3>1. h2[m] = h[m] /\ w.tag[m] = t.tag[m]
      BY <1>5, <1>8, <2>4 DEF Bin
    <3>2. h2[w.kid[q][m]] = h[t.kid[q][m]]
      BY <1>2, <1>7, <1>8, <2>4
    <3>3. QED
      BY <1>2, <2>4, <3>1, <3>2
  <2>5. QED
    BY <2>3, <2>4
<1>10. /\ h2[Nil] = 0 /\ w.tag[Nil] = Black
       /\ \A m \in In \cup {n} : w.tag[m] \in {Red, Black}
  BY <1>1, <1>2, <1>5, <1>8 DEF Bin
<1>11. Even(w, w.tag, In \cup {n}, h2, Nil, "left")
  BY <1>8, <1>9, <1>10 DEF Even
<1>12. ASSUME NEW m \in In \cup {n}, NEW q \in Side, w.tag[m] = Red
       PROVE  w.tag[w.kid[q][m]] = Black \/ w.kid[q][m] = n
  <2>1. CASE m = n
    BY <1>6, <1>10, <2>1
  <2>2. CASE m \in In
    <3>1. t.tag[m] = Red
      BY <1>5, <1>12, <2>2 DEF Bin
    <3>2. t.tag[t.kid[q][m]] = Black
      BY <1>2, <2>2, <3>1
    <3>3. QED
      BY <1>5, <1>7, <2>2, <3>2
  <2>3. QED
    BY <2>1, <2>2
<1>13. Pale(w, w.tag, In \cup {n}, n)
  BY <1>12 DEF Pale
<1>14. w.tag[Root(w)] = Black \/ Root(w) = n
  <2>1. /\ Root(t) = t.kid["left"][Nil] /\ Root(w) = w.kid["left"][Nil]
        /\ t.kid["left"][Nil] \in Bin(In)
    BY DEF Kin, Root, Side, Bin
  <2>2. QED
    BY <1>1, <1>2, <1>3, <1>5, <2>1
<1>15. QED
  BY <1>5, <1>11, <1>13, <1>14 DEF RedPair

\* The loop and the rotations.
LEMMA RbRaiseMends ==
    ASSUME NEW t \in Container, NEW In, NEW pos, Fits(t, In, pos), NEW n, RedPair(t, In, n)
    PROVE  Mended(RbRaise(t, n), t, In, pos)
<1> DEFINE up == [x \in Container \X Link |-> IF RedUncle(x[1], x[2]) THEN Recolour(x) ELSE x]
           end == Iterate(up, <<t, n>>, Rounds)
<1>1. Tagged(end[1], t) /\ RedPair(end[1], In, end[2]) /\ ~RedUncle(end[1], end[2])
  BY RaiseEnds
<1>2. RbRaise(t, n) = RbTurn(end[1], end[2])
  BY DEF RbRaise
<1> HIDE DEF end
<1>3. PICK v, x : v = end[1] /\ x = end[2]
  OBVIOUS
<1>4. v \in Container /\ v.count = t.count /\ Fits(v, In, pos)
  BY <1>1, <1>3, TaggedFits
<1>5. Mended(RbTurn(v, x), v, In, pos)
  BY <1>1, <1>3, <1>4, RbTurnMends
<1>6. QED
  BY <1>2, <1>3, <1>4, <1>5 DEF Mended

\* redblack_insert: n goes to its place, and a red-black tree stays one.
LEMMA RbInsertKeeps ==
    ASSUME NEW t \in Container, NEW In, NEW pos, Fits(t, In, pos), Ascending(In, pos),
           NEW h, RedBlack(t, t.tag, In, h), NEW n \in Node \ In,
           NEW w, w = RbInsert(t, n)
    PROVE  /\ \E q : Place(In, pos, KeyOf[n], q) /\ Fits(w, In \cup {n}, Opened(pos, n, q))
           /\ w \in Container /\ w.count = t.count + 1
           /\ \E h2 : RedBlack(w, w.tag, In \cup {n}, h2)
<1>1. PICK u : u = BstInsert(t, n)
  OBVIOUS
<1>2. PICK q : /\ Place(In, pos, KeyOf[n], q)
               /\ Fits(u, In \cup {n}, Opened(pos, n, q))
               /\ u \in Container /\ u.count = t.count + 1
               /\ \E p \in Bin(In), s \in Side :
                     /\ t.kid[s][p] = Nil /\ (p = Nil => s = "left")
                     /\ BstInserted(u, t, n, p, s)
  BY <1>1, BstInsertKeeps
<1>3. PICK p \in Bin(In), s \in Side :
         /\ t.kid[s][p] = Nil /\ (p = Nil => s = "left")
         /\ BstInserted(u, t, n, p, s)
  BY <1>2
<1>4. PICK v, J, at : v = Tag(u, n, Red) /\ J = In \cup {n} /\ at = Opened(pos, n, q)
  OBVIOUS
<1>5. TagWritten(v, u, n, Red)
  BY <1>2, <1>4, TagFields, Colours, Linked
<1>6. v \in Container /\ v.count = u.count /\ Fits(v, J, at)
  BY <1>2, <1>4, <1>5, TaggedFits DEF TagWritten
<1>7. Kin(t, In)
  BY ShapeKin DEF Fits
<1>8. RedPair(v, J, n)
  BY <1>3, <1>4, <1>5, <1>7, LeafPair
<1>9. PICK x : x = RbRaise(v, n)
  OBVIOUS
<1>10. x \in Container /\ x.count = v.count /\ Fits(x, J, at) /\ RedTop(x, J)
  BY <1>6, <1>8, <1>9, RbRaiseMends DEF Mended
<1>11. w = Tag(x, Root(x), Black)
  BY <1>1, <1>4, <1>9 DEF RbInsert, Tag
<1>12. Kin(x, J)
  BY <1>10, ShapeKin DEF Fits
<1>13. Tagged(w, x) /\ \E h2 : RedBlack(w, w.tag, J, h2)
  BY <1>10, <1>11, <1>12, PaintRoot
<1>14. w \in Container /\ w.count = x.count /\ Fits(w, J, at)
  BY <1>10, <1>13, TaggedFits
<1>15. QED
  BY <1>2, <1>4, <1>6, <1>10, <1>13, <1>14

-----------------------------------------------------------------------------
(***************************************************************************)
(* Deletion from a red-black tree.                                         *)
(***************************************************************************)
\* The colours of t with a black root: the deletion paints the root red.
Crowned(a, t) == \A m \in Link : a[m] = IF m = Root(t) THEN Black ELSE t.tag[m]

\* With c and the root painted black t is a red-black tree.
Whole(t, In, c) ==
    \E a, h : /\ \A m \in Link : a[m] = IF m = Root(t) \/ m = c THEN Black ELSE t.tag[m]
              /\ Even(t, a, In, h, Nil, "left") /\ Pale(t, a, In, Nil)

\* The paths below c, the kid of p on side q, lack a black node.
Lacking(t, In, c, p, q, a, h) ==
    /\ c \in Bin(In) /\ p \in In /\ q \in Side /\ t.kid[q][p] = c /\ t.parent[c] = p
    /\ t.tag[c] = Black /\ t.tag[Nil] = Black /\ Crowned(a, t)
    /\ Even(t, a, In, h, p, q) /\ Pale(t, a, In, Nil)

\* n keeps its colour under the crown, and is none of the two.
Nephew(t, In, a, n, c, p) ==
    /\ n \in Bin(In) /\ a[n] = t.tag[n] /\ t.tag[n] \in {Red, Black}
    /\ n # Nil => n # c
    /\ n # p

\* The sister of c is there, and c is on the side the code takes it to be on.
LEMMA LackingKin ==
    ASSUME NEW t \in Container, NEW In, Kin(t, In), NEW c, NEW p, NEW q, NEW a, NEW h,
           Lacking(t, In, c, p, q, a, h), NEW y, y = t.kid[Opp(q)][p]
    PROVE  /\ SideOf(t, c) = q /\ Sister(t, c) = y /\ y \in In
           /\ h[y] = h[c] + 1 /\ h[p] = h[c] + a[p] + 1 /\ h[c] \in Nat
           /\ y # c /\ y # p /\ c # p
           /\ a[c] = Black /\ y # Root(t) /\ a[y] = t.tag[y]
           /\ \A s \in Side : Nephew(t, In, a, t.kid[s][y], c, p)
<1>1. /\ c \in Bin(In) /\ p \in In /\ q \in Side /\ t.kid[q][p] = c /\ t.parent[c] = p
      /\ t.tag[c] = Black /\ t.tag[Nil] = Black
      /\ \A m \in Link : a[m] = IF m = Root(t) THEN Black ELSE t.tag[m]
      /\ h \in [Link -> Nat] /\ h[Nil] = 0 /\ a[Nil] = Black
      /\ \A n \in In : a[n] \in {Red, Black}
      /\ \A n \in In, s \in Side : h[n] = h[t.kid[s][n]] + a[n] + Lack(n, s, p, q)
  BY DEF Lacking, Even, Crowned
<1>2. Opp(q) \in Side /\ Opp(q) # q
  BY <1>1, SideOpp
<1>3. /\ In \subseteq Link /\ Bin(In) \subseteq Link /\ Nil \notin In /\ p \in Bin(In) /\ p # Nil
      /\ y \in Bin(In)
  BY <1>1, <1>2, Linked DEF Kin, Bin, Link
<1>4. h[p] = h[c] + a[p] + 1 /\ h[p] = h[y] + a[p]
  <2>1. Lack(p, q, p, q) = 1 /\ Lack(p, Opp(q), p, q) = 0
    BY <1>2 DEF Lack
  <2>2. h[p] = h[c] + a[p] + Lack(p, q, p, q) /\ h[p] = h[y] + a[p] + Lack(p, Opp(q), p, q)
    BY <1>1, <1>2
  <2>3. h[y] \in Nat /\ a[p] \in {0, 1}
    BY <1>1, <1>3, Colours
  <2>4. QED
    BY <2>1, <2>2, <2>3
<1>5. h[y] = h[c] + 1 /\ h[c] \in Nat
  <2>1. h[y] \in Nat /\ h[c] \in Nat /\ a[p] \in {0, 1}
    BY <1>1, <1>3, Colours
  <2>2. QED
    BY <1>4, <2>1
<1>6. y # c /\ y # Nil /\ y \in In
  BY <1>1, <1>3, <1>5 DEF Bin
<1>7. SideOf(t, c) = q
  BY <1>1, <1>6 DEF SideOf, Side, Opp
<1>8. Sister(t, c) = y
  BY <1>1, <1>7 DEF Sister
<1>9. y # p /\ c # p
  BY <1>1, <1>2, <1>3, <1>6 DEF Kin, Bin
<1>10. y # Root(t) /\ a[y] = t.tag[y]
  <2>1. t.parent[y] = p
    BY <1>2, <1>3, <1>6 DEF Kin, Bin
  <2>2. y # Root(t)
    BY <1>3, <1>6, <2>1 DEF Kin
  <2>3. QED
    BY <1>1, <1>3, <2>2
<1>11. ASSUME NEW s \in Side
       PROVE  Nephew(t, In, a, t.kid[s][y], c, p)
  <2>1. PICK n : n = t.kid[s][y]
    OBVIOUS
  <2>2. n \in Bin(In) /\ (n # Nil => t.parent[n] = y)
    BY <1>6, <2>1 DEF Kin, Bin
  <2>3. n # Nil => n # Root(t)
    BY <1>3, <1>6, <2>2 DEF Kin, Bin
  <2>4. a[n] = t.tag[n] /\ t.tag[n] \in {Red, Black}
    BY <1>1, <1>3, <2>2, <2>3 DEF Bin
  <2>5. n # Nil => n # c
    BY <1>1, <1>9, <2>2
  <2>6. n # p
    BY <1>2, <1>3, <1>6, <2>1, <2>2 DEF Kin, Bin
  <2>7. QED
    BY <2>1, <2>2, <2>4, <2>5, <2>6 DEF Nephew
<1>12. a[c] = Black
  BY <1>1, <1>3
<1>13. QED
  BY <1>3, <1>4, <1>5, <1>6, <1>7, <1>8, <1>9, <1>10, <1>11, <1>12

\* Painting the sister red takes what is missing one level up.
LEMMA PaintSister ==
    ASSUME NEW t \in Container, NEW In, Kin(t, In), NEW c, NEW p, NEW q, NEW a, NEW h,
           Lacking(t, In, c, p, q, a, h), NEW y, y = t.kid[Opp(q)][p],
           a[y] = Black, \A s \in Side : a[t.kid[s][y]] = Black,
           NEW a2, \A m \in Link : a2[m] = IF m = y THEN Red ELSE a[m],
           NEW g, g = t.parent[p], NEW r, r = SideOf(t, p)
    PROVE  (\E h2 : Even(t, a2, In, h2, g, r)) /\ Pale(t, a2, In, y)
<1>1. /\ c \in Bin(In) /\ p \in In /\ q \in Side /\ t.kid[q][p] = c /\ t.parent[c] = p
      /\ h \in [Link -> Nat] /\ h[Nil] = 0 /\ a[Nil] = Black
      /\ \A n \in In : a[n] \in {Red, Black}
      /\ \A n \in In, s \in Side : h[n] = h[t.kid[s][n]] + a[n] + Lack(n, s, p, q)
      /\ \A n \in In, s \in Side : a[n] = Red => a[t.kid[s][n]] = Black \/ t.kid[s][n] = Nil
  BY DEF Lacking, Even, Pale
<1>2. /\ y \in In /\ h[y] = h[c] + 1 /\ h[p] = h[c] + a[p] + 1 /\ h[c] \in Nat
      /\ y # c /\ y # p /\ c # p
  BY LackingKin
<1>3. /\ In \subseteq Link /\ Bin(In) \subseteq Link /\ Nil \notin In /\ Nil \in Link
      /\ In \subseteq Node /\ Opp(q) \in Side /\ Opp(q) # q
  BY <1>1, Linked, SideOpp DEF Kin, Bin, Link
<1>4. g # p /\ r \in Side /\ t.kid[r][g] = p
  BY <1>1 DEF Kin
<1>5. g # y /\ t.parent[y] = p
  BY <1>1, <1>2, <1>3 DEF Kin, Bin
<1>6. \A n \in In, s \in Side : /\ t.kid[s][n] \in Link
                                /\ t.kid[s][n] = p => n = g /\ s = r
                                /\ t.kid[s][n] = y => n = p /\ s = Opp(q)
  <2>1. ASSUME NEW n \in In, NEW s \in Side, NEW k \in In, t.kid[s][n] = k
        PROVE  n = t.parent[k] /\ s = SideOf(t, k)
    BY <2>1, SideIs DEF Bin
  <2>2. SideOf(t, y) = Opp(q)
    BY <1>1, <1>2, <1>3, SideIs DEF Bin
  <2>3. \A n \in In, s \in Side : t.kid[s][n] \in Link
    BY <1>3 DEF Kin, Bin
  <2>4. QED
    BY <1>1, <1>2, <1>5, <2>1, <2>2, <2>3
<1> DEFINE h2 == [m \in Link |-> IF m = p \/ m = y THEN h[m] - 1 ELSE h[m]]
<1>7. \A m \in Link : h[m] \in Nat
  BY <1>1
<1>8. a[p] \in {0, 1} /\ h[p] - 1 \in Nat /\ h[y] - 1 \in Nat /\ h[y] \in Nat /\ h[p] \in Nat
  BY <1>1, <1>2, <1>3, <1>7, Colours
<1>9. /\ h2 \in [Link -> Nat] /\ h2[p] = h[p] - 1 /\ h2[y] = h[y] - 1
      /\ \A m \in Link : m # p /\ m # y => h2[m] = h[m]
  BY <1>1, <1>2, <1>3, <1>7, <1>8
<1> HIDE DEF h2
<1>10. a2[y] = Red /\ a2[p] = a[p] /\ \A m \in Link : m # y => a2[m] = a[m]
  BY <1>1, <1>2, <1>3
<1>11. ASSUME NEW n \in In, NEW s \in Side PROVE h2[n] = h2[t.kid[s][n]] + a2[n] + Lack(n, s, g, r)
  <2>1. PICK k : k = t.kid[s][n]
    OBVIOUS
  <2>2. /\ h[n] = h[k] + a[n] + Lack(n, s, p, q) /\ h[n] \in Nat /\ h[k] \in Nat /\ a[n] \in {0, 1}
        /\ k \in Link /\ n \in Link /\ (k = p => n = g /\ s = r) /\ (k = y => n = p /\ s = Opp(q))
    BY <1>1, <1>3, <1>6, <1>7, <2>1, Colours
  <2>3. CASE n = p
    <3>1. Lack(n, s, g, r) = 0 /\ k # p /\ s \in {q, Opp(q)}
      BY <1>1, <1>4, <2>2, <2>3, SideOpp DEF Lack
    <3>2. CASE s = q
      <4>1. k = c /\ h2[k] = h[c] /\ Lack(n, s, p, q) = 1
        BY <1>1, <1>2, <1>3, <1>9, <2>1, <2>3, <3>2 DEF Lack
      <4>2. QED
        BY <1>2, <1>8, <1>9, <1>10, <2>1, <2>2, <2>3, <3>1, <4>1
    <3>3. CASE s = Opp(q)
      <4>1. k = y /\ h2[k] = h[y] - 1
        BY <1>9, <2>1, <2>3, <3>3
      <4>2. QED
        BY <1>2, <1>8, <1>9, <1>10, <2>1, <2>3, <3>1, <4>1
    <3>4. QED
      BY <3>1, <3>2, <3>3
  <2>4. CASE n = y
    <3>1. Lack(n, s, g, r) = 0 /\ Lack(n, s, p, q) = 0 /\ k # p /\ k # y
      BY <1>2, <1>3, <1>5, <2>2, <2>4 DEF Lack
    <3>2. h2[k] = h[k] /\ h2[n] = h[n] - 1 /\ a[n] = 1 /\ a2[n] = 0
      BY <1>9, <1>10, <2>2, <2>4, <3>1, Colours
    <3>3. QED
      BY <2>1, <2>2, <3>1, <3>2
  <2>5. CASE n # p /\ n # y
    <3>1. Lack(n, s, p, q) = 0 /\ a2[n] = a[n] /\ h2[n] = h[n]
      BY <1>9, <1>10, <2>2, <2>5 DEF Lack
    <3>2. CASE k = p
      <4>1. Lack(n, s, g, r) = 1 /\ h2[k] = h[k] - 1
        BY <1>9, <2>2, <3>2 DEF Lack
      <4>2. QED
        BY <2>1, <2>2, <3>1, <4>1
    <3>3. CASE k # p
      <4>1. h2[k] = h[k]
        BY <1>9, <2>2, <2>5, <3>3
      <4>2. Lack(n, s, g, r) = 0
        <5>1. ASSUME n = g /\ s = r PROVE FALSE
          BY <1>4, <2>1, <3>3, <5>1
        <5>2. QED
          BY <5>1 DEF Lack
      <4>3. QED
        BY <2>1, <2>2, <3>1, <4>1, <4>2
    <3>4. QED
      BY <3>2, <3>3
  <2>6. QED
    BY <2>3, <2>4, <2>5
<1>12. h2[Nil] = 0 /\ a2[Nil] = Black /\ \A n \in In : a2[n] \in {Red, Black}
  BY <1>1, <1>2, <1>3, <1>9, <1>10
<1>13. Even(t, a2, In, h2, g, r)
  BY <1>9, <1>11, <1>12 DEF Even
<1>14. ASSUME NEW n \in In, NEW s \in Side, a2[n] = Red
       PROVE  a2[t.kid[s][n]] = Black \/ t.kid[s][n] = y
  <2>1. t.kid[s][n] \in Link /\ n \in Link
    BY <1>3, <1>6
  <2>2. a[t.kid[s][n]] = Black
    BY <1>1, <1>10, <1>14, <2>1
  <2>3. QED
    BY <1>10, <2>1, <2>2
<1>15. QED
  BY <1>13, <1>14 DEF Pale

\* One round of redblack_delete's loop, the sister being black.
LEMMA LackRises ==
    ASSUME NEW t \in Container, NEW In, Kin(t, In), NEW c, NEW p, NEW q, NEW a, NEW h,
           Lacking(t, In, c, p, q, a, h), NEW y, y = t.kid[Opp(q)][p],
           t.tag[y] = Black, \A s \in Side : t.tag[t.kid[s][y]] = Black,
           t.tag[p] = Red \/ t.tag[Root(t)] = Red,
           NEW v, TagWritten(v, t, y, Red)
    PROVE  /\ v.tag[p] = Red => Whole(v, In, p)
           /\ v.tag[p] # Red => /\ \E g, r, a2, h2 : Lacking(v, In, p, g, r, a2, h2)
                                /\ v.tag[Root(v)] = Red
<1>1. /\ c \in Bin(In) /\ p \in In /\ q \in Side /\ t.kid[q][p] = c /\ t.parent[c] = p
      /\ t.tag[c] = Black /\ t.tag[Nil] = Black
      /\ \A m \in Link : a[m] = IF m = Root(t) THEN Black ELSE t.tag[m]
      /\ \A n \in In : a[n] \in {Red, Black}
  BY DEF Lacking, Even, Crowned
<1>2. /\ y \in In /\ y # p /\ y # Root(t) /\ a[y] = t.tag[y]
      /\ \A s \in Side : Nephew(t, In, a, t.kid[s][y], c, p)
  BY LackingKin
<1>3. \A s \in Side : a[t.kid[s][y]] = Black
  BY <1>2 DEF Nephew
<1>4. /\ In \subseteq Link /\ Bin(In) \subseteq Link /\ Nil \notin In /\ Nil \in Link
      /\ In \subseteq Node
  BY <1>1, Linked DEF Kin, Bin, Link
<1>5. PICK a2, g, r : a2 = [m \in Link |-> IF m = y THEN Red ELSE a[m]]
                      /\ g = t.parent[p] /\ r = SideOf(t, p)
  OBVIOUS
<1>6. \A m \in Link : a2[m] = IF m = y THEN Red ELSE a[m]
  BY <1>5
<1>7. (\E h2 : Even(t, a2, In, h2, g, r)) /\ Pale(t, a2, In, y)
  BY <1>2, <1>3, <1>5, <1>6, PaintSister
<1>8. PICK h2 : Even(t, a2, In, h2, g, r)
  BY <1>7
<1>9. /\ \A m \in Link : v.tag[m] = IF m = y THEN Red ELSE t.tag[m]
      /\ Tagged(v, t)
  BY DEF TagWritten
<1>10. v.kid = t.kid /\ v.parent = t.parent /\ Root(v) = Root(t)
  BY <1>9 DEF Tagged, Root
<1>11. r \in Side /\ t.kid[r][g] = p /\ g \in Bin(In) /\ t.parent[y] = p
  <2>1. r \in Side /\ t.kid[r][g] = p /\ g \in Bin(In)
    BY <1>1, <1>5 DEF Kin
  <2>2. t.parent[y] = p
    BY <1>1, <1>2, <1>4, SideOpp, SideIs DEF Bin
  <2>3. QED
    BY <2>1, <2>2
<1>12. Crowned(a2, v)
  BY <1>1, <1>2, <1>6, <1>9, <1>10 DEF Crowned
<1>13. v.tag[p] = t.tag[p] /\ v.tag[Nil] = Black
  BY <1>1, <1>2, <1>4, <1>9
<1>14. a2[p] = a[p] /\ p \in Link
  BY <1>1, <1>2, <1>4, <1>6
<1>15. CASE v.tag[p] # Red
  <2>1. t.tag[Root(t)] = Red /\ p # Root(t)
    BY <1>13, <1>15
  <2>2. a[p] = Black /\ v.tag[p] = Black
    BY <1>1, <1>13, <1>14, <1>15, <2>1
  <2>3. g \in In
    BY <1>1, <1>5, <1>11, <2>1 DEF Kin, Bin
  <2>4. Pale(t, a2, In, Nil)
    <3>1. a2[t.parent[y]] # Red
      BY <1>11, <1>14, <2>2, Colours
    <3>2. QED
      BY <1>2, <1>7, <3>1, PaleBelow
  <2>5. Even(v, a2, In, h2, g, r) /\ Pale(v, a2, In, Nil)
    BY <1>8, <1>10, <2>4 DEF Even, Pale
  <2>6. Lacking(v, In, p, g, r, a2, h2)
    BY <1>1, <1>5, <1>10, <1>11, <1>12, <1>13, <2>2, <2>3, <2>5 DEF Lacking, Bin
  <2>7. v.tag[Root(v)] = Red
    <3>1. Root(t) \in Link
      BY Linked DEF Side
    <3>2. QED
      BY <1>2, <1>9, <1>10, <2>1, <3>1
  <2>8. QED
    BY <1>15, <2>6, <2>7
<1>16. CASE v.tag[p] = Red
  <2>1. PICK a3 : a3 = [m \in Link |-> IF m = p THEN Black ELSE a2[m]]
    OBVIOUS
  <2>2. \A m \in Link : a3[m] = IF m = p THEN Black ELSE a2[m]
    BY <2>1
  <2>3. \A m \in Link : a3[m] = IF m = Root(v) \/ m = p THEN Black ELSE v.tag[m]
    BY <1>12, <2>2 DEF Crowned
  <2>4. Pale(t, a3, In, Nil)
    <3>1. Pale(t, a3, In, y)
      BY <1>7, <1>14, <2>2, PaintPale
    <3>2. a3[t.parent[y]] # Red
      BY <1>11, <1>14, <2>2, Colours
    <3>3. QED
      BY <1>2, <3>1, <3>2, PaleBelow
  <2>5. \E h3 : Even(t, a3, In, h3, Nil, "left")
    <3>1. CASE a2[p] = Red
      BY <1>1, <1>8, <1>11, <2>2, <3>1, PaintEven
    <3>2. CASE a2[p] # Red
      <4>1. a2[p] = Black
        BY <1>1, <1>14, <3>2
      <4>2. p = Root(t)
        BY <1>1, <1>13, <1>14, <1>16, <4>1, Colours
      <4>3. g = Nil
        BY <1>1, <1>5, <4>2 DEF Kin
      <4>4. \A m \in Link : a3[m] = a2[m]
        BY <2>2, <4>1
      <4>5. \A n \in In, s \in Side : Lack(n, s, g, r) = Lack(n, s, Nil, "left")
        BY <1>4, <4>3 DEF Lack
      <4>6. Even(t, a3, In, h2, Nil, "left")
        BY <1>4, <1>8, <4>4, <4>5 DEF Even
      <4>7. QED
        BY <4>6
    <3>3. QED
      BY <3>1, <3>2
  <2>6. PICK h3 : Even(t, a3, In, h3, Nil, "left")
    BY <2>5
  <2>7. Even(v, a3, In, h3, Nil, "left") /\ Pale(v, a3, In, Nil)
    BY <1>10, <2>4, <2>6 DEF Even, Pale
  <2>8. Whole(v, In, p)
    BY <2>3, <2>7 DEF Whole
  <2>9. QED
    BY <1>16, <2>8
<1>17. QED
  BY <1>15, <1>16

\* The root after a rotation.
LEMMA SpunRoot ==
    ASSUME NEW t \in Container, NEW In, Kin(t, In),
           NEW s \in Side, NEW c \in In, NEW p \in In, t.kid[Opp(s)][p] = c,
           NEW u, NEW r \in Side, Spun(u, t, s, c, p, r)
    PROVE  Root(u) = IF p = Root(t) THEN c ELSE Root(t)
<1>1. PICK g : g = t.parent[p] /\ t.kid[r][g] = p
  BY DEF Spun
<1>2. "left" \in Side /\ "right" \in Side /\ Nil \notin In /\ Nil \in Link
  BY Linked DEF Side, Kin
<1>3. Root(u) = u.kid["left"][Nil] /\ Root(t) = t.kid["left"][Nil]
  BY DEF Root
<1>4. u.kid["left"][Nil] = IF Nil = g /\ "left" = r THEN c ELSE t.kid["left"][Nil]
  BY <1>1, <1>2 DEF Spun
<1>5. CASE p = Root(t)
  <2>1. g = Nil /\ t.kid["right"][Nil] = Nil
    BY <1>1, <1>5 DEF Kin
  <2>2. r = "left"
    BY <1>1, <1>2, <2>1 DEF Side
  <2>3. QED
    BY <1>3, <1>4, <1>5, <2>1, <2>2
<1>6. CASE p # Root(t)
  BY <1>1, <1>3, <1>4, <1>6
<1>7. QED
  BY <1>5, <1>6

\* As Lacking, with a black sister below the red p.
Lowered(u, t, In, pos, c, p, q) ==
    /\ u \in Container /\ u.count = t.count /\ Fits(u, In, pos)
    /\ \E a, h : Lacking(u, In, c, p, q, a, h)
    /\ u.tag[u.kid[Opp(q)][p]] = Black /\ u.tag[p] = Red

\* A red sister is rotated above the parent: her kid is the new one.
LEMMA SisterTurn ==
    ASSUME NEW t \in Container, NEW In, NEW pos, Fits(t, In, pos),
           NEW c, NEW p, NEW q, NEW a, NEW h, Lacking(t, In, c, p, q, a, h),
           NEW y, y = t.kid[Opp(q)][p], t.tag[y] = Red,
           NEW u, u = Rotate(TagTwo(t, y, Black, p, Red), q, y, p)
    PROVE  Lowered(u, t, In, pos, c, p, q)
<1>1. Kin(t, In)
  BY ShapeKin DEF Fits
<1>2. /\ c \in Bin(In) /\ p \in In /\ q \in Side /\ t.kid[q][p] = c /\ t.parent[c] = p
      /\ t.tag[c] = Black /\ t.tag[Nil] = Black
      /\ \A m \in Link : a[m] = IF m = Root(t) THEN Black ELSE t.tag[m]
      /\ \A n \in In : a[n] \in {Red, Black}
      /\ \A n \in In, s \in Side : a[n] = Red => a[t.kid[s][n]] = Black \/ t.kid[s][n] = Nil
      /\ a[Nil] = Black /\ Even(t, a, In, h, p, q) /\ Pale(t, a, In, Nil)
  BY DEF Lacking, Even, Crowned, Pale
<1>3. /\ y \in In /\ y # c /\ y # p /\ c # p /\ y # Root(t) /\ a[y] = t.tag[y] /\ a[c] = Black
      /\ \A s \in Side : Nephew(t, In, a, t.kid[s][y], c, p)
  BY <1>1, LackingKin
<1>4. /\ In \subseteq Link /\ Bin(In) \subseteq Link /\ Nil \notin In /\ Nil \in Link
      /\ In \subseteq Node /\ Opp(q) \in Side /\ Opp(q) # q
  BY <1>1, <1>2, Linked, SideOpp DEF Kin, Bin, Link
<1>5. PICK w : w = TagTwo(t, y, Black, p, Red)
  OBVIOUS
<1>6. Tagged(w, t) /\ \A m \in Link : w.tag[m] = IF m = p THEN Red ELSE IF m = y THEN Black ELSE t.tag[m]
  <2>1. TwoWritten(w, t, y, Black, p, Red)
    BY <1>2, <1>3, <1>4, <1>5, TwoTagFields, Colours
  <2>2. QED
    BY <2>1 DEF TwoWritten
<1>7. /\ u \in Container /\ u.tag = w.tag /\ u.count = t.count /\ Fits(u, In, pos)
      /\ \E r \in Side : Spun(u, t, q, y, p, r)
  BY <1>2, <1>3, <1>5, <1>6, RotateSpins
<1>8. PICK r \in Side : Spun(u, t, q, y, p, r)
  BY <1>7
<1>9. PICK a2, z : a2 = [m \in Link |-> IF m = y THEN a[p] ELSE IF m = p THEN a[y] ELSE a[m]]
                   /\ z = t.kid[Opp(q)][y]
  OBVIOUS
<1>10. Exchanged(a2, a, y, p)
  BY <1>9 DEF Exchanged
<1>11. a[p] = Black
  BY <1>2, <1>3, <1>4, Colours
<1>12. \E h2 : Even(u, a2, In, h2, p, q)
  <2>1. p # y /\ ~(p = p /\ q = Opp(q)) /\ a[y] = Red /\ y \in In /\ p \in In /\ q \in Side
    BY <1>2, <1>3, <1>4
  <2>2. t.kid[Opp(q)][p] = y /\ Even(t, a, In, h, p, q)
    BY <1>2
  <2>3. QED
    BY <1>1, <1>8, <1>10, <2>1, <2>2, RedTurnEven
<1>13. PICK h2 : Even(u, a2, In, h2, p, q)
  BY <1>12
<1>14. Pale(u, a2, In, Nil)
  <2>1. Nil # p /\ Nil \in {Nil, y, z} /\ a[p] # Red /\ a[y] \in {Red, Black}
    BY <1>2, <1>3, <1>4, <1>11, Colours
  <2>2. QED
    BY <1>1, <1>2, <1>3, <1>8, <1>9, <1>10, <2>1, TurnPale
<1>15. Root(u) = IF p = Root(t) THEN y ELSE Root(t)
  BY <1>1, <1>2, <1>3, <1>8, SpunRoot
<1>16. Crowned(a2, u)
  <2> SUFFICES ASSUME NEW m \in Link PROVE a2[m] = IF m = Root(u) THEN Black ELSE u.tag[m]
    BY DEF Crowned
  <2>1. /\ a2[m] = IF m = y THEN a[p] ELSE IF m = p THEN a[y] ELSE a[m]
        /\ u.tag[m] = IF m = p THEN Red ELSE IF m = y THEN Black ELSE t.tag[m]
        /\ a[m] = IF m = Root(t) THEN Black ELSE t.tag[m]
    BY <1>2, <1>6, <1>7, <1>9
  <2>2. QED
    BY <1>3, <1>11, <1>15, <2>1
<1>17. p # t.parent[p] /\ y # t.parent[p]
  BY <1>1, <1>2, <1>3, <1>4 DEF Kin, Bin
<1>18. u.kid[q][p] = c /\ u.kid[Opp(q)][p] = t.kid[q][y] /\ u.parent[c] = p
  BY <1>2, <1>3, <1>4, <1>8, <1>17 DEF Spun
<1>19. u.tag[c] = Black /\ u.tag[Nil] = Black /\ u.tag[p] = Red
  BY <1>2, <1>3, <1>4, <1>6, <1>7
<1>20. a2[c] = Black
  BY <1>2, <1>3, <1>4, <1>9
<1>21. Lacking(u, In, c, p, q, a2, h2)
  BY <1>2, <1>13, <1>14, <1>16, <1>18, <1>19, <1>20 DEF Lacking
<1>22. u.tag[t.kid[q][y]] = Black
  <2>1. PICK k : k = t.kid[q][y]
    OBVIOUS
  <2>2. k \in Bin(In) /\ a[k] = t.tag[k] /\ k # p /\ k \in Link
    BY <1>2, <1>3, <1>4, <2>1 DEF Nephew
  <2>3. k # y
    BY <1>1, <1>2, <1>3, <1>4, <2>1 DEF Kin, Bin
  <2>4. a[k] = Black
    BY <1>2, <1>3, <2>1
  <2>5. QED
    BY <1>6, <1>7, <2>1, <2>2, <2>3, <2>4
<1>23. QED
  BY <1>7, <1>18, <1>19, <1>21, <1>22 DEF Lowered

\* As Lacking, with a black sister.
Levelled(t, In, c, p, q, a, h) ==
    /\ Lacking(t, In, c, p, q, a, h) /\ t.tag[t.kid[Opp(q)][p]] = Black
    /\ t.tag[p] = Red \/ t.tag[Root(t)] = Red

\* What redblack_delete does about a red sister.
LEMMA BlackSisterLevels ==
    ASSUME NEW t \in Container, NEW In, NEW pos, Fits(t, In, pos),
           NEW c, NEW p, NEW q, NEW a, NEW h, Lacking(t, In, c, p, q, a, h),
           t.tag[Root(t)] = Red, NEW u, u = BlackSister(t, c)
    PROVE  /\ u \in Container /\ u.count = t.count /\ Fits(u, In, pos)
           /\ \E a2, h2 : Levelled(u, In, c, p, q, a2, h2)
           /\ u = t \/ u.tag[p] = Red
<1>1. Kin(t, In)
  BY ShapeKin DEF Fits
<1>2. PICK y : y = t.kid[Opp(q)][p]
  OBVIOUS
<1>3. SideOf(t, c) = q /\ Sister(t, c) = y /\ y \in In /\ a[y] = t.tag[y] /\ t.parent[c] = p
      /\ a[y] \in {Red, Black}
  BY <1>1, <1>2, LackingKin DEF Lacking, Even
<1>4. CASE t.tag[y] = Red
  <2>1. u = Rotate(TagTwo(t, y, Black, p, Red), q, y, p)
    BY <1>3, <1>4 DEF BlackSister, TagTwo
  <2>2. /\ u \in Container /\ u.count = t.count /\ Fits(u, In, pos)
        /\ \E a2, h2 : Lacking(u, In, c, p, q, a2, h2)
        /\ u.tag[u.kid[Opp(q)][p]] = Black /\ u.tag[p] = Red
    <3>1. Lowered(u, t, In, pos, c, p, q)
      BY <1>2, <1>4, <2>1, SisterTurn
    <3>2. QED
      BY <3>1 DEF Lowered
  <2>3. QED
    BY <2>2 DEF Levelled
<1>5. CASE t.tag[y] # Red
  <2>1. u = t
    BY <1>3, <1>5 DEF BlackSister
  <2>2. Levelled(t, In, c, p, q, a, h)
    BY <1>2, <1>3, <1>5 DEF Levelled
  <2>3. QED
    BY <2>1, <2>2
<1>6. QED
  BY <1>4, <1>5

-----------------------------------------------------------------------------
\* As Levelled; the sister k has a red kid f on the outside.
Ready(t, In, c, p, s, k, f, a) ==
    /\ c \in Bin(In) /\ p \in In /\ k \in In /\ f \in In /\ s \in Side
    /\ t.kid[s][p] = c /\ t.kid[Opp(s)][p] = k /\ t.kid[Opp(s)][k] = f
    /\ a[c] = Black /\ a[k] = Black /\ a[f] = Red /\ c # k
    /\ Crowned(a, t) /\ Pale(t, a, In, Nil)
    /\ \E h : Even(t, a, In, h, p, s)

\* The rotation that ends it.
LEMMA FarTurn ==
    ASSUME NEW t \in Container, NEW In, NEW pos, Fits(t, In, pos),
           NEW c, NEW p, NEW s, NEW k, NEW f, NEW a, Ready(t, In, c, p, s, k, f, a),
           NEW u, u = Rotate(TagThree(t, k, t.tag[p], f, Black, p, Black), s, k, p)
    PROVE  u \in Container /\ u.count = t.count /\ Fits(u, In, pos) /\ Whole(u, In, c)
<1>1. Kin(t, In)
  BY ShapeKin DEF Fits
<1>2. /\ c \in Bin(In) /\ p \in In /\ k \in In /\ f \in In /\ s \in Side
      /\ t.kid[s][p] = c /\ t.kid[Opp(s)][p] = k /\ t.kid[Opp(s)][k] = f
      /\ a[c] = Black /\ a[k] = Black /\ a[f] = Red /\ c # k
      /\ \A m \in Link : a[m] = IF m = Root(t) THEN Black ELSE t.tag[m]
      /\ Pale(t, a, In, Nil)
  BY DEF Ready, Crowned
<1>3. PICK h : Even(t, a, In, h, p, s)
  BY DEF Ready
<1>4. /\ In \subseteq Link /\ Bin(In) \subseteq Link /\ Nil \notin In /\ Nil \in Link
      /\ Opp(s) \in Side /\ Opp(s) # s
  BY <1>1, <1>2, Linked, SideOpp DEF Kin, Bin, Link
<1>5. k # p /\ f # k /\ f # p /\ k # Root(t) /\ f # Root(t) /\ t.parent[k] = p /\ t.parent[f] = k
  BY <1>1, <1>2, <1>4 DEF Kin, Bin
<1>6. PICK w : w = TagThree(t, k, t.tag[p], f, Black, p, Black)
  OBVIOUS
<1>7. Tagged(w, t) /\ \A m \in Link : w.tag[m] = IF m = p THEN Black ELSE IF m = f THEN Black
                                                ELSE IF m = k THEN t.tag[p] ELSE t.tag[m]
  <2>1. t.tag[p] \in 0 .. 2
    BY <1>2, <1>4 DEF Container
  <2>2. ThreeWritten(w, t, k, t.tag[p], f, Black, p, Black)
    BY <1>2, <1>4, <1>6, <2>1, ThreeTagFields, Colours
  <2>3. QED
    BY <2>2 DEF ThreeWritten
<1>8. /\ u \in Container /\ u.tag = w.tag /\ u.count = t.count /\ Fits(u, In, pos)
      /\ \E r \in Side : Spun(u, t, s, k, p, r)
  BY <1>2, <1>6, <1>7, RotateSpins
<1>9. PICK r \in Side : Spun(u, t, s, k, p, r)
  BY <1>8
<1>10. PICK a2, a3 : /\ a2 = [m \in Link |-> IF m = k THEN a[p] ELSE IF m = p THEN a[k] ELSE a[m]]
                     /\ a3 = [m \in Link |-> IF m = f THEN Black ELSE a2[m]]
  OBVIOUS
<1>11. /\ \A m \in Link : a2[m] = IF m = k THEN a[p] ELSE IF m = p THEN a[k] ELSE a[m]
       /\ \A m \in Link : a3[m] = IF m = f THEN Black ELSE a2[m]
  BY <1>10
<1>12. Exchanged(a2, a, k, p)
  BY <1>11 DEF Exchanged
<1>13. PICK h2 : Even(u, a2, In, h2, k, Opp(s))
  BY <1>1, <1>2, <1>3, <1>5, <1>9, <1>12, BlackTurnEven
<1>14. Pale(u, a2, In, f)
  <2>1. PICK y : y = t.kid[s][p]
    OBVIOUS
  <2>2. /\ a[Nil] = Black /\ a[k] \in {Red, Black} /\ Nil # p /\ Nil \in {f, k, f, Nil}
        /\ ~(a[p] = Red /\ a[k] = Red) /\ a[k] # Red
    BY <1>2, <1>3, <1>4, Colours DEF Even
  <2>3. f = t.kid[Opp(s)][k] /\ Pale(t, a, In, Nil) /\ t.kid[Opp(s)][p] = k
    BY <1>2
  <2>4. QED
    BY <1>1, <1>2, <1>9, <1>12, <2>1, <2>2, <2>3, TurnPale
<1>15. Kin(u, In)
  BY <1>8, ShapeKin DEF Fits
<1>16. u.kid[Opp(s)][k] = f
  <2>1. k # t.parent[p]
    BY <1>1, <1>2, <1>4 DEF Kin, Bin
  <2>2. QED
    BY <1>2, <1>4, <1>5, <1>9, <2>1 DEF Spun
<1>17. \E h3 : Even(u, a3, In, h3, Nil, "left")
  <2>1. a2[f] = Red /\ k \in Bin(In)
    BY <1>2, <1>4, <1>5, <1>11 DEF Bin
  <2>2. QED
    BY <1>2, <1>4, <1>8, <1>11, <1>13, <1>15, <1>16, <2>1, PaintEven
<1>18. Pale(u, a3, In, Nil)
  BY <1>2, <1>4, <1>8, <1>11, <1>14, <1>15, PaintPale
<1>19. Root(u) = IF p = Root(t) THEN k ELSE Root(t)
  BY <1>1, <1>2, <1>9, SpunRoot
<1>20. ASSUME NEW m \in Link PROVE a3[m] = IF m = Root(u) \/ m = c THEN Black ELSE u.tag[m]
  <2>1. /\ a2[m] = IF m = k THEN a[p] ELSE IF m = p THEN a[k] ELSE a[m]
        /\ a3[m] = IF m = f THEN Black ELSE a2[m]
        /\ u.tag[m] = IF m = p THEN Black ELSE IF m = f THEN Black
                      ELSE IF m = k THEN t.tag[p] ELSE t.tag[m]
        /\ a[m] = IF m = Root(t) THEN Black ELSE t.tag[m]
        /\ a[p] = IF p = Root(t) THEN Black ELSE t.tag[p]
    BY <1>2, <1>4, <1>7, <1>8, <1>11
  <2>2. QED
    BY <1>2, <1>5, <1>19, <2>1
<1>21. Whole(u, In, c)
  BY <1>17, <1>18, <1>20 DEF Whole
<1>22. QED
  BY <1>8, <1>21

\* n and f are the kids of the sister y, the one next to c red and the other
\* black.
NearRed(t, p, q, o, y, n, f) ==
    /\ o = Opp(q) /\ t.kid[o][p] = y /\ t.kid[q][y] = n /\ t.kid[o][y] = f
    /\ t.tag[y] = Black /\ t.tag[n] = Red /\ t.tag[f] = Black

\* The rotation of the sister brings her red kid to the outside.
LEMMA NearTurn ==
    ASSUME NEW t \in Container, NEW In, NEW pos, Fits(t, In, pos),
           NEW c, NEW p, NEW q, NEW a, NEW h, Lacking(t, In, c, p, q, a, h),
           NEW o, NEW y, NEW n, NEW z, NearRed(t, p, q, o, y, n, z),
           NEW v, v = Rotate(TagTwo(t, n, Black, y, Red), o, n, y)
    PROVE  /\ v \in Container /\ v.count = t.count /\ Fits(v, In, pos)
           /\ \E a2 : Ready(v, In, c, p, q, n, y, a2)
           /\ v.kid[o][p] = n /\ v.tag[p] = t.tag[p]
<1>1. Kin(t, In)
  BY ShapeKin DEF Fits
<1>2. /\ c \in Bin(In) /\ p \in In /\ q \in Side /\ t.kid[q][p] = c /\ t.parent[c] = p
      /\ t.tag[c] = Black /\ t.tag[Nil] = Black
      /\ \A m \in Link : a[m] = IF m = Root(t) THEN Black ELSE t.tag[m]
      /\ a[Nil] = Black /\ Even(t, a, In, h, p, q) /\ Pale(t, a, In, Nil)
  BY DEF Lacking, Even, Crowned
<1>4. /\ o = Opp(q) /\ t.kid[o][p] = y /\ t.kid[q][y] = n /\ t.kid[o][y] = z
      /\ t.tag[y] = Black /\ t.tag[n] = Red /\ t.tag[z] = Black
  BY DEF NearRed
<1>3. /\ y \in In /\ y # c /\ y # p /\ c # p /\ y # Root(t) /\ a[y] = t.tag[y] /\ a[c] = Black
      /\ \A s \in Side : Nephew(t, In, a, t.kid[s][y], c, p)
  BY <1>1, <1>4, LackingKin
<1>5. /\ In \subseteq Link /\ Bin(In) \subseteq Link /\ Nil \notin In /\ Nil \in Link
      /\ o \in Side /\ o # q /\ Opp(o) = q /\ p # Nil
  BY <1>1, <1>2, <1>4, Linked, SideOpp DEF Kin, Bin, Link
<1>6. n \in In /\ n # p /\ n # c /\ n # y /\ a[n] = Red /\ a[z] = Black /\ a[y] = Black
  <2>1. n \in Bin(In) /\ a[n] = t.tag[n] /\ (n # Nil => n # c) /\ n # p /\ a[z] = t.tag[z]
    BY <1>2, <1>3, <1>4, <1>5 DEF Nephew
  <2>2. n # Nil
    BY <1>2, <1>4, Colours
  <2>3. n # y
    BY <1>1, <1>2, <1>3, <1>4, <1>5, <2>2 DEF Kin, Bin
  <2>4. QED
    BY <1>3, <1>4, <2>1, <2>2, <2>3 DEF Bin
<1>7. PICK w : w = TagTwo(t, n, Black, y, Red)
  OBVIOUS
<1>8. Tagged(w, t) /\ \A m \in Link : w.tag[m] = IF m = y THEN Red ELSE IF m = n THEN Black ELSE t.tag[m]
  <2>1. TwoWritten(w, t, n, Black, y, Red)
    BY <1>3, <1>5, <1>6, <1>7, TwoTagFields, Colours
  <2>2. QED
    BY <2>1 DEF TwoWritten
<1>9. t.kid[Opp(o)][y] = n /\ v = Rotate(w, o, n, y)
  BY <1>4, <1>5, <1>7
<1>10. /\ v \in Container /\ v.tag = w.tag /\ v.count = t.count /\ Fits(v, In, pos)
       /\ \E r \in Side : Spun(v, t, o, n, y, r)
  BY <1>3, <1>5, <1>6, <1>8, <1>9, RotateSpins
<1>11. PICK r \in Side : Spun(v, t, o, n, y, r)
  BY <1>10
<1>12. PICK a2 : a2 = [m \in Link |-> IF m = n THEN a[y] ELSE IF m = y THEN a[n] ELSE a[m]]
  OBVIOUS
<1>13. Exchanged(a2, a, n, y)
  BY <1>12 DEF Exchanged
<1>14. \E h2 : Even(v, a2, In, h2, p, q)
  <2>1. p # n /\ ~(p = y /\ q = Opp(o))
    BY <1>3, <1>6
  <2>2. Even(t, a, In, h, p, q)
    BY <1>2
  <2>3. QED
    BY <1>1, <1>3, <1>5, <1>6, <1>9, <1>11, <1>13, <2>1, <2>2, RedTurnEven
<1>15. Pale(v, a2, In, Nil)
  <2>1. PICK e : e = t.kid[Opp(o)][n]
    OBVIOUS
  <2>2. a[n] \in {Red, Black} /\ Nil # y /\ Nil \in {Nil, n, e, Nil} /\ a[y] # Red /\ a[z] = Black
    BY <1>3, <1>5, <1>6, Colours
  <2>3. QED
    BY <1>1, <1>2, <1>3, <1>4, <1>5, <1>6, <1>9, <1>11, <1>13, <2>1, <2>2, TurnPale
<1>16. Root(v) = Root(t) /\ n # Root(t)
  <2>1. Root(v) = IF y = Root(t) THEN n ELSE Root(t)
    BY <1>1, <1>3, <1>5, <1>6, <1>9, <1>11, SpunRoot
  <2>2. t.parent[n] = y
    BY <1>1, <1>2, <1>3, <1>4, <1>5, <1>6 DEF Kin, Bin
  <2>3. n # Root(t)
    BY <1>1, <1>3, <1>5, <1>6, <2>2 DEF Kin
  <2>4. QED
    BY <1>3, <2>1, <2>3
<1>17. Crowned(a2, v)
  <2> SUFFICES ASSUME NEW m \in Link PROVE a2[m] = IF m = Root(v) THEN Black ELSE v.tag[m]
    BY DEF Crowned
  <2>1. /\ a2[m] = IF m = n THEN a[y] ELSE IF m = y THEN a[n] ELSE a[m]
        /\ v.tag[m] = IF m = y THEN Red ELSE IF m = n THEN Black ELSE t.tag[m]
        /\ a[m] = IF m = Root(t) THEN Black ELSE t.tag[m]
    BY <1>2, <1>8, <1>10, <1>12
  <2>2. QED
    BY <1>3, <1>6, <1>16, <2>1
<1>18. r = o /\ t.parent[y] = p
  <2>1. t.parent[y] = p /\ SideOf(t, y) = o
    BY <1>1, <1>2, <1>3, <1>4, <1>5, SideIs DEF Bin
  <2>2. t.kid[r][p] = y
    BY <1>11, <2>1 DEF Spun
  <2>3. QED
    BY <1>1, <1>2, <1>3, <2>1, <2>2, SideIs DEF Bin
<1>19. v.kid[q][p] = c /\ v.kid[o][p] = n /\ v.kid[o][n] = y
  BY <1>2, <1>3, <1>4, <1>5, <1>6, <1>11, <1>18 DEF Spun
<1>20. a2[c] = Black /\ a2[n] = Black /\ a2[y] = Red
  BY <1>2, <1>3, <1>5, <1>6, <1>12
<1>21. Ready(v, In, c, p, q, n, y, a2)
  BY <1>2, <1>3, <1>4, <1>6, <1>14, <1>15, <1>17, <1>19, <1>20 DEF Ready
<1>22. v.tag[p] = t.tag[p]
  BY <1>2, <1>3, <1>5, <1>6, <1>8, <1>10
<1>23. QED
  BY <1>4, <1>10, <1>19, <1>21, <1>22

\* The rotations that end a deletion.
LEMMA RbSettleMends ==
    ASSUME NEW t \in Container, NEW In, NEW pos, Fits(t, In, pos),
           NEW c, NEW p, NEW q, NEW a, NEW h, Levelled(t, In, c, p, q, a, h), ~BlackNephews(t, c),
           NEW u, u = RbSettle(t, c)
    PROVE  u \in Container /\ u.count = t.count /\ Fits(u, In, pos) /\ Whole(u, In, c)
<1>1. PICK y, o, n, f : y = t.kid[Opp(q)][p] /\ o = Opp(q) /\ n = t.kid[q][y] /\ f = t.kid[o][y]
  OBVIOUS
<1>2. Lacking(t, In, c, p, q, a, h) /\ t.tag[y] = Black
  BY <1>1 DEF Levelled
<1>3. Kin(t, In)
  BY ShapeKin DEF Fits
<1>4. /\ c \in Bin(In) /\ p \in In /\ q \in Side /\ t.kid[q][p] = c /\ t.parent[c] = p
      /\ t.tag[Nil] = Black /\ Crowned(a, t) /\ Pale(t, a, In, Nil)
      /\ Even(t, a, In, h, p, q)
  BY <1>2 DEF Lacking
<1>5. /\ y \in In /\ y # c /\ y # p /\ a[y] = t.tag[y] /\ a[c] = Black
      /\ SideOf(t, c) = q /\ Sister(t, c) = y
      /\ \A s \in Side : Nephew(t, In, a, t.kid[s][y], c, p)
  BY <1>1, <1>2, <1>3, LackingKin
<1>6. o \in Side /\ Nil \notin In
  BY <1>1, <1>3, <1>4, SideOpp, Linked DEF Kin
<1>7. /\ a[f] = t.tag[f] /\ t.tag[f] \in {Red, Black} /\ t.tag[n] \in {Red, Black} /\ f \in Bin(In)
  BY <1>1, <1>4, <1>5, <1>6 DEF Nephew
<1>8. ~(t.tag[n] = Black /\ t.tag[f] = Black)
  <2>1. SUFFICES ASSUME t.tag[n] = Black, t.tag[f] = Black PROVE FALSE
    OBVIOUS
  <2>2. \A s \in Side : t.tag[t.kid[s][y]] = Black
    BY <1>1, <1>4, <2>1, SideOpp
  <2>3. BlackNephews(t, c)
    BY <1>5, <2>2 DEF BlackNephews
  <2>4. QED
    BY <2>3
<1>9. CASE t.tag[f] = Black
  <2>1. t.tag[n] = Red
    BY <1>7, <1>8, <1>9
  <2>9. NearRed(t, p, q, o, y, n, f)
    BY <1>1, <1>2, <1>9, <2>1 DEF NearRed
  <2>2. PICK v : v = Rotate(TagTwo(t, n, Black, y, Red), o, n, y)
    OBVIOUS
  <2>3. /\ v \in Container /\ v.count = t.count /\ Fits(v, In, pos)
        /\ \E a2 : Ready(v, In, c, p, q, n, y, a2)
        /\ v.kid[o][p] = n /\ v.tag[p] = t.tag[p]
    BY <1>2, <2>2, <2>9, NearTurn
  <2>4. PICK a2 : Ready(v, In, c, p, q, n, y, a2)
    BY <2>3
  <2>5. v.kid[o][n] = y
    BY <1>1, <2>4 DEF Ready
  <2>6. u = Rotate(TagThree(v, n, v.tag[p], y, Black, p, Black), q, n, p)
    <3>1. u = Rotate([v EXCEPT !.tag[n] = v.tag[p], !.tag[v.kid[o][n]] = Black, !.tag[p] = Black], q, n, p)
      BY <1>1, <1>4, <1>5, <1>9, <2>2, <2>3 DEF RbSettle, TagTwo
    <3>2. QED
      BY <2>5, <3>1 DEF TagThree
  <2>7. u \in Container /\ u.count = v.count /\ Fits(u, In, pos) /\ Whole(u, In, c)
    BY <2>3, <2>4, <2>6, FarTurn
  <2>8. QED
    BY <2>3, <2>7
<1>10. CASE t.tag[f] # Black
  <2>1. t.tag[f] = Red
    BY <1>7, <1>10
  <2>2. f \in In
    BY <1>4, <1>7, <2>1, Colours DEF Bin
  <2>3. Ready(t, In, c, p, q, y, f, a)
    BY <1>1, <1>2, <1>4, <1>5, <1>7, <2>1, <2>2 DEF Ready
  <2>4. u = Rotate(TagThree(t, y, t.tag[p], f, Black, p, Black), q, y, p)
    BY <1>1, <1>4, <1>5, <1>10 DEF RbSettle, TagThree
  <2>5. QED
    BY <2>3, <2>4, FarTurn
<1>11. QED
  BY <1>9, <1>10

-----------------------------------------------------------------------------
\* The last two assignments of redblack_delete.
LEMMA PaintBoth ==
    ASSUME NEW t \in Container, NEW In, Kin(t, In), NEW c \in Link, Whole(t, In, c),
           NEW w, w = TagTwo(t, c, Black, Root(t), Black)
    PROVE  Tagged(w, t) /\ \E h : RedBlack(w, w.tag, In, h)
<1>1. PICK a, h : /\ \A m \in Link : a[m] = IF m = Root(t) \/ m = c THEN Black ELSE t.tag[m]
                  /\ Even(t, a, In, h, Nil, "left") /\ Pale(t, a, In, Nil)
  BY DEF Whole
<1>2. Root(t) \in Link /\ Nil \in Link /\ In \subseteq Link /\ \A n \in In, s \in Side : t.kid[s][n] \in Link
  BY Linked DEF Side, Kin, Link
<1>3. TwoWritten(w, t, c, Black, Root(t), Black)
  BY <1>2, TwoTagFields, Colours
<1>4. Tagged(w, t) /\ \A m \in Link : w.tag[m] = a[m]
  BY <1>1, <1>3 DEF TwoWritten
<1>5. w.kid = t.kid /\ Root(w) = Root(t)
  BY <1>4 DEF Tagged, Root
<1>6. Even(w, w.tag, In, h, Nil, "left")
  BY <1>1, <1>2, <1>4, <1>5 DEF Even
<1>7. Pale(w, w.tag, In, Nil)
  BY <1>1, <1>2, <1>4, <1>5 DEF Pale
<1>8. w.tag[Root(w)] = Black
  BY <1>1, <1>2, <1>4, <1>5
<1>9. RedBlack(w, w.tag, In, h)
  BY <1>6, <1>7, <1>8 DEF RedBlack
<1>10. QED
  BY <1>4, <1>9

\* The loop of redblack_delete is at c.
Mending(u, t, In, pos, c) ==
    /\ u \in Container /\ u.count = t.count /\ Fits(u, In, pos) /\ c \in Bin(In)
    /\ \/ u.tag[c] = Red /\ Whole(u, In, c)
       \/ /\ Tagged(u, t) /\ u.tag[Root(u)] = Red
          /\ \E p, q, a, h : Lacking(u, In, c, p, q, a, h)

\* The round of the loop.
MendRound(u, c) == <<Tag(BlackSister(u, c), Sister(BlackSister(u, c), c), Red), BlackSister(u, c).parent[c]>>

\* A round takes the loop up to the parent, or to an end.
LEMMA RoundMends ==
    ASSUME NEW t, NEW In, NEW pos, NEW u, NEW c,
           Mending(u, t, In, pos, c), u.tag[c] # Red, BlackNephews(BlackSister(u, c), c),
           NEW v, NEW d, <<v, d>> = MendRound(u, c)
    PROVE  /\ Mending(v, t, In, pos, d)
           /\ v.tag[d] # Red => d = t.parent[c]
           /\ t.parent[c] \in In /\ Tagged(u, t) /\ d \in In
<1>1. /\ u \in Container /\ u.count = t.count /\ Fits(u, In, pos) /\ c \in Bin(In)
      /\ Tagged(u, t) /\ u.tag[Root(u)] = Red
      /\ \E p, q, a, h : Lacking(u, In, c, p, q, a, h)
  BY DEF Mending
<1>2. PICK p, q, a, h : Lacking(u, In, c, p, q, a, h)
  BY <1>1
<1>3. PICK w : w = BlackSister(u, c)
  OBVIOUS
<1>4. /\ w \in Container /\ w.count = u.count /\ Fits(w, In, pos)
      /\ \E a2, h2 : Levelled(w, In, c, p, q, a2, h2)
      /\ w = u \/ w.tag[p] = Red
  BY <1>1, <1>2, <1>3, BlackSisterLevels
<1>5. PICK a2, h2 : Levelled(w, In, c, p, q, a2, h2)
  BY <1>4
<1>6. PICK y : y = w.kid[Opp(q)][p]
  OBVIOUS
<1>7. /\ Lacking(w, In, c, p, q, a2, h2) /\ w.tag[y] = Black
      /\ w.tag[p] = Red \/ w.tag[Root(w)] = Red
  BY <1>5, <1>6 DEF Levelled
<1>8. Kin(w, In)
  BY <1>4, ShapeKin DEF Fits
<1>9. y \in In /\ Sister(w, c) = y
  BY <1>4, <1>6, <1>7, <1>8, LackingKin
<1>10. p \in In /\ w.parent[c] = p /\ u.parent[c] = p
  BY <1>2, <1>7 DEF Lacking
<1>11. v = Tag(w, y, Red) /\ d = p
  BY <1>3, <1>9, <1>10 DEF MendRound
<1>12. y \in Link
  BY <1>8, <1>9, Linked DEF Kin
<1>13. TagWritten(v, w, y, Red)
  BY <1>4, <1>11, <1>12, TagFields, Colours
<1>14. \A s \in Side : w.tag[w.kid[s][y]] = Black
  BY <1>3, <1>9 DEF BlackNephews
<1>15. /\ v.tag[p] = Red => Whole(v, In, p)
       /\ v.tag[p] # Red => /\ \E g, r, a3, h3 : Lacking(v, In, p, g, r, a3, h3)
                            /\ v.tag[Root(v)] = Red
  BY <1>4, <1>6, <1>7, <1>8, <1>13, <1>14, LackRises
<1>16. v \in Container /\ v.count = w.count /\ Fits(v, In, pos)
  BY <1>4, <1>13, TaggedFits DEF TagWritten
<1>17. v.tag[p] # Red => w = u
  <2>1. ASSUME w.tag[p] = Red PROVE v.tag[p] = Red
    <3>1. p \in Link /\ \A m \in Link : v.tag[m] = IF m = y THEN Red ELSE w.tag[m]
      BY <1>8, <1>10, <1>13, Linked DEF TagWritten, Kin
    <3>2. QED
      BY <2>1, <3>1
  <2>2. QED
    BY <1>4, <2>1
<1>18. v.tag[p] # Red => Tagged(v, t)
  BY <1>1, <1>13, <1>17 DEF TagWritten, Tagged
<1>19. t.parent[c] = p
  BY <1>1, <1>10 DEF Tagged
<1>20. d \in Bin(In) /\ d \in In
  BY <1>10, <1>11 DEF Bin
<1>21. Mending(v, t, In, pos, d)
  <2>1. CASE v.tag[p] = Red
    BY <1>1, <1>4, <1>11, <1>15, <1>16, <1>20, <2>1 DEF Mending
  <2>2. CASE v.tag[p] # Red
    BY <1>1, <1>4, <1>11, <1>15, <1>16, <1>18, <1>20, <2>2 DEF Mending
  <2>3. QED
    BY <2>1, <2>2
<1>22. QED
  BY <1>1, <1>10, <1>11, <1>19, <1>20, <1>21

\* Where the loop stops.
Stops(u, c) ==
    \/ u.tag[c] = Red
    \/ Sister(BlackSister(u, c), c) = Nil
    \/ ~BlackNephews(BlackSister(u, c), c)

MendUp ==
    [x \in Container \X Link |->
        LET u == BlackSister(x[1], x[2])
        IN  IF \/ x[1].tag[x[2]] = Red
               \/ Sister(u, x[2]) = Nil
               \/ ~BlackNephews(u, x[2])
            THEN x
            ELSE <<[u EXCEPT !.tag[Sister(u, x[2])] = Red], u.parent[x[2]]>>]
MendLoop(t, c) == Iterate(MendUp, <<t, c>>, Rounds)

\* What RbMend makes of the end e, d of its loop.
MendLast(e, d) ==
    LET last == IF e.tag[d] = Red THEN e ELSE RbSettle(BlackSister(e, d), d)
    IN  IF e.tag[d] # Red /\ Sister(BlackSister(e, d), d) = Nil THEN BlackSister(e, d)
        ELSE TagTwo(last, d, Black, Root(last), Black)

LEMMA RbMendSplits ==
    ASSUME NEW t, NEW c
    PROVE  RbMend(t, c) = MendLast(MendLoop(t, c)[1], MendLoop(t, c)[2])
BY Zenon DEF RbMend, MendLast, MendLoop, MendUp, TagTwo

\* The loop of redblack_delete ends.
LEMMA MendEnds ==
    ASSUME NEW t \in Container, NEW In, NEW pos, NEW c, Mending(t, t, In, pos, c)
    PROVE  Mending(MendLoop(t, c)[1], t, In, pos, MendLoop(t, c)[2])
           /\ Stops(MendLoop(t, c)[1], MendLoop(t, c)[2])
<1> DEFINE up == MendUp
           end == Iterate(up, <<t, c>>, Rounds)
           N == Cardinality(In)
           P == {y \in Container \X Link : Mending(y[1], t, In, pos, y[2])}
<1>1. PICK b : Shape(t, In, pos, b)
  BY DEF Mending, Fits
<1> DEFINE m == [y \in P |-> IF y[1].tag[y[2]] = Red THEN 0 ELSE N + 2 - Wide(b, t.parent[y[2]])]
<1>2. /\ In \in SUBSET Node /\ N \in Nat /\ Bin(In) \subseteq Link /\ In \subseteq Bin(In)
  BY <1>1, ShapeNumbers
<1>3. \A y \in P : /\ y[1] \in Container /\ y[2] \in Link /\ y = <<y[1], y[2]>>
                   /\ Mending(y[1], t, In, pos, y[2])
  OBVIOUS
<1>4. \A y \in P : up[y] = IF Stops(y[1], y[2]) THEN y ELSE MendRound(y[1], y[2])
  BY DEF Stops, MendRound, Tag, MendUp
<1>5. ASSUME NEW y \in P
      PROVE  m[y] = (IF y[1].tag[y[2]] = Red THEN 0 ELSE N + 2 - Wide(b, t.parent[y[2]])) /\ m[y] \in Nat
             /\ (y[1].tag[y[2]] # Red => t.parent[y[2]] \in In /\ m[y] > 0)
  <2>1. m[y] = (IF y[1].tag[y[2]] = Red THEN 0 ELSE N + 2 - Wide(b, t.parent[y[2]]))
    OBVIOUS
  <2>2. CASE y[1].tag[y[2]] = Red
    BY <2>1, <2>2
  <2>3. CASE y[1].tag[y[2]] # Red
    <3>1. t.parent[y[2]] \in In
      BY <1>3, <2>3 DEF Mending, Lacking, Tagged
    <3>2. Wide(b, t.parent[y[2]]) \in Nat /\ Wide(b, t.parent[y[2]]) <= N + 1
      BY <1>1, <3>1, WideBelow
    <3> HIDE DEF m, P
    <3>3. QED
      BY <1>2, <2>1, <2>3, <3>1, <3>2
  <2>4. QED
    BY <2>2, <2>3
<1> HIDE DEF m
<1>6. ASSUME NEW y \in P, ~Stops(y[1], y[2])
      PROVE  up[y] \in P /\ m[up[y]] < m[y]
  <2>1. PICK u, x : u = y[1] /\ x = y[2]
    OBVIOUS
  <2>2. PICK v, d : v = MendRound(u, x)[1] /\ d = MendRound(u, x)[2]
    OBVIOUS
  <2>3. <<v, d>> = MendRound(u, x)
    BY <2>2 DEF MendRound
  <2>4. Mending(u, t, In, pos, x) /\ u.tag[x] # Red /\ BlackNephews(BlackSister(u, x), x)
    BY <1>3, <1>6, <2>1 DEF Stops
  <2>5. /\ Mending(v, t, In, pos, d) /\ (v.tag[d] # Red => d = t.parent[x])
        /\ t.parent[x] \in In /\ d \in In
    BY <2>3, <2>4, RoundMends
  <2>6. up[y] = <<v, d>>
    BY <1>4, <1>6, <2>1, <2>3
  <2>7. v \in Container /\ d \in Link
    BY <1>2, <2>5 DEF Mending
  <2>8. <<v, d>> \in P
    BY <2>5, <2>7
  <2>9. m[y] = N + 2 - Wide(b, t.parent[x]) /\ m[y] > 0 /\ m[y] \in Nat
    BY <1>5, <2>1, <2>4
  <2>10. m[<<v, d>>] < m[y]
    <3>1. m[<<v, d>>] = IF v.tag[d] = Red THEN 0 ELSE N + 2 - Wide(b, t.parent[d])
      BY <1>5, <2>8
    <3>2. CASE v.tag[d] = Red
      BY <2>9, <3>1, <3>2
    <3>3. CASE v.tag[d] # Red
      <4>1. d = t.parent[x]
        BY <2>5, <3>3
      <4>2. Wide(b, d) < Wide(b, t.parent[d]) /\ Wide(b, d) \in Nat /\ Wide(b, t.parent[d]) \in Nat
        BY <1>1, <2>5, WideBelow
      <4>3. QED
        BY <1>2, <2>9, <3>1, <3>3, <4>1, <4>2
    <3>4. QED
      BY <3>2, <3>3
  <2>11. QED
    BY <2>6, <2>8, <2>10
<1>7. <<t, c>> \in P
  BY <1>2 DEF Mending
<1>8. m[<<t, c>>] <= Rounds
  <2>1. N <= Rounds /\ Rounds \in Nat
    BY <1>2, Counted
  <2>2. m[<<t, c>>] = IF t.tag[c] = Red THEN 0 ELSE N + 2 - Wide(b, t.parent[c])
    BY <1>5, <1>7
  <2>3. t.tag[c] # Red => t.parent[c] \in In
    BY <1>5, <1>7
  <2>4. t.tag[c] # Red => Wide(b, t.parent[c]) >= 2 /\ Wide(b, t.parent[c]) \in Nat
    BY <1>1, <2>3, WideBelow
  <2>5. QED
    BY <1>2, <2>1, <2>2, <2>4
<1>9. Rounds \in Nat /\ m \in [P -> Nat]
  <2>1. m \in [P -> Nat]
    BY <1>5 DEF m
  <2>2. QED
    BY <1>2, <2>1, Counted
<1> HIDE DEF P, up
<1>10. /\ \A y \in P : up[y] \in P
       /\ \A y \in P : up[y] # y => m[up[y]] < m[y]
  BY <1>4, <1>6
<1>11. end \in P /\ up[end] = end
  BY <1>7, <1>8, <1>9, <1>10, IterateEnds
<1> HIDE DEF end
<1>12. Stops(end[1], end[2])
  <2>1. CASE ~Stops(end[1], end[2])
    <3>1. m[end] < m[end] /\ m[end] \in Nat
      BY <1>5, <1>6, <1>11, <2>1
    <3>2. QED
      BY <3>1
  <2>2. QED
    BY <2>1
<1>13. QED
  BY <1>3, <1>11, <1>12 DEF end, up, MendLoop

\* The repairs of redblack_delete leave a red-black tree.
LEMMA RbMendMends ==
    ASSUME NEW t \in Container, NEW In, NEW pos, NEW c, Mending(t, t, In, pos, c),
           NEW w, w = RbMend(t, c)
    PROVE  w \in Container /\ w.count = t.count /\ Fits(w, In, pos) /\ \E h : RedBlack(w, w.tag, In, h)
<1>1. PICK e, d : e = MendLoop(t, c)[1] /\ d = MendLoop(t, c)[2]
  OBVIOUS
<1>2. Mending(e, t, In, pos, d) /\ Stops(e, d)
  BY <1>1, MendEnds
<1> DEFINE u == BlackSister(e, d)
           last == IF e.tag[d] = Red THEN e ELSE RbSettle(u, d)
<1>3. w = IF e.tag[d] # Red /\ Sister(u, d) = Nil THEN u ELSE TagTwo(last, d, Black, Root(last), Black)
  BY <1>1, RbMendSplits DEF MendLast
<1>4. e \in Container /\ e.count = t.count /\ Fits(e, In, pos) /\ d \in Bin(In)
  BY <1>2 DEF Mending
<1>5. /\ last \in Container /\ last.count = t.count /\ Fits(last, In, pos) /\ Whole(last, In, d)
      /\ w = TagTwo(last, d, Black, Root(last), Black)
  <2>1. CASE e.tag[d] = Red
    <3>1. last = e /\ w = TagTwo(last, d, Black, Root(last), Black)
      BY <1>3, <2>1
    <3>2. Whole(e, In, d)
      BY <1>2, <1>4, <2>1, ShapeKin, LackingKin, Colours DEF Mending, Lacking, Fits
    <3>3. QED
      BY <1>4, <3>1, <3>2
  <2>2. CASE e.tag[d] # Red
    <3>1. e.tag[Root(e)] = Red /\ \E p, q, a, h : Lacking(e, In, d, p, q, a, h)
      BY <1>2, <2>2 DEF Mending
    <3>2. PICK p, q, a, h : Lacking(e, In, d, p, q, a, h)
      BY <3>1
    <3>3. /\ u \in Container /\ u.count = e.count /\ Fits(u, In, pos)
          /\ \E a2, h2 : Levelled(u, In, d, p, q, a2, h2)
      BY <1>4, <3>1, <3>2, BlackSisterLevels
    <3>4. PICK a2, h2 : Levelled(u, In, d, p, q, a2, h2)
      BY <3>3
    <3> HIDE DEF u
    <3>5. Kin(u, In)
      BY <3>3, ShapeKin DEF Fits
    <3>6. Sister(u, d) \in In
      BY <3>3, <3>4, <3>5, LackingKin DEF Levelled
    <3>7. Sister(u, d) # Nil
      BY <3>5, <3>6, Linked DEF Kin
    <3>8. ~BlackNephews(u, d)
      BY <1>2, <2>2, <3>7 DEF Stops, u
    <3>9. last = RbSettle(u, d) /\ w = TagTwo(last, d, Black, Root(last), Black)
      BY <1>3, <2>2, <3>7
    <3> HIDE DEF last
    <3>10. last \in Container /\ last.count = u.count /\ Fits(last, In, pos) /\ Whole(last, In, d)
      BY <3>3, <3>4, <3>8, <3>9, RbSettleMends
    <3>11. QED
      BY <1>4, <3>3, <3>9, <3>10
  <2>3. QED
    BY <2>1, <2>2
<1> HIDE DEF last
<1>6. Kin(last, In)
  BY <1>5, ShapeKin DEF Fits
<1>7. d \in Link
  BY <1>4, <1>6, Linked DEF Bin, Kin, Link
<1>8. Tagged(w, last) /\ \E h : RedBlack(w, w.tag, In, h)
  BY <1>5, <1>6, <1>7, PaintBoth
<1>9. w \in Container /\ w.count = last.count /\ Fits(w, In, pos)
  BY <1>5, <1>8, TaggedFits
<1>10. QED
  BY <1>5, <1>8, <1>9

-----------------------------------------------------------------------------
\* A tree with nodes has a root.
LEMMA RootIn ==
    ASSUME NEW t \in Container, NEW In, NEW pos, Fits(t, In, pos), NEW n \in In
    PROVE  Root(t) \in In /\ Root(t) # Nil
<1>1. PICK b : Shape(t, In, pos, b)
  BY DEF Fits
<1>2. /\ Cardinality(In) \in Nat /\ Nil \in Bin(In) /\ "left" \in Side
      /\ pos[Nil] = Cardinality(In) + 1 /\ b["left"][Nil] = 0
      /\ pos[n] \in Nat /\ pos[n] >= 1 /\ pos[n] <= Cardinality(In)
  BY <1>1, ShapeNumbers
<1>3. KidFits(t, In, pos, b, Nil, "left")
  BY <1>1, <1>2 DEF Shape
<1>4. t.kid["left"][Nil] # Nil
  BY <1>2, <1>3 DEF KidFits, Dir
<1>5. QED
  BY <1>3, <1>4 DEF KidFits, Root

\* y if w is black
IfBlack(t, w, y) == IF t.tag[w] = Black THEN y ELSE Nil

\* w, the kid of p on side s, is out, c stands there, and the colour of w is
\* missing.
UnlinkedEven(o, t, In, h, w, p, s, c) ==
    /\ Even(o, t.tag, In \ {w}, h, IfBlack(t, w, p), s)
    /\ Pale(o, t.tag, In \ {w}, IfBlack(t, w, c))
    /\ t.tag[w] # Black => p # Nil
    /\ t.tag[w] \in {Red, Black} /\ t.tag[Root(t)] = Black
    /\ c \in Bin(In \ {w}) /\ o.kid[s][p] = c /\ o.parent[c] = p
    /\ p \in Bin(In \ {w}) /\ (p = Nil => s = "left")
    /\ p # Nil => Root(o) = Root(t)

\* Without the node w that lacks a kid, its black one is missing.
LEMMA UnlinkEven ==
    ASSUME NEW t \in Container, NEW In, Kin(t, In), NEW h, RedBlack(t, t.tag, In, h),
           NEW w \in In, NEW p, p = t.parent[w], NEW s \in Side, t.kid[s][p] = w,
           NEW v \in Side, t.kid[v][w] = Nil, NEW c, c = t.kid[Opp(v)][w],
           NEW o, Unlinked(o, t, p, s, c)
    PROVE  UnlinkedEven(o, t, In, h, w, p, s, c)
<1> DEFINE p2 == IF t.tag[w] = Black THEN p ELSE Nil
           x == IF t.tag[w] = Black THEN c ELSE Nil
<1>1. /\ h \in [Link -> Nat] /\ h[Nil] = 0 /\ t.tag[Nil] = Black
      /\ \A n \in In : t.tag[n] \in {Red, Black}
      /\ \A n \in In, q \in Side : h[n] = h[t.kid[q][n]] + t.tag[n] + Lack(n, q, Nil, "left")
      /\ \A n \in In, q \in Side : t.tag[n] = Red => t.tag[t.kid[q][n]] = Black \/ t.kid[q][n] = Nil
      /\ t.tag[Root(t)] = Black
  BY Zenon DEF RedBlack, Even, Pale
<1>2. /\ In \subseteq Node /\ Nil \notin In /\ Bin(In) \subseteq Link /\ In \subseteq Link
      /\ Nil \in Link /\ Bin(In) = In \cup {Nil}
  BY Linked DEF Kin, Bin, Link
<1>3. /\ p \in Bin(In) /\ p # w /\ c \in Bin(In) /\ c # w /\ Opp(v) \in Side
      /\ SideOf(t, w) = s /\ t.kid[Opp(s)][p] # w
      /\ p = Nil => Root(t) = w /\ s = "left"
  <2>1. p \in Bin(In) /\ p # w /\ (p = Nil => Root(t) = w)
    BY DEF Kin
  <2>2. Opp(v) \in Side
    BY SideOpp
  <2>3. c \in Bin(In) /\ (c # Nil => c # w)
    BY <1>2, <2>2 DEF Kin
  <2>4. SideOf(t, w) = s /\ t.kid[Opp(s)][p] # w
    BY <2>1, SideIs
  <2>5. Root(t) = w => SideOf(t, w) = "left"
    BY DEF Kin
  <2>6. QED
    BY <1>2, <2>1, <2>2, <2>3, <2>4, <2>5
<1>4. /\ \A r \in Side, m \in Link : o.kid[r][m] = IF r = s /\ m = p THEN c ELSE t.kid[r][m]
      /\ \A m \in Link : o.parent[m] = IF m = c THEN p ELSE t.parent[m]
  BY DEF Unlinked
<1>5. h[w] = h[c] + t.tag[w]
  <2>1. h[w] = h[c] + t.tag[w] + Lack(w, Opp(v), Nil, "left")
    BY <1>1, <1>3
  <2>2. Lack(w, Opp(v), Nil, "left") = 0
    BY <1>2, NoLack
  <2>3. QED
    BY <1>1, <1>2, <1>3, <2>1, <2>2, Colours
<1>6. Red = 0 /\ Black = 1 /\ Red # Black
  BY Colours
<1>7. ASSUME NEW m \in In \ {w}, NEW q \in Side
      PROVE  h[m] = h[o.kid[q][m]] + t.tag[m] + Lack(m, q, p2, s)
  <2>1. h[m] = h[t.kid[q][m]] + t.tag[m] /\ h[m] \in Nat /\ t.tag[m] \in {0, 1}
    <3>1. h[m] = h[t.kid[q][m]] + t.tag[m] + Lack(m, q, Nil, "left") /\ Lack(m, q, Nil, "left") = 0
      BY <1>1, <1>2, NoLack
    <3>2. h[m] \in Nat /\ h[t.kid[q][m]] \in Nat /\ t.tag[m] \in {0, 1}
      <4>1. t.kid[q][m] \in Link
        BY <1>2 DEF Kin
      <4>2. QED
        BY <1>1, <1>2, <1>6, <4>1
    <3>3. QED
      BY <3>1, <3>2
  <2>2. CASE m = p /\ q = s
    <3>1. o.kid[q][m] = c /\ t.kid[q][m] = w
      BY <1>2, <1>4, <2>2
    <3>2. Lack(m, q, p2, s) = t.tag[w]
      BY <1>1, <1>2, <1>6, <2>2 DEF Lack
    <3>3. h[c] \in Nat /\ t.tag[w] \in {0, 1}
      BY <1>1, <1>2, <1>3, <1>6
    <3>4. QED
      BY <1>5, <2>1, <3>1, <3>2, <3>3
  <2>3. CASE ~(m = p /\ q = s)
    <3>1. o.kid[q][m] = t.kid[q][m]
      BY <1>2, <1>4, <2>3
    <3>2. Lack(m, q, p2, s) = 0
      BY <1>2, <2>3 DEF Lack
    <3>3. QED
      <4>1. h[t.kid[q][m]] \in Nat
        BY <1>1, <1>2 DEF Kin
      <4>2. QED
        BY <2>1, <3>1, <3>2, <4>1
  <2>4. QED
    BY <2>2, <2>3
<1>8. Even(o, t.tag, In \ {w}, h, p2, s)
  BY <1>1, <1>7 DEF Even
<1>9. ASSUME NEW m \in In \ {w}, NEW q \in Side, t.tag[m] = Red
      PROVE  t.tag[o.kid[q][m]] = Black \/ o.kid[q][m] = x
  <2>1. t.tag[t.kid[q][m]] = Black
    BY <1>1, <1>9
  <2>2. CASE m = p /\ q = s
    BY <1>2, <1>4, <2>1, <2>2
  <2>3. CASE ~(m = p /\ q = s)
    BY <1>2, <1>4, <2>1, <2>3
  <2>4. QED
    BY <2>2, <2>3
<1>10. Pale(o, t.tag, In \ {w}, x)
  BY <1>9 DEF Pale
<1>11. t.tag[w] # Black => p # Nil
  BY <1>1, <1>3
<1>12. c \in Bin(In \ {w}) /\ p \in Bin(In \ {w}) /\ o.kid[s][p] = c /\ o.parent[c] = p
  BY <1>2, <1>3, <1>4 DEF Bin
<1>13. p # Nil => Root(o) = Root(t)
  BY <1>2, <1>4 DEF Root, Side
<1>14. QED
  BY <1>1, <1>3, <1>8, <1>10, <1>11, <1>12, <1>13 DEF UnlinkedEven, IfBlack

-----------------------------------------------------------------------------
\* Where the node p is when w has taken the place of n.
Moved(p, n, w) == IF p = n THEN w ELSE p

\* Even and pale with w in the place of n.
ReplacedEven(u, o, a2, a, In, n, w, k, s, x) ==
    /\ \E h : Even(u, a2, Swapped(In, n, w), h, k, s)
    /\ Pale(u, a2, Swapped(In, n, w), x)
    /\ a2[Root(u)] = a[Root(o)]

\* The child on side s of k with w in the place of n.
ChildAt(u, In, n, w, p, k, s, c) ==
    /\ u.kid[s][k] = c /\ u.parent[c] = k
    /\ c \in Bin(Swapped(In, n, w)) /\ k \in Bin(Swapped(In, n, w))
    /\ k = Nil <=> p = Nil

\* w takes the links and the colour of n: what was missing still is.
LEMMA ReplaceEven ==
    ASSUME NEW o \in Container, NEW In, Kin(o, In), NEW n \in In, NEW w \in Node \ In,
           NEW e \in Side, NEW u, Replacing(u, o, n, w, e),
           NEW a, NEW h, NEW p \in Bin(In), NEW s \in Side, Even(o, a, In, h, p, s),
           NEW x, Pale(o, a, In, x), x # n, x # w,
           NEW a2, a2[w] = a[n], \A m \in Link : m # w /\ m # n => a2[m] = a[m],
           NEW p2, p2 = Moved(p, n, w)
    PROVE  ReplacedEven(u, o, a2, a, In, n, w, p2, s, x)
<1>0. p2 = IF p = n THEN w ELSE p
  BY DEF Moved
<1> DEFINE J == Swapped(In, n, w)
           dp == o.parent[n]
           h2 == [m \in Link |-> IF m = w THEN h[n] ELSE h[m]]
<1>1. /\ h \in [Link -> Nat] /\ h[Nil] = 0 /\ a[Nil] = Black
      /\ \A m \in In : a[m] \in {Red, Black}
      /\ \A m \in In, q \in Side : h[m] = h[o.kid[q][m]] + a[m] + Lack(m, q, p, s)
      /\ \A m \in In, q \in Side : a[m] = Red => a[o.kid[q][m]] = Black \/ o.kid[q][m] = x
  BY Zenon DEF Even, Pale
<1>2. /\ In \subseteq Node /\ Nil \notin In /\ Bin(In) \subseteq Link /\ In \subseteq Link
      /\ Nil \in Link /\ Bin(In) = In \cup {Nil} /\ w \in Link /\ w \notin Bin(In) /\ n # Nil
  BY Linked DEF Kin, Bin, Link
<1>3. /\ o.kid[e][dp] = n
      /\ \A q \in Side, m \in Link :
            u.kid[q][m] = IF q = e /\ m = dp THEN w
                          ELSE IF m = w THEN IF q = "left" THEN o.kid["left"][n] ELSE o.kid["right"][n]
                          ELSE o.kid[q][m]
  BY DEF Replacing, Replaced
<1>4. dp \in Bin(In) /\ dp # n /\ dp # w /\ (Root(o) = n => dp = Nil)
  BY <1>2 DEF Kin
<1>5. \A m \in J : m = w \/ (m \in In /\ m # n /\ m # w)
  BY <1>2 DEF Swapped
<1>6. SideOf(o, n) = e
  BY <1>3, <1>4, SideIs
<1>7. \A m \in Link : h2[m] = IF m = w THEN h[n] ELSE h[m]
  OBVIOUS
<1>8. h2 \in [Link -> Nat] /\ h2[Nil] = 0 /\ a2[Nil] = Black
  BY <1>1, <1>2
<1>9. \A m \in J : a2[m] \in {Red, Black}
  BY <1>1, <1>2, <1>5
<1> HIDE DEF h2, J
\* the kids
<1>10. ASSUME NEW q \in Side, NEW k \in In
       PROVE  o.kid[q][k] \in Bin(In) /\ o.kid[q][k] \in Link /\ o.kid[q][k] # w
              /\ (o.kid[q][k] = n => k = dp /\ q = e)
  <2>1. o.kid[q][k] \in Bin(In) /\ o.kid[q][k] \in Link /\ o.kid[q][k] # w
    BY <1>2 DEF Kin, Bin
  <2>2. o.kid[q][k] = n => k = dp /\ SideOf(o, n) = q
    BY <1>2, SideIs
  <2>3. QED
    BY <1>6, <2>1, <2>2
<1>11. ASSUME NEW q \in Side
       PROVE  /\ u.kid[q][w] = o.kid[q][n] /\ o.kid[q][n] # n /\ o.kid[q][n] # w
              /\ o.kid[q][n] \in Link
  BY <1>2, <1>3, <1>4, <1>10 DEF Side
<1>12. ASSUME NEW q \in Side, NEW m \in In, m # n, m # w
       PROVE  \/ o.kid[q][m] = n /\ u.kid[q][m] = w
              \/ /\ u.kid[q][m] = o.kid[q][m] /\ o.kid[q][m] # n /\ o.kid[q][m] # w
                 /\ o.kid[q][m] \in Link
  <2>1. CASE q = e /\ m = dp
    BY <1>2, <1>3, <1>12, <2>1
  <2>2. CASE ~(q = e /\ m = dp)
    BY <1>2, <1>3, <1>10, <1>12, <2>2
  <2>3. QED
    BY <2>1, <2>2
<1>13. ASSUME NEW m \in J, NEW q \in Side
       PROVE  h2[m] = h2[u.kid[q][m]] + a2[m] + Lack(m, q, p2, s)
  <2>1. CASE m = w
    <3>1. Lack(m, q, p2, s) = Lack(n, q, p, s)
      BY <1>0, <1>2, <2>1 DEF Lack
    <3>2. h2[u.kid[q][m]] = h[o.kid[q][n]] /\ h2[m] = h[n] /\ a2[m] = a[n]
      BY <1>2, <1>7, <1>11, <2>1
    <3>3. QED
      BY <1>1, <3>1, <3>2
  <2>2. CASE m \in In /\ m # n /\ m # w
    <3>1. Lack(m, q, p2, s) = Lack(m, q, p, s)
      BY <1>0, <1>2, <2>2 DEF Lack
    <3>2. h2[m] = h[m] /\ a2[m] = a[m]
      BY <1>2, <1>7, <2>2
    <3>3. h2[u.kid[q][m]] = h[o.kid[q][m]]
      BY <1>2, <1>7, <1>12, <2>2
    <3>4. QED
      BY <1>1, <2>2, <3>1, <3>2, <3>3
  <2>3. QED
    BY <1>5, <2>1, <2>2
<1>14. Even(u, a2, J, h2, p2, s)
  BY <1>8, <1>9, <1>13 DEF Even
<1>15. ASSUME NEW m \in J, NEW q \in Side, a2[m] = Red
       PROVE  a2[u.kid[q][m]] = Black \/ u.kid[q][m] = x
  <2>1. CASE m = w
    <3>1. a[n] = Red /\ u.kid[q][m] = o.kid[q][n]
      BY <1>11, <1>15, <2>1
    <3>2. a[o.kid[q][n]] = Black \/ o.kid[q][n] = x
      BY <1>1, <3>1
    <3>3. QED
      BY <1>11, <3>1, <3>2
  <2>2. CASE m \in In /\ m # n /\ m # w
    <3>1. a[m] = Red
      BY <1>2, <1>15, <2>2
    <3>2. a[o.kid[q][m]] = Black \/ o.kid[q][m] = x
      BY <1>1, <2>2, <3>1
    <3>3. QED
      BY <1>12, <2>2, <3>2
  <2>3. QED
    BY <1>5, <2>1, <2>2
<1>16. Pale(u, a2, J, x)
  BY <1>15 DEF Pale
<1>17. a2[Root(u)] = a[Root(o)]
  <2>1. CASE Root(o) = n
    <3>1. dp = Nil /\ e = "left"
      BY <1>4, <1>6, <2>1 DEF Kin
    <3>2. Root(u) = w
      BY <1>2, <1>3, <3>1 DEF Root, Side
    <3>3. QED
      BY <2>1, <3>2
  <2>2. CASE Root(o) # n
    <3>1. Root(o) \in Bin(In) /\ "left" \in Side /\ o.kid["left"][Nil] = Root(o)
      BY <1>2 DEF Kin, Root, Side
    <3>2. ~(e = "left" /\ dp = Nil)
      BY <1>3, <2>2, <3>1
    <3>3. u.kid["left"][Nil] = Root(o)
      BY <1>2, <1>3, <3>1, <3>2
    <3>4. QED
      BY <1>2, <2>2, <3>1, <3>3 DEF Root
  <2>3. QED
    BY <2>1, <2>2
<1>18. QED
  BY <1>14, <1>16, <1>17 DEF J, ReplacedEven

\* The child stays where it was, below w if it was below n.
LEMMA ReplaceChild ==
    ASSUME NEW o \in Container, NEW In, Kin(o, In), NEW n \in In, NEW w \in Node \ In,
           NEW e \in Side, NEW u, Replacing(u, o, n, w, e),
           NEW p \in Bin(In), NEW s \in Side, NEW c \in Bin(In), c # n,
           o.kid[s][p] = c, o.parent[c] = p,
           p # n => o.kid["left"][n] # Nil /\ o.kid["right"][n] # Nil,
           NEW p2, p2 = Moved(p, n, w)
    PROVE  ChildAt(u, In, n, w, p, p2, s, c)
<1>0. p2 = IF p = n THEN w ELSE p
  BY DEF Moved
<1> DEFINE dp == o.parent[n]
<1>1. /\ In \subseteq Node /\ Nil \notin In /\ Bin(In) \subseteq Link /\ In \subseteq Link
      /\ Nil \in Link /\ Bin(In) = In \cup {Nil} /\ w \in Link /\ w \notin Bin(In) /\ n # Nil /\ w # Nil
  BY Linked DEF Kin, Bin, Link
<1>2. /\ o.kid[e][dp] = n
      /\ \A q \in Side, m \in Link :
            u.kid[q][m] = IF q = e /\ m = dp THEN w
                          ELSE IF m = w THEN IF q = "left" THEN o.kid["left"][n] ELSE o.kid["right"][n]
                          ELSE o.kid[q][m]
      /\ \A m \in Link : u.parent[m] = IF m = o.kid["left"][n] \/ m = o.kid["right"][n] THEN w
                                        ELSE IF m = w THEN dp ELSE o.parent[m]
  BY DEF Replacing, Replaced
<1>3. dp \in Bin(In) /\ dp # n /\ dp # w
  BY <1>1 DEF Kin
<1>4. /\ \A q \in Side : o.kid[q][n] # Nil => o.parent[o.kid[q][n]] = n
      /\ "left" \in Side /\ "right" \in Side
  BY <1>1 DEF Kin, Side
<1>5. CASE p = n
  <2>1. u.kid[s][w] = c
    BY <1>1, <1>2, <1>3, <1>5 DEF Side
  <2>2. u.parent[c] = w
    BY <1>1, <1>2, <1>5 DEF Side
  <2>3. QED
    BY <1>0, <1>1, <1>5, <2>1, <2>2 DEF Bin, Swapped, ChildAt
<1>6. CASE p # n
  <2>1. u.kid[s][p] = c
    <3>1. ~(s = e /\ p = dp)
      BY <1>2
    <3>2. QED
      BY <1>1, <1>2, <3>1
  <2>2. c # o.kid["left"][n] /\ c # o.kid["right"][n]
    BY <1>4, <1>6
  <2>3. u.parent[c] = p
    BY <1>1, <1>2, <2>2
  <2>4. QED
    BY <1>0, <1>1, <1>6, <2>1, <2>3 DEF Bin, Swapped, ChildAt
<1>7. QED
  BY <1>5, <1>6

-----------------------------------------------------------------------------
\* No node is Nil, so nothing is missing below it.
LEMMA EvenNil ==
    ASSUME NEW t, NEW a, NEW In, In \subseteq Node, NEW h, NEW s, Even(t, a, In, h, Nil, s)
    PROVE  Even(t, a, In, h, Nil, "left")
BY NoLack DEF Even

\* Colours that agree on the nodes and Nil.
LEMMA EvenSame ==
    ASSUME NEW t, NEW a, NEW In, In \subseteq Link, NEW h, NEW p, NEW s, Even(t, a, In, h, p, s),
           NEW x, Pale(t, a, In, x), \A n \in In, q \in Side : t.kid[q][n] \in Link,
           NEW a2, \A m \in Link : a2[m] = a[m]
    PROVE  Even(t, a2, In, h, p, s) /\ Pale(t, a2, In, x)
<1>1. Nil \in Link
  BY DEF Link
<1>2. Even(t, a2, In, h, p, s)
  BY <1>1 DEF Even
<1>3. Pale(t, a2, In, x)
  BY DEF Pale
<1>4. QED
  BY <1>2, <1>3

\* The paths through c lack a black node.
BlackOut(u, a, In, c) ==
    /\ c \in Bin(In)
    /\ \E p, s, h :
          /\ p \in Bin(In) /\ s \in Side
          /\ u.kid[s][p] = c /\ u.parent[c] = p
          /\ Even(u, a, In, h, p, s) /\ Pale(u, a, In, c)
          /\ p # Nil => a[Root(u)] = Black
          /\ p = Nil => s = "left"

\* After usrtc_tree_delete and the exchange of the two tags.
LEMMA TakenEven ==
    ASSUME NEW t \in Container, NEW In, Kin(t, In), NEW pos, NEW h, RedBlack(t, t.tag, In, h),
           NEW n \in In, NEW w \in In, NEW c, NEW u, Taken(u, t, In, pos, n, w, c),
           NEW a2, \A m \in Link : a2[m] = IF m = w THEN t.tag[n] ELSE IF m = n THEN t.tag[w] ELSE t.tag[m]
    PROVE  /\ t.tag[w] # Black => \E h2 : RedBlack(u, a2, In \ {n}, h2)
           /\ t.tag[w] = Black => BlackOut(u, a2, In \ {n}, c)
<1>1. PICK o : /\ TakenOut(o, t, In, pos, w, c)
               /\ \/ w = n /\ u = o
                  \/ /\ w # n /\ c # n /\ t.kid["left"][n] # Nil /\ t.kid["right"][n] # Nil
                     /\ \E e \in Side : Replacing(u, o, n, w, e)
  BY DEF Taken
<1>2. PICK p : p = t.parent[w]
  OBVIOUS
<1>3. PICK v, s \in Side : /\ t.kid[v][w] = Nil /\ c = t.kid[Opp(v)][w]
                           /\ t.kid[s][p] = w /\ Unlinked(o, t, p, s, c)
  BY <1>1, <1>2 DEF TakenOut
<1>0. UnlinkedEven(o, t, In, h, w, p, s, c)
  BY <1>2, <1>3, UnlinkEven
<1>4. PICK p2, x : p2 = IfBlack(t, w, p) /\ x = IfBlack(t, w, c)
  OBVIOUS
<1>5. /\ Even(o, t.tag, In \ {w}, h, p2, s) /\ Pale(o, t.tag, In \ {w}, x)
      /\ t.tag[w] # Black => p # Nil
      /\ t.tag[w] \in {Red, Black} /\ t.tag[Root(t)] = Black
      /\ c \in Bin(In \ {w}) /\ o.kid[s][p] = c /\ o.parent[c] = p
      /\ p \in Bin(In \ {w}) /\ (p = Nil => s = "left")
      /\ p # Nil => Root(o) = Root(t)
  BY <1>0, <1>4 DEF UnlinkedEven
<1>6. /\ o \in Container /\ Kin(o, In \ {w})
      /\ \A r \in Side, m \in Link : o.kid[r][m] = IF r = s /\ m = p THEN c ELSE t.kid[r][m]
  <2>1. o \in Container /\ Fits(o, In \ {w}, Closed(pos, w))
    BY <1>1, <1>3 DEF TakenOut, Unlinked
  <2>2. Kin(o, In \ {w})
    BY <2>1, ShapeKin DEF Fits
  <2>3. QED
    BY <1>3, <2>1, <2>2 DEF Unlinked
<1>7. /\ In \subseteq Node /\ In \subseteq Link /\ Nil \notin In /\ Nil \in Link
      /\ \A m \in In \ {w}, q \in Side : o.kid[q][m] \in Link
      /\ "left" \in Side /\ "right" \in Side
  BY <1>6, Linked DEF Kin, Side, Link
<1>8. CASE w = n /\ u = o
  <2>1. \A m \in Link : a2[m] = t.tag[m]
    BY <1>8
  <2>2. Even(u, a2, In \ {n}, h, p2, s) /\ Pale(u, a2, In \ {n}, x)
    BY <1>5, <1>7, <1>8, <2>1, EvenSame
  <2>3. p # Nil => a2[Root(u)] = Black
    <3>1. Root(t) \in Link
      BY <1>7 DEF Kin, Root, Bin
    <3>2. QED
      BY <1>5, <1>8, <2>1, <3>1
  <2>4. CASE t.tag[w] # Black
    <3>1. p2 = Nil /\ x = Nil /\ a2[Root(u)] = Black
      BY <1>4, <1>5, <2>3, <2>4 DEF IfBlack
    <3>2. Even(u, a2, In \ {n}, h, Nil, "left")
      BY <1>7, <2>2, <3>1, EvenNil
    <3>3. RedBlack(u, a2, In \ {n}, h)
      BY <2>2, <3>1, <3>2 DEF RedBlack
    <3>4. QED
      BY <2>4, <3>3
  <2>5. CASE t.tag[w] = Black
    <3>1. p2 = p /\ x = c
      BY <1>4, <2>5 DEF IfBlack
    <3>2. BlackOut(u, a2, In \ {n}, c)
      BY <1>5, <1>8, <2>2, <2>3, <3>1 DEF BlackOut
    <3>3. QED
      BY <2>5, <3>2
  <2>6. QED
    BY <2>4, <2>5
<1>9. CASE /\ w # n /\ c # n /\ t.kid["left"][n] # Nil /\ t.kid["right"][n] # Nil
           /\ \E e \in Side : Replacing(u, o, n, w, e)
  <2>1. PICK e \in Side : Replacing(u, o, n, w, e)
    BY <1>9
  <2>2. PICK I : I = In \ {w}
    OBVIOUS
  <2>3. Swapped(I, n, w) = In \ {n} /\ n \in I /\ w \in Node \ I
    BY <1>7, <1>9, <2>2 DEF Swapped
  <2>4. x # n /\ x # w /\ p2 \in Bin(I)
    BY <1>4, <1>5, <1>7, <1>9, <2>2 DEF Bin, IfBlack
  <2>5. PICK k : k = Moved(p2, n, w)
    OBVIOUS
  <2>6. a2[w] = t.tag[n] /\ \A m \in Link : m # w /\ m # n => a2[m] = t.tag[m]
    BY <1>7
  <2>7. /\ \E h2 : Even(u, a2, Swapped(I, n, w), h2, k, s)
        /\ Pale(u, a2, Swapped(I, n, w), x)
        /\ a2[Root(u)] = t.tag[Root(o)]
    <3>1. /\ Kin(o, I) /\ Even(o, t.tag, I, h, p2, s) /\ Pale(o, t.tag, I, x)
      BY <1>5, <1>6, <2>2
    <3>2. ReplacedEven(u, o, a2, t.tag, I, n, w, k, s, x)
      BY <1>3, <1>6, <2>1, <2>3, <2>4, <2>5, <2>6, <3>1, ReplaceEven
    <3>3. QED
      BY <3>2 DEF ReplacedEven
  <2>8. PICK h2 : Even(u, a2, In \ {n}, h2, k, s)
    BY <2>3, <2>7
  <2>9. Pale(u, a2, In \ {n}, x) /\ (p # Nil => a2[Root(u)] = Black)
    BY <1>5, <2>3, <2>7
  <2>10. CASE t.tag[w] # Black
    <3>1. k = Nil /\ x = Nil /\ a2[Root(u)] = Black
      BY <1>4, <1>5, <1>7, <2>5, <2>9, <2>10 DEF IfBlack, Moved
    <3>2. Even(u, a2, In \ {n}, h2, Nil, "left")
      BY <1>7, <2>8, <3>1, EvenNil
    <3>3. RedBlack(u, a2, In \ {n}, h2)
      BY <2>9, <3>1, <3>2 DEF RedBlack
    <3>4. QED
      BY <2>10, <3>3
  <2>11. CASE t.tag[w] = Black
    <3>1. p2 = p /\ x = c
      BY <1>4, <2>11 DEF IfBlack
    <3>2. p # n => o.kid["left"][n] # Nil /\ o.kid["right"][n] # Nil
      BY <1>6, <1>7, <1>9
    <3>3. /\ u.kid[s][k] = c /\ u.parent[c] = k
          /\ c \in Bin(Swapped(I, n, w)) /\ k \in Bin(Swapped(I, n, w))
          /\ k = Nil <=> p = Nil
      <4>1. Kin(o, I) /\ p \in Bin(I) /\ c \in Bin(I) /\ c # n /\ o.kid[s][p] = c /\ o.parent[c] = p
        BY <1>5, <1>6, <1>9, <2>2
      <4>2. k = Moved(p, n, w)
        BY <2>5, <3>1
      <4>3. ChildAt(u, I, n, w, p, k, s, c)
        BY <1>3, <1>6, <2>1, <2>3, <3>2, <4>1, <4>2, ReplaceChild
      <4>4. QED
        BY <4>3 DEF ChildAt
    <3>4. BlackOut(u, a2, In \ {n}, c)
      BY <1>5, <2>3, <2>8, <2>9, <3>1, <3>3 DEF BlackOut
    <3>5. QED
      BY <2>11, <3>4
  <2>12. QED
    BY <2>10, <2>11
<1>10. QED
  BY <1>1, <1>8, <1>9

-----------------------------------------------------------------------------
\* The exchange and the red root make the loop of redblack_delete start well.
LEMMA MendStarts ==
    ASSUME NEW u \in Container, NEW In, NEW pos, Fits(u, In, pos), NEW a, NEW c,
           BlackOut(u, a, In, c),
           NEW v, Tagged(v, u), \A m \in Link : v.tag[m] = a[m],
           NEW w, w = Tag(v, Root(v), Red)
    PROVE  Mending(w, w, In, pos, c)
<1>1. PICK p, s, h : /\ p \in Bin(In) /\ s \in Side
                     /\ u.kid[s][p] = c /\ u.parent[c] = p
                     /\ Even(u, a, In, h, p, s) /\ Pale(u, a, In, c)
                     /\ p # Nil => a[Root(u)] = Black
                     /\ p = Nil => s = "left"
  BY DEF BlackOut
<1>2. PICK r : r = Root(u)
  OBVIOUS
<1>3. Kin(u, In) /\ c \in Bin(In)
  BY ShapeKin DEF Fits, BlackOut
<1>4. /\ In \subseteq Node /\ In \subseteq Link /\ Bin(In) \subseteq Link /\ Nil \notin In /\ Nil \in Link
      /\ Bin(In) = In \cup {Nil} /\ r \in Bin(In) /\ r = u.kid["left"][Nil]
      /\ \A m \in In, q \in Side : u.kid[q][m] \in Link
  BY <1>2, <1>3, Linked DEF Kin, Bin, Root, Side, Link
<1>5. Root(v) = r /\ v \in Container /\ v.kid = u.kid /\ v.parent = u.parent
  BY <1>2 DEF Tagged, Root
<1>6. TagWritten(w, v, r, Red)
  BY <1>4, <1>5, TagFields, Colours
<1>7. /\ Tagged(w, u) /\ \A m \in Link : w.tag[m] = IF m = r THEN Red ELSE a[m]
      /\ w.kid = u.kid /\ w.parent = u.parent
  BY <1>6 DEF TagWritten, Tagged
<1>8. w \in Container /\ w.count = w.count /\ Fits(w, In, pos) /\ Kin(w, In) /\ Root(w) = r
  BY <1>2, <1>3, <1>7, TaggedFits, TaggedKin
<1>9. /\ Even(w, a, In, h, p, s) /\ Pale(w, a, In, c) /\ a[Nil] = Black
      /\ \A m \in Bin(In) : a[m] \in {Red, Black}
      /\ \A m \in In, q \in Side : a[m] = Red => a[w.kid[q][m]] = Black \/ w.kid[q][m] = c
  BY <1>1, <1>4, <1>7 DEF Even, Pale
<1> DEFINE b == [m \in Link |-> IF m = c THEN Black ELSE a[m]]
<1>10. \A m \in Link : b[m] = IF m = c THEN Black ELSE a[m]
  OBVIOUS
<1> HIDE DEF b
<1>11. Pale(w, b, In, Nil)
  <2>1. PICK e : e = Nil
    OBVIOUS
  <2>2. Pale(w, b, In, e)
    BY <1>3, <1>4, <1>8, <1>9, <1>10, PaintPale
  <2>3. QED
    BY <2>1, <2>2
<1>12. ASSUME a[c] = Red \/ p = Nil PROVE \E h2 : Even(w, b, In, h2, Nil, "left")
  <2>1. CASE a[c] = Red
    <3>1. c \in In /\ w.kid[s][p] = c
      BY <1>1, <1>3, <1>4, <1>7, <1>9, <2>1, Colours
    <3>2. QED
      BY <1>1, <1>8, <1>9, <1>10, <2>1, <3>1, PaintEven
  <2>2. CASE a[c] # Red
    <3>1. p = Nil /\ a[c] = Black
      BY <1>3, <1>9, <1>12, <2>2
    <3>2. \A m \in Link : b[m] = a[m]
      BY <1>10, <3>1
    <3>3. Even(w, b, In, h, p, s)
      BY <1>4, <1>7, <1>9, <3>2, EvenSame
    <3>4. Even(w, b, In, h, Nil, "left")
      BY <1>1, <3>1, <3>3
    <3>5. QED
      BY <3>4
  <2>3. QED
    BY <2>1, <2>2
<1>13. CASE p = Nil
  <2>1. c = r
    BY <1>1, <1>4, <1>13
  <2>2. PICK h2 : Even(w, b, In, h2, Nil, "left")
    BY <1>12, <1>13
  <2>3. \A m \in Link : b[m] = IF m = Root(w) \/ m = c THEN Black ELSE w.tag[m]
    BY <1>7, <1>8, <1>10, <2>1
  <2>4. Whole(w, In, c)
    BY <1>11, <2>2, <2>3 DEF Whole
  <2>5. w.tag[c] = Red
    BY <1>3, <1>4, <1>7, <2>1
  <2>6. QED
    BY <1>3, <1>8, <2>4, <2>5 DEF Mending
<1>14. CASE p # Nil
  <2>1. p \in In /\ r \in In /\ r # Nil /\ a[r] = Black
    <3>1. p \in In
      BY <1>1, <1>4, <1>14
    <3>2. QED
      BY <1>1, <1>2, <1>14, <3>1, RootIn
  <2>2. c # r
    BY <1>1, <1>2, <1>3, <1>14, <2>1 DEF Kin
  <2>3. w.tag[c] = a[c] /\ w.tag[Nil] = Black /\ w.tag[r] = Red
    BY <1>3, <1>4, <1>7, <1>9, <2>1, <2>2
  <2>4. CASE a[c] = Red
    <3>1. PICK h2 : Even(w, b, In, h2, Nil, "left")
      BY <1>12, <2>4
    <3>2. \A m \in Link : b[m] = IF m = Root(w) \/ m = c THEN Black ELSE w.tag[m]
      BY <1>7, <1>8, <1>10, <2>1
    <3>3. Whole(w, In, c)
      BY <1>11, <3>1, <3>2 DEF Whole
    <3>4. QED
      BY <1>3, <1>8, <2>3, <2>4, <3>3 DEF Mending
  <2>5. CASE a[c] # Red
    <3>1. a[c] = Black
      BY <1>3, <1>9, <2>5
    <3>2. Crowned(a, w)
      BY <1>7, <1>8, <2>1 DEF Crowned
    <3>3. Pale(w, a, In, Nil)
      BY <1>9, <3>1 DEF Pale
    <3>4. Lacking(w, In, c, p, s, a, h)
      BY <1>1, <1>3, <1>7, <1>9, <2>1, <2>3, <3>1, <3>2, <3>3 DEF Lacking
    <3>5. Tagged(w, w)
      BY <1>8 DEF Tagged
    <3>6. QED
      BY <1>3, <1>8, <2>3, <3>4, <3>5 DEF Mending
  <2>6. QED
    BY <2>4, <2>5
<1>15. QED
  BY <1>13, <1>14

\* redblack_delete: a red-black tree without n stays one.
LEMMA RbDeleteKeeps ==
    ASSUME NEW t \in Container, NEW In, NEW pos, Fits(t, In, pos),
           NEW h, RedBlack(t, t.tag, In, h), NEW n \in In, t.count >= 1,
           NEW w, w = RbDelete(t, n)
    PROVE  /\ w \in Container /\ w.count = t.count - 1 /\ Fits(w, In \ {n}, Closed(pos, n))
           /\ \E h2 : RedBlack(w, w.tag, In \ {n}, h2)
<1>1. PICK b : Shape(t, In, pos, b)
  BY DEF Fits
<1>2. PICK u, x, c : u = BstDelete(t, n).t /\ x = BstDelete(t, n).swap /\ c = BstDelete(t, n).child
  OBVIOUS
<1>3. PICK J, at : J = In \ {n} /\ at = Closed(pos, n)
  OBVIOUS
<1>4. /\ u \in Container /\ x \in In /\ c \in Bin(J)
      /\ u.tag = t.tag /\ u.count = t.count - 1
      /\ Fits(u, J, at)
      /\ Taken(u, t, In, pos, n, x, c)
  BY <1>1, <1>2, <1>3, BstDeleteFits DEF Fits
<1>5. PICK v : v = TagTwo(u, n, t.tag[x], x, t.tag[n])
  OBVIOUS
<1>6. PICK y : y = Tag(v, Root(v), Red)
  OBVIOUS
<1>7. w = IF v.tag[n] # Black THEN v ELSE RbMend(y, c)
  BY <1>2, <1>5, <1>6 DEF RbDelete, TagTwo, Tag
<1>8. Kin(t, In)
  BY <1>1, ShapeKin
<1>9. x \in Link /\ n \in Link /\ t.tag[x] \in 0 .. 2 /\ t.tag[n] \in 0 .. 2
  <2>1. In \subseteq Link
    BY <1>8, Linked DEF Kin
  <2>2. t.tag \in [Link -> 0 .. 2]
    BY DEF Container
  <2>3. QED
    BY <1>4, <2>1, <2>2
<1>10. TwoWritten(v, u, n, t.tag[x], x, t.tag[n])
  BY <1>4, <1>5, <1>9, TwoTagFields
<1>11. /\ Tagged(v, u)
       /\ \A m \in Link : v.tag[m] = IF m = x THEN t.tag[n] ELSE IF m = n THEN t.tag[x] ELSE t.tag[m]
  BY <1>4, <1>10 DEF TwoWritten
<1>12. /\ t.tag[x] # Black => \E h2 : RedBlack(u, v.tag, J, h2)
       /\ t.tag[x] = Black => BlackOut(u, v.tag, J, c)
  BY <1>3, <1>4, <1>8, <1>11, TakenEven
<1>13. v.tag[n] = t.tag[x]
  BY <1>9, <1>11
<1>14. v \in Container /\ v.count = u.count /\ Fits(v, J, at)
  BY <1>4, <1>11, TaggedFits
<1>15. CASE v.tag[n] # Black
  <2>1. PICK h2 : RedBlack(u, v.tag, J, h2)
    BY <1>12, <1>13, <1>15
  <2>2. RedBlack(v, v.tag, J, h2)
    BY <1>11, <2>1 DEF Tagged, RedBlack, Even, Pale, Root
  <2>3. QED
    BY <1>3, <1>4, <1>7, <1>14, <1>15, <2>2
<1>16. CASE v.tag[n] = Black
  <2>1. Mending(y, y, J, at, c)
    BY <1>4, <1>6, <1>11, <1>12, <1>13, <1>16, MendStarts
  <2>2. y.count = u.count
    <3>1. v.kid["left"][Nil] \in Link
      BY <1>14, Linked DEF Side, Link
    <3>2. TagWritten(y, v, Root(v), Red)
      BY <1>6, <1>14, <3>1, TagFields, Colours DEF Root
    <3>3. QED
      BY <1>14, <3>2 DEF TagWritten, Tagged
  <2>3. w = RbMend(y, c) /\ y \in Container
    BY <1>7, <1>16, <2>1 DEF Mending
  <2>4. w \in Container /\ w.count = y.count /\ Fits(w, J, at) /\ \E h2 : RedBlack(w, w.tag, J, h2)
    BY <2>1, <2>3, RbMendMends
  <2>5. QED
    BY <1>3, <1>4, <2>2, <2>4
<1>17. QED
  BY <1>15, <1>16

===========================================================================
