----------------------------- MODULE SortedBag ------------------------------
(***************************************************************************)
(* What a container of libdata promises whichever implementation it uses:  *)
(* its items in the order of their keys, equal ones in the order of their  *)
(* insertion.  Whether an item with a key that is there already should be  *)
(* taken is not part of this promise: Usrtc's NoDuplicates is about that.  *)
(***************************************************************************)
EXTENDS Naturals, FiniteSets, Sequences, SequencesExt

CONSTANTS Item, KeyOf

VARIABLE order

Init == order = <<>>

\* n goes behind every item whose key is not greater.
With(seq, n) ==
    InsertAt(seq, Cardinality({i \in DOMAIN seq : KeyOf[seq[i]] <= KeyOf[n]}) + 1, n)

Insertions(seq) == {With(seq, n) : n \in Item \ ToSet(seq)}
Deletions(seq)  == {RemoveAt(seq, i) : i \in DOMAIN seq}

Next == \E seq \in {order} : order' \in Insertions(seq) \cup Deletions(seq)

Spec == Init /\ [][Next]_order
=============================================================================
