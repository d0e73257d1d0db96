------------------------------ MODULE MCUsrtc -------------------------------
(***************************************************************************)
(* Usrtc with nodes of which some have the same key.                       *)
(***************************************************************************)
EXTENDS Usrtc

MCNode  == 1 .. 7
KeyPairs == [n \in MCNode |-> (n + 1) \div 2]
=============================================================================
