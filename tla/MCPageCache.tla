---------------------------- MODULE MCPageCache ----------------------------
(***************************************************************************)
(* PageCache with interchangeable connections.                             *)
(***************************************************************************)
EXTENDS PageCache, TLC

Perms == Permutations(Conn)
=============================================================================
