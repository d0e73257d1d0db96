------------------------------ MODULE Service -------------------------------
(***************************************************************************)
(* What a child of the server promises its clients, without slots, loops,  *)
(* read sets or partial writes.                                            *)
(*                                                                         *)
(* A client is admitted or refused; an admitted one is answered once its   *)
(* request is in; the answer goes out piece by piece and the connection is *)
(* closed when nothing of it is left.  An exchange is broken off only for  *)
(* a client whose own connection has failed.                               *)
(***************************************************************************)
EXTENDS Naturals

CONSTANT Client

VARIABLES
    phase,   \* how far the exchange with each client is
    left,    \* units of the answer still to be delivered
    failed   \* clients in the service whose connection has failed

svars == <<phase, left, failed>>

Phase == {"out", "reading", "answering", "served", "refused", "broken"}

ServiceTypeOK ==
    /\ phase \in [Client -> Phase]
    /\ left \in [Client -> Nat]
    /\ failed \subseteq Client

SInit ==
    /\ phase = [c \in Client |-> "out"]
    /\ left = [c \in Client |-> 0]
    /\ failed = {}

Admit(c) ==
    /\ phase[c] = "out"
    /\ phase' = [phase EXCEPT ![c] = "reading"]
    /\ UNCHANGED <<left, failed>>

\* Whether it is still there or not.
Refuse(c) ==
    /\ phase[c] = "out"
    /\ phase' = [phase EXCEPT ![c] = "refused"]
    /\ failed' = failed \ {c}
    /\ UNCHANGED left

Answer(c) ==
    /\ phase[c] = "reading"
    /\ phase' = [phase EXCEPT ![c] = "answering"]
    /\ left'[c] \in Nat \ {0}
    /\ left' = [left EXCEPT ![c] = left'[c]]
    /\ UNCHANGED failed

Deliver(c) ==
    /\ phase[c] = "answering"
    /\ c \notin failed
    /\ \E n \in 1 .. left[c] : left' = [left EXCEPT ![c] = @ - n]
    /\ UNCHANGED <<phase, failed>>

Finish(c) ==
    /\ phase[c] = "answering"
    /\ left[c] = 0
    /\ phase' = [phase EXCEPT ![c] = "served"]
    /\ failed' = failed \ {c}
    /\ UNCHANGED left

BreakOff(c) ==
    /\ phase[c] \in {"reading", "answering"}
    /\ c \in failed
    /\ phase' = [phase EXCEPT ![c] = "broken"]
    /\ left' = [left EXCEPT ![c] = 0]
    /\ failed' = failed \ {c}

Fail(c) ==
    /\ phase[c] \in {"out", "reading", "answering"}
    /\ failed' = failed \cup {c}
    /\ UNCHANGED <<phase, left>>

SNext ==
    \E c \in Client : \/ Admit(c) \/ Refuse(c) \/ Answer(c) \/ Deliver(c)
                      \/ Finish(c) \/ BreakOff(c) \/ Fail(c)

SSpec == SInit /\ [][SNext]_svars
=============================================================================
