--------------------------- MODULE WorkerService ----------------------------
(***************************************************************************)
(* A child (Worker) implements the promise of Service.                     *)
(***************************************************************************)
EXTENDS Worker

Asks(c)  == \E i \in Slot : conn[i].socket = c /\ conn[i].rxstat # "DONE"
Waits(c) == \E i \in Slot : conn[i].socket = c /\ conn[i].rxstat = "DONE"

\* Page and unsent units stand for the answer: a modula's output, which has
\* no known length, is not part of it.
Phases ==
    [c \in Client |->
        CASE peer[c] = "refused" -> "refused"
          [] peer[c] = "closed" -> IF due[c] = 0 THEN "served" ELSE "broken"
          [] Waits(c) -> "answering"
          [] Asks(c) -> "reading"
          [] OTHER -> "out"]

Left == [c \in Client |-> IF Waits(c) THEN due[c] ELSE 0]

Failed == {c \in Client : peer[c] \in {"rst", "gone"}}

Promise == INSTANCE Service WITH phase <- Phases, left <- Left, failed <- Failed

\* Every answer is delivered whole, in pieces, to the client it is for, and
\* only a client whose own connection failed is cut off (serv.c:216-444).
KeepsPromise == Promise!SSpec
=============================================================================
