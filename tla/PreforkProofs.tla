--------------------------- MODULE PreforkProofs ----------------------------
(***************************************************************************)
(* Proofs about Prefork, for any number of clients and children.           *)
(***************************************************************************)
EXTENDS Prefork, TLAPS

\* Children are forked in the order of their index; the parent may be one.
Unforked ==
    /\ parent = "fork" => \A i \in Id : i >= at => child[i] = "none"
    /\ parent = "child" => at \in Id

\* Each client that is being served is in the table of one running process.
Owners ==
    /\ \A i \in Id : held[i] # {} => child[i] \in Running \ {"fresh"}
    /\ \A i, j \in Id : i # j => held[i] \cap held[j] = {}
    /\ \A c \in Client :
          peer[c] \in Served <=> \E i \in Id : c \in held[i]
    /\ lsock = "shut" => \A c \in Client : peer[c] # "queued"

Last == parent = "exited" => \A i \in Id : child[i] \notin Running

PoolInv == TypeOK /\ Unforked /\ Owners /\ Last

LEMMA PoolInit == Init => PoolInv
<1> SUFFICES ASSUME Init PROVE PoolInv
  OBVIOUS
<1>1. 0 \in 0 .. (Max \div 2) + 1
  BY MaxAssumption
<1>2. TypeOK
  BY <1>1 DEF Init, TypeOK
<1>3. Unforked /\ Owners /\ Last
  BY DEF Init, Unforked, Owners, Last, Served
<1>4. QED
  BY <1>2, <1>3 DEF PoolInv

\* The parent and the signals it sends leave the clients alone.
LEMMA PoolParent ==
    ASSUME PoolInv, ParentMain \/ Handler \/ Signals
    PROVE  PoolInv'
<1> USE DEF PoolInv
<1>1. at \in Nat /\ Max \div 2 \in Nat
  BY MaxAssumption DEF TypeOK
<1>2. at \in Id => at + 1 \in 0 .. (Max \div 2) + 1
  BY <1>1 DEF Id
<1>3. 0 \in 0 .. (Max \div 2) + 1
  BY <1>1
<1>4. CASE Fork \/ ForkFails
  <2>1. /\ parent = "fork" /\ at \in Id /\ child' = [child EXCEPT ![at] = "fresh"]
        /\ UNCHANGED <<pend, held, lsock, peer>>
        /\ \/ parent' = "fork" /\ at' = at + 1
           \/ parent' = "child" /\ at' = at
    BY <1>4 DEF Fork, ForkFails
  <2>2. TypeOK'
    BY <1>2, <2>1 DEF TypeOK, Running
  <2>3. Unforked'
    BY <1>1, <2>1 DEF Unforked, TypeOK, Id
  <2>4. child[at] = "none"
    BY <1>1, <2>1 DEF Unforked
  <2>5. \A i \in Id \ {at} : child'[i] = child[i]
    BY <2>1 DEF TypeOK
  <2>6. Owners'
    BY <2>1, <2>4, <2>5 DEF Owners, Running
  <2>7. Last'
    BY <2>1 DEF Last
  <2>8. QED
    BY <2>2, <2>3, <2>6, <2>7
<1>5. CASE Forked \/ Arm \/ Signals
  <2>1. /\ UNCHANGED <<child, held, lsock, peer>>
        /\ parent' \in {"arm", "pause", "kill", "killed", "child"}
        /\ at' \in {at, 0} /\ pend' \subseteq Id
        /\ parent' = "child" => parent = "child" /\ at' = at
    BY <1>5 DEF Forked, Arm, Signals, Interrupt, InterruptEarly, InterruptHost,
                InterruptGroup, Alive, TypeOK, Unforked
  <2>2. TypeOK'
    BY <1>3, <2>1 DEF TypeOK
  <2>3. Unforked' /\ Last'
    BY <2>1 DEF Unforked, Last
  <2>4. Owners'
    BY <2>1 DEF Owners
  <2>5. QED
    BY <2>2, <2>3, <2>4
<1>6. CASE Handler
  <2>1. /\ UNCHANGED <<child, held, lsock, peer>>
        /\ parent' \in {"kill", "wait", "exited"}
        /\ parent' = "exited" => Alive = {}
        /\ (at' = at \/ (at \in Id /\ at' = at + 1))
        /\ pend' \subseteq Id
    BY <1>6 DEF Handler, Kill, Killed, Exit, Alive, TypeOK
  <2>2. TypeOK'
    BY <1>2, <2>1 DEF TypeOK
  <2>3. Unforked' /\ Last'
    BY <2>1 DEF Unforked, Last, Alive
  <2>4. Owners'
    BY <2>1 DEF Owners
  <2>5. QED
    BY <2>2, <2>3, <2>4
<1>7. QED
  BY <1>4, <1>5, <1>6 DEF ParentMain

LEMMA PoolClient ==
    ASSUME PoolInv, NEW c \in Client, Connect(c) \/ Complete(c) \/ Stall(c) \/ Drain(c)
    PROVE  PoolInv'
<1> USE DEF PoolInv
<1>1. /\ UNCHANGED <<parent, at, child, pend, held, lsock>>
      /\ \A d \in Client \ {c} : peer'[d] = peer[d]
      /\ \/ peer[c] = "idle" /\ peer'[c] \in {"queued", "lost"}
                             /\ (lsock = "shut" => peer'[c] = "lost")
         \/ peer[c] \in Served /\ peer'[c] \in Served
      /\ peer' \in [Client -> {"idle", "queued", "answered", "lost"} \cup Served]
  BY DEF Connect, Complete, Stall, Drain, TypeOK, Served
<1>2. TypeOK' /\ Unforked' /\ Last'
  BY <1>1 DEF TypeOK, Unforked, Last
<1>3. Owners'
  BY <1>1 DEF Owners, Served
<1>4. QED
  BY <1>2, <1>3

\* A child moves on; whom it serves is at most one client more.
LEMMA PoolChild ==
    ASSUME PoolInv, NEW i \in Id, ChildLoop(i) \/ Block(i) \/ Resume(i)
    PROVE  PoolInv'
<1> USE DEF PoolInv
<1>0. /\ child[i] \in Running /\ UNCHANGED <<parent, at, pend, lsock>>
      /\ child'[i] \in Running \ {"fresh"}
      /\ child' \in [Id -> {"none"} \cup Running \cup Ended]
      /\ \A j \in Id \ {i} : child'[j] = child[j]
  BY DEF ChildLoop, ChildArm, Select, AcceptShut, Serve, Accept, Block, Resume, Visit,
         TypeOK, Running
<1>1. Unforked'
  BY <1>0 DEF Unforked, Running
<1>2. Last'
  BY <1>0 DEF Last
<1>3. CASE ChildArm(i) \/ Select(i) \/ AcceptShut(i)
  <2>1. UNCHANGED <<held, peer>>
    BY <1>3 DEF ChildArm, Select, AcceptShut
  <2>2. TypeOK'
    BY <1>0, <2>1 DEF TypeOK
  <2>3. Owners'
    BY <1>0, <2>1 DEF Owners
  <2>4. QED
    BY <1>1, <1>2, <2>2, <2>3
<1>4. CASE Serve(i) \/ Block(i) \/ Resume(i)
  <2> PICK some \in SUBSET held[i] : Visit(i, some)
    BY <1>4 DEF Serve, Block, Resume
  <2> DEFINE done == {c \in some : peer[c] = "sending"}
  <2>1. /\ held' = [held EXCEPT ![i] = @ \ done]
        /\ peer' = [c \in Client |-> CASE c \in done -> "answered"
                                       [] c \in some /\ peer[c] = "ready" -> "sending"
                                       [] OTHER -> peer[c]]
    BY DEF Visit
  <2>2. /\ held'[i] = held[i] \ done
        /\ \A j \in Id \ {i} : held'[j] = held[j]
        /\ \A c \in Client : \/ c \in done /\ peer'[c] = "answered"
                             \/ /\ c \notin done
                                /\ peer'[c] = peer[c] \/ (peer[c] = "ready" /\ peer'[c] = "sending")
    BY <2>1 DEF TypeOK
  <2>3. done \subseteq held[i]
    OBVIOUS
  <2> HIDE DEF done
  <2>4. TypeOK'
    <3>1. held' \in [Id -> SUBSET Client]
      BY <2>1 DEF TypeOK
    <3>2. peer' \in [Client -> {"idle", "queued", "answered", "lost"} \cup Served]
      BY <2>1, <2>2 DEF TypeOK, Served
    <3>3. QED
      BY <1>0, <3>1, <3>2 DEF TypeOK
  <2>5. \A c \in Client : peer'[c] \in Served <=> c \notin done /\ peer[c] \in Served
    BY <2>2 DEF Served
  <2>6. Owners'
    <3>1. \A j \in Id : held'[j] # {} => child'[j] \in Running \ {"fresh"}
      BY <1>0, <2>2 DEF Owners
    <3>2. \A j, k \in Id : j # k => held'[j] \cap held'[k] = {}
      BY <2>2 DEF Owners
    <3>3. \A c \in Client : peer'[c] \in Served <=> \E j \in Id : c \in held'[j]
      BY <2>2, <2>3, <2>5 DEF Owners
    <3>4. lsock' = "shut" => \A c \in Client : peer'[c] # "queued"
      BY <1>0, <2>2 DEF Owners
    <3>5. QED
      BY <3>1, <3>2, <3>3, <3>4 DEF Owners
  <2>7. QED
    BY <1>1, <1>2, <2>4, <2>6
<1>5. ASSUME NEW c \in Client, Accept(i, c)
      PROVE  PoolInv'
  <2>1. /\ peer[c] = "queued" /\ \A d \in Client \ {c} : peer'[d] = peer[d]
        /\ peer' \in [Client -> {"idle", "queued", "answered", "lost"} \cup Served]
        /\ \A j \in Id \ {i} : held'[j] = held[j]
        /\ \/ held'[i] = held[i] \cup {c} /\ peer'[c] = "held"
           \/ held'[i] = held[i] /\ peer'[c] = "lost"
        /\ held' \in [Id -> SUBSET Client]
    BY <1>5 DEF Accept, Backlog, TypeOK, Served
  <2>2. \A j \in Id : c \notin held[j]
    BY <2>1 DEF Owners, Served
  <2>3. TypeOK'
    BY <1>0, <2>1 DEF TypeOK
  <2>4. Owners'
    <3>1. \A j \in Id : held'[j] # {} => child'[j] \in Running \ {"fresh"}
      BY <1>0, <2>1 DEF Owners
    <3>2. \A j, k \in Id : j # k => held'[j] \cap held'[k] = {}
      BY <2>1, <2>2 DEF Owners
    <3>3. \A d \in Client :
             peer'[d] \in Served <=> \E j \in Id : d \in held'[j]
      <4> SUFFICES ASSUME NEW d \in Client
                   PROVE  peer'[d] \in Served <=> \E j \in Id : d \in held'[j]
        OBVIOUS
      <4>1. CASE d = c
        BY <2>1, <2>2, <4>1 DEF Served
      <4>2. CASE d # c
        BY <2>1, <4>2 DEF Owners
      <4>3. QED
        BY <4>1, <4>2
    <3>4. (lsock = "shut" => \A d \in Client : peer[d] # "queued")'
      BY <1>0, <2>1 DEF Owners
    <3>5. QED
      BY <3>1, <3>2, <3>3, <3>4 DEF Owners
  <2>5. QED
    BY <1>1, <1>2, <2>3, <2>4
<1>6. QED
  BY <1>3, <1>4, <1>5 DEF ChildLoop

\* A child that ends takes its clients with it, and nobody else's.
LEMMA PoolEnds ==
    ASSUME PoolInv, NEW i \in Id, Crash(i) \/ Sigint(i)
    PROVE  PoolInv'
<1> USE DEF PoolInv
<1>1. PICK how \in Ended, ls \in {lsock, "shut"} : Ends(i, how, ls)
  BY DEF Crash, Sigint, Ended
<1>2. child[i] \in Running
  BY DEF Crash, Sigint, Running
<1>3. /\ child'[i] = how /\ \A j \in Id \ {i} : child'[j] = child[j]
      /\ held'[i] = {} /\ \A j \in Id \ {i} : held'[j] = held[j]
      /\ lsock' = ls /\ at' = at /\ pend' = pend \ {i}
      /\ parent' \in {parent, "killed"}
      /\ \A c \in Client :
            peer'[c] = IF c \in held[i] \/ (peer[c] = "queued" /\ ls = "shut")
                       THEN "lost" ELSE peer[c]
  BY <1>1 DEF Ends, TypeOK
<1>4. TypeOK'
  BY <1>1 DEF Ends, TypeOK
<1>5. Unforked'
  BY <1>2, <1>3 DEF Unforked, Running
<1>6. Last'
  BY <1>2, <1>3 DEF Last
<1>7. Owners'
  <2>1. \A j \in Id : held'[j] # {} => child'[j] \in Running \ {"fresh"}
    BY <1>3 DEF Owners
  <2>2. \A j, k \in Id : j # k => held'[j] \cap held'[k] = {}
    BY <1>3 DEF Owners
  <2>3. \A d \in Client :
           peer'[d] \in Served <=> \E j \in Id : d \in held'[j]
    <3> SUFFICES ASSUME NEW d \in Client
                 PROVE  peer'[d] \in Served <=> \E j \in Id : d \in held'[j]
      OBVIOUS
    <3>1. CASE d \in held[i]
      <4>1. peer'[d] = "lost"
        BY <1>3, <3>1
      <4>2. \A j \in Id : d \notin held'[j]
        BY <1>3, <3>1 DEF Owners
      <4>3. QED
        BY <4>1, <4>2 DEF Served
    <3>2. CASE d \notin held[i]
      BY <1>3, <3>2 DEF Owners, Served
    <3>3. QED
      BY <3>1, <3>2
  <2>4. lsock' = "shut" => \A d \in Client : peer'[d] # "queued"
    BY <1>3 DEF Owners
  <2>5. QED
    BY <2>1, <2>2, <2>3, <2>4 DEF Owners
<1>8. QED
  BY <1>4, <1>5, <1>6, <1>7

LEMMA PoolStep == PoolInv /\ [Next]_vars => PoolInv'
<1> SUFFICES ASSUME PoolInv, [Next]_vars PROVE PoolInv'
  OBVIOUS
<1>1. CASE UNCHANGED vars
  BY <1>1 DEF vars, PoolInv, TypeOK, Unforked, Owners, Last
<1>2. CASE Next
  BY <1>2, PoolParent, PoolClient, PoolChild, PoolEnds DEF Next
<1>3. QED
  BY <1>1, <1>2

LEMMA PoolAlways == Spec => []PoolInv
  BY PoolInit, PoolStep, PTL DEF Spec

\* Every variable keeps its type, whatever is forked, interrupted or crashes.
THEOREM PoolType == Spec => []TypeOK
<1>1. PoolInv => TypeOK
  BY DEF PoolInv
<1>2. QED
  BY <1>1, PoolAlways, PTL

\* However the children race for a connection and wherever a signal finds
\* them, each client is served by one process that is there (serv.c:216-285).
THEOREM OneOwnerEach == Spec => []Accounted
<1>1. PoolInv => Accounted
  <2> SUFFICES ASSUME PoolInv PROVE Accounted
    OBVIOUS
  <2>1. {c \in Client : peer[c] \in Served} = UNION {held[i] : i \in Id}
    BY DEF PoolInv, Owners, TypeOK
  <2>2. QED
    BY <2>1 DEF PoolInv, Owners, Accounted, Backlog
<1>2. QED
  BY <1>1, PoolAlways, PTL

\* When the parent has returned from wait(), nothing of the server is left
\* (serv.c:649-662).
THEOREM ParentLast == Spec => []ExitLast
<1>1. PoolInv => ExitLast
  BY DEF PoolInv, Owners, Last, ExitLast, Alive
<1>2. QED
  BY <1>1, PoolAlways, PTL
=============================================================================
