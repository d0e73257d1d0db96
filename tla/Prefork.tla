------------------------------ MODULE Prefork -------------------------------
(***************************************************************************)
(* The processes of redleaf: main_process() of src/serv.c, which forks     *)
(* children that share one listening socket, and the signals between them. *)
(*                                                                         *)
(* A child's pass over its connections is one step here, or two when a call*)
(* for a script stops it in between (Worker and Cgi follow it statement by *)
(* statement); what matters between processes is that a child goes from    *)
(* select() to a blocking accept() on a socket that other children accept  *)
(* from too, that a pass need not end, and that a SIGINT may arrive        *)
(* anywhere.                                                               *)
(***************************************************************************)
EXTENDS Naturals, FiniteSets

CONSTANTS
    Client,   \* the peers that may connect, each of them once
    Max,      \* max_connections, at least 2
    Faults    \* what may go wrong besides: see the actions

ASSUME MaxAssumption == Max \in Nat /\ Max >= 2
ASSUME FaultAssumption == Faults \subseteq {"fork", "crash", "early", "group", "block"}

VARIABLES
    parent,   \* where the parent is in main_process(), or how it ended
    at,       \* the index i of its loops
    child,    \* where child i is
    pend,     \* children a SIGINT has been sent to
    held,     \* the connections of child i
    lsock,    \* the listening socket: "open", or "shut" by shutdown_socket()
    peer      \* how the exchange with each client stands

vars == <<parent, at, child, pend, held, lsock, peer>>

\* for(i=0;i<=max_connections/2;i++)
Id == 0 .. Max \div 2

Running == {"fresh", "select", "accept", "serve", "blocked"}
Ended   == {"crashed", "left"}

\* A client in some child's table: its request is still read, complete, its
\* answer is sent, or is sent and the socket has no room.
Served  == {"held", "ready", "sending", "full"}

TypeOK ==
    /\ parent \in {"fork", "arm", "pause", "kill", "wait", "child",
                   "exited", "killed"}
    /\ at \in 0 .. (Max \div 2) + 1
    /\ child \in [Id -> {"none"} \cup Running \cup Ended]
    /\ pend \subseteq Id
    /\ held \in [Id -> SUBSET Client]
    /\ lsock \in {"open", "shut"}
    /\ peer \in [Client -> {"idle", "queued", "answered", "lost"} \cup Served]

Init ==
    /\ parent = "fork"
    /\ at = 0
    /\ child = [i \in Id |-> "none"]
    /\ pend = {}
    /\ held = [i \in Id |-> {}]
    /\ lsock = "open"
    /\ peer = [c \in Client |-> "idle"]

Alive == {i \in Id : child[i] \in Running}
Backlog == {c \in Client : peer[c] = "queued"}

\* select() reports the listening socket when a connection waits, and always
\* once it is shut down.
Acceptable == Backlog # {} \/ lsock = "shut"

-----------------------------------------------------------------------------
(***************************************************************************)
(* The clients.                                                            *)
(***************************************************************************)
Connect(c) ==
    /\ peer[c] = "idle"
    /\ peer' = [peer EXCEPT ![c] = IF lsock = "open" THEN "queued" ELSE "lost"]
    /\ UNCHANGED <<parent, at, child, pend, held, lsock>>

\* The request of c is complete.
Complete(c) ==
    /\ peer[c] = "held"
    /\ peer' = [peer EXCEPT ![c] = "ready"]
    /\ UNCHANGED <<parent, at, child, pend, held, lsock>>

\* c does not read and its socket fills: write() gives EAGAIN.
Stall(c) ==
    /\ peer[c] = "sending"
    /\ peer' = [peer EXCEPT ![c] = "full"]
    /\ UNCHANGED <<parent, at, child, pend, held, lsock>>

Drain(c) ==
    /\ peer[c] = "full"
    /\ peer' = [peer EXCEPT ![c] = "sending"]
    /\ UNCHANGED <<parent, at, child, pend, held, lsock>>

-----------------------------------------------------------------------------
(***************************************************************************)
(* The parent.                                                             *)
(***************************************************************************)
Fork ==
    /\ parent = "fork"
    /\ at \in Id
    /\ child' = [child EXCEPT ![at] = "fresh"]
    /\ at' = at + 1
    /\ UNCHANGED <<parent, pend, held, lsock, peer>>

\* fork() returned -1, which is not > 0: the parent enters _serv_proc().
ForkFails ==
    /\ "fork" \in Faults
    /\ parent = "fork"
    /\ at \in Id
    /\ child' = [child EXCEPT ![at] = "fresh"]
    /\ parent' = "child"
    /\ UNCHANGED <<at, pend, held, lsock, peer>>

Forked ==
    /\ parent = "fork"
    /\ at \notin Id
    /\ parent' = "arm"
    /\ UNCHANGED <<at, child, pend, held, lsock, peer>>

\* signal(SIGINT,__sigint_handler)
Arm ==
    /\ parent = "arm"
    /\ parent' = "pause"
    /\ UNCHANGED <<at, child, pend, held, lsock, peer>>

Interrupt ==
    /\ parent = "pause"
    /\ parent' = "kill"
    /\ at' = 0
    /\ UNCHANGED <<child, pend, held, lsock, peer>>

\* Before line 178 the disposition of SIGINT is the default one.
InterruptEarly ==
    /\ "early" \in Faults
    /\ parent \in {"fork", "arm"}
    /\ parent' = "killed"
    /\ UNCHANGED <<at, child, pend, held, lsock, peer>>

\* The parent that became a child has a child's handler.
InterruptHost ==
    /\ parent = "child"
    /\ pend' = pend \cup {at}
    /\ UNCHANGED <<parent, at, child, held, lsock, peer>>

\* The terminal sends SIGINT to the whole group; a handler that runs holds
\* a second one back until it exits.
InterruptGroup ==
    /\ "group" \in Faults
    /\ parent \in {"pause", "child"}
    /\ IF parent = "pause" THEN parent' = "kill" /\ at' = 0
                           ELSE UNCHANGED <<parent, at>>
    /\ pend' = pend \cup Alive
    /\ UNCHANGED <<child, held, lsock, peer>>

KillPast ==    \* mutant: the loop goes one entry too far
    /\ parent = "kill"
    /\ at <= Max \div 2 + 1
    /\ pend' = pend \cup ({at} \cap Alive)
    /\ at' = at + 1
    /\ UNCHANGED <<parent, child, held, lsock, peer>>

\* Nothing waits for a child before the handler does, so a child that ended
\* is still a zombie and its pid is nobody else's.
Kill ==
    /\ parent = "kill"
    /\ at \in Id
    /\ pend' = pend \cup ({at} \cap Alive)
    /\ at' = at + 1
    /\ UNCHANGED <<parent, child, held, lsock, peer>>

Killed ==
    /\ parent = "kill"
    /\ at \notin Id
    /\ parent' = "wait"
    /\ UNCHANGED <<at, child, pend, held, lsock, peer>>

ExitUnwaited ==    \* mutant: wait() called once
    /\ parent = "wait"
    /\ Alive # Id
    /\ parent' = "exited"
    /\ UNCHANGED <<at, child, pend, held, lsock, peer>>

\* while(wait(NULL)>0) ;
Exit ==
    /\ parent = "wait"
    /\ Alive = {}
    /\ parent' = "exited"
    /\ UNCHANGED <<at, child, pend, held, lsock, peer>>

-----------------------------------------------------------------------------
(***************************************************************************)
(* The children.                                                           *)
(***************************************************************************)
\* signal(SIGINT,sigint_handler), init_connections()
ChildArm(i) ==
    /\ child[i] = "fresh"
    /\ child' = [child EXCEPT ![i] = "select"]
    /\ UNCHANGED <<parent, at, pend, held, lsock, peer>>

SelectIdle(i) ==    \* mutant: a busy child does not look at the queue
    /\ child[i] = "select"
    /\ child' = [child EXCEPT ![i] =
                   IF Acceptable /\ held[i] = {} THEN "accept" ELSE "serve"]
    /\ UNCHANGED <<parent, at, pend, held, lsock, peer>>

Select(i) ==
    /\ child[i] = "select"
    /\ child' = [child EXCEPT ![i] = IF Acceptable THEN "accept" ELSE "serve"]
    /\ UNCHANGED <<parent, at, pend, held, lsock, peer>>

AcceptUncapped(i, c) ==    \* mutant: a dropped connection is not closed
    /\ child[i] = "accept"
    /\ c \in Backlog
    /\ child' = [child EXCEPT ![i] = "serve"]
    /\ IF Cardinality(held[i]) < Max
       THEN held' = [held EXCEPT ![i] = @ \cup {c}]
       ELSE UNCHANGED held
    /\ peer' = [peer EXCEPT ![c] = "held"]
    /\ UNCHANGED <<parent, at, pend, lsock>>

\* accept() blocks while there is no connection: another child was faster.
Accept(i, c) ==
    /\ child[i] = "accept"
    /\ c \in Backlog
    /\ child' = [child EXCEPT ![i] = "serve"]
    /\ IF Cardinality(held[i]) < Max
       THEN /\ held' = [held EXCEPT ![i] = @ \cup {c}]
            /\ peer' = [peer EXCEPT ![c] = "held"]
       ELSE /\ peer' = [peer EXCEPT ![c] = "lost"]
            /\ UNCHANGED held
    /\ UNCHANGED <<parent, at, pend, lsock>>

AcceptShutAgain(i) ==    \* mutant: the pass is left when accept() fails
    /\ child[i] = "accept"
    /\ lsock = "shut"
    /\ child' = [child EXCEPT ![i] = "select"]
    /\ UNCHANGED <<parent, at, pend, held, lsock, peer>>

\* accept() fails with EINVAL; the pass goes on.
AcceptShut(i) ==
    /\ child[i] = "accept"
    /\ lsock = "shut"
    /\ child' = [child EXCEPT ![i] = "serve"]
    /\ UNCHANGED <<parent, at, pend, held, lsock, peer>>

\* A pass comes to the connections of some: a page goes out at the first visit
\* after the request is complete, and the next one finds it sent and closes.
Visit(i, some) ==
    LET done == {c \in some : peer[c] = "sending"}
    IN  /\ held' = [held EXCEPT ![i] = @ \ done]
        /\ peer' = [c \in Client |->
                      CASE c \in done -> "answered"
                        [] c \in some /\ peer[c] = "ready" -> "sending"
                        [] OTHER -> peer[c]]
        /\ UNCHANGED <<parent, at, pend, lsock>>

Serve(i) ==
    /\ child[i] = "serve"
    /\ child' = [child EXCEPT ![i] = "select"]
    /\ Visit(i, held[i])

\* The pass stops at a connection, whose script's end or output it waits for, or
\* whose client does not read what the loop at SS_MODULA sends.
Block(i) ==
    /\ "block" \in Faults
    /\ child[i] = "serve"
    /\ child' = [child EXCEPT ![i] = "blocked"]
    /\ \E some \in SUBSET held[i] : some # held[i] /\ Visit(i, some)

\* What it waited for came, and the pass goes on to its end; nothing says that
\* it ever does.
Resume(i) ==
    /\ child[i] = "blocked"
    /\ child' = [child EXCEPT ![i] = "select"]
    /\ Visit(i, held[i])

\* The process of child i ends as how; the kernel resets its connections and,
\* if that shuts the listening socket down, those in the queue.
Ends(i, how, ls) ==
    /\ child' = [child EXCEPT ![i] = how]
    /\ held' = [held EXCEPT ![i] = {}]
    /\ pend' = pend \ {i}
    /\ lsock' = ls
    /\ peer' = [c \in Client |->
                  IF \/ c \in held[i]
                     \/ peer[c] = "queued" /\ ls = "shut"
                  THEN "lost" ELSE peer[c]]
    /\ parent' = IF parent = "child" /\ i = at THEN "killed" ELSE parent
    /\ UNCHANGED at

\* A request ends the child (the crash values of Worker's pc).
Crash(i) ==
    /\ "crash" \in Faults
    /\ child[i] \in {"serve", "blocked"}
    /\ held[i] # {}
    /\ Ends(i, "crashed", lsock)

SigintDeaf(i) ==    \* mutant: the handler waits for accept() to return
    /\ i \in pend
    /\ child[i] # "accept"
    /\ Ends(i, "left", IF child[i] = "fresh" THEN lsock ELSE "shut")

\* sigint_handler(), in whatever call it finds the child; before signal() the
\* default action, which leaves the socket alone.
Sigint(i) ==
    /\ i \in pend
    /\ child[i] \in Running
    /\ Ends(i, "left", IF child[i] = "fresh" THEN lsock ELSE "shut")

-----------------------------------------------------------------------------
ParentMain == Fork \/ ForkFails \/ Forked \/ Arm
Handler    == Kill \/ Killed \/ Exit
Signals    == Interrupt \/ InterruptEarly \/ InterruptHost \/ InterruptGroup

ChildLoop(i) ==
    \/ ChildArm(i) \/ Select(i) \/ AcceptShut(i) \/ Serve(i)
    \/ \E c \in Client : Accept(i, c)

Next ==
    \/ ParentMain \/ Handler \/ Signals
    \/ \E i \in Id : \/ ChildLoop(i) \/ Block(i) \/ Resume(i)
                     \/ Crash(i) \/ Sigint(i)
    \/ \E c \in Client : Connect(c) \/ Complete(c) \/ Stall(c) \/ Drain(c)

Spec == Init /\ [][Next]_vars

(***************************************************************************)
(* The scheduler runs every process and delivers every signal.  That a     *)
(* child keeps passing through Accept while others take the connections,   *)
(* that a blocked pass is let go on, or that a client reads is not assumed.*)
(***************************************************************************)
Fairness ==
    /\ WF_vars(ParentMain) /\ WF_vars(Handler)
    /\ \A i \in Id : WF_vars(ChildLoop(i)) /\ WF_vars(Sigint(i))

FairSpec == Spec /\ Fairness

-----------------------------------------------------------------------------
(***************************************************************************)
(* Properties.                                                             *)
(***************************************************************************)

\* The processes agree on who has which client: one that is being served is
\* held by exactly one process, which is still there (serv.c:176, 250).
Accounted ==
    /\ \A i, j \in Id : i # j => held[i] \cap held[j] = {}
    /\ \A i \in Id : held[i] # {} => child[i] \in Running \ {"fresh"}
    /\ {c \in Client : peer[c] \in Served} = UNION {held[i] : i \in Id}
    /\ lsock = "shut" => Backlog = {}

\* The parent returns to the shell only when every child is gone, crashed
\* ones included (serv.c:653-658).
ExitLast == parent = "exited" => Alive = {} /\ \A c \in Client : peer[c] \notin Served

\* A SIGINT to the parent brings the whole server down, whatever its children
\* are doing, one that waits for a script included: none blocks the parent in
\* wait() for ever (serv.c:649-662).
ShutdownEnds == parent = "kill" ~> parent = "exited"

\* What keeps c waiting: every child that is left is stopped in a pass while c is
\* in the kernel's queue; or the child that has c sits in accept() on a queue
\* that others have emptied (serv.c:594), or is stopped in a pass by some
\* connection of its own (serv.c:399-418, cgi_modula.c:227).
Stalled(c) ==
    \/ peer[c] = "queued" /\ \A i \in Alive : child[i] = "blocked"
    \/ \E i \in Id : /\ c \in held[i]
                    /\ \/ child[i] = "accept" /\ Backlog = {} /\ lsock = "open"
                       \/ child[i] = "blocked"

\* A client that is queued is taken, and one whose request is complete is
\* answered as far as it reads: nothing but what Stalled says may keep it
\* waiting, not even the end of the listening socket.
ServedOrStalled ==
    \A c \in Client :
        LET waits == peer[c] \in {"queued", "ready", "sending"}
        IN  waits ~> (~waits \/ Stalled(c))
=============================================================================
