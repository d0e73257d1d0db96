------------------------------- MODULE Worker -------------------------------
(***************************************************************************)
(* One pre-forked child of redleaf: the event loop _serv_proc() of         *)
(* src/serv.c with its table of connections, the HTTP session that each    *)
(* connection feeds (http.c), and the clients at the other end of the      *)
(* sockets.                                                                *)
(*                                                                         *)
(* The child is one thread.  A step is one call of a handler               *)
(* (new_connection, read_connection, write_connection, close_connection)   *)
(* or the select() between two passes over the table; the clients act      *)
(* between any two of them.                                                *)
(*                                                                         *)
(* Data is abstract.  A request is a number of units of at most 31 bytes   *)
(* (one read() each), a response a number of units that write() may take   *)
(* in part.  Which page a request leads to (page_t_generate) is a field of *)
(* the request; module PageCache models how it is made and kept.           *)
(*                                                                         *)
(* Dereferencing NULL or freed memory ends the child: pc then holds the    *)
(* reason.  Where the outcome depends on memory the code never             *)
(* initialised, the model takes both.                                      *)
(***************************************************************************)
EXTENDS Integers, FiniteSets

CONSTANTS
    Client,     \* the peers that may connect, each of them once
    NoSock,     \* connections[i]->socket == -1
    MaxConn,    \* max_connections
    HeadMax,    \* HTTP_HEAD_LEN_MAX, in units
    RdTimeout,  \* RD_TIMEOUT, in ticks of the loop's clock
    Window,     \* units a peer's receive buffer takes before write() blocks
    BadLen,     \* units of the static 400 page
    Requests,   \* the requests the clients may make
    Faults      \* what the environment does besides: see the actions

FaultKind == {"eof", "rst", "steal", "abort"}

RequestType ==
    [method : {"GET", "POST"},   \* what parse_http_request() finds
     bad    : BOOLEAN,           \* it sets op_code to BAD_REQUEST
     head   : Nat \ {0},         \* units up to the blank line
     body   : Nat,               \* units after it
     op     : {"plain", "big", "modula", "fail"},  \* page_t_generate()
     len    : Nat \ {0},         \* units of head and cached body
     out    : Nat]               \* chunks a modula prints

ASSUME NoSockAssumption == NoSock \notin Client
ASSUME ClientAssumption == IsFiniteSet(Client)
ASSUME MaxConnAssumption == MaxConn \in Nat \ {0}
ASSUME BoundAssumption == /\ HeadMax \in Nat \ {0}
                          /\ RdTimeout \in Nat
                          /\ Window \in Nat \ {0}
                          /\ BadLen \in Nat \ {0}
ASSUME RequestAssumption == Requests \subseteq RequestType
ASSUME FaultAssumption == Faults \subseteq FaultKind

VARIABLES
    pc,                 \* where the child is in its loop
    cur,                \* the index i of that loop
    conn,               \* connections[]
    fdrdset,            \* the clients' descriptors in the read set
    trdset,             \* what the last select() left of it
    total_connections,  \* serv.c's counter of open connections
    curr_conn,          \* load_chld[id].curr_conn
    total_conn,         \* load_chld[id].total_conn
    lost,               \* history: calls of new_connection() that returned -1
    backlog,            \* connections the kernel holds for accept()
    peer,               \* how the client's end of the connection stands
    req,                \* the request each client makes
    todo,               \* units the client has still to send
    inq,                \* units in the child's socket buffer
    win,                \* room in the client's receive buffer
    due                 \* history: units of the answer the client lacks

loadVars == <<total_connections, curr_conn, total_conn, lost>>
netVars  == <<backlog, peer, req, todo, inq, win, due>>
vars     == <<pc, cur, conn, fdrdset, trdset, loadVars, netVars>>

Slot == 1 .. MaxConn

RxStat == {"NONE", "PRCS", "TIMEOUT", "ERROR", "DONE"}
WxStat == {"NONE", "PRCS", "ERROR", "DONE"}
Page   == {"none", "bad", "plain", "big", "modula"}
CrashPc == {"crash_nopage", "crash_nofile", "crash_emod", "crash_free"}
RunPc   == {"select", "accept", "receive", "respond", "flush", "reap"}

ConnType ==
    [alloc    : BOOLEAN,             \* connections[i] != NULL
     socket   : Client \cup {NoSock},
     rxstat   : RxStat,
     wxstat   : WxStat,
     hb       : {"HEAD", "BODY", "MODULA", "DONE"},   \* hb_switch
     page     : Page,
     data_len : Nat,
     age      : 0 .. RdTimeout + 1,  \* current_time - last_state, capped
     hs       : {"INIT", "BODY", "DONE"},             \* http->state
     slen     : Nat,                 \* scstr_len(http->stream)
     out      : Nat]                 \* chunks left in the modula's pipe

TypeOK ==
    /\ pc \in RunPc \cup CrashPc
    /\ cur \in 1 .. MaxConn + 1
    /\ conn \in [Slot -> ConnType]
    /\ fdrdset \subseteq Client
    /\ trdset \subseteq Client
    /\ total_connections \in Int
    /\ curr_conn \in Int
    /\ total_conn \in Nat
    /\ lost \in Nat
    /\ backlog \subseteq Client
    /\ peer \in [Client -> {"idle", "open", "eof", "rst", "gone", "closed",
                        "refused"}]
    /\ req \in [Client -> Requests]
    /\ todo \in [Client -> Nat]
    /\ inq \in [Client -> Nat]
    /\ win \in [Client -> 0 .. Window]
    /\ due \in [Client -> Int]

(***************************************************************************)
(* The state after init_connections(): the array holds NULLs only.         *)
(***************************************************************************)
Unallocated ==
    [alloc |-> FALSE, socket |-> NoSock, rxstat |-> "NONE", wxstat |-> "NONE",
     hb |-> "HEAD", page |-> "none", data_len |-> 0, age |-> 0, hs |-> "DONE",
     slen |-> 0, out |-> 0]

Init ==
    /\ pc = "select"
    /\ cur = 1
    /\ conn = [i \in Slot |-> Unallocated]
    /\ fdrdset = {}
    /\ trdset = {}
    /\ total_connections = 0
    /\ curr_conn = 0
    /\ total_conn = 0
    /\ lost = 0
    /\ backlog = {}
    /\ peer = [c \in Client |-> "idle"]
    /\ req \in [Client -> Requests]
    /\ todo = [c \in Client |-> 0]
    /\ inq = [c \in Client |-> 0]
    /\ win = [c \in Client |-> 0]
    /\ due = [c \in Client |-> 0]

Live(i) == conn[i].socket # NoSock
LiveSlots == {i \in Slot : Live(i)}
Crashed == pc \in CrashPc

-----------------------------------------------------------------------------
(***************************************************************************)
(* The clients and the kernel.                                             *)
(***************************************************************************)
envUnchanged == UNCHANGED <<pc, cur, conn, fdrdset, trdset, loadVars>>

Connect(c) ==
    /\ peer[c] = "idle"
    /\ peer' = [peer EXCEPT ![c] = "open"]
    /\ backlog' = backlog \cup {c}
    /\ todo' = [todo EXCEPT ![c] = req[c].head + req[c].body]
    /\ win' = [win EXCEPT ![c] = Window]
    /\ due' = [due EXCEPT ![c] = req[c].len]
    /\ UNCHANGED <<req, inq>>
    /\ envUnchanged

Send(c) ==
    /\ peer[c] = "open"
    /\ todo[c] > 0
    /\ todo' = [todo EXCEPT ![c] = @ - 1]
    /\ inq' = [inq EXCEPT ![c] = @ + 1]
    /\ UNCHANGED <<backlog, peer, req, win, due>>
    /\ envUnchanged

\* The client stops sending, perhaps before the request is complete.
Shut(c) ==
    /\ "eof" \in Faults
    /\ peer[c] = "open"
    /\ peer' = [peer EXCEPT ![c] = "eof"]
    /\ todo' = [todo EXCEPT ![c] = 0]
    /\ UNCHANGED <<backlog, req, inq, win, due>>
    /\ envUnchanged

\* The connection is reset: the next call on it fails with ECONNRESET.
Reset(c) ==
    /\ "rst" \in Faults
    /\ peer[c] \in {"open", "eof"}
    /\ peer' = [peer EXCEPT ![c] = "rst"]
    /\ todo' = [todo EXCEPT ![c] = 0]
    /\ inq' = [inq EXCEPT ![c] = 0]
    /\ UNCHANGED <<backlog, req, win, due>>
    /\ envUnchanged

\* The client reads what has arrived.
Drain(c) ==
    /\ peer[c] \in {"open", "eof"}
    /\ win[c] < Window
    /\ win' = [win EXCEPT ![c] = Window]
    /\ UNCHANGED <<backlog, peer, req, todo, inq, due>>
    /\ envUnchanged

\* The kernel closes the connection to c for good.
Closed(c, how) ==
    /\ peer' = [peer EXCEPT ![c] = how]
    /\ todo' = [todo EXCEPT ![c] = 0]
    /\ inq' = [inq EXCEPT ![c] = 0]
    /\ win' = [win EXCEPT ![c] = 0]
    /\ UNCHANGED <<req, due>>

\* Another child, select()ing on the same listening socket, accepts c.
Steal(c) ==
    /\ "steal" \in Faults
    /\ c \in backlog
    /\ backlog' = backlog \ {c}
    /\ Closed(c, "refused")
    /\ envUnchanged

Environment ==
    \E c \in Client : \/ Connect(c) \/ Send(c) \/ Shut(c)
                      \/ Reset(c) \/ Drain(c) \/ Steal(c)

-----------------------------------------------------------------------------
(***************************************************************************)
(* select() and new_connection().                                          *)
(***************************************************************************)
Readable(c) == inq[c] > 0 \/ peer[c] \in {"eof", "rst", "gone"}

\* last_state is compared with current_time only while rxstat is ST_PRCS,
\* and is set to current_time when rxstat becomes so.
Aged(k, d) ==
    IF k.rxstat = "PRCS" /\ k.age + d <= RdTimeout + 1
    THEN [k EXCEPT !.age = @ + d] ELSE k

\* new_connection() is about to be called: the counters are raised before.
Counted ==
    /\ curr_conn' = curr_conn + 1
    /\ total_conn' = total_conn + 1
    /\ total_connections' = total_connections + 1
    /\ UNCHANGED lost

\* Mutants: trdset is not copied afresh from fdrdset; the listening socket is
\* not watched while the table is full.
SelectStale ==
    /\ pc = "select"
    /\ trdset' = trdset \cup {c \in fdrdset : Readable(c)}
    /\ cur' = 1
    /\ \/ backlog = {} /\ pc' = "receive" /\ UNCHANGED loadVars
       \/ backlog # {} /\ pc' = "accept" /\ Counted
    /\ UNCHANGED <<conn, fdrdset, netVars>>

SelectWhenFree ==
    /\ pc = "select"
    /\ trdset' = {c \in fdrdset : Readable(c)}
    /\ cur' = 1
    /\ IF backlog = {} \/ LiveSlots = Slot
       THEN pc' = "receive" /\ UNCHANGED loadVars
       ELSE pc' = "accept" /\ Counted
    /\ UNCHANGED <<conn, fdrdset, netVars>>

Select ==
    /\ pc = "select"
    /\ trdset' = {c \in fdrdset : Readable(c)}
    /\ \E d \in {0, 1} : conn' = [i \in Slot |-> Aged(conn[i], d)]
    /\ cur' = 1
    /\ IF backlog = {}
       THEN pc' = "receive" /\ UNCHANGED loadVars
       ELSE pc' = "accept" /\ Counted
    /\ UNCHANGED <<fdrdset, netVars>>

FreeSlots == {i \in Slot : ~Live(i)}
LastFree == CHOOSE i \in FreeSlots : \A j \in FreeSlots : j <= i  \* mutant
FirstFree == CHOOSE i \in FreeSlots : \A j \in FreeSlots : i <= j

\* data_len is not reset here: close_connection() left it at 0.
Opened(c) ==
    [Unallocated EXCEPT !.alloc = TRUE, !.socket = c, !.hs = "INIT",
                        !.data_len = conn[FirstFree].data_len]

\* accept() blocks until the kernel has a connection.
Accept(c) ==
    /\ pc = "accept"
    /\ c \in backlog
    /\ FreeSlots # {}
    /\ conn' = [conn EXCEPT ![FirstFree] = Opened(c)]
    /\ fdrdset' = fdrdset \cup {c}
    /\ backlog' = backlog \ {c}
    /\ pc' = "receive"
    /\ UNCHANGED <<cur, trdset, loadVars, peer, req, todo, inq, win, due>>

\* "Accept failed." or "fcntl failed.": the slot stays, with socket -1.
AcceptFails(c) ==
    /\ pc = "accept"
    /\ "abort" \in Faults
    /\ c \in backlog
    /\ FreeSlots # {}
    /\ conn' = [conn EXCEPT ![FirstFree] =
                  [Opened(c) EXCEPT !.socket = NoSock, !.hs = "DONE"]]
    /\ lost' = lost + 1
    /\ backlog' = backlog \ {c}
    /\ Closed(c, "refused")
    /\ pc' = "receive"
    /\ UNCHANGED <<cur, fdrdset, trdset, total_connections, curr_conn, total_conn>>

\* "Too many connections. Dropping connection."
AcceptDrop(c) ==
    /\ pc = "accept"
    /\ c \in backlog
    /\ FreeSlots = {}
    /\ lost' = lost + 1
    /\ backlog' = backlog \ {c}
    /\ Closed(c, "refused")
    /\ pc' = "receive"
    /\ UNCHANGED <<cur, conn, fdrdset, trdset,
                   total_connections, curr_conn, total_conn>>

-----------------------------------------------------------------------------
(***************************************************************************)
(* http_session_process(): what the session makes of rd more units (0 at   *)
(* end of file).  ctl is the http_control_t it returns, bad what it leaves *)
(* in op_code, raw whether ht_req was left uninitialised.                  *)
(***************************************************************************)
Result(hs, slen, ctl, bad, raw) ==
    [hs |-> hs, slen |-> slen, ctl |-> ctl, bad |-> bad, raw |-> raw]

HeadProcess(r, n) ==
    IF r.method = "POST" THEN Result("BODY", n, "READ_BODY", r.bad, FALSE)
                         ELSE Result("DONE", n, "PAGE_READY", r.bad, FALSE)

Process(k, rd) ==
    LET r == req[k.socket]
        n == k.slen + rd
    IN  CASE k.hs = "DONE" -> Result("DONE", k.slen, "PAGE_READY", FALSE, FALSE)
          [] k.hs = "BODY" -> Result("BODY", k.slen, "NO", FALSE, FALSE)
          [] k.hs = "INIT" /\ rd = 0
                -> Result("INIT", k.slen, "PAGE_READY", TRUE, TRUE)
          [] k.hs = "INIT" /\ rd > 0 /\ n >= r.head /\ n < HeadMax
                -> HeadProcess(r, n)
          [] k.hs = "INIT" /\ rd > 0 /\ n > HeadMax
                -> Result("DONE", n, "PAGE_READY", TRUE, TRUE)
          [] OTHER -> Result("INIT", n, "NO", FALSE, FALSE)

\* page_t_generate().  A bad request frees the strings of ht_req, and ht_req
\* itself, which is the http session; a modula that cannot be opened makes
\* gen_error_page() work on a NULL page.
\* Mutant: a modula that cannot be opened yields no page, quietly.
GenPageQuiet(p, r) ==
    IF p.bad THEN {"bad"} ELSE IF r.op = "fail" THEN {"none"} ELSE {r.op}

GenPage(p, r) ==
    IF p.bad
    THEN IF p.raw THEN {"bad", "crash_free"} ELSE {"bad"}
    ELSE IF r.op = "fail" THEN {"crash_nopage"} ELSE {r.op}

\* head_len + bodysize of that page.
GenLen(p, r) == IF p.bad THEN BadLen ELSE r.len

PageLen(k) == IF k.page = "bad" THEN BadLen ELSE req[k.socket].len

-----------------------------------------------------------------------------
(***************************************************************************)
(* One pass over the table: read_connection() and the timeout.             *)
(***************************************************************************)
me == conn[cur]

ScanEnd ==
    /\ pc = "receive"
    /\ cur <= MaxConn => ~conn[cur].alloc
    /\ pc' = "select"
    /\ UNCHANGED <<cur, conn, fdrdset, trdset, loadVars, netVars>>

Scanning == pc = "receive" /\ cur <= MaxConn /\ me.alloc

ScanFree ==
    /\ Scanning
    /\ ~Live(cur)
    /\ cur' = cur + 1
    /\ UNCHANGED <<pc, conn, fdrdset, trdset, loadVars, netVars>>

ReceiveIdle ==
    /\ Scanning
    /\ Live(cur)
    /\ me.socket \notin trdset
    /\ conn' = IF me.rxstat = "PRCS" /\ me.age > RdTimeout
               THEN [conn EXCEPT ![cur].rxstat = "TIMEOUT"] ELSE conn
    /\ pc' = "respond"
    /\ UNCHANGED <<cur, fdrdset, trdset, loadVars, netVars>>

\* Mutant: what arrives late revives a connection that timed out.
ReceiveRevived ==
    /\ Scanning
    /\ Live(cur)
    /\ me.socket \in trdset
    /\ me.rxstat \in {"ERROR", "TIMEOUT", "DONE"}
    /\ conn' = [conn EXCEPT ![cur].age = 0, ![cur].rxstat = "PRCS"]
    /\ pc' = "respond"
    /\ UNCHANGED <<cur, fdrdset, trdset, loadVars, netVars>>

\* The descriptor of a timed-out connection is still watched, never read.
ReceiveIgnored ==
    /\ Scanning
    /\ Live(cur)
    /\ me.socket \in trdset
    /\ me.rxstat \in {"ERROR", "TIMEOUT", "DONE"}
    /\ conn' = [conn EXCEPT ![cur].age = 0]
    /\ pc' = "respond"
    /\ UNCHANGED <<cur, fdrdset, trdset, loadVars, netVars>>

Reading ==
    /\ Scanning
    /\ Live(cur)
    /\ me.socket \in trdset
    /\ me.rxstat \in {"NONE", "PRCS"}

\* Mutant: FD_CLR forgotten.
ReceiveErrorWatched ==
    /\ Reading
    /\ peer[me.socket] = "rst"
    /\ conn' = [conn EXCEPT ![cur] =
                  [me EXCEPT !.age = 0, !.rxstat = "ERROR", !.wxstat = "ERROR"]]
    /\ peer' = [peer EXCEPT ![me.socket] = "gone"]
    /\ pc' = "respond"
    /\ UNCHANGED <<cur, fdrdset, trdset, loadVars, backlog, req, todo, inq, win, due>>

ReceiveError ==
    /\ Reading
    /\ peer[me.socket] = "rst"
    /\ conn' = [conn EXCEPT ![cur] =
                  [me EXCEPT !.age = 0, !.rxstat = "ERROR", !.wxstat = "ERROR"]]
    /\ fdrdset' = fdrdset \ {me.socket}
    /\ peer' = [peer EXCEPT ![me.socket] = "gone"]
    /\ pc' = "respond"
    /\ UNCHANGED <<cur, trdset, loadVars, backlog, req, todo, inq, win, due>>

\* read() returns data, or 0 when there is none and there will be none.
Read(rd) ==
    /\ Reading
    /\ peer[me.socket] # "rst"
    /\ rd = IF inq[me.socket] > 0 THEN 1 ELSE 0
    /\ inq' = [inq EXCEPT ![me.socket] = @ - rd]
    /\ UNCHANGED <<cur, trdset, loadVars, backlog, peer, req, todo, win>>

\* The connection after http_session_process() returned p.
Received(p, rxstat) ==
    [me EXCEPT !.age = 0, !.rxstat = rxstat, !.hs = p.hs, !.slen = p.slen]

\* The session of a bad POST is freed memory when it is used again.
ReceiveMore ==
    \E rd \in {0, 1} :
        LET p == Process(me, rd) IN
        /\ Read(rd)
        /\ p.ctl = "NO"
        /\ conn' = [conn EXCEPT ![cur] = Received(p, "PRCS")]
        /\ \/ pc' = "respond"
           \/ me.page = "bad" /\ pc' = "crash_free"
        /\ UNCHANGED <<fdrdset, due>>

ReceivePage ==
    \E rd \in {0, 1} :
        LET p == Process(me, rd) IN
        /\ Read(rd)
        /\ p.ctl = "PAGE_READY"
        /\ fdrdset' = fdrdset \ {me.socket}
        /\ \E g \in GenPage(p, req[me.socket]) :
              \/ /\ g \in CrashPc
                 /\ pc' = g
                 /\ conn' = [conn EXCEPT ![cur] = Received(p, "DONE")]
              \/ /\ g \notin CrashPc
                 /\ pc' = "respond"
                 /\ conn' = [conn EXCEPT ![cur] =
                               [Received(p, "DONE") EXCEPT
                                  !.page = g, !.out = req[me.socket].out]]
        /\ due' = [due EXCEPT ![me.socket] = GenLen(p, req[me.socket])]

\* i++ where __i++ was meant: the body goes to the modula of the next slot,
\* whoever's session that is.
BodyTarget(i) ==
    IF i > MaxConn THEN "none" ELSE conn[i].page

Posted(p, g) ==
    [conn EXCEPT ![cur] =
        [Received(p, "PRCS") EXCEPT
            !.page = IF g \in CrashPc THEN "none" ELSE g,
            !.out  = req[me.socket].out]]

BodyStep(p, g) ==
    \/ /\ g \in CrashPc
       /\ pc' = g
       /\ conn' = Posted(p, g)
    \/ /\ g \notin CrashPc
       /\ BodyTarget(cur + 1) = "none"
       /\ pc' = "crash_nopage"
       /\ conn' = Posted(p, g)
    \/ /\ g \notin CrashPc
       /\ BodyTarget(cur + 1) = "modula"   \* of another client
       /\ pc' = "respond"
       /\ conn' = Posted(p, g)
    \/ /\ g \notin CrashPc
       /\ BodyTarget(cur + 1) \notin {"none", "modula"}   \* emod was never set
       /\ pc' \in {"respond", "crash_emod"}
       /\ conn' = Posted(p, g)

ReceiveBody ==
    \E rd \in {0, 1} :
        LET p == Process(me, rd) IN
        /\ Read(rd)
        /\ p.ctl = "READ_BODY"
        /\ \E g \in GenPage(p, req[me.socket]) : BodyStep(p, g)
        /\ due' = [due EXCEPT ![me.socket] = GenLen(p, req[me.socket])]
        /\ UNCHANGED fdrdset

-----------------------------------------------------------------------------
(***************************************************************************)
(* write_connection(), called once per pass when the request is complete.  *)
(* Its test for page == NULL never succeeds: see AnswerHasPage.            *)
(***************************************************************************)
Responding ==
    /\ pc = "respond"
    /\ me.rxstat = "DONE"
    /\ me.wxstat \notin {"ERROR", "DONE"}

RespondSkip ==
    /\ pc = "respond"
    /\ me.rxstat # "DONE" \/ me.wxstat \in {"ERROR", "DONE"}
    /\ pc' = "reap"
    /\ UNCHANGED <<cur, conn, fdrdset, trdset, loadVars, netVars>>

\* Mutant: every call starts from the head again.
SendingAgain ==
    [me EXCEPT !.wxstat = "PRCS", !.hb = "BODY", !.data_len = PageLen(me)]

\* The connection as it enters the SS_BODY branch.
Sending ==
    IF me.hb = "HEAD"
    THEN [me EXCEPT !.wxstat = "PRCS", !.hb = "BODY",
                    !.data_len = PageLen(me)]
    ELSE [me EXCEPT !.wxstat = "PRCS"]

BodyBranch == Responding /\ (me.hb = "HEAD" \/ (me.hb = "BODY" /\ me.data_len > 0))

SmallerOf(m, n) == IF m <= n THEN m ELSE n

\* Mutant: what the first call writes is subtracted in both branches.
RespondBodyTwice ==
    /\ BodyBranch
    /\ peer[me.socket] \in {"open", "eof"}
    /\ win[me.socket] > 0
    /\ LET res == SmallerOf(Sending.data_len, win[me.socket])
           twice == IF me.hb = "HEAD" THEN 2 * res ELSE res
       IN  /\ conn' = [conn EXCEPT ![cur] =
                         [Sending EXCEPT !.data_len = @ - twice]]
           /\ win' = [win EXCEPT ![me.socket] = @ - res]
           /\ due' = [due EXCEPT ![me.socket] = @ - res]
    /\ pc' = "reap"
    /\ UNCHANGED <<cur, fdrdset, trdset, loadVars, backlog, peer, req, todo, inq>>

RespondBody ==
    /\ BodyBranch
    /\ peer[me.socket] \in {"open", "eof"}
    /\ win[me.socket] > 0
    /\ LET res == SmallerOf(Sending.data_len, win[me.socket])
       IN  /\ conn' = [conn EXCEPT ![cur] =
                         [Sending EXCEPT !.data_len = @ - res]]
           /\ win' = [win EXCEPT ![me.socket] = @ - res]
           /\ due' = [due EXCEPT ![me.socket] = @ - res]
    /\ pc' = "reap"
    /\ UNCHANGED <<cur, fdrdset, trdset, loadVars, backlog, peer, req, todo, inq>>

\* res < 0 and errno is not EPIPE: EAGAIN, or the first ECONNRESET.
RespondLater ==
    /\ BodyBranch
    /\ \/ peer[me.socket] \in {"open", "eof"} /\ win[me.socket] = 0
       \/ peer[me.socket] = "rst"
    /\ conn' = [conn EXCEPT ![cur] = Sending]
    /\ peer' = [peer EXCEPT ![me.socket] = IF @ = "rst" THEN "gone" ELSE @]
    /\ pc' = "reap"
    /\ UNCHANGED <<cur, fdrdset, trdset, loadVars, backlog, req, todo, inq, win, due>>

RespondBroken ==
    /\ BodyBranch
    /\ peer[me.socket] = "gone"
    /\ conn' = [conn EXCEPT ![cur] = [Sending EXCEPT !.wxstat = "ERROR"]]
    /\ fdrdset' = fdrdset \ {me.socket}
    /\ pc' = "reap"
    /\ UNCHANGED <<cur, trdset, loadVars, netVars>>

\* The head and the cached body are out.
PageSent == Responding /\ me.hb # "HEAD" /\ me.data_len = 0

RespondDone ==
    /\ PageSent
    /\ me.page \in {"plain", "bad"}
    /\ conn' = [conn EXCEPT ![cur].wxstat = "DONE"]
    /\ fdrdset' = fdrdset \ {me.socket}
    /\ pc' = "reap"
    /\ UNCHANGED <<cur, trdset, loadVars, netVars>>

\* SS_FILE: no code ever creates the file session.
RespondFile ==
    /\ PageSent
    /\ me.page = "big"
    /\ conn' = [conn EXCEPT ![cur].wxstat = "PRCS"]
    /\ pc' = "crash_nofile"
    /\ UNCHANGED <<cur, fdrdset, trdset, loadVars, netVars>>

\* SS_MODULA: a chunk from the modula, or the end of its output.
RespondModula ==
    /\ PageSent
    /\ me.page = "modula"
    /\ me.out > 0
    /\ conn' = [conn EXCEPT ![cur] = [me EXCEPT !.wxstat = "PRCS",
                              !.hb = "MODULA", !.out = @ - 1]]
    /\ pc' = "flush"
    /\ UNCHANGED <<cur, fdrdset, trdset, loadVars, netVars>>

RespondModulaDone ==
    /\ PageSent
    /\ me.page = "modula"
    /\ me.out = 0
    /\ conn' = [conn EXCEPT ![cur] = [me EXCEPT !.wxstat = "DONE", !.hb = "DONE"]]
    /\ fdrdset' = fdrdset \ {me.socket}
    /\ pc' = "reap"
    /\ UNCHANGED <<cur, trdset, loadVars, netVars>>

\* while(cc!=rres) write(): the loop is not left while write() fails, since
\* rres is unsigned.  Module Cgi follows the modula's output byte by byte.
Flush ==
    /\ pc = "flush"
    /\ peer[me.socket] \in {"open", "eof"}
    /\ win[me.socket] > 0
    /\ win' = [win EXCEPT ![me.socket] = @ - 1]
    /\ pc' = "reap"
    /\ UNCHANGED <<cur, conn, fdrdset, trdset, loadVars,
                   backlog, peer, req, todo, inq, due>>

-----------------------------------------------------------------------------
(***************************************************************************)
(* The test at the end of the pass, with close_connection().               *)
(***************************************************************************)
\* Mutants: the test looks at one of the two states, or forgets an error.
FinishedReading(k) == k.rxstat \in {"ERROR", "TIMEOUT", "DONE"} /\ k.wxstat # "NONE"
FinishedWell(k)    == k.rxstat \in {"ERROR", "TIMEOUT", "DONE"} /\ k.wxstat = "DONE"

Finished(k) ==
    /\ k.rxstat \in {"ERROR", "TIMEOUT", "DONE"}
    /\ k.wxstat \in {"ERROR", "DONE"}

ReapSkip ==
    /\ pc = "reap"
    /\ ~Finished(me)
    /\ pc' = "receive"
    /\ cur' = cur + 1
    /\ UNCHANGED <<conn, fdrdset, trdset, loadVars, netVars>>

\* page==NULL is tested for page->ref-- but not for page->op==4, and
\* http_session_close() frees what free_http_request() freed before.
CloseOutcomes(k) ==
    CASE k.page = "none" -> {"crash_nopage"}
      [] k.page = "bad"  -> {"receive", "crash_free"}
      [] OTHER           -> {"receive"}

\* Mutant: the slot keeps its socket.
FreedNotClosed(k) ==
    [k EXCEPT !.page = "none", !.data_len = 0, !.age = 0, !.hs = "DONE",
              !.slen = 0, !.out = 0]

Freed(k) ==
    [k EXCEPT !.socket = NoSock, !.page = "none", !.data_len = 0, !.age = 0,
              !.hs = "DONE", !.slen = 0, !.out = 0]

Uncount ==
    /\ curr_conn' = curr_conn - 1
    /\ total_connections' = total_connections - 1

ReapClose ==
    /\ pc = "reap"
    /\ Finished(me)
    /\ Uncount
    /\ fdrdset' = fdrdset \ {me.socket}
    /\ conn' = [conn EXCEPT ![cur] = Freed(me)]
    /\ Closed(me.socket, "closed")
    /\ pc' \in CloseOutcomes(me)
    /\ cur' = cur + 1
    /\ UNCHANGED <<trdset, total_conn, lost, backlog>>

-----------------------------------------------------------------------------
Scan == \/ ScanEnd \/ ScanFree
        \/ ReceiveIdle \/ ReceiveIgnored \/ ReceiveError
        \/ ReceiveMore \/ ReceivePage \/ ReceiveBody

Respond == \/ RespondSkip \/ RespondBody \/ RespondLater \/ RespondBroken
           \/ RespondDone \/ RespondFile
           \/ RespondModula \/ RespondModulaDone \/ Flush

Reap == ReapSkip \/ ReapClose

AcceptNext == \E c \in Client : Accept(c) \/ AcceptFails(c) \/ AcceptDrop(c)

Child == Select \/ AcceptNext \/ Scan \/ Respond \/ Reap

Next == Child \/ Environment

Spec == Init /\ [][Next]_vars

(***************************************************************************)
(* The loop never sleeps for good (select() has a timeout of microseconds) *)
(* and the clients read what they are sent.                                *)
(***************************************************************************)
Fairness == WF_vars(Child) /\ \A c \in Client : WF_vars(Drain(c))

FairSpec == Spec /\ Fairness

-----------------------------------------------------------------------------
(***************************************************************************)
(* Properties.                                                             *)
(***************************************************************************)

\* The pass over the table stops at the first NULL (serv.c:252): no
\* connection may ever stand behind one, or it would be served no more.
SlotPrefix ==
    \A i, j \in Slot : i < j /\ conn[j].alloc => conn[i].alloc

\* A connection is in one slot, and its client has not been turned away.
OneSlotEach ==
    \A i, j \in LiveSlots :
        /\ conn[i].socket = conn[j].socket => i = j
        /\ conn[i].alloc
        /\ conn[i].socket \notin backlog
        /\ peer[conn[i].socket] \notin {"idle", "closed", "refused"}

\* The read set holds the descriptors that still have something to say:
\* never a closed one, which would end the child in select() (serv.c:239-243),
\* and every one whose request is incomplete.
WatchExact ==
    fdrdset = {conn[i].socket : i \in
                  {j \in LiveSlots : conn[j].rxstat \in {"NONE", "PRCS", "TIMEOUT"}}}

\* What select() found readable still is when the pass reaches the slot, so
\* no read() of the pass blocks or fails with EWOULDBLOCK (serv.c:524).
ReadyIsReadable ==
    pc = "receive" =>
        \A i \in LiveSlots :
            i >= cur /\ conn[i].socket \in trdset => Readable(conn[i].socket)

\* A complete request has its page, so the test of serv.c:329 never fires,
\* and a page is never sent for an incomplete one.
AnswerHasPage ==
    ~Crashed => \A i \in LiveSlots :
        /\ conn[i].rxstat = "DONE" => conn[i].page # "none"
        /\ conn[i].hb # "HEAD" => conn[i].rxstat = "DONE"

\* However the writes were cut, what the client lacks of the page is what
\* data_len says; nothing is lacking when the connection is closed as done.
Delivery ==
    ~Crashed => \A i \in LiveSlots :
        LET k == conn[i] IN
        k.rxstat = "DONE" =>
            /\ k.hb = "HEAD" => due[k.socket] = PageLen(k)
            /\ k.hb # "HEAD" => due[k.socket] = k.data_len
            /\ k.wxstat = "DONE" => due[k.socket] = 0

\* serv.c:65 calls curr_conn the "current connections on child"; this is what
\* it is: it drifts from the table by one at each call of new_connection() that
\* returned -1 (serv.c:246), and by nothing else.
Bookkeeping ==
    /\ curr_conn = Cardinality(LiveSlots) + lost
                      + (IF pc = "accept" THEN 1 ELSE 0)
    /\ total_connections = curr_conn
    /\ curr_conn <= total_conn

\* The states of serv.h:43-50 in the order a connection takes them; ERROR,
\* TIMEOUT and DONE are final until the slot is used again.
RxNext ==
    [r \in RxStat |->
        CASE r = "NONE" -> {"NONE", "PRCS", "ERROR", "DONE"}
          [] r = "PRCS" -> {"PRCS", "ERROR", "TIMEOUT", "DONE"}
          [] OTHER      -> {r}]

SameConnection(i) == Live(i) /\ conn'[i].socket = conn[i].socket

RequestOrder ==
    [][\A i \in Slot : SameConnection(i) =>
          /\ conn'[i].rxstat \in RxNext[conn[i].rxstat]
          /\ conn[i].page # "none" => conn'[i].page = conn[i].page
          /\ conn[i].wxstat \in {"ERROR", "DONE"}
                => conn'[i].wxstat = conn[i].wxstat]_vars

\* A connection is given up only when all of its page is sent or the client
\* is gone; the table never forgets one that could still be answered.
CloseJustified ==
    [][\A c \in Client : peer'[c] = "closed" /\ peer[c] # "closed" =>
          due[c] = 0 \/ peer[c] = "gone"]_vars

\* A client whose request is complete is answered and its slot freed, unless
\* another request ends the child.
Answered ==
    \A c \in Client :
        (\E i \in Slot : conn[i].socket = c /\ conn[i].rxstat = "DONE")
            ~> (peer[c] = "closed" \/ Crashed)

\* A client in the kernel's queue is taken from it.
Accepted == \A c \in Client : c \in backlog ~> (c \notin backlog \/ Crashed)

(***************************************************************************)
(* What the comments, the headers and the Changelog say of the program.    *)
(***************************************************************************)

\* serv.c:526, "error on read": the error ends the connection, not the child.
ReadErrorHandled == pc # "crash_nopage"

\* The child has read all of c's POST, and its time is up.
PostTimedOut(c) ==
    /\ req[c].method = "POST" /\ ~req[c].bad
    /\ todo[c] = 0 /\ inq[c] = 0
    /\ \E i \in Slot : conn[i].socket = c /\ conn[i].rxstat = "TIMEOUT"

\* Changelog, "Full POST method support"; serv.c:263, "catch timeout while
\* read", and 273, "check the states for close droped connections": a POST that
\* the child has read to its last unit is answered before its time is up, or
\* its connection is closed then.
PostEnds ==
    \A c \in Client : PostTimedOut(c) ~> (peer[c] = "closed" \/ Crashed)
=============================================================================
