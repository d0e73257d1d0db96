-------------------------------- MODULE Cgi --------------------------------
(***************************************************************************)
(* The modula sessions of one child: cgi_modula.c, which runs a script     *)
(* behind a pipe, and the loop of write_connection() (serv.c) that sends   *)
(* the script's output to the client.                                      *)
(*                                                                         *)
(* The child is one thread and three of its calls may block it: waitpid()  *)
(* in cgi_modula_session_open(), read() on the pipe, and the send loop,    *)
(* which spins for as long as write() fails.  Scripts and clients run      *)
(* between any two steps.                                                  *)
(*                                                                         *)
(* A script prints bytes 1, 2, ... OutLen[s]; Junk is a byte of the stack  *)
(* below the buffer rd[].  The head of the answer is one write to a socket *)
(* that is still empty (Worker follows its parts); the script's standard   *)
(* input is left out: session and script hold each other's end of that     *)
(* pipe, so it carries nothing.                                            *)
(*                                                                         *)
(* A session, st[s], is "new", "opening", then for a GET "head" (page made,*)
(* the head to be sent) and "live" (SS_MODULA), for a POST "body": its     *)
(* page is made but its request never counts as read (http.c:246-249), so  *)
(* it is never written, and "timeout" once it was quiet for RD_TIMEOUT.    *)
(***************************************************************************)
EXTENDS Integers, Sequences, FiniteSets

CONSTANTS
    Session,    \* the requests for a script, one connection each
    Posted,     \* those of them that are POSTs
    NoSession,  \* the child is at no session
    OutLen,     \* OutLen[s]: how many bytes the script of s prints
    PipeMax,    \* bytes a pipe holds
    Chunk,      \* sizeof rd, 16 in the code
    Window,     \* bytes a client's socket takes before it must be drained
    FdMax,      \* descriptors the child has left for its sessions
    Slips,      \* bound: failed writes per session
    Lingering,  \* the scripts that leave a process holding their stdout
    Faults      \* "rst": clients go away; "fork": fork() fails

ASSUME SessionAssumption == IsFiniteSet(Session)
ASSUME NoSessionAssumption == NoSession \notin Session
ASSUME OutLenAssumption == OutLen \in [Session -> Nat]
ASSUME SizeAssumption == /\ PipeMax \in Nat \ {0}
                         /\ Chunk \in Nat \ {0}
                         /\ Window \in Nat \ {0}
                         /\ FdMax \in Nat
                         /\ Slips \in Nat
ASSUME FaultAssumption == /\ Posted \subseteq Session
                          /\ Lingering \subseteq Session
                          /\ Faults \subseteq {"rst", "fork"}

Junk == 0

VARIABLES
    pc,         \* where the child is
    cur,        \* the session it is at
    st,         \* the session, as above; "closed" at the end
    fds,        \* descriptors of pipes the child holds
    script,     \* the process started for the session
    made,       \* bytes it has printed
    taken,      \* bytes modula_session_read() took from the pipe
    base,       \* the byte before rd[0]
    dta,        \* dta - rd
    cc,         \* cc: bytes of rd[] the loop has still to send
    inbox,      \* bytes in the client's socket, or read by it
    win,        \* room left in that socket
    peer,       \* the client: there or gone
    slip,       \* history: writes that failed
    lost        \* history: the bytes the loop left unsent

loopVars   == <<base, dta, cc>>
scriptVars == <<script, made>>
clientVars == <<inbox, win, peer>>
history    == <<slip, lost>>
vars == <<pc, cur, st, fds, taken, loopVars, scriptVars, clientVars, history>>

InPipe(s) == made[s] - taken[s]
Pending(s) == IF pc = "send" /\ cur = s THEN cc ELSE 0
OpenStates == {"body", "timeout", "head", "live"}
Live == {s \in Session : st[s] \in OpenStates}
Lesser(a, b) == IF a < b THEN a ELSE b

Init ==
    /\ pc = "pass"
    /\ cur = NoSession
    /\ st = [s \in Session |-> "new"]
    /\ fds = 0
    /\ script = [s \in Session |-> "none"]
    /\ made = [s \in Session |-> 0]
    /\ taken = [s \in Session |-> 0]
    /\ base = 0 /\ dta = 0 /\ cc = 0
    /\ inbox = [s \in Session |-> <<>>]
    /\ win = [s \in Session |-> Window]
    /\ peer = [s \in Session |-> "there"]
    /\ slip = [s \in Session |-> 0]
    /\ lost = [s \in Session |-> {}]

-----------------------------------------------------------------------------
(***************************************************************************)
(* cgi_modula_session_open(): two pipes, fork(), then waitpid() before the *)
(* first read of what the script prints.                                   *)
(***************************************************************************)
Open(s) ==
    /\ pc = "pass"
    /\ st[s] = "new"
    /\ fds + 4 <= FdMax
    /\ pc' = "wait"
    /\ cur' = s
    /\ st' = [st EXCEPT ![s] = "opening"]
    /\ fds' = fds + 4
    /\ script' = [script EXCEPT ![s] = "running"]
    /\ UNCHANGED <<made, taken, loopVars, clientVars, history>>

\* -1 from session_open: page_t_generate() passes its NULL page to
\* gen_error_page(), and the child is gone.
OpenFails(s) ==
    /\ pc = "pass"
    /\ st[s] = "new"
    /\ fds + 4 > FdMax \/ "fork" \in Faults
    /\ pc' = "crash"
    /\ cur' = s
    /\ UNCHANGED <<st, fds, taken, loopVars, scriptVars, clientVars, history>>

\* Mutant: it waits for a pipe that is empty.
ReturnedEmpty(freed) ==
    /\ pc = "wait" /\ script[cur] # "running" /\ InPipe(cur) = 0
    /\ st' = [st EXCEPT ![cur] = IF cur \in Posted THEN "body" ELSE "head"]
    /\ fds' = fds - freed
    /\ UNCHANGED <<taken, loopVars, scriptVars, clientVars, history>>

\* The script has exited.  A GET is complete with its head, its rxstat is
\* ST_DONE; a POST stays at ST_PRCS.
Returned(freed) ==
    /\ pc = "wait" /\ script[cur] # "running"
    /\ st' = [st EXCEPT ![cur] = IF cur \in Posted THEN "body" ELSE "head"]
    /\ fds' = fds - freed
    /\ UNCHANGED <<taken, loopVars, scriptVars, clientVars, history>>

\* Mutant: the child keeps one of its copies of the far ends.
WaitedKeeps == Returned(1) /\ pc' = "pass" /\ cur' = NoSession

Waited == Returned(2) /\ pc' = "pass" /\ cur' = NoSession

\* After a POST's page read_connection() goes on with the next slot (i++):
\* where that has no page, the child is gone.
PostCrash == Returned(2) /\ cur \in Posted /\ pc' = "crash" /\ UNCHANGED cur

-----------------------------------------------------------------------------
(***************************************************************************)
(* What a pass does to a session that is open and not yet at SS_MODULA.    *)
(***************************************************************************)
\* close_connection(): modula_session_close() closes both pipes.
Closed(s) ==
    /\ pc = "pass"
    /\ st' = [st EXCEPT ![s] = "closed"]
    /\ fds' = fds - 2
    /\ UNCHANGED <<pc, cur, taken, loopVars, scriptVars, clientVars, history>>

\* read_connection(), an error: both states are ST_ERROR.
ReadFails(s) == st[s] = "body" /\ peer[s] = "gone" /\ Closed(s)

\* write_connection(), EPIPE on the head: wxstat is ST_ERROR.
HeadBroken(s) == st[s] = "head" /\ peer[s] = "gone" /\ Closed(s)

\* A request that is still read is given up; nothing closes it after that.
TimesOut(s) ==
    /\ pc = "pass"
    /\ st[s] = "body"
    /\ st' = [st EXCEPT ![s] = "timeout"]
    /\ UNCHANGED <<pc, cur, fds, taken, loopVars, scriptVars, clientVars, history>>

HeadSent(s) ==
    /\ pc = "pass"
    /\ st[s] = "head" /\ peer[s] = "there"
    /\ st' = [st EXCEPT ![s] = "live"]
    /\ UNCHANGED <<pc, cur, fds, taken, loopVars, scriptVars, clientVars, history>>

-----------------------------------------------------------------------------
(***************************************************************************)
(* write_connection() at SS_MODULA: read up to 16 bytes, send them all     *)
(* before anything else; at the end of the output close the session.       *)
(***************************************************************************)
Begin(s) ==
    /\ pc = "pass"
    /\ st[s] = "live"
    /\ pc' = "read"
    /\ cur' = s
    /\ UNCHANGED <<st, fds, taken, loopVars, scriptVars, clientVars, history>>

\* Mutant: the size of rd[] is taken for the number of bytes read.
ReadFull ==
    /\ pc = "read"
    /\ InPipe(cur) > 0
    /\ base' = taken[cur]
    /\ dta' = 0
    /\ cc' = Chunk
    /\ taken' = [taken EXCEPT ![cur] = @ + cc']
    /\ pc' = "send"
    /\ UNCHANGED <<cur, st, fds, scriptVars, clientVars, history>>

Read ==
    /\ pc = "read"
    /\ InPipe(cur) > 0
    /\ base' = taken[cur]
    /\ dta' = 0
    /\ cc' = Lesser(Chunk, InPipe(cur))
    /\ taken' = [taken EXCEPT ![cur] = @ + cc']
    /\ pc' = "send"
    /\ UNCHANGED <<cur, st, fds, scriptVars, clientVars, history>>

\* Mutants: an empty pipe is taken for the end; the descriptors stay open.
ReadEmpty ==
    /\ pc = "read"
    /\ InPipe(cur) = 0
    /\ pc' = "pass" /\ cur' = NoSession
    /\ st' = [st EXCEPT ![cur] = "closed"]
    /\ fds' = fds - 2
    /\ UNCHANGED <<taken, loopVars, scriptVars, clientVars, history>>
ReadEndOpen ==
    /\ pc = "read"
    /\ InPipe(cur) = 0
    /\ script[cur] = "ended"
    /\ pc' = "pass" /\ cur' = NoSession
    /\ UNCHANGED <<st, fds, taken, loopVars, scriptVars, clientVars, history>>

ReadEnd ==
    /\ pc = "read"
    /\ InPipe(cur) = 0
    /\ script[cur] = "ended"
    /\ pc' = "pass" /\ cur' = NoSession
    /\ st' = [st EXCEPT ![cur] = "closed"]
    /\ fds' = fds - 2
    /\ UNCHANGED <<taken, loopVars, scriptVars, clientVars, history>>

\* n bytes from rd[d] on.
BytesAt(d, n) ==
    [j \in 1 .. n |-> IF d + j <= 0 THEN Junk ELSE base + d + j]

\* while(cc!=rres): after cc-=rres the loop ends when what is left is as
\* much as write() just took; what is left then is not sent.
Loop(left, next, took) ==
    IF left = took
    THEN /\ pc' = "pass" /\ cur' = NoSession
         /\ base' = 0 /\ dta' = 0 /\ cc' = 0
         /\ lost' = [lost EXCEPT ![cur] = @ \union {i \in 1 .. taken[cur] : i > taken[cur] - left}]
    ELSE /\ dta' = next /\ cc' = left
         /\ UNCHANGED <<pc, cur, base, lost>>

\* write() takes what fits into the socket.
Fits == Lesser(cc, win[cur])
Put(n) == /\ pc = "send" /\ n > 0
          /\ peer[cur] = "there"
          /\ inbox' = [inbox EXCEPT ![cur] = @ \o BytesAt(dta, n)]
          /\ win' = [win EXCEPT ![cur] = @ - n]
          /\ UNCHANGED <<st, fds, taken, scriptVars, peer, slip>>

\* Mutant: dta is not moved on.
WriteInPlace == Put(Fits) /\ Loop(cc - Fits, dta, Fits)

Write == Put(Fits) /\ Loop(cc - Fits, dta + Fits, Fits)

\* All sent: a write of 0 bytes returns 0 and ends the loop.
WriteNone ==
    /\ pc = "send" /\ cc = 0
    /\ peer[cur] = "there"
    /\ Loop(0, dta, 0)
    /\ UNCHANGED <<st, fds, taken, scriptVars, clientVars, slip>>

\* -1 is SIZE_MAX in rres: neither test of rres<0 holds, cc-=rres adds one
\* and dta+=rres steps back one.
WriteFails ==
    /\ pc = "send"
    /\ peer[cur] = "gone" \/ (win[cur] = 0 /\ cc > 0)
    /\ slip[cur] < Slips
    /\ slip' = [slip EXCEPT ![cur] = @ + 1]
    /\ cc' = cc + 1
    /\ dta' = dta - 1
    /\ UNCHANGED <<pc, cur, st, fds, taken, base, scriptVars, clientVars, lost>>

-----------------------------------------------------------------------------
(***************************************************************************)
(* The scripts and the clients.                                            *)
(***************************************************************************)
Running(s) == script[s] \in {"running", "left"}

Emit(s) ==
    /\ Running(s)
    /\ made[s] < OutLen[s]
    /\ InPipe(s) < PipeMax
    /\ made' = [made EXCEPT ![s] = @ + 1]
    /\ UNCHANGED <<pc, cur, st, fds, taken, loopVars, script, clientVars, history>>

Exit(s) ==
    /\ Running(s)
    /\ made[s] = OutLen[s]
    /\ script' = [script EXCEPT ![s] = "ended"]
    /\ UNCHANGED <<pc, cur, st, fds, taken, loopVars, made, clientVars, history>>

\* The script exits and a process of its own goes on printing.
Leave(s) ==
    /\ s \in Lingering
    /\ script[s] = "running"
    /\ script' = [script EXCEPT ![s] = "left"]
    /\ UNCHANGED <<pc, cur, st, fds, taken, loopVars, made, clientVars, history>>

Drain(s) ==
    /\ st[s] = "live" /\ peer[s] = "there"
    /\ win[s] < Window
    /\ win' = [win EXCEPT ![s] = @ + 1]
    /\ UNCHANGED <<pc, cur, st, fds, taken, loopVars, scriptVars, inbox, peer, history>>

Go(s) ==
    /\ "rst" \in Faults
    /\ st[s] \notin {"new", "closed"} /\ peer[s] = "there"
    /\ peer' = [peer EXCEPT ![s] = "gone"]
    /\ UNCHANGED <<pc, cur, st, fds, taken, loopVars, scriptVars, inbox, win, history>>

-----------------------------------------------------------------------------
Child == \/ \E s \in Session : \/ Open(s) \/ OpenFails(s)
                               \/ ReadFails(s) \/ TimesOut(s)
                               \/ HeadSent(s) \/ HeadBroken(s) \/ Begin(s)
         \/ Waited \/ PostCrash \/ Read \/ ReadEnd \/ Write \/ WriteNone \/ WriteFails
Outside == \E s \in Session : Emit(s) \/ Exit(s) \/ Leave(s) \/ Drain(s) \/ Go(s)

Next == Child \/ Outside
Spec == Init /\ [][Next]_vars

\* The child comes to every session in its passes over the table and a script
\* prints and exits; nothing makes a client read or go away.
FairSpec ==
    /\ Spec
    /\ WF_vars(Waited \/ PostCrash \/ Read \/ ReadEnd \/ Write \/ WriteNone \/ WriteFails)
    /\ \A s \in Session : /\ SF_vars(Open(s) \/ OpenFails(s))
                          /\ SF_vars(HeadSent(s) \/ HeadBroken(s))
                          /\ SF_vars(Begin(s))
                          /\ WF_vars(Emit(s) \/ Exit(s))

-----------------------------------------------------------------------------
(***************************************************************************)
(* Properties.                                                             *)
(***************************************************************************)
TypeOK ==
    /\ pc \in {"pass", "wait", "read", "send", "crash"}
    /\ cur \in Session \union {NoSession}
    /\ (pc = "pass") = (cur = NoSession)
    /\ st \in [Session -> {"new", "opening", "closed"} \union OpenStates]
    /\ fds \in 0 .. FdMax
    /\ script \in [Session -> {"none", "running", "left", "ended"}]
    /\ made \in [Session -> Nat] /\ taken \in [Session -> Nat]
    /\ base \in Nat /\ cc \in Nat /\ dta \in Int
    /\ inbox \in [Session -> Seq(Nat)]
    /\ win \in [Session -> 0 .. Window]
    /\ peer \in [Session -> {"there", "gone"}]
    /\ slip \in [Session -> 0 .. Slips]
    /\ lost \in [Session -> SUBSET Nat]
    /\ \A s \in Session : taken[s] <= made[s] /\ made[s] <= OutLen[s]

\* The child holds two descriptors for each open session, and the four of
\* the two pipes while it waits for a script: no way a session ends loses one.
FdExact ==
    fds = 2 * Cardinality(Live) + (IF pc = "wait" THEN 4 ELSE 0)

\* The bytes in u.
Bytes(u) == {u[j] : j \in DOMAIN u}
Ascending(u) == \A j, k \in DOMAIN u : j < k => u[j] < u[k]

\* The bytes of s the loop is through with.
Handled(s) == 1 .. taken[s] - Pending(s)

\* As long as no write() failed, the client has the bytes the loop is through
\* with, each once and in order, but for those the loop left.
SentExact ==
    \A s \in Session : slip[s] = 0 =>
        /\ Ascending(inbox[s])
        /\ Bytes(inbox[s]) = Handled(s) \ lost[s]

\* Failed writes repeat bytes or add junk but lose none: what the loop is
\* through with is with the client or among what it left.
NothingSkipped ==
    \A s \in Session : Handled(s) \subseteq lost[s] \union Bytes(inbox[s])

\* serv.c:407-418: what a client has of a script's output through short
\* writes, failed ones and the loop's early end after an exact half.
OutputKept == SentExact /\ NothingSkipped

\* A session is closed under a client that is there at the end of the script's
\* output only, be it printed by a process that outlives the script, and with
\* every byte sent but what the loop left; one whose request never counts as
\* read is closed for a client that is gone, and has got nothing.
ClosedAtEnd ==
    \A s \in Session : st[s] = "closed" =>
        \/ /\ s \notin Posted
           /\ script[s] = "ended"
           /\ 1 .. OutLen[s] \subseteq lost[s] \union Bytes(inbox[s])
        \/ peer[s] = "gone" /\ inbox[s] = <<>>

\* cgi_modula_session_open() returns when the output fits into the pipe: a
\* longer one leaves script and child waiting for each other.
OpenReturns ==
    \A s \in Session :
        st[s] = "opening" /\ OutLen[s] <= PipeMax ~> st[s] # "opening"

\* A child that is not blocked for good serves every GET to its end.
Served ==
    []<>(pc = "pass") => \A s \in Session \ Posted : <>(st[s] = "closed")

\* What serv.c:407 says, "while our 16 bytes will not written try to send it":
\* out of the loop, and no write() having failed, all that was read is sent.
AllSent ==
    \A s \in Session : slip[s] = 0 /\ ~ (pc = "send" /\ cur = s) =>
        1 .. taken[s] \subseteq Bytes(inbox[s])
=============================================================================
