----------------------------- MODULE CgiProofs ------------------------------
(***************************************************************************)
(* What module Cgi keeps for any scripts, pipes, buffers and sockets.      *)
(*                                                                         *)
(* The descriptors are counted by an invariant that also says where the    *)
(* session in hand stands (Place); what the client gets follows from where *)
(* the send loop is in its buffer (Buffer): bytes base+1 .. taken of the   *)
(* output are in rd[], and dta and cc always meet at its end.              *)
(***************************************************************************)
EXTENDS Cgi, FiniteSetTheorems, SequenceTheorems, TLAPS

USE SessionAssumption, NoSessionAssumption, OutLenAssumption, SizeAssumption

\* The session in hand is opening while the child waits, open while it reads
\* and sends; no other session is opening.
Place ==
    /\ pc = "wait" => st[cur] = "opening"
    /\ pc \in {"read", "send"} => st[cur] = "live"
    /\ \A s \in Session : st[s] = "opening" => pc = "wait" /\ cur = s

Table == TypeOK /\ Place /\ FdExact

\* There are finitely many open sessions.
LEMMA LiveFinite == IsFiniteSet(Live)
  BY FS_Subset DEF Live

\* Opening and closing a session moves the count of open sessions by one, what
\* passes between moves nothing.
LEMMA LiveGrows ==
  ASSUME NEW s \in Session, TypeOK, st[s] = "opening",
         NEW v \in OpenStates, st' = [st EXCEPT ![s] = v]
  PROVE  Cardinality(Live') = Cardinality(Live) + 1
<1>1. Live' = Live \union {s} /\ s \notin Live  BY DEF Live, OpenStates, TypeOK
<1> QED BY <1>1, LiveFinite, FS_AddElement

LEMMA LiveShrinks ==
  ASSUME NEW s \in Session, TypeOK, st[s] \in OpenStates,
         st' = [st EXCEPT ![s] = "closed"]
  PROVE  Cardinality(Live') = Cardinality(Live) - 1
<1>1. Live' = Live \ {s} /\ s \in Live  BY DEF Live, OpenStates, TypeOK
<1> QED BY <1>1, LiveFinite, FS_RemoveElement, FS_CardinalityType

LEMMA LiveStays ==
  ASSUME NEW s \in Session, TypeOK, st[s] \in OpenStates,
         NEW v \in OpenStates, st' = [st EXCEPT ![s] = v]
  PROVE  Live' = Live
  BY DEF Live, OpenStates, TypeOK

\* What the loop puts into the socket are bytes.
LEMMA Appended ==
  ASSUME TypeOK, cur \in Session, NEW n \in Nat,
         inbox' = [inbox EXCEPT ![cur] = @ \o BytesAt(dta, n)]
  PROVE  /\ BytesAt(dta, n) \in Seq(Nat)
         /\ inbox[cur] \in Seq(Nat)
         /\ inbox'[cur] = inbox[cur] \o BytesAt(dta, n)
         /\ inbox' \in [Session -> Seq(Nat)]
<1>1. dta \in Int /\ base \in Nat /\ inbox \in [Session -> Seq(Nat)]  BY DEF TypeOK
<1>2. ASSUME NEW j \in 1 .. n
      PROVE  (IF dta + j <= 0 THEN Junk ELSE base + dta + j) \in Nat
  BY <1>1 DEF Junk
<1>3. BytesAt(dta, n) \in Seq(Nat)  BY <1>2 DEF BytesAt
<1>4. inbox[cur] \in Seq(Nat) /\ inbox[cur] \o BytesAt(dta, n) \in Seq(Nat)  BY <1>1, <1>3
<1> QED BY <1>1, <1>3, <1>4

LEMMA TableInit == Init => Table
<1> SUFFICES ASSUME Init PROVE Table OBVIOUS
<1>1. TypeOK  BY DEF Init, TypeOK
<1>2. Place  BY DEF Init, Place
<1>3. Live = {}  BY DEF Init, Live, OpenStates
<1>4. FdExact  BY <1>3, FS_EmptySet DEF Init, FdExact
<1> QED BY <1>1, <1>2, <1>4 DEF Table

LEMMA TableStep == Table /\ [Next]_vars => Table'
<1> SUFFICES ASSUME Table, [Next]_vars PROVE Table' OBVIOUS
<1> USE DEF Table
<1>c. Cardinality(Live) \in Nat  BY LiveFinite, FS_CardinalityType
<1>k. st' = st => Cardinality(Live') = Cardinality(Live)  BY DEF Live
<1>1. ASSUME NEW s \in Session, Open(s) PROVE Table'
  <2>0. /\ st' \in [Session -> {"new", "opening", "closed"} \union OpenStates]
        /\ script' \in [Session -> {"none", "running", "left", "ended"}]
        /\ fds' \in 0 .. FdMax
    BY <1>1 DEF Open, TypeOK
  <2>1. TypeOK'  BY <1>1, <2>0 DEF Open, TypeOK, loopVars, clientVars, history
  <2>2. Place'  BY <1>1 DEF Open, Place, TypeOK
  <2>3. Live' = Live  BY <1>1 DEF Open, Live, OpenStates, TypeOK
  <2>4. FdExact'
    <3>1. pc = "pass" /\ pc' = "wait" /\ fds' = fds + 4  BY <1>1 DEF Open
    <3>2. fds = 2 * Cardinality(Live)  BY <1>c, <3>1 DEF FdExact
    <3> QED BY <1>c, <2>3, <3>1, <3>2 DEF FdExact
  <2> QED BY <2>1, <2>2, <2>4
<1>2. ASSUME NEW s \in Session, OpenFails(s) PROVE Table'
  BY <1>2, <1>k DEF OpenFails, TypeOK, Place, FdExact, loopVars, scriptVars, clientVars, history
<1>3. ASSUME NEW s \in Session, Begin(s) PROVE Table'
  BY <1>3, <1>k DEF Begin, TypeOK, Place, FdExact, loopVars, scriptVars, clientVars, history
<1>4. CASE Waited \/ PostCrash
  <2>1. cur \in Session  BY <1>4 DEF Waited, PostCrash, Returned, TypeOK
  <2> PICK v \in OpenStates : st' = [st EXCEPT ![cur] = v]
    BY <1>4 DEF Waited, PostCrash, Returned, OpenStates
  <2>2. /\ pc = "wait" /\ fds' = fds - 2
        /\ \/ pc' = "pass" /\ cur' = NoSession
           \/ pc' = "crash" /\ cur' = cur
    BY <1>4 DEF Waited, PostCrash, Returned
  <2>3. fds' = 2 * Cardinality(Live) + 2 /\ fds' \in 0 .. FdMax
    <3>1. fds = 2 * Cardinality(Live) + 4 /\ fds \in 0 .. FdMax  BY <2>2 DEF FdExact, TypeOK
    <3> QED BY <1>c, <2>2, <3>1
  <2>4. st' \in [Session -> {"new", "opening", "closed"} \union OpenStates]
    BY <2>1 DEF TypeOK
  <2>5. TypeOK'
    BY <1>4, <2>1, <2>2, <2>3, <2>4
    DEF Waited, PostCrash, Returned, TypeOK, loopVars, scriptVars, clientVars, history
  <2>6. Place'  BY <2>1, <2>2, <2>4 DEF Place, TypeOK, OpenStates
  <2>7. Cardinality(Live') = Cardinality(Live) + 1
    BY <2>1, <2>2, LiveGrows DEF Place
  <2>8. FdExact'  BY <1>c, <2>2, <2>3, <2>7 DEF FdExact
  <2> QED BY <2>5, <2>6, <2>8
<1>14. ASSUME NEW s \in Session, ReadFails(s) \/ HeadBroken(s) PROVE Table'
  <2>1. /\ pc = "pass" /\ UNCHANGED <<pc, cur, taken, loopVars, scriptVars, clientVars, history>>
        /\ st' = [st EXCEPT ![s] = "closed"] /\ fds' = fds - 2 /\ st[s] \in OpenStates
    BY <1>14 DEF ReadFails, HeadBroken, Closed, OpenStates
  <2>2. Cardinality(Live') = Cardinality(Live) - 1  BY <2>1, LiveShrinks
  <2>3. FdExact' /\ fds' \in 0 .. FdMax
    <3>1. IsFiniteSet(Live')  BY FS_Subset DEF Live
    <3>2. Cardinality(Live') \in Nat  BY <3>1, FS_CardinalityType
    <3>3. fds = 2 * Cardinality(Live) /\ fds \in 0 .. FdMax  BY <1>c, <2>1 DEF FdExact, TypeOK
    <3>4. fds' = 2 * Cardinality(Live')  BY <1>c, <2>1, <2>2, <3>2, <3>3
    <3> QED BY <1>c, <2>1, <2>2, <3>2, <3>3, <3>4 DEF FdExact
  <2>4. TypeOK'
    BY <2>1, <2>3 DEF TypeOK, loopVars, scriptVars, clientVars, history
  <2>5. Place'  BY <2>1 DEF Place, TypeOK, OpenStates
  <2> QED BY <2>3, <2>4, <2>5
<1>15. ASSUME NEW s \in Session, TimesOut(s) \/ HeadSent(s) PROVE Table'
  <2> PICK v \in OpenStates : st' = [st EXCEPT ![s] = v]
    BY <1>15 DEF TimesOut, HeadSent, OpenStates
  <2>1. /\ pc = "pass" /\ st[s] \in OpenStates
        /\ UNCHANGED <<pc, cur, fds, taken, loopVars, scriptVars, clientVars, history>>
    BY <1>15 DEF TimesOut, HeadSent, OpenStates
  <2>2. Live' = Live  BY <2>1, LiveStays
  <2>3. TypeOK'  BY <2>1 DEF TypeOK, loopVars, scriptVars, clientVars, history
  <2>4. Place'  BY <2>1 DEF Place, TypeOK, OpenStates
  <2> QED BY <2>1, <2>2, <2>3, <2>4 DEF FdExact
<1>5. CASE Read
  <2> cur \in Session  BY <1>5 DEF Read, TypeOK
  <2>1. cc' \in Nat /\ cc' <= made[cur] - taken[cur] /\ taken'[cur] = taken[cur] + cc'
    BY <1>5 DEF Read, TypeOK, InPipe, Lesser
  <2>2. taken' \in [Session -> Nat] /\ base' \in Nat /\ dta' = 0
    BY <1>5, <2>1, SMTT(20) DEF Read, TypeOK
  <2>3. \A s \in Session : taken'[s] <= made'[s] /\ made'[s] <= OutLen[s]
    BY <1>5, <2>1 DEF Read, TypeOK, scriptVars
  <2>5. /\ pc' = "send" /\ cur' = cur /\ st' = st /\ fds' = fds
        /\ script' = script /\ made' = made /\ inbox' = inbox /\ win' = win
        /\ peer' = peer /\ slip' = slip /\ lost' = lost
    BY <1>5 DEF Read, scriptVars, clientVars, history
  <2>4. TypeOK'  BY <2>1, <2>2, <2>3, <2>5, SMTT(30) DEF TypeOK
  <2> QED BY <1>5, <1>k, <2>4 DEF Read, Place, FdExact
<1>6. CASE ReadEnd
  <2> cur \in Session  BY <1>6 DEF ReadEnd, TypeOK
  <2>1. Cardinality(Live') = Cardinality(Live) - 1  BY <1>6, LiveShrinks DEF ReadEnd, Place, OpenStates
  <2>0. Cardinality(Live') \in Nat
    <3>1. IsFiniteSet(Live')  BY FS_Subset DEF Live
    <3> QED BY <3>1, FS_CardinalityType
  <2>5. fds' = 2 * Cardinality(Live') /\ fds \in 0 .. FdMax
    <3>1. pc = "read" /\ fds' = fds - 2  BY <1>6 DEF ReadEnd
    <3>2. fds = 2 * Cardinality(Live)  BY <1>c, <3>1 DEF FdExact
    <3>3. fds \in 0 .. FdMax  BY DEF TypeOK
    <3> QED BY <1>c, <2>1, <3>1, <3>2, <3>3
  <2>6. /\ st' \in [Session -> {"new", "opening", "closed"} \union OpenStates]
        /\ fds' \in 0 .. FdMax
    BY <1>6, <2>0, <2>5 DEF ReadEnd, TypeOK
  <2>2. TypeOK'  BY <1>6, <2>6 DEF ReadEnd, TypeOK, loopVars, scriptVars, clientVars, history
  <2>3. Place'  BY <1>6 DEF ReadEnd, Place, TypeOK
  <2>4. FdExact'
    <3>1. pc' = "pass"  BY <1>6 DEF ReadEnd
    <3> QED BY <2>5, <3>1 DEF FdExact
  <2> QED BY <2>2, <2>3, <2>4
<1>7. CASE Write
  <2> cur \in Session  BY <1>7 DEF Write, Put, TypeOK
  <2>0. Fits \in Nat /\ Fits <= cc /\ Fits <= win[cur]  BY DEF Fits, Lesser, TypeOK
  <2>2. inbox' \in [Session -> Seq(Nat)]
    BY <1>7, <2>0, Appended DEF Write, Put
  <2>1. win' \in [Session -> 0 .. Window]
    <3>1. win[cur] - Fits \in 0 .. Window  BY <2>0 DEF TypeOK
    <3> QED BY <1>7, <3>1 DEF Write, Put, TypeOK
  <2>5. lost' \in [Session -> SUBSET Nat]
    <3> PICK more \in SUBSET Nat : lost' = [lost EXCEPT ![cur] = @ \union more]
      <4>1. CASE cc - Fits = Fits
        <5> DEFINE more == {i \in 1 .. taken[cur] : i > taken[cur] - (cc - Fits)}
        <5>1. more \in SUBSET Nat  OBVIOUS
        <5> QED BY <1>7, <4>1, <5>1 DEF Write, Loop
      <4>2. CASE cc - Fits # Fits
        <5>1. lost' = lost  BY <1>7, <4>2 DEF Write, Loop
        <5>2. lost' = [lost EXCEPT ![cur] = @ \union {}]  BY <5>1 DEF TypeOK
        <5> QED BY <5>2
      <4> QED BY <4>1, <4>2
    <3> QED BY DEF TypeOK
  <2>6. /\ base' \in Nat /\ cc' \in Nat /\ dta' \in Int
        /\ \/ pc' = "pass" /\ cur' = NoSession
           \/ pc' = pc /\ cur' = cur
    BY <1>7, <2>0, SMTT(20) DEF Write, Loop, TypeOK
  <2>3. TypeOK'
    BY <1>7, <2>1, <2>2, <2>5, <2>6 DEF Write, Put, TypeOK, scriptVars
  <2>4. Place' /\ FdExact'
    BY <1>7, <1>k, <2>6 DEF Write, Put, TypeOK, Place, FdExact
  <2> QED BY <2>3, <2>4
<1>8. CASE WriteNone
  <2>1. pc' = "pass" /\ cur' = NoSession /\ base' = 0 /\ dta' = 0 /\ cc' = 0
    BY <1>8 DEF WriteNone, Loop
  <2>2. lost' \in [Session -> SUBSET Nat]
    <3> DEFINE more == {i \in 1 .. taken[cur] : i > taken[cur] - 0}
    <3>1. lost' = [lost EXCEPT ![cur] = @ \union more] /\ more \in SUBSET Nat
      BY <1>8 DEF WriteNone, Loop
    <3> HIDE DEF more
    <3> QED BY <3>1 DEF TypeOK
  <2>3. TypeOK'  BY <1>8, <2>1, <2>2 DEF WriteNone, TypeOK, scriptVars, clientVars
  <2>4. Place' /\ FdExact'  BY <1>8, <1>k, <2>1 DEF WriteNone, TypeOK, Place, FdExact
  <2> QED BY <2>3, <2>4
<1>9. CASE WriteFails
  BY <1>9, <1>k, SMTT(20) DEF WriteFails, TypeOK, Place, FdExact, scriptVars, clientVars
<1>10. ASSUME NEW s \in Session, Emit(s) PROVE Table'
  <2>0. made[s] + 1 \in Nat /\ made' = [made EXCEPT ![s] = made[s] + 1] /\ made[s] + 1 <= OutLen[s]
    BY <1>10 DEF Emit, TypeOK
  <2>1. /\ made' \in [Session -> Nat]
        /\ \A t \in Session : taken[t] <= made'[t] /\ made'[t] <= OutLen[t]
    BY <2>0, SMTT(20) DEF TypeOK
  <2>2. TypeOK'  BY <1>10, <2>1 DEF Emit, TypeOK, loopVars, clientVars, history
  <2> QED BY <1>10, <1>k, <2>2 DEF Emit, Place, FdExact
<1>11. ASSUME NEW s \in Session, Exit(s) \/ Leave(s) PROVE Table'
  BY <1>11, <1>k DEF Exit, Leave, TypeOK, Place, FdExact, loopVars, clientVars, history
<1>12. ASSUME NEW s \in Session, Drain(s) \/ Go(s) PROVE Table'
  <2>1. win' \in [Session -> 0 .. Window]
    <3>1. CASE Drain(s)
      <4>1. win[s] + 1 \in 0 .. Window  BY <3>1 DEF Drain, TypeOK
      <4> QED BY <3>1, <4>1 DEF Drain, TypeOK
    <3>2. CASE Go(s)  BY <3>2 DEF Go, TypeOK
    <3> QED BY <1>12, <3>1, <3>2
  <2>2. peer' \in [Session -> {"there", "gone"}]  BY <1>12 DEF Drain, Go, TypeOK
  <2>3. TypeOK'  BY <1>12, <2>1, <2>2 DEF Drain, Go, TypeOK, loopVars, scriptVars, history
  <2> QED BY <1>12, <1>k, <2>3 DEF Drain, Go, Place, FdExact
<1>13. CASE UNCHANGED vars
  BY <1>13, <1>k DEF vars, TypeOK, Place, FdExact, loopVars, scriptVars, clientVars, history
<1> QED BY <1>1, <1>2, <1>3, <1>4, <1>5, <1>6, <1>7, <1>8, <1>9, <1>10,
           <1>11, <1>12, <1>13, <1>14, <1>15 DEF Next, Child, Outside

\* cgi_modula_session_open(), cgi_modula_session_close(): no variable leaves
\* its type, so no descriptor count is ever negative or above the limit.
THEOREM CgiType == Spec => []TypeOK
<1>1. Table => TypeOK  BY DEF Table
<1> QED BY TableInit, TableStep, <1>1, PTL DEF Spec

\* The same functions: the child holds exactly the descriptors of its open
\* sessions.
THEOREM DescriptorsExact == Spec => []FdExact
<1>1. Table => FdExact  BY DEF Table
<1> QED BY TableInit, TableStep, <1>1, PTL DEF Spec

-----------------------------------------------------------------------------
\* While the child sends, what is left of rd[] ends at the last byte taken
\* from the pipe: a failed write moves dta and cc apart by the same step.
Buffer ==
    pc = "send" => /\ base + dta + cc = taken[cur]
                   /\ slip[cur] = 0 => dta >= 0

\* What was read before this buffer is with the client or left, whatever part
\* of the buffer a failed write made the loop send again; and nothing of this
\* buffer is left yet.
Behind ==
    pc = "send" => /\ 1 .. base \subseteq lost[cur] \union Bytes(inbox[cur])
                   /\ lost[cur] \subseteq 1 .. base

\* What the loop left it had read.
LeftOf(s) == lost[s] \subseteq 1 .. taken[s]
LeftRead == \A s \in Session : LeftOf(s)

\* SentExact and NothingSkipped for one session.
SentOf(s) == slip[s] = 0 => /\ Ascending(inbox[s])
                            /\ Bytes(inbox[s]) = Handled(s) \ lost[s]
KeptOf(s) == Handled(s) \subseteq lost[s] \union Bytes(inbox[s])

Sending == Buffer /\ Behind
Sent == SentExact /\ NothingSkipped /\ LeftRead
Stream == Table /\ Sending /\ Sent

LEMMA OfEach == Sent <=> \A s \in Session : SentOf(s) /\ KeptOf(s) /\ LeftOf(s)
  BY DEF Sent, SentExact, NothingSkipped, LeftRead, SentOf, KeptOf

\* The n bytes after byte a.
After(a, n) == [j \in 1 .. n |-> a + j]

LEMMA AfterBytes ==
  ASSUME NEW a \in Nat, NEW n \in Nat
  PROVE  Bytes(After(a, n)) = a + 1 .. a + n /\ Ascending(After(a, n))
<1>1. DOMAIN After(a, n) = 1 .. n /\ \A j \in 1 .. n : After(a, n)[j] = a + j  BY DEF After
<1>2. ASSUME NEW i \in a + 1 .. a + n PROVE i \in Bytes(After(a, n))
  <2>1. i - a \in 1 .. n /\ a + (i - a) = i  OBVIOUS
  <2> QED BY <1>1, <2>1 DEF Bytes
<1>3. ASSUME NEW i \in Bytes(After(a, n)) PROVE i \in a + 1 .. a + n
  BY <1>1 DEF Bytes
<1>4. Ascending(After(a, n))  BY <1>1 DEF Ascending
<1> QED BY <1>2, <1>3, <1>4

\* Appending adds the bytes of what is appended, and keeps the order when they
\* come after those that are there.
LEMMA Appending ==
  ASSUME NEW u \in Seq(Nat), NEW v \in Seq(Nat)
  PROVE  /\ Bytes(u \o v) = Bytes(u) \union Bytes(v)
         /\ /\ Ascending(u) /\ Ascending(v)
            /\ \A x \in Bytes(u), y \in Bytes(v) : x < y
            => Ascending(u \o v)
<1>1. /\ DOMAIN (u \o v) = 1 .. Len(u) + Len(v)
      /\ DOMAIN u = 1 .. Len(u) /\ DOMAIN v = 1 .. Len(v)
      /\ Len(u) \in Nat /\ Len(v) \in Nat
  OBVIOUS
<1>2. \A j \in DOMAIN u : j \in DOMAIN (u \o v) /\ (u \o v)[j] = u[j]  BY <1>1
<1>3. \A j \in DOMAIN v : /\ Len(u) + j \in DOMAIN (u \o v)
                          /\ (u \o v)[Len(u) + j] = v[j]
  BY <1>1
<1>4. \A j \in DOMAIN (u \o v) : \/ j \in DOMAIN u /\ (u \o v)[j] = u[j]
                                 \/ /\ j > Len(u) /\ j - Len(u) \in DOMAIN v
                                    /\ (u \o v)[j] = v[j - Len(u)]
  BY <1>1
<1>5. Bytes(u) \subseteq Bytes(u \o v)  BY <1>2 DEF Bytes
<1>6. Bytes(v) \subseteq Bytes(u \o v)  BY <1>3 DEF Bytes
<1>7. Bytes(u \o v) \subseteq Bytes(u) \union Bytes(v)  BY <1>4 DEF Bytes
<1>8. ASSUME Ascending(u), Ascending(v), \A x \in Bytes(u), y \in Bytes(v) : x < y,
             NEW j \in DOMAIN (u \o v), NEW k \in DOMAIN (u \o v), j < k
      PROVE  (u \o v)[j] < (u \o v)[k]
  <2>0. j \in Int /\ k \in Int  BY <1>1
  <2>1. CASE k \in DOMAIN u
    <3>1. j \in DOMAIN u  BY <1>1, <1>8, <2>1
    <3> QED BY <1>2, <1>8, <2>1, <3>1 DEF Ascending
  <2>2. CASE k \notin DOMAIN u
    <3>1. k - Len(u) \in DOMAIN v /\ (u \o v)[k] = v[k - Len(u)]  BY <1>4, <2>2
    <3>2. CASE j \in DOMAIN u
      <4>1. u[j] \in Bytes(u) /\ v[k - Len(u)] \in Bytes(v)  BY <3>1, <3>2 DEF Bytes
      <4> QED BY <1>2, <1>8, <3>1, <3>2, <4>1
    <3>3. CASE j \notin DOMAIN u
      <4>1. j - Len(u) \in DOMAIN v /\ (u \o v)[j] = v[j - Len(u)]  BY <1>4, <3>3
      <4>2. j - Len(u) < k - Len(u)  BY <1>1, <1>8, <2>0
      <4> QED BY <1>8, <3>1, <4>1, <4>2 DEF Ascending
    <3> QED BY <3>2, <3>3
  <2> QED BY <2>1, <2>2
<1> QED BY <1>5, <1>6, <1>7, <1>8 DEF Ascending

LEMMA StreamInit == Init => Stream
<1> SUFFICES ASSUME Init PROVE Stream OBVIOUS
<1>1. Sending  BY DEF Init, Sending, Buffer, Behind
<1>2. ASSUME NEW s \in Session PROVE SentOf(s) /\ KeptOf(s) /\ LeftOf(s)
  <2>1. inbox[s] = <<>> /\ lost[s] = {} /\ Handled(s) = {}  BY DEF Init, Pending, Handled
  <2>2. Bytes(<<>>) = {} /\ Ascending(<<>>)  BY DEF Bytes, Ascending
  <2> QED BY <2>1, <2>2 DEF SentOf, KeptOf, LeftOf
<1> QED BY <1>1, <1>2, TableInit, OfEach DEF Stream

\* The steps outside the send loop leave the stream of every client alone.
LEMMA StreamStill ==
  ASSUME Stream, UNCHANGED <<taken, base, dta, cc, inbox, history>>,
         pc = "send" <=> pc' = "send", pc = "send" => cur' = cur
  PROVE  Sending' /\ Sent'
<1>1. \A s \in Session : Handled(s)' = Handled(s)  BY DEF Handled, Pending
<1>2. Sending'  BY DEF Stream, Sending, Buffer, Behind, Bytes, history
<1>3. Sent'
  BY <1>1 DEF Stream, Sent, SentExact, NothingSkipped, LeftRead, LeftOf, Bytes, Ascending, history
<1> QED BY <1>2, <1>3

LEMMA StreamRead == Stream /\ Read => Sending' /\ Sent'
<1> SUFFICES ASSUME Stream, Read PROVE Sending' /\ Sent' OBVIOUS
<1> USE DEF Stream, Table
<1>1. cur \in Session /\ cur' = cur /\ pc = "read" /\ pc' = "send"  BY DEF Read, TypeOK
<1>2. /\ cc' \in Nat /\ taken[cur] \in Nat /\ taken'[cur] = taken[cur] + cc'
      /\ base' = taken[cur] /\ dta' = 0
  BY <1>1 DEF Read, TypeOK, InPipe, Lesser
<1>3. inbox' = inbox /\ slip' = slip /\ lost' = lost  BY DEF Read, clientVars, history
<1>4. \A s \in Session : Pending(s) = 0 /\ taken[s] \in Nat  BY <1>1 DEF Pending, TypeOK
<1>5. ASSUME NEW s \in Session PROVE Handled(s)' = Handled(s) /\ taken[s] <= taken'[s]
  <2>1. CASE s = cur
    <3>1. Pending(s)' = cc' /\ Pending(s) = 0  BY <1>1, <2>1 DEF Pending
    <3> QED BY <1>1, <1>2, <2>1, <3>1 DEF Handled
  <2>2. CASE s # cur
    <3>1. Pending(s)' = 0 /\ Pending(s) = 0  BY <1>1, <2>2 DEF Pending
    <3>2. taken'[s] = taken[s]  BY <1>1, <2>2 DEF Read, TypeOK
    <3> QED BY <1>4, <3>1, <3>2 DEF Handled
  <2> QED BY <2>1, <2>2
<1>6. ASSUME NEW s \in Session PROVE SentOf(s)' /\ KeptOf(s)' /\ LeftOf(s)'
  <2>1. SentOf(s) /\ KeptOf(s) /\ LeftOf(s)  BY OfEach
  <2>2. SentOf(s)' /\ KeptOf(s)'
    BY <1>3, <1>5, <2>1 DEF SentOf, KeptOf, Bytes, Ascending
  <2>3. LeftOf(s)'
    <3>1. taken[s] \in Nat /\ taken'[s] \in Nat /\ taken[s] <= taken'[s]
      BY <1>4, <1>5, TableStep DEF TypeOK, Next, Child
    <3> QED BY <1>3, <2>1, <3>1 DEF LeftOf
  <2> QED BY <2>2, <2>3
<1>7. Buffer'  BY <1>1, <1>2 DEF Buffer
<1>8. Behind'
  <2>1. Handled(cur) = 1 .. taken[cur]  BY <1>1, <1>4 DEF Handled
  <2>2. KeptOf(cur) /\ LeftOf(cur)  BY <1>1, OfEach
  <2> QED BY <1>1, <1>2, <1>3, <2>1, <2>2 DEF Behind, KeptOf, LeftOf, Bytes
<1>9. Sent'  BY <1>6 DEF Sent, SentExact, NothingSkipped, LeftRead, SentOf, KeptOf, Bytes, Ascending
<1> QED BY <1>7, <1>8, <1>9 DEF Sending

LEMMA StreamWrite == Stream /\ Write => Sending' /\ Sent'
<1> SUFFICES ASSUME Stream, Write PROVE Sending' /\ Sent' OBVIOUS
<1> USE DEF Stream, Table
<1> PICK c \in Session : c = cur  BY DEF Write, Put, TypeOK
<1> PICK n \in Nat : n = Fits  BY DEF Write, Put, Fits, Lesser, TypeOK
<1> PICK a : a = taken[c] - cc  OBVIOUS
<1> PICK b : b = BytesAt(dta, n)  OBVIOUS
<1>1. pc = "send" /\ n > 0 /\ n <= cc /\ cc \in Nat /\ dta \in Int /\ base \in Nat
  BY SMTT(20) DEF Write, Put, Fits, Lesser, TypeOK
<1>2. taken[c] \in Nat /\ lost[c] \in SUBSET Nat  BY DEF TypeOK
<1>3. taken' = taken /\ slip' = slip /\ inbox' = [inbox EXCEPT ![cur] = @ \o BytesAt(dta, n)]
  BY DEF Write, Put
<1>4. base + dta = a /\ a \in Int /\ (slip[c] = 0 => dta >= 0)
  BY <1>1, <1>2 DEF Sending, Buffer
<1>5. /\ b \in Seq(Nat) /\ inbox[c] \in Seq(Nat) /\ inbox'[c] = inbox[c] \o b
      /\ b = [j \in 1 .. n |-> IF dta + j <= 0 THEN Junk ELSE base + dta + j]
  BY <1>3, Appended DEF BytesAt
<1>6. /\ Handled(c) = 1 .. a /\ SentOf(c) /\ KeptOf(c) /\ LeftOf(c)
      /\ 1 .. base \subseteq lost[c] \union Bytes(inbox[c])
      /\ lost[c] \subseteq 1 .. base
  BY <1>1, OfEach DEF Pending, Handled, Sending, Behind
\* The client has, or the loop left, everything up to byte a + n.
<1>7. Bytes(inbox'[c]) = Bytes(inbox[c]) \union Bytes(b)
  <2>1. Bytes(inbox[c] \o b) = Bytes(inbox[c]) \union Bytes(b)  BY <1>5, Appending
  <2> QED BY <1>5, <2>1
<1>8. 1 .. a + n \subseteq lost[c] \union Bytes(inbox'[c])
  <2> SUFFICES ASSUME NEW i \in 1 .. a + n, i > a, i > base
               PROVE  i \in Bytes(b)
    BY <1>1, <1>4, <1>6, <1>7 DEF KeptOf
  <2> PICK k : k = i - a  OBVIOUS
  <2>1. k \in 1 .. n /\ dta + k > 0 /\ base + dta + k = i  BY <1>1, <1>4
  <2>2. DOMAIN b = 1 .. n /\ b[k] = i  BY <1>1, <1>5, <2>1, SMTT(20)
  <2> QED BY <2>1, <2>2 DEF Bytes
\* As long as no write failed, it has them in order.
<1>9. ASSUME slip[c] = 0
      PROVE  Ascending(inbox'[c]) /\ Bytes(inbox'[c]) = (1 .. a + n) \ lost[c]
  <2>1. dta >= 0 /\ a \in Nat  BY <1>1, <1>4, <1>9
  <2>2. b = After(a, n)  BY <1>1, <1>4, <1>5, <2>1 DEF After
  <2>3. Bytes(b) = a + 1 .. a + n /\ Ascending(b)
    <3>1. Bytes(After(a, n)) = a + 1 .. a + n /\ Ascending(After(a, n))  BY <2>1, AfterBytes
    <3> QED BY <2>2, <3>1
  <2>4. Ascending(inbox[c]) /\ Bytes(inbox[c]) = (1 .. a) \ lost[c]  BY <1>6, <1>9 DEF SentOf
  <2>5. \A x \in Bytes(inbox[c]), y \in Bytes(b) : x < y  BY <2>1, <2>3, <2>4
  <2>6. Ascending(inbox[c] \o b)  BY <1>5, <2>3, <2>4, <2>5, Appending
  <2>7. \A i \in lost[c] : i \in Nat /\ i <= a  BY <1>1, <1>2, <1>4, <1>6, <2>1
  <2>8. (1 .. a + n) \ lost[c] = ((1 .. a) \ lost[c]) \union (a + 1 .. a + n)
    BY <2>1, <2>7
  <2> QED BY <1>5, <1>7, <2>3, <2>4, <2>6, <2>8
<1>10. ASSUME NEW s \in Session, s # c PROVE SentOf(s)' /\ KeptOf(s)' /\ LeftOf(s)'
  <2>1. inbox'[s] = inbox[s]  BY <1>3, <1>10 DEF TypeOK
  <2>2. lost'[s] = lost[s]  BY <1>10 DEF Write, Loop, TypeOK
  <2>3. Pending(s) = 0 /\ Pending(s)' = 0  BY <1>10 DEF Write, Loop, Pending, TypeOK
  <2>4. SentOf(s) /\ KeptOf(s) /\ LeftOf(s)  BY OfEach
  <2>5. Handled(s)' = Handled(s)  BY <1>3, <2>3 DEF Handled
  <2>6. SentOf(s)'  BY <1>3, <2>1, <2>2, <2>4, <2>5 DEF SentOf, Bytes, Ascending
  <2>7. KeptOf(s)'  BY <2>1, <2>2, <2>4, <2>5 DEF KeptOf, Bytes
  <2>8. LeftOf(s)'  BY <1>3, <2>2, <2>4 DEF LeftOf
  <2> QED BY <2>6, <2>7, <2>8
<1>11. CASE cc - n = n
  <2>1. pc' = "pass" /\ lost'[c] = lost[c] \union {i \in 1 .. taken[c] : i > taken[c] - n}
    BY <1>11 DEF Write, Loop, TypeOK
  <2>2. a + n = taken[c] - n  BY <1>1, <1>2, <1>11
  <2>3. Handled(c)' = 1 .. taken[c]  BY <1>2, <1>3, <2>1 DEF Handled, Pending
  <2>4. 1 .. taken[c] \subseteq (1 .. a + n) \union {i \in 1 .. taken[c] : i > taken[c] - n}
    BY <1>2, <2>2
  <2>5. KeptOf(c)'
    <3>1. 1 .. taken[c] \subseteq lost'[c] \union Bytes(inbox'[c])  BY <1>8, <2>1, <2>4
    <3> QED BY <2>3, <3>1 DEF KeptOf, Bytes
  <2>6. SentOf(c)'
    <3> SUFFICES ASSUME slip[c] = 0
                 PROVE  Ascending(inbox'[c]) /\ Bytes(inbox'[c]) = (1 .. taken[c]) \ lost'[c]
      BY <1>3, <2>3 DEF SentOf, Ascending, Bytes
    <3>1. (1 .. taken[c]) \ lost'[c] = (1 .. a + n) \ lost[c]
      BY <1>1, <1>2, <1>4, <2>1, <2>2
    <3> QED BY <1>9, <3>1
  <2>7. LeftOf(c)'  BY <1>3, <1>6, <2>1 DEF LeftOf
  <2>8. Sending'  BY <2>1 DEF Sending, Buffer, Behind
  <2>9. \A s \in Session : SentOf(s)' /\ KeptOf(s)' /\ LeftOf(s)'  BY <1>10, <2>5, <2>6, <2>7
  <2>10. Sent'
    BY <2>9 DEF Sent, SentExact, NothingSkipped, LeftRead, SentOf, KeptOf, Bytes, Ascending
  <2> QED BY <2>8, <2>10
<1>12. CASE cc - n # n
  <2>1. pc' = "send" /\ cur' = cur /\ base' = base /\ lost' = lost /\ dta' = dta + n /\ cc' = cc - n
    BY <1>1, <1>12 DEF Write, Loop
  <2>2. Handled(c)' = 1 .. a + n  BY <1>1, <1>2, <1>3, <2>1 DEF Handled, Pending
  <2>3. KeptOf(c)'  BY <1>8, <2>1, <2>2 DEF KeptOf, Bytes
  <2>4. SentOf(c)'  BY <1>3, <1>9, <2>1, <2>2 DEF SentOf, Bytes, Ascending
  <2>5. LeftOf(c)'  BY <1>3, <1>6, <2>1 DEF LeftOf
  <2>6. Buffer'  BY <1>1, <1>3, <1>4, <2>1 DEF Buffer, Sending, TypeOK
  <2>7. Behind'
    <3>1. 1 .. base \subseteq lost[c] \union Bytes(inbox'[c])  BY <1>6, <1>7
    <3> QED BY <1>6, <2>1, <3>1 DEF Behind, Bytes
  <2>8. \A s \in Session : SentOf(s)' /\ KeptOf(s)' /\ LeftOf(s)'  BY <1>10, <2>3, <2>4, <2>5
  <2>9. Sent'
    BY <2>8 DEF Sent, SentExact, NothingSkipped, LeftRead, SentOf, KeptOf, Bytes, Ascending
  <2> QED BY <2>6, <2>7, <2>9 DEF Sending
<1> QED BY <1>11, <1>12

LEMMA StreamNone == Stream /\ WriteNone => Sending' /\ Sent'
<1> SUFFICES ASSUME Stream, WriteNone PROVE Sending' /\ Sent' OBVIOUS
<1> USE DEF Stream, Table
<1>1. cur \in Session /\ pc = "send" /\ cc = 0 /\ pc' = "pass"  BY DEF WriteNone, Loop, TypeOK
<1>2. lost' = lost
  <2>1. {i \in 1 .. taken[cur] : i > taken[cur] - 0} = {}  BY <1>1 DEF TypeOK
  <2>2. lost' = [lost EXCEPT ![cur] = @ \union {i \in 1 .. taken[cur] : i > taken[cur] - 0}]
    BY DEF WriteNone, Loop
  <2>3. lost' = [lost EXCEPT ![cur] = @ \union {}]  BY <2>1, <2>2
  <2> QED BY <2>3 DEF TypeOK
<1>3. taken' = taken /\ inbox' = inbox /\ slip' = slip  BY DEF WriteNone, clientVars
<1>4. \A s \in Session : Handled(s)' = Handled(s)  BY <1>1, <1>3 DEF Handled, Pending
<1>5. Sending'  BY <1>1 DEF Sending, Buffer, Behind
<1>6. Sent'
  BY <1>2, <1>3, <1>4 DEF Sent, SentExact, NothingSkipped, LeftRead, LeftOf, Bytes, Ascending
<1> QED BY <1>5, <1>6

LEMMA StreamFails == Stream /\ WriteFails => Sending' /\ Sent'
<1> SUFFICES ASSUME Stream, WriteFails PROVE Sending' /\ Sent' OBVIOUS
<1> USE DEF Stream, Table
<1>1. cur \in Session /\ pc = "send" /\ pc' = pc /\ cur' = cur /\ cc' = cc + 1 /\ dta' = dta - 1
  BY DEF WriteFails, TypeOK
<1>2. base' = base /\ taken' = taken /\ inbox' = inbox /\ lost' = lost
  BY DEF WriteFails, clientVars
<1>3. slip'[cur] # 0 /\ \A s \in Session : s # cur => slip'[s] = slip[s]
  BY <1>1 DEF WriteFails, TypeOK
<1>4. Buffer'  BY <1>1, <1>2, <1>3, SMTT(20) DEF Sending, Buffer, TypeOK
<1>5. Behind'  BY <1>1, <1>2 DEF Sending, Behind, Bytes
<1>6. ASSUME NEW s \in Session PROVE SentOf(s)' /\ KeptOf(s)' /\ LeftOf(s)'
  <2>1. SentOf(s) /\ KeptOf(s) /\ LeftOf(s)  BY OfEach
  <2>2. taken[s] \in Nat /\ Pending(s) \in Int /\ Pending(s)' \in Int /\ Pending(s) <= Pending(s)'
    BY <1>1 DEF Pending, TypeOK
  <2>3. Handled(s)' \subseteq Handled(s)  BY <1>2, <2>2 DEF Handled
  <2>4. KeptOf(s)' /\ LeftOf(s)'  BY <1>2, <2>1, <2>3 DEF KeptOf, LeftOf, Bytes
  <2>5. SentOf(s)'
    <3>1. CASE s = cur  BY <1>3, <3>1 DEF SentOf
    <3>2. CASE s # cur
      <4>1. Handled(s)' = Handled(s)  BY <1>1, <1>2, <3>2 DEF Handled, Pending
      <4> QED BY <1>2, <1>3, <2>1, <3>2, <4>1 DEF SentOf, Bytes, Ascending
    <3> QED BY <3>1, <3>2
  <2> QED BY <2>4, <2>5
<1>7. Sent'
  BY <1>6 DEF Sent, SentExact, NothingSkipped, LeftRead, SentOf, KeptOf, Bytes, Ascending
<1> QED BY <1>4, <1>5, <1>7 DEF Sending

LEMMA StreamStep == Stream /\ [Next]_vars => Stream'
<1> SUFFICES ASSUME Stream, [Next]_vars PROVE Stream' OBVIOUS
<1>t. Table'  BY TableStep DEF Stream
<1>1. ASSUME NEW s \in Session, Open(s) \/ OpenFails(s) \/ Begin(s)
      PROVE  Sending' /\ Sent'
  BY <1>1, StreamStill DEF Open, OpenFails, Begin, loopVars, clientVars, history
<1>2. ASSUME NEW s \in Session,
             ReadFails(s) \/ TimesOut(s) \/ HeadSent(s) \/ HeadBroken(s)
      PROVE  Sending' /\ Sent'
  BY <1>2, StreamStill
  DEF ReadFails, TimesOut, HeadSent, HeadBroken, Closed, loopVars, clientVars, history
<1>3. ASSUME Waited \/ PostCrash \/ ReadEnd PROVE Sending' /\ Sent'
  BY <1>3, StreamStill DEF Waited, PostCrash, Returned, ReadEnd, loopVars, clientVars, history
<1>4. ASSUME NEW s \in Session, Emit(s) \/ Exit(s) \/ Leave(s) \/ Drain(s) \/ Go(s)
      PROVE  Sending' /\ Sent'
  BY <1>4, StreamStill DEF Emit, Exit, Leave, Drain, Go, loopVars, clientVars, history
<1>5. ASSUME UNCHANGED vars PROVE Sending' /\ Sent'
  BY <1>5, StreamStill DEF vars, loopVars, clientVars, history
<1> QED BY <1>t, <1>1, <1>2, <1>3, <1>4, <1>5, StreamRead, StreamWrite, StreamNone, StreamFails
        DEF Stream, Next, Child, Outside

\* write_connection() at SS_MODULA, serv.c:399-427: as long as no write fails,
\* the client has what the loop is through with, each byte once and in order,
\* but for the halves that serv.c:407 leaves; a failed write makes the loop send
\* bytes again and skip none.
THEOREM OutputKeptAlways == Spec => []OutputKept
<1>1. Stream => OutputKept  BY DEF Stream, Sent, OutputKept
<1> QED BY StreamInit, StreamStep, <1>1, PTL DEF Spec

-----------------------------------------------------------------------------
\* A script that has ended has printed all of its output, so that an empty pipe
\* then is the end of it.
AllPrinted == \A s \in Session : script[s] = "ended" => made[s] = OutLen[s]

\* A session that has no head out has sent and read nothing; a POST never gets
\* there.
Quiet ==
    /\ pc = "send" => taken[cur] > 0
    /\ \A s \in Session :
        /\ st[s] \in {"head", "live"} => s \notin Posted
        /\ st[s] \in {"new", "opening", "body", "timeout", "head"} => taken[s] = 0
        /\ taken[s] = 0 => inbox[s] = <<>>

EndOf(s) ==
    st[s] = "closed" => \/ s \notin Posted /\ script[s] = "ended" /\ taken[s] = OutLen[s]
                        \/ peer[s] = "gone" /\ taken[s] = 0
Output == Stream /\ AllPrinted /\ Quiet /\ \A s \in Session : EndOf(s)

LEMMA OutputInit == Init => Output
<1> SUFFICES ASSUME Init PROVE Output OBVIOUS
<1>1. AllPrinted /\ Quiet /\ \A s \in Session : EndOf(s)
  BY OutLenAssumption DEF Init, AllPrinted, Quiet, EndOf
<1> QED BY <1>1, StreamInit DEF Output

\* The steps that leave the output and its script alone, the state of the
\* session but for the closing, and the client but for its leaving.
LEMMA OutputStill ==
  ASSUME Output,
         \A q \in Session :
            \/ st'[q] = st[q]
            \/ st'[q] = "closed" /\ peer[q] = "gone" /\ taken[q] = 0
            \/ st'[q] = "live" /\ q \notin Posted
            \/ st'[q] \notin {"live", "head", "closed"} /\ taken[q] = 0
            \/ st'[q] = "head" /\ taken[q] = 0 /\ q \notin Posted,
         UNCHANGED <<taken, made, inbox>>,
         pc' = "send" => pc = "send" /\ cur' = cur,
         \A q \in Session : script[q] = "ended" <=> script'[q] = "ended",
         \A q \in Session : peer[q] = "gone" => peer'[q] = "gone"
  PROVE  AllPrinted' /\ Quiet' /\ \A q \in Session : EndOf(q)'
<1>1. AllPrinted'  BY DEF Output, AllPrinted
<1>2. Quiet'  BY DEF Output, Quiet
<1>3. ASSUME NEW q \in Session PROVE EndOf(q)'  BY DEF Output, EndOf
<1> QED BY <1>1, <1>2, <1>3

LEMMA OutputStep == Output /\ [Next]_vars => Output'
<1> SUFFICES ASSUME Output, [Next]_vars PROVE Output' OBVIOUS
<1> DEFINE Goal == AllPrinted /\ Quiet /\ \A q \in Session : EndOf(q)
<1>t. Stream'  BY StreamStep DEF Output
<1>i. TypeOK /\ Place /\ AllPrinted /\ Quiet /\ \A q \in Session : EndOf(q)
  BY DEF Output, Stream, Table
<1>1. ASSUME NEW s \in Session, Open(s) PROVE Goal'
  <2>1. script'[s] # "ended" /\ \A q \in Session : q # s => script'[q] = script[q]
    BY <1>i, <1>1 DEF Open, TypeOK
  <2>2. \A q \in Session : st'[q] = IF q = s THEN "opening" ELSE st[q]
    BY <1>i, <1>1 DEF Open, TypeOK
  <2>3. UNCHANGED <<made, taken, inbox, peer>> /\ pc' = "wait" /\ st[s] = "new"
    BY <1>1 DEF Open, clientVars
  <2> QED BY <1>i, <2>1, <2>2, <2>3 DEF AllPrinted, Quiet, EndOf
<1>2. ASSUME NEW s \in Session, OpenFails(s) \/ Begin(s) PROVE Goal'
  BY <1>2, OutputStill DEF OpenFails, Begin, scriptVars, clientVars
<1>3. ASSUME Waited \/ PostCrash PROVE Goal'
  <2>1. cur \in Session /\ taken[cur] = 0
    BY <1>i, <1>3 DEF Waited, PostCrash, Returned, TypeOK, Place, Quiet
  <2>2. /\ UNCHANGED <<taken, made, script, inbox, peer>> /\ pc' # "send"
        /\ \A q \in Session : st'[q] = IF q # cur THEN st[q]
                                      ELSE IF cur \in Posted THEN "body" ELSE "head"
    BY <1>i, <1>3 DEF Waited, PostCrash, Returned, TypeOK, scriptVars, clientVars
  <2> QED BY <2>1, <2>2, OutputStill
<1>4. ASSUME NEW s \in Session, ReadFails(s) \/ HeadBroken(s) PROVE Goal'
  <2>1. /\ UNCHANGED <<taken, made, script, inbox, peer>> /\ pc' # "send"
        /\ \A q \in Session : st'[q] = IF q = s THEN "closed" ELSE st[q]
        /\ peer[s] = "gone" /\ taken[s] = 0
    BY <1>i, <1>4 DEF ReadFails, HeadBroken, Closed, Quiet, TypeOK, scriptVars, clientVars
  <2> QED BY <2>1, OutputStill
<1>5. ASSUME NEW s \in Session, TimesOut(s) PROVE Goal'
  <2>1. /\ UNCHANGED <<taken, made, script, inbox, peer>> /\ pc' # "send"
        /\ \A q \in Session : st'[q] = IF q = s THEN "timeout" ELSE st[q]
        /\ taken[s] = 0
    BY <1>i, <1>5 DEF TimesOut, Quiet, TypeOK, scriptVars, clientVars
  <2> QED BY <2>1, OutputStill
<1>6. ASSUME NEW s \in Session, HeadSent(s) PROVE Goal'
  <2>1. /\ UNCHANGED <<taken, made, script, inbox, peer>> /\ pc' # "send"
        /\ \A q \in Session : st'[q] = IF q = s THEN "live" ELSE st[q]
        /\ st[s] = "head"
    BY <1>i, <1>6 DEF HeadSent, TypeOK, scriptVars, clientVars
  <2>2. s \notin Posted  BY <1>i, <2>1 DEF Quiet
  <2> QED BY <2>1, <2>2, OutputStill
<1>7. ASSUME Read PROVE Goal'
  <2>1. cur \in Session /\ st[cur] = "live"  BY <1>i, <1>7 DEF Read, TypeOK, Place
  <2>2. /\ \A s \in Session : s # cur => taken'[s] = taken[s]
        /\ taken'[cur] > 0
    BY <1>i, <1>7 DEF Read, TypeOK, InPipe, Lesser
  <2>3. UNCHANGED <<made, script, inbox, peer, st>> /\ cur' = cur
    BY <1>7 DEF Read, scriptVars, clientVars
  <2> QED BY <1>i, <2>1, <2>2, <2>3 DEF AllPrinted, Quiet, EndOf
<1>8. ASSUME ReadEnd PROVE Goal'
  <2>1. cur \in Session /\ script[cur] = "ended" /\ st[cur] = "live"
    BY <1>i, <1>8 DEF ReadEnd, TypeOK, Place
  <2>2. taken[cur] = OutLen[cur]
    <3>1. made[cur] - taken[cur] = 0  BY <1>8 DEF ReadEnd, InPipe
    <3>2. made[cur] \in Nat /\ taken[cur] \in Nat  BY <1>i, <2>1 DEF TypeOK
    <3> QED BY <1>i, <2>1, <3>1, <3>2 DEF AllPrinted
  <2>3. \A s \in Session : st'[s] = IF s = cur THEN "closed" ELSE st[s]
    BY <1>i, <1>8 DEF ReadEnd, TypeOK
  <2>4. UNCHANGED <<taken, made, script, inbox, peer>> /\ pc' = "pass"
    BY <1>8 DEF ReadEnd, scriptVars, clientVars
  <2> QED BY <1>i, <2>1, <2>2, <2>3, <2>4 DEF AllPrinted, Quiet, EndOf
<1>9. ASSUME Write PROVE Goal'
  <2>1. cur \in Session /\ pc = "send" /\ taken[cur] > 0
    BY <1>i, <1>9 DEF Write, Put, TypeOK, Quiet
  <2>2. UNCHANGED <<taken, made, script, peer, st>>  BY <1>9 DEF Write, Put, scriptVars
  <2>3. pc' = "send" => cur' = cur  BY <1>9 DEF Write, Loop
  <2>4. \A s \in Session : s # cur => inbox'[s] = inbox[s]
    BY <1>i, <1>9 DEF Write, Put, TypeOK
  <2>5. Quiet'  BY <1>i, <2>1, <2>2, <2>3, <2>4 DEF Quiet
  <2> QED BY <1>i, <2>2, <2>5 DEF AllPrinted, EndOf
<1>10. ASSUME WriteNone \/ WriteFails PROVE Goal'
  <2>1. cur \in Session /\ pc = "send"  BY <1>i, <1>10 DEF WriteNone, WriteFails, TypeOK
  <2>2. /\ UNCHANGED <<taken, made, script, inbox, peer, st>>
        /\ pc' = "send" => cur' = cur
    BY <1>10 DEF WriteNone, WriteFails, Loop, scriptVars, clientVars
  <2> QED BY <2>1, <2>2, OutputStill
<1>11. ASSUME NEW s \in Session, Emit(s) PROVE Goal'
  BY <1>i, <1>11 DEF Emit, Running, TypeOK, clientVars, AllPrinted, Quiet, EndOf
<1>12. ASSUME NEW s \in Session, Exit(s) PROVE Goal'
  BY <1>i, <1>12 DEF Exit, Running, TypeOK, clientVars, AllPrinted, Quiet, EndOf
<1>13. ASSUME NEW s \in Session, Leave(s) PROVE Goal'
  <2>1. \A q \in Session : script[q] = "ended" <=> script'[q] = "ended"
    BY <1>i, <1>13 DEF Leave, TypeOK
  <2> QED BY <1>13, <2>1, OutputStill DEF Leave, clientVars
<1>14. ASSUME NEW s \in Session, Drain(s) \/ Go(s) PROVE Goal'
  <2>1. \A q \in Session : peer[q] = "gone" => peer'[q] = "gone"
    BY <1>i, <1>14 DEF Drain, Go, TypeOK
  <2> QED BY <1>14, <2>1, OutputStill DEF Drain, Go, scriptVars
<1>15. ASSUME UNCHANGED vars PROVE Goal'
  BY <1>i, <1>15 DEF vars, scriptVars, clientVars, AllPrinted, Quiet, EndOf
<1> QED BY <1>t, <1>1, <1>2, <1>3, <1>4, <1>5, <1>6, <1>7, <1>8, <1>9, <1>10,
           <1>11, <1>12, <1>13, <1>14, <1>15 DEF Next, Child, Outside, Output

\* close_connection() (serv.c:301-302) and what leads to it, serv.c:359-371,
\* 419-441, 525-529: no session is closed under a client that is there before
\* its script has ended and all of its output is handed over but what the loop
\* left, and what is closed otherwise has sent nothing.
THEOREM ClosedAtEndAlways == Spec => []ClosedAtEnd
<1>1. Output => ClosedAtEnd
  <2> SUFFICES ASSUME Output, NEW s \in Session, st[s] = "closed"
               PROVE  \/ /\ s \notin Posted
                         /\ script[s] = "ended"
                         /\ 1 .. OutLen[s] \subseteq lost[s] \union Bytes(inbox[s])
                      \/ peer[s] = "gone" /\ inbox[s] = <<>>
    BY DEF ClosedAtEnd
  <2>1. TypeOK /\ Place /\ EndOf(s) /\ Quiet /\ KeptOf(s)
    BY OfEach DEF Output, Stream, Table
  <2>2. CASE s \notin Posted /\ script[s] = "ended" /\ taken[s] = OutLen[s]
    <3>1. Pending(s) = 0 /\ taken[s] \in Nat  BY <2>1 DEF Pending, Place, TypeOK
    <3>2. Handled(s) = 1 .. OutLen[s]  BY <2>2, <3>1 DEF Handled
    <3> QED BY <2>1, <2>2, <3>2 DEF KeptOf
  <2>3. CASE peer[s] = "gone" /\ taken[s] = 0  BY <2>1, <2>3 DEF Quiet
  <2> QED BY <2>1, <2>2, <2>3 DEF EndOf
<1> QED BY OutputInit, OutputStep, <1>1, PTL DEF Spec
=============================================================================
