------------------------ MODULE WorkerServiceProofs -------------------------
(***************************************************************************)
(* The passes of Worker over its table: the order of a connection's states *)
(* and that its page, once made, is the one it is answered with            *)
(* (RequestOrder), that select()'s answer holds until the slot is reached  *)
(* (ReadyIsReadable), and the counters (Bookkeeping).                      *)
(***************************************************************************)
EXTENDS WorkerService, WorkerProofs, FiniteSetTheorems

\* From connection k to connection l in one step.
Ordered(k, l) ==
    /\ l.rxstat \in RxNext[k.rxstat]
    /\ k.page # "none" => l.page = k.page
    /\ k.wxstat \in {"ERROR", "DONE"} => l.wxstat = k.wxstat

Order == \A i \in Slot : SameConnection(i) => Ordered(conn[i], conn'[i])

\* No slot is taken or freed.
SocketsKept == \A i \in Slot : conn'[i].socket = conn[i].socket

\* A page made before the request is complete is that of a POST, whose session
\* reads its body: it is never asked for a page again.
PagedOK(k) == k.page # "none" /\ k.rxstat \in {"NONE", "PRCS"} => k.hs = "BODY"

PagedInv == \A i \in Slot : Live(i) => PagedOK(conn[i])

LEMMA PagedInit == Init => PagedInv
  BY DEF Init, PagedInv, Live, Unallocated

LEMMA RxNextOf ==
    /\ \A r \in RxStat : r \in RxNext[r]
    /\ RxNext["NONE"] = {"NONE", "PRCS", "ERROR", "DONE"}
    /\ RxNext["PRCS"] = {"PRCS", "ERROR", "TIMEOUT", "DONE"}
  BY DEF RxNext, RxStat

\* A step that changes the table in one slot.
LEMMA OneChanged ==
    ASSUME CoreInv, PagedInv, NEW i \in Slot, NEW l,
           conn' = [conn EXCEPT ![i] = l],
           l.socket # NoSock => PagedOK(l),
           Live(i) /\ l.socket = conn[i].socket => Ordered(conn[i], l)
    PROVE  /\ PagedInv' /\ Order
           /\ l.socket = conn[i].socket => SocketsKept
<1>1. conn'[i] = l /\ \A j \in Slot \ {i} : conn'[j] = conn[j]
  BY DEF CoreInv, TypeOK
<1>2. ASSUME NEW j \in Slot
      PROVE  /\ Live(j)' => PagedOK(conn'[j])
             /\ SameConnection(j) => Ordered(conn[j], conn'[j])
  <2>1. CASE j = i
    BY <1>1, <2>1 DEF Live, SameConnection
  <2>2. CASE j # i
    <3>1. conn'[j] = conn[j] /\ conn[j].rxstat \in RxStat
      BY <1>1, <2>2 DEF CoreInv, TypeOK, ConnType
    <3>2. QED
      BY <3>1, RxNextOf DEF PagedInv, Live, Ordered
  <2>3. QED
    BY <2>1, <2>2
<1>3. PagedInv'
  BY <1>2 DEF PagedInv, PagedOK
<1>4. QED
  BY <1>1, <1>2, <1>3 DEF Order, SocketsKept

LEMMA NoneChanged ==
    ASSUME CoreInv, PagedInv, conn' = conn
    PROVE  PagedInv' /\ Order /\ SocketsKept
<1>1. \A i \in Slot : conn[i].rxstat \in RxStat
  BY DEF CoreInv, TypeOK, ConnType
<1>2. QED
  BY <1>1, RxNextOf DEF PagedInv, PagedOK, Live, Order, Ordered, SocketsKept

-----------------------------------------------------------------------------
LEMMA OrderAccept ==
    ASSUME CoreInv, PagedInv, Select \/ AcceptNext
    PROVE  PagedInv' /\ Order
<1>1. CASE Select
  <2>1. PICK d \in {0, 1} : conn' = [i \in Slot |-> Aged(conn[i], d)]
    BY <1>1 DEF Select
  <2>2. ASSUME NEW i \in Slot
        PROVE  /\ conn[i].rxstat \in RxStat /\ conn'[i].socket = conn[i].socket
               /\ conn'[i].page = conn[i].page /\ conn'[i].hs = conn[i].hs
               /\ conn'[i].rxstat = conn[i].rxstat
               /\ conn'[i].wxstat = conn[i].wxstat
    BY <2>1, AgedType DEF CoreInv, TypeOK, ConnType
  <2>3. QED
    BY <2>2, RxNextOf DEF PagedInv, PagedOK, Live, Order, Ordered
<1>2. ASSUME NEW c \in Client, Accept(c)
      PROVE  PagedInv' /\ Order
  <2>1. FirstFree \in Slot /\ ~Live(FirstFree)
    BY <1>2, FirstFreeIsFirst DEF Accept, FreeSlots
  <2>2. PagedOK(Opened(c))
    BY DEF Opened, Unallocated, PagedOK
  <2>3. conn' = [conn EXCEPT ![FirstFree] = Opened(c)]
    BY <1>2 DEF Accept
  <2>4. QED
    BY <2>1, <2>2, <2>3, OneChanged
<1>3. ASSUME NEW c \in Client, AcceptFails(c)
      PROVE  PagedInv' /\ Order
  <2> DEFINE l == [Opened(c) EXCEPT !.socket = NoSock, !.hs = "DONE"]
  <2>1. FirstFree \in Slot /\ ~Live(FirstFree)
    BY <1>3, FirstFreeIsFirst DEF AcceptFails, FreeSlots
  <2>2. l.socket = NoSock
    BY DEF Opened, Unallocated
  <2>3. conn' = [conn EXCEPT ![FirstFree] = l]
    BY <1>3 DEF AcceptFails
  <2> HIDE DEF l
  <2>4. QED
    BY <2>1, <2>2, <2>3, OneChanged
<1>4. ASSUME NEW c \in Client, AcceptDrop(c)
      PROVE  PagedInv' /\ Order
  BY <1>4, NoneChanged DEF AcceptDrop
<1>5. QED
  BY <1>1, <1>2, <1>3, <1>4 DEF AcceptNext

\* What http_session_process() leaves behind, for a connection being read.
LEMMA OrderRead ==
    ASSUME CoreInv, TableInv, PagedInv, NEW rd \in {0, 1}, Read(rd),
           NEW rx \in {"PRCS", "DONE"}
    PROVE  LET p == Process(me, rd)
               k == Received(p, rx)
           IN  /\ cur \in Slot /\ me = conn[cur] /\ k \in ConnType
               /\ me.rxstat \in {"NONE", "PRCS"} /\ k.rxstat = rx
               /\ k.page = me.page /\ k.wxstat = me.wxstat /\ k.hs = p.hs
               /\ k.socket = me.socket
               /\ p.ctl # "NO" => me.page = "none"
               /\ p.ctl = "NO" /\ me.page # "none" => p.hs = "BODY"
               /\ p.ctl = "READ_BODY" => p.hs = "BODY"
<1>1. Scanning /\ Live(cur) /\ me.rxstat \in {"NONE", "PRCS"}
  BY DEF Read, Reading
<1>2. cur \in Slot /\ me = conn[cur] /\ me \in ConnType
  BY <1>1, HandlerTable
<1> DEFINE p == Process(me, rd)
           k == Received(p, rx)
<1>3. /\ k \in ConnType /\ k.rxstat = rx /\ k.page = me.page
      /\ k.wxstat = me.wxstat /\ k.socket = me.socket
  BY <1>1, ReceivedFields DEF CoreInv, RxStat
<1>4. k.hs = p.hs
  BY <1>2 DEF Received, ConnType
<1>5. me.page # "none" => me.hs = "BODY"
  BY <1>1, <1>2 DEF PagedInv, PagedOK
<1>6. me.hs = "BODY" => p = Result("BODY", me.slen, "NO", FALSE, FALSE)
  BY Zenon DEF Process
<1>7. p.ctl = "READ_BODY" => p.hs = "BODY"
  <2> DEFINE n == me.slen + rd
  <2>1. me.hs \in {"INIT", "BODY", "DONE"} /\ me.slen + rd \in Nat /\ HeadMax \in Nat
    BY <1>2, BoundAssumption DEF ConnType
  <2>2. CASE me.hs = "DONE"
    BY <2>2 DEF Process, Result
  <2>3. CASE me.hs = "BODY"
    BY <1>6, <2>3 DEF Result
  <2>4. CASE me.hs = "INIT" /\ rd = 0
    <3>1. me.hs # "DONE" /\ me.hs # "BODY" /\ ~(rd > 0)
      BY <2>4
    <3>2. p = Result("INIT", me.slen, "PAGE_READY", TRUE, TRUE)
      BY <2>4, <3>1, Zenon DEF Process
    <3>3. QED
      BY <3>2 DEF Result
  <2>5. CASE me.hs = "INIT" /\ rd = 1
    <3>1. rd # 0 /\ rd > 0 /\ me.hs # "DONE" /\ me.hs # "BODY"
      BY <2>5
    <3>2. n < HeadMax => ~(n > HeadMax)
      BY <2>1
    <3>3. CASE n >= req[me.socket].head /\ n < HeadMax
      <4>1. p = HeadProcess(req[me.socket], n)
        BY <2>5, <3>1, <3>2, <3>3, Zenon DEF Process
      <4>2. QED
        BY <4>1 DEF HeadProcess, Result
    <3>4. CASE n > HeadMax
      <4>1. p = Result("DONE", n, "PAGE_READY", TRUE, TRUE)
        BY <2>5, <3>1, <3>2, <3>4, Zenon DEF Process
      <4>2. QED
        BY <4>1 DEF Result
    <3>5. CASE ~(n >= req[me.socket].head /\ n < HeadMax) /\ ~(n > HeadMax)
      <4>1. p = Result("INIT", n, "NO", FALSE, FALSE)
        BY <2>5, <3>1, <3>5, Zenon DEF Process
      <4>2. QED
        BY <4>1 DEF Result
    <3>6. QED
      BY <3>3, <3>4, <3>5
  <2>6. QED
    BY <2>1, <2>2, <2>3, <2>4, <2>5
<1>8. p.ctl # "NO" => me.page = "none"
  BY <1>5, <1>6 DEF Result
<1>9. p.ctl = "NO" /\ me.page # "none" => p.hs = "BODY"
  BY <1>5, <1>6 DEF Result
<1>10. QED
  BY <1>1, <1>2, <1>3, <1>4, <1>7, <1>8, <1>9

LEMMA OrderReceivePage ==
    ASSUME CoreInv, TableInv, PagedInv, ReceivePage
    PROVE  PagedInv' /\ Order /\ SocketsKept
<1>1. PICK rd \in {0, 1} :
        /\ Read(rd)
        /\ Process(me, rd).ctl = "PAGE_READY"
        /\ \E g \in GenPage(Process(me, rd), req[me.socket]) :
              \/ conn' = [conn EXCEPT ![cur] = Received(Process(me, rd), "DONE")]
              \/ conn' = [conn EXCEPT ![cur] =
                            [Received(Process(me, rd), "DONE") EXCEPT
                               !.page = g, !.out = req[me.socket].out]]
  BY DEF ReceivePage
<1> DEFINE k == Received(Process(me, rd), "DONE")
<1>2. /\ cur \in Slot /\ me = conn[cur] /\ k \in ConnType
      /\ me.rxstat \in {"NONE", "PRCS"} /\ k.rxstat = "DONE"
      /\ k.page = me.page /\ k.wxstat = me.wxstat /\ me.page = "none"
      /\ k.socket = me.socket
  BY <1>1, OrderRead
<1>3. PICK g : \/ conn' = [conn EXCEPT ![cur] = k]
               \/ conn' = [conn EXCEPT ![cur] =
                             [k EXCEPT !.page = g, !.out = req[me.socket].out]]
  BY <1>1
<1> HIDE DEF k
<1>4. CASE conn' = [conn EXCEPT ![cur] = k]
  <2>1. PagedOK(k) /\ Ordered(conn[cur], k) /\ k.socket = conn[cur].socket
    BY <1>2, RxNextOf DEF PagedOK, Ordered
  <2>2. QED
    BY <1>2, <1>4, <2>1, OneChanged
<1>5. CASE conn' = [conn EXCEPT ![cur] =
                      [k EXCEPT !.page = g, !.out = req[me.socket].out]]
  <2> DEFINE l == [k EXCEPT !.page = g, !.out = req[me.socket].out]
  <2>1. l.rxstat = "DONE" /\ l.wxstat = me.wxstat /\ l.socket = me.socket
    BY <1>2 DEF ConnType
  <2> HIDE DEF l
  <2>2. PagedOK(l) /\ Ordered(conn[cur], l) /\ l.socket = conn[cur].socket
    BY <1>2, <2>1, RxNextOf DEF PagedOK, Ordered
  <2>3. conn' = [conn EXCEPT ![cur] = l]
    BY <1>5 DEF l
  <2>4. QED
    BY <1>2, <2>2, <2>3, OneChanged
<1>6. QED
  BY <1>3, <1>4, <1>5

LEMMA OrderReceiveBody ==
    ASSUME CoreInv, TableInv, PagedInv, ReceiveBody
    PROVE  PagedInv' /\ Order /\ SocketsKept
<1>1. PICK rd \in {0, 1} :
        /\ Read(rd)
        /\ Process(me, rd).ctl = "READ_BODY"
        /\ \E g \in GenPage(Process(me, rd), req[me.socket]) :
              BodyStep(Process(me, rd), g)
  BY DEF ReceiveBody
<1>2. PICK g : conn' = Posted(Process(me, rd), g)
  BY <1>1 DEF BodyStep
<1> DEFINE k == Received(Process(me, rd), "PRCS")
           l == [k EXCEPT !.page = IF g \in CrashPc THEN "none" ELSE g,
                          !.out = req[me.socket].out]
<1>3. /\ cur \in Slot /\ me = conn[cur] /\ k \in ConnType
      /\ me.rxstat \in {"NONE", "PRCS"} /\ k.rxstat = "PRCS"
      /\ k.wxstat = me.wxstat /\ me.page = "none" /\ k.hs = "BODY"
      /\ k.socket = me.socket
  BY <1>1, OrderRead
<1>4. conn' = [conn EXCEPT ![cur] = l]
  BY <1>2 DEF Posted
<1> HIDE DEF k
<1>5. l.rxstat = "PRCS" /\ l.wxstat = me.wxstat /\ l.hs = "BODY"
      /\ l.socket = me.socket
  BY <1>3 DEF ConnType
<1> HIDE DEF l
<1>6. PagedOK(l) /\ Ordered(conn[cur], l) /\ l.socket = conn[cur].socket
  BY <1>3, <1>5, RxNextOf DEF PagedOK, Ordered
<1>7. QED
  BY <1>3, <1>4, <1>6, OneChanged

LEMMA OrderReceive ==
    ASSUME CoreInv, TableInv, PagedInv, Scan
    PROVE  PagedInv' /\ Order /\ SocketsKept
<1>1. CASE ScanEnd \/ ScanFree
  BY <1>1, NoneChanged DEF ScanEnd, ScanFree
<1>2. CASE ReceiveIdle \/ ReceiveIgnored
  <2>1. /\ cur \in Slot /\ Live(cur) /\ me = conn[cur] /\ me \in ConnType
        /\ PagedOK(me) /\ me.rxstat \in RxStat
    BY <1>2, HandlerTable DEF ReceiveIdle, ReceiveIgnored, PagedInv, ConnType
  <2>2. CASE conn' = conn
    BY <2>2, NoneChanged
  <2>3. CASE me.rxstat = "PRCS" /\ conn' = [conn EXCEPT ![cur].rxstat = "TIMEOUT"]
    <3> DEFINE l == [me EXCEPT !.rxstat = "TIMEOUT"]
    <3>1. /\ l.rxstat = "TIMEOUT" /\ l.page = me.page /\ l.wxstat = me.wxstat
          /\ l.socket = me.socket
      BY <2>1 DEF ConnType
    <3>2. conn' = [conn EXCEPT ![cur] = l]
      BY <2>1, <2>3
    <3> HIDE DEF l
    <3>3. PagedOK(l) /\ Ordered(conn[cur], l) /\ l.socket = conn[cur].socket
      BY <2>1, <2>3, <3>1, RxNextOf DEF PagedOK, Ordered
    <3>4. QED
      BY <2>1, <3>2, <3>3, OneChanged
  <2>4. CASE conn' = [conn EXCEPT ![cur].age = 0]
    <3> DEFINE l == [me EXCEPT !.age = 0]
    <3>1. /\ l.rxstat = me.rxstat /\ l.page = me.page /\ l.wxstat = me.wxstat
          /\ l.hs = me.hs /\ l.socket = me.socket
      BY <2>1 DEF ConnType
    <3>2. conn' = [conn EXCEPT ![cur] = l]
      BY <2>1, <2>4
    <3> HIDE DEF l
    <3>3. PagedOK(l) /\ Ordered(conn[cur], l) /\ l.socket = conn[cur].socket
      BY <2>1, <3>1, RxNextOf DEF PagedOK, Ordered
    <3>4. QED
      BY <2>1, <3>2, <3>3, OneChanged
  <2>5. QED
    BY <1>2, <2>2, <2>3, <2>4 DEF ReceiveIdle, ReceiveIgnored
<1>3. CASE ReceiveError
  <2>1. /\ cur \in Slot /\ me = conn[cur] /\ me \in ConnType
        /\ me.rxstat \in {"NONE", "PRCS"} /\ AnswerOK(me, peer[me.socket])
        /\ peer[me.socket] = "rst"
    BY <1>3, HandlerTable DEF ReceiveError, Reading
  <2> DEFINE l == [me EXCEPT !.age = 0, !.rxstat = "ERROR", !.wxstat = "ERROR"]
  <2>2. l.rxstat = "ERROR" /\ l.page = me.page /\ l.socket = me.socket
    BY <2>1 DEF ConnType
  <2>3. conn' = [conn EXCEPT ![cur] = l]
    BY <1>3 DEF ReceiveError
  <2>4. me.wxstat \notin {"ERROR", "DONE"}
    BY <2>1 DEF AnswerOK
  <2> HIDE DEF l
  <2>5. PagedOK(l) /\ Ordered(conn[cur], l) /\ l.socket = conn[cur].socket
    BY <2>1, <2>2, <2>4, RxNextOf DEF PagedOK, Ordered
  <2>6. QED
    BY <2>1, <2>3, <2>5, OneChanged
<1>4. CASE ReceiveMore
  <2>1. PICK rd \in {0, 1} :
          /\ Read(rd) /\ Process(me, rd).ctl = "NO"
          /\ conn' = [conn EXCEPT ![cur] = Received(Process(me, rd), "PRCS")]
    BY <1>4 DEF ReceiveMore
  <2> DEFINE l == Received(Process(me, rd), "PRCS")
  <2>2. /\ cur \in Slot /\ me = conn[cur] /\ me.rxstat \in {"NONE", "PRCS"}
        /\ l.rxstat = "PRCS" /\ l.page = me.page /\ l.wxstat = me.wxstat
        /\ l.socket = me.socket
        /\ me.page # "none" => l.hs = "BODY"
    BY <2>1, OrderRead
  <2>3. conn' = [conn EXCEPT ![cur] = l]
    BY <2>1
  <2> HIDE DEF l
  <2>4. PagedOK(l) /\ Ordered(conn[cur], l) /\ l.socket = conn[cur].socket
    BY <2>2, RxNextOf DEF PagedOK, Ordered
  <2>5. QED
    BY <2>2, <2>3, <2>4, OneChanged
<1>5. CASE ReceivePage
  BY <1>5, OrderReceivePage
<1>6. CASE ReceiveBody
  BY <1>6, OrderReceiveBody
<1>7. QED
  BY <1>1, <1>2, <1>3, <1>4, <1>5, <1>6 DEF Scan

-----------------------------------------------------------------------------
\* write_connection() works on a request that is complete and answers it with
\* the page it has.
LEMMA OrderWrite ==
    ASSUME CoreInv, TableInv, PagedInv, Responding,
           NEW l, conn' = [conn EXCEPT ![cur] = l],
           l.rxstat = me.rxstat, l.page = me.page, l.socket = me.socket
    PROVE  PagedInv' /\ Order /\ SocketsKept
<1>1. cur \in Slot /\ me = conn[cur]
  BY HandlerTable DEF Responding
<1>2. PagedOK(l) /\ Ordered(conn[cur], l) /\ l.socket = conn[cur].socket
  BY <1>1, RxNextOf DEF PagedOK, Ordered, Responding, RxStat
<1>3. QED
  BY <1>1, <1>2, OneChanged

LEMMA OrderRespond ==
    ASSUME CoreInv, TableInv, PagedInv, Respond
    PROVE  PagedInv' /\ Order /\ SocketsKept
<1>1. CASE RespondSkip \/ Flush
  BY <1>1, NoneChanged DEF RespondSkip, Flush
<1>2. BodyBranch => /\ Responding /\ Sending \in ConnType
                    /\ Sending.rxstat = me.rxstat /\ Sending.page = me.page
                    /\ Sending.socket = me.socket
  <2>1. BodyBranch => Responding /\ pc = "respond"
    BY DEF BodyBranch, Responding
  <2>2. pc = "respond" => me \in ConnType /\ Sending \in ConnType
    BY HandlerSlot, SendingType
  <2>3. QED
    BY <2>1, <2>2 DEF Sending, ConnType
<1>3. CASE RespondBody
  <2> DEFINE res == SmallerOf(Sending.data_len, win[me.socket])
             l   == [Sending EXCEPT !.data_len = @ - res]
  <2>1. BodyBranch /\ conn' = [conn EXCEPT ![cur] = l]
    BY <1>3 DEF RespondBody
  <2>2. l.rxstat = me.rxstat /\ l.page = me.page /\ l.socket = me.socket
    <3> HIDE DEF res
    <3>1. QED
      BY <1>2, <2>1 DEF ConnType
  <2> HIDE DEF l, res
  <2>3. QED
    BY <1>2, <2>1, <2>2, OrderWrite
<1>4. CASE RespondLater
  <2>1. BodyBranch /\ conn' = [conn EXCEPT ![cur] = Sending]
    BY <1>4 DEF RespondLater
  <2>2. QED
    BY <1>2, <2>1, OrderWrite
<1>5. CASE RespondBroken
  <2> DEFINE l == [Sending EXCEPT !.wxstat = "ERROR"]
  <2>1. BodyBranch /\ conn' = [conn EXCEPT ![cur] = l]
    BY <1>5 DEF RespondBroken
  <2>2. l.rxstat = me.rxstat /\ l.page = me.page /\ l.socket = me.socket
    BY <1>2, <2>1 DEF ConnType
  <2> HIDE DEF l
  <2>3. QED
    BY <1>2, <2>1, <2>2, OrderWrite
<1>6. CASE RespondDone \/ RespondFile \/ RespondModula \/ RespondModulaDone
  <2>1. Responding
    BY <1>6 DEF RespondDone, RespondFile, RespondModula, RespondModulaDone, PageSent
  <2>2. me \in ConnType /\ me = conn[cur] /\ cur \in Slot
    BY <2>1, HandlerTable DEF Responding
  <2> DEFINE Sent(w, h, o) == [me EXCEPT !.wxstat = w, !.hb = h, !.out = o]
  <2>3. PICK w, h, o : conn' = [conn EXCEPT ![cur] = Sent(w, h, o)]
    <3>1. CASE RespondDone
      <4>1. conn' = [conn EXCEPT ![cur] = Sent("DONE", me.hb, me.out)]
        BY <2>2, <3>1 DEF RespondDone, ConnType, CoreInv, TypeOK
      <4>2. QED
        BY <4>1
    <3>2. CASE RespondFile
      <4>1. conn' = [conn EXCEPT ![cur] = Sent("PRCS", me.hb, me.out)]
        BY <2>2, <3>2 DEF RespondFile, ConnType, CoreInv, TypeOK
      <4>2. QED
        BY <4>1
    <3>3. CASE RespondModula
      <4>1. conn' = [conn EXCEPT ![cur] = Sent("PRCS", "MODULA", me.out - 1)]
        BY <3>3 DEF RespondModula
      <4>2. QED
        BY <4>1
    <3>4. CASE RespondModulaDone
      <4>1. conn' = [conn EXCEPT ![cur] = Sent("DONE", "DONE", me.out)]
        BY <2>2, <3>4 DEF RespondModulaDone, ConnType
      <4>2. QED
        BY <4>1
    <3>5. QED
      BY <1>6, <3>1, <3>2, <3>3, <3>4
  <2> DEFINE l == Sent(w, h, o)
  <2>4. l.rxstat = me.rxstat /\ l.page = me.page /\ l.socket = me.socket
    BY <2>2 DEF ConnType
  <2> HIDE DEF l
  <2>5. conn' = [conn EXCEPT ![cur] = l]
    BY <2>3 DEF l
  <2>6. QED
    BY <2>1, <2>4, <2>5, OrderWrite
<1>7. QED
  BY <1>1, <1>3, <1>4, <1>5, <1>6 DEF Respond

LEMMA OrderReap ==
    ASSUME CoreInv, TableInv, PagedInv, Reap
    PROVE  PagedInv' /\ Order
<1>1. CASE ReapSkip
  BY <1>1, NoneChanged DEF ReapSkip
<1>2. CASE ReapClose
  <2>1. cur \in Slot /\ Live(cur) /\ me = conn[cur] /\ me \in ConnType
    BY <1>2, HandlerTable DEF ReapClose
  <2> DEFINE l == Freed(me)
  <2>2. l.socket = NoSock
    BY <2>1 DEF Freed, ConnType
  <2>3. conn' = [conn EXCEPT ![cur] = l]
    BY <1>2 DEF ReapClose
  <2> HIDE DEF l
  <2>4. QED
    BY <2>1, <2>2, <2>3, OneChanged DEF Live
<1>3. QED
  BY <1>1, <1>2 DEF Reap

LEMMA OrderStep ==
    CoreInv /\ TableInv /\ PagedInv /\ [Next]_vars => PagedInv' /\ Order
<1> SUFFICES ASSUME CoreInv, TableInv, PagedInv, [Next]_vars
             PROVE  PagedInv' /\ Order
  OBVIOUS
<1>1. CASE Child
  BY <1>1, OrderAccept, OrderReceive, OrderRespond, OrderReap DEF Child
<1>2. CASE Environment
  <2>1. conn' = conn
    BY <1>2, EnvironmentKeeps DEF Environment, TableInv
  <2>2. QED
    BY <2>1, NoneChanged
<1>3. CASE UNCHANGED vars
  BY <1>3, NoneChanged DEF vars
<1>4. QED
  BY <1>1, <1>2, <1>3 DEF Next

-----------------------------------------------------------------------------
(***************************************************************************)
(* What select() said, and the counters.                                   *)
(***************************************************************************)

\* What was readable at select() still is, in the slots the pass has to come
\* to; the slot that accept() fills is not in trdset.
ReadyInv ==
    /\ pc = "accept" => /\ trdset \subseteq fdrdset
                        /\ \A c \in trdset : Readable(c)
    /\ pc \in {"receive", "respond", "flush", "reap"} =>
         \A i \in Slot :
            Live(i) /\ conn[i].socket \in trdset
                /\ (i > cur \/ (i = cur /\ pc = "receive"))
            => Readable(conn[i].socket)

PassInv == ReadyInv /\ Bookkeeping

LEMMA LiveFinite == IsFiniteSet(LiveSlots) /\ Cardinality(LiveSlots) \in Nat
<1>1. IsFiniteSet(Slot)
  BY MaxConnAssumption, FS_Interval DEF Slot
<1>2. IsFiniteSet(LiveSlots)
  BY <1>1, FS_Subset DEF LiveSlots
<1>3. QED
  BY <1>2, FS_CardinalityType

LEMMA PassInit == Init => PassInv
<1> SUFFICES ASSUME Init PROVE PassInv
  OBVIOUS
<1>1. LiveSlots = {}
  BY DEF Init, LiveSlots, Live, Unallocated
<1>2. Cardinality(LiveSlots) = 0
  BY <1>1, FS_EmptySet
<1>3. QED
  BY <1>2 DEF Init, PassInv, ReadyInv, Bookkeeping

\* Nothing that a client does makes a descriptor unreadable again.
LEMMA PassEnvironment ==
    ASSUME CoreInv, TableInv, PassInv, NEW c \in Client,
           Connect(c) \/ Send(c) \/ Shut(c) \/ Reset(c) \/ Drain(c) \/ Steal(c)
    PROVE  PassInv'
<1>1. /\ UNCHANGED <<pc, cur, conn, fdrdset, trdset, loadVars>>
      /\ \A d \in Client : Readable(d) /\ d \notin backlog => Readable(d)'
  <2> USE DEF CoreInv, TypeOK, Readable, envUnchanged
  <2>1. CASE Connect(c)
    BY <2>1 DEF Connect
  <2>2. CASE Send(c)
    BY <2>2 DEF Send
  <2>3. CASE Shut(c)
    BY <2>3 DEF Shut
  <2>4. CASE Reset(c)
    BY <2>4 DEF Reset
  <2>5. CASE Drain(c)
    BY <2>5 DEF Drain
  <2>6. CASE Steal(c)
    BY <2>6 DEF Steal, Closed
  <2>7. QED
    BY <2>1, <2>2, <2>3, <2>4, <2>5, <2>6
<1>2. \A i \in Slot : Live(i) => conn[i].socket \in Client \ backlog
  BY LiveClient DEF TableInv, OwnerInv
<1>3. fdrdset \subseteq Client \ backlog
  BY NoSockAssumption DEF CoreInv, TypeOK, TableInv, OwnerInv, WatchInv, Live
<1>4. ReadyInv'
  BY <1>1, <1>2, <1>3 DEF PassInv, ReadyInv, Live
<1>5. LiveSlots' = LiveSlots
  BY <1>1 DEF LiveSlots, Live
<1>6. Bookkeeping'
  BY <1>1, <1>5 DEF PassInv, Bookkeeping, loadVars
<1>7. QED
  BY <1>4, <1>6 DEF PassInv

LEMMA PassSelect ==
    ASSUME CoreInv, TableInv, PassInv, Select
    PROVE  PassInv'
<1>1. PICK d \in {0, 1} : conn' = [i \in Slot |-> Aged(conn[i], d)]
  BY DEF Select
<1>2. \A i \in Slot : conn'[i].socket = conn[i].socket
  BY <1>1, AgedType DEF CoreInv, TypeOK, ConnType
<1>3. LiveSlots' = LiveSlots
  BY <1>2 DEF LiveSlots, Live
<1>4. \A c \in trdset' : c \in fdrdset' /\ Readable(c)'
  BY DEF Select, Readable, netVars
<1>5. ReadyInv'
  BY <1>4 DEF ReadyInv
<1>6. Bookkeeping'
  <2>1. total_conn \in Nat /\ curr_conn \in Int /\ lost \in Nat
    BY DEF CoreInv, TypeOK
  <2>2. CASE backlog = {}
    BY <1>3, <2>2 DEF Select, PassInv, Bookkeeping, loadVars
  <2>3. CASE backlog # {}
    BY <1>3, <2>1, <2>3, LiveFinite DEF Select, PassInv, Bookkeeping, Counted
  <2>4. QED
    BY <2>2, <2>3
<1>7. QED
  BY <1>5, <1>6 DEF PassInv

\* new_connection() adds the slot it counted, or the call to those lost.
LEMMA PassAccept ==
    ASSUME CoreInv, TableInv, PassInv,
           NEW c \in Client, Accept(c) \/ AcceptFails(c) \/ AcceptDrop(c)
    PROVE  PassInv'
<1>1. /\ pc = "accept" /\ pc' = "receive" /\ c \in backlog
      /\ UNCHANGED <<cur, trdset, total_connections, curr_conn, total_conn>>
      /\ \A d \in Client \ {c} : Readable(d)' = Readable(d)
  BY DEF Accept, AcceptFails, AcceptDrop, loadVars, Readable, Closed, CoreInv, TypeOK
<1>2. trdset \subseteq Client \ {c} /\ \A d \in trdset : Readable(d)
  <2>1. fdrdset \subseteq Client \ backlog
    BY NoSockAssumption DEF CoreInv, TypeOK, TableInv, OwnerInv, WatchInv, Live
  <2>2. QED
    BY <1>1, <2>1 DEF PassInv, ReadyInv
<1>3. ReadyInv'
  BY <1>1, <1>2 DEF ReadyInv
<1>4. \/ lost' = lost /\ Cardinality(LiveSlots') = Cardinality(LiveSlots) + 1
      \/ lost' = lost + 1 /\ LiveSlots' = LiveSlots
  <2>1. CASE Accept(c)
    <3>1. FirstFree \in Slot /\ FirstFree \notin LiveSlots
      BY <2>1, FirstFreeIsFirst DEF Accept, FreeSlots, LiveSlots
    <3>2. Opened(c).socket # NoSock
      BY NoSockAssumption DEF Opened, Unallocated
    <3>3. conn' = [conn EXCEPT ![FirstFree] = Opened(c)] /\ lost' = lost
      BY <2>1 DEF Accept, loadVars
    <3>4. LiveSlots' = LiveSlots \cup {FirstFree}
      BY <3>1, <3>2, <3>3 DEF LiveSlots, Live, CoreInv, TypeOK
    <3>5. QED
      BY <3>1, <3>3, <3>4, LiveFinite, FS_AddElement
  <2>2. CASE AcceptFails(c)
    <3> DEFINE l == [Opened(c) EXCEPT !.socket = NoSock, !.hs = "DONE"]
    <3>1. FirstFree \in Slot /\ FirstFree \notin LiveSlots
      BY <2>2, FirstFreeIsFirst DEF AcceptFails, FreeSlots, LiveSlots
    <3>2. l.socket = NoSock
      BY DEF Opened, Unallocated
    <3>3. conn' = [conn EXCEPT ![FirstFree] = l] /\ lost' = lost + 1
      BY <2>2 DEF AcceptFails
    <3> HIDE DEF l
    <3>4. LiveSlots' = LiveSlots
      BY <3>1, <3>2, <3>3 DEF LiveSlots, Live, CoreInv, TypeOK
    <3>5. QED
      BY <3>3, <3>4
  <2>3. CASE AcceptDrop(c)
    BY <2>3 DEF AcceptDrop, LiveSlots, Live
  <2>4. QED
    BY <2>1, <2>2, <2>3
<1>5. Bookkeeping'
  <2>1. curr_conn = Cardinality(LiveSlots) + lost + 1 /\ lost \in Nat
    BY <1>1 DEF PassInv, Bookkeeping, CoreInv, TypeOK
  <2>2. curr_conn' = Cardinality(LiveSlots') + lost' + 0
    BY <1>1, <1>4, <2>1, LiveFinite
  <2>3. QED
    BY <1>1, <2>2 DEF PassInv, Bookkeeping
<1>6. QED
  BY <1>3, <1>5 DEF PassInv

\* A handler works for its own slot and takes or frees none; only that slot's
\* socket can cease to be readable.
LEMMA PassHandler ==
    ASSUME CoreInv, TableInv, PassInv, SocketsKept, Scan \/ Respond
    PROVE  PassInv'
<1>1. /\ UNCHANGED <<trdset, loadVars>>
      /\ pc \in {"receive", "respond", "flush"} /\ pc' # "accept"
  BY DEF Scan, ScanEnd, ScanFree, ReceiveIdle, ReceiveIgnored, ReceiveError,
         ReceiveMore, ReceivePage, ReceiveBody, BodyStep, Read, Reading, Scanning,
         Respond, RespondSkip, RespondBody, RespondLater, RespondBroken,
         RespondDone, RespondFile, RespondModula, RespondModulaDone, Flush,
         BodyBranch, PageSent, Responding, GenPage, CrashPc
<1>2. LiveSlots' = LiveSlots /\ \A i \in Slot : Live(i)' = Live(i)
  BY DEF SocketsKept, LiveSlots, Live
<1>3. Bookkeeping'
  BY <1>1, <1>2 DEF PassInv, Bookkeeping, loadVars
<1>4. ASSUME ScanEnd PROVE ReadyInv'
  BY <1>4 DEF ScanEnd, ReadyInv
<1>5. ASSUME ScanFree PROVE ReadyInv'
  <2>1. cur \in Int /\ cur' = cur + 1 /\ pc = "receive" /\ pc' = "receive"
        /\ UNCHANGED <<conn, trdset, inq, peer>>
    BY <1>5 DEF ScanFree, Scanning, netVars, CoreInv, TypeOK
  <2>2. \A i \in Slot : i \in Int /\ (i > cur' \/ i = cur' => i > cur)
    BY <2>1 DEF Slot
  <2>3. QED
    BY <2>1, <2>2 DEF PassInv, ReadyInv, Live, Readable
<1>6. ASSUME ~ScanEnd, ~ScanFree
      PROVE  ReadyInv'
  <2>1. \/ pc \in {"respond", "flush", "reap"}
        \/ Scanning /\ Live(cur)
    BY <1>6 DEF Scan, ReceiveIdle, ReceiveIgnored, ReceiveError, ReceiveMore,
                ReceivePage, ReceiveBody, Read, Reading,
                Respond, RespondSkip, RespondBody, RespondLater, RespondBroken,
                RespondDone, RespondFile, RespondModula, RespondModulaDone, Flush,
                BodyBranch, PageSent, Responding
  <2>2. cur \in Slot /\ Live(cur) /\ me = conn[cur] /\ me.socket \in Client
    BY <2>1, HandlerTable
  <2>3. cur' = cur /\ pc' # "receive"
    BY <1>6 DEF Scan, ReceiveIdle, ReceiveIgnored, ReceiveError, ReceiveMore,
                ReceivePage, ReceiveBody, BodyStep, Read, GenPage, CrashPc,
                Respond, RespondSkip, RespondBody, RespondLater, RespondBroken,
                RespondDone, RespondFile, RespondModula, RespondModulaDone, Flush
  <2>4. \A d \in Client \ {me.socket} : inq'[d] = inq[d] /\ peer'[d] = peer[d]
    <3>1. CASE Scan
      BY <1>6, <2>2, <3>1
         DEF Scan, ReceiveIdle, ReceiveIgnored, ReceiveError, ReceiveMore,
             ReceivePage, ReceiveBody, Read, netVars, CoreInv, TypeOK
    <3>2. CASE Respond
      BY <2>2, <3>2
         DEF Respond, RespondSkip, RespondBody, RespondLater, RespondBroken,
             RespondDone, RespondFile, RespondModula, RespondModulaDone, Flush,
             netVars, CoreInv, TypeOK
    <3>3. QED
      BY <3>1, <3>2
  <2>5. ASSUME NEW i \in Slot, Live(i), conn[i].socket \in trdset, i > cur
        PROVE  Readable(conn[i].socket)'
    <3>1. Readable(conn[i].socket)
      BY <1>1, <2>5 DEF PassInv, ReadyInv
    <3>2. i # cur
      BY <2>2, <2>5 DEF Slot
    <3>3. conn[i].socket \in Client \ {me.socket}
      BY <2>2, <2>5, <3>2, LiveClient DEF TableInv, OwnerInv
    <3>4. conn'[i].socket = conn[i].socket
      BY DEF SocketsKept
    <3>5. QED
      BY <2>4, <3>1, <3>3, <3>4 DEF Readable
  <2>6. QED
    BY <1>1, <1>2, <2>3, <2>5 DEF ReadyInv, SocketsKept
<1>7. QED
  BY <1>3, <1>4, <1>5, <1>6 DEF PassInv

LEMMA PassReap ==
    ASSUME CoreInv, TableInv, PassInv, Reap
    PROVE  PassInv'
<1>1. /\ pc = "reap" /\ cur' = cur + 1 /\ trdset' = trdset
      /\ pc' \in {"receive"} \cup CrashPc
  BY DEF Reap, ReapSkip, ReapClose, CloseOutcomes, CrashPc
<1>2. cur \in Slot /\ Live(cur) /\ me = conn[cur] /\ me \in ConnType
      /\ me.socket \in Client
  BY <1>1, HandlerTable
<1>3. \A i \in Slot : i \in Int /\ (i >= cur + 1 => i > cur)
  BY <1>2 DEF Slot
<1>4. CASE ReapSkip
  <2>1. UNCHANGED <<conn, inq, peer, loadVars>> /\ pc' = "receive"
    BY <1>4 DEF ReapSkip, netVars
  <2>2. ReadyInv'
    BY <1>1, <1>3, <2>1 DEF PassInv, ReadyInv, Live, Readable
  <2>3. Bookkeeping'
    BY <1>1, <2>1 DEF PassInv, Bookkeeping, LiveSlots, Live, loadVars
  <2>4. QED
    BY <2>2, <2>3 DEF PassInv
<1>5. CASE ReapClose
  <2> DEFINE l == Freed(me)
  <2>1. l.socket = NoSock
    BY <1>2 DEF Freed, ConnType
  <2>2. /\ conn' = [conn EXCEPT ![cur] = l]
        /\ curr_conn' = curr_conn - 1
        /\ total_connections' = total_connections - 1
        /\ UNCHANGED <<total_conn, lost>>
        /\ \A d \in Client \ {me.socket} : inq'[d] = inq[d] /\ peer'[d] = peer[d]
    BY <1>2, <1>5 DEF ReapClose, Uncount, Closed, CoreInv, TypeOK
  <2> HIDE DEF l
  <2>3. conn'[cur].socket = NoSock /\ \A i \in Slot \ {cur} : conn'[i] = conn[i]
    BY <1>2, <2>1, <2>2 DEF CoreInv, TypeOK
  <2>4. ASSUME NEW i \in Slot, Live(i)', conn'[i].socket \in trdset, i > cur
        PROVE  Readable(conn[i].socket)'
    <3>1. conn'[i] = conn[i] /\ i # cur
      BY <1>2, <2>3, <2>4 DEF Slot
    <3>2. Readable(conn[i].socket)
      BY <1>1, <2>4, <3>1 DEF PassInv, ReadyInv, Live
    <3>3. conn[i].socket \in Client \ {me.socket}
      BY <1>2, <2>4, <3>1, LiveClient DEF TableInv, OwnerInv, Live
    <3>4. QED
      BY <2>2, <3>1, <3>2, <3>3 DEF Readable
  <2>5. ReadyInv'
    BY <1>1, <1>3, <2>4 DEF ReadyInv, CrashPc
  <2>6. LiveSlots' = LiveSlots \ {cur} /\ cur \in LiveSlots
    BY <1>2, <2>3 DEF LiveSlots, Live
  <2>7. Cardinality(LiveSlots') = Cardinality(LiveSlots) - 1
    BY <2>6, LiveFinite, FS_RemoveElement
  <2>8. Bookkeeping'
    <3>1. /\ curr_conn = Cardinality(LiveSlots) + lost + 0
          /\ total_connections = curr_conn /\ curr_conn <= total_conn
      BY <1>1 DEF PassInv, Bookkeeping
    <3>2. curr_conn \in Int /\ total_conn \in Nat /\ lost \in Nat /\ pc' # "accept"
      BY <1>1 DEF CoreInv, TypeOK, CrashPc
    <3>3. QED
      BY <2>2, <2>7, <3>1, <3>2, LiveFinite DEF Bookkeeping
  <2>9. QED
    BY <2>5, <2>8 DEF PassInv
<1>6. QED
  BY <1>4, <1>5 DEF Reap

LEMMA PassStep ==
    CoreInv /\ TableInv /\ PagedInv /\ PassInv /\ [Next]_vars => PassInv'
<1> SUFFICES ASSUME CoreInv, TableInv, PagedInv, PassInv, [Next]_vars
             PROVE  PassInv'
  OBVIOUS
<1>1. CASE Select \/ AcceptNext
  BY <1>1, PassSelect, PassAccept DEF AcceptNext
<1>2. CASE Scan \/ Respond
  BY <1>2, OrderReceive, OrderRespond, PassHandler
<1>3. CASE Reap
  BY <1>3, PassReap
<1>4. CASE Environment
  BY <1>4, PassEnvironment DEF Environment
<1>5. CASE UNCHANGED vars
  BY <1>5 DEF vars, loadVars, netVars, PassInv, ReadyInv, Bookkeeping, LiveSlots,
              Live, Readable
<1>6. QED
  BY <1>1, <1>2, <1>3, <1>4, <1>5 DEF Next, Child

LEMMA PassAlways == Spec => [](CoreInv /\ TableInv /\ PagedInv /\ PassInv)
<1>1. CoreInv /\ TableInv /\ PagedInv /\ [Next]_vars => PagedInv'
  BY OrderStep
<1>2. QED
  BY <1>1, PagedInit, PassInit, PassStep, TableAlways, PTL DEF Spec

-----------------------------------------------------------------------------
\* The states of a connection follow the order of serv.h:43-50, a final one is
\* never left, and the page once made is kept until the slot is freed: read
\* and timeout (serv.c:505-574, 262-270), write (serv.c:322-503) and close.
THEOREM RequestInOrder == Spec => RequestOrder
<1>1. CoreInv /\ TableInv /\ PagedInv /\ [Next]_vars =>
        [\A i \in Slot : SameConnection(i) =>
          /\ conn'[i].rxstat \in RxNext[conn[i].rxstat]
          /\ conn[i].page # "none" => conn'[i].page = conn[i].page
          /\ conn[i].wxstat \in {"ERROR", "DONE"}
                => conn'[i].wxstat = conn[i].wxstat]_vars
  BY OrderStep DEF Order, Ordered
<1>2. QED
  BY <1>1, PassAlways, PTL DEF Spec, RequestOrder

\* No read() of a pass blocks or fails with EWOULDBLOCK, whatever the clients
\* and the handlers of other slots did since select() (serv.c:246-258, 524).
THEOREM ReadyStaysReadable == Spec => []ReadyIsReadable
<1>1. CoreInv /\ PassInv => ReadyIsReadable
  <2> SUFFICES ASSUME CoreInv, PassInv, pc = "receive", NEW i \in LiveSlots,
                      i >= cur, conn[i].socket \in trdset
               PROVE  Readable(conn[i].socket)
    BY DEF ReadyIsReadable
  <2>1. i \in Slot /\ Live(i) /\ (i > cur \/ i = cur)
    BY DEF LiveSlots, Slot, CoreInv, TypeOK
  <2>2. QED
    BY <2>1 DEF PassInv, ReadyInv
<1>2. QED
  BY <1>1, PassAlways, PTL

\* The counters of the child differ from its table by the calls of
\* new_connection() that returned -1 and by nothing else, on every path that
\* opens, refuses or closes a connection (serv.c:248-251, 576-637, 639-667).
THEOREM CountersExact == Spec => []Bookkeeping
<1>1. PassInv => Bookkeeping
  BY DEF PassInv
<1>2. QED
  BY <1>1, PassAlways, PTL

-----------------------------------------------------------------------------
(***************************************************************************)
(* Worker implements Service: under the mapping of WorkerService every     *)
(* first state is one of Service and every step is one of Service or       *)
(* changes nothing there.                                                  *)
(***************************************************************************)
\* While an answer is still to be made, or could not be sent, some of it is
\* lacking: a connection that is broken off is not mistaken for one served.
LackInv ==
    \A i \in Slot : Live(i) =>
        /\ due[conn[i].socket] \in Nat
        /\ conn[i].rxstat # "DONE" => due[conn[i].socket] > 0
        /\ conn[i].wxstat = "ERROR" => due[conn[i].socket] > 0

\* A client waiting in the kernel lacks its whole answer.
QueueInv == \A c \in backlog : due[c] \in Nat \ {0}

PromiseInv == CoreInv /\ TableInv /\ LackInv /\ QueueInv

-----------------------------------------------------------------------------
(***************************************************************************)
(* The mapping, client by client.                                          *)
(***************************************************************************)
NoSlot(c) == \A i \in Slot : conn[i].socket # c

LEMMA OfNoSlot ==
    ASSUME NEW c \in Client, NoSlot(c)
    PROVE  /\ Left[c] = 0
           /\ Busy(c) \/ peer[c] = "idle" => Phases[c] = "out"
           /\ peer[c] = "refused" => Phases[c] = "refused"
           /\ peer[c] = "closed" =>
                 Phases[c] = IF due[c] = 0 THEN "served" ELSE "broken"
  BY DEF NoSlot, Left, Phases, Waits, Asks, Busy

LEMMA OfSlot ==
    ASSUME OwnerInv, NEW i \in Slot, Live(i), conn[i].socket \in Client
    PROVE  LET c == conn[i].socket
               done == conn[i].rxstat = "DONE"
           IN  /\ Left[c] = IF done THEN due[c] ELSE 0
               /\ Phases[c] = IF done THEN "answering" ELSE "reading"
<1> DEFINE c == conn[i].socket
<1>1. /\ \A j \in Slot : conn[j].socket = c => j = i
      /\ peer[c] # "refused" /\ peer[c] # "closed"
  BY DEF OwnerInv, Busy
<1>2. /\ Waits(c) <=> conn[i].rxstat = "DONE"
      /\ Asks(c) <=> conn[i].rxstat # "DONE"
  BY <1>1 DEF Waits, Asks
<1>3. QED
  BY <1>1, <1>2 DEF Left, Phases

\* What Service sees of c does not change.
Unseen(c) == /\ Phases'[c] = Phases[c]
             /\ Left'[c] = Left[c]
             /\ c \in Failed' <=> c \in Failed

\* A client none of whose matters is touched.
LEMMA Untouched ==
    ASSUME NEW c \in Client, due'[c] = due[c], peer'[c] = peer[c],
           \A i \in Slot : \/ conn'[i] = conn[i]
                           \/ /\ conn'[i].socket = conn[i].socket
                              /\ conn'[i].rxstat = conn[i].rxstat
                           \/ conn'[i].socket # c /\ conn[i].socket # c
    PROVE  Unseen(c)
<1>1. Waits(c)' = Waits(c) /\ Asks(c)' = Asks(c)
  BY DEF Waits, Asks
<1>2. QED
  BY <1>1 DEF Unseen, Phases, Left, Failed

\* A step that Service sees in one client at most.
SeenIn(c) ==
    \/ Unseen(c)
    \/ /\ Phases[c] = "out" /\ Phases'[c] = "reading"
       /\ Left'[c] = Left[c] /\ (c \in Failed' <=> c \in Failed)
    \/ /\ Phases[c] = "out" /\ Phases'[c] = "refused"
       /\ Left'[c] = Left[c] /\ c \notin Failed'
    \/ /\ Phases[c] = "reading" /\ Phases'[c] = "answering"
       /\ Left'[c] \in Nat \ {0} /\ (c \in Failed' <=> c \in Failed)
    \/ /\ Phases[c] = "answering" /\ Phases'[c] = "answering"
       /\ c \notin Failed /\ c \notin Failed'
       /\ \E n \in 1 .. Left[c] : Left'[c] = Left[c] - n
    \/ /\ Phases[c] = "answering" /\ Left[c] = 0 /\ Phases'[c] = "served"
       /\ Left'[c] = 0 /\ c \notin Failed'
    \/ /\ Phases[c] \in {"reading", "answering"} /\ c \in Failed
       /\ Phases'[c] = "broken" /\ Left'[c] = 0 /\ c \notin Failed'
    \/ /\ Phases[c] \in {"out", "reading", "answering"} /\ Phases'[c] = Phases[c]
       /\ Left'[c] = Left[c] /\ c \in Failed'

LEMMA ServiceStep ==
    ASSUME NEW c \in Client, SeenIn(c), \A d \in Client \ {c} : Unseen(d)
    PROVE  [Promise!SNext]_(Promise!svars)
<1>1. /\ Phases' = [Phases EXCEPT ![c] = Phases'[c]]
      /\ Left' = [Left EXCEPT ![c] = Left'[c]]
  <2>1. /\ Phases = [d \in Client |-> Phases[d]]
        /\ Phases' = [d \in Client |-> Phases'[d]]
        /\ Left = [d \in Client |-> Left[d]]
        /\ Left' = [d \in Client |-> Left'[d]]
    BY DEF Phases, Left
  <2>2. QED
    BY <2>1 DEF Unseen
<1>2. /\ c \in Failed' => Failed' = Failed \cup {c}
      /\ c \notin Failed' => Failed' = Failed \ {c}
      /\ (c \in Failed' <=> c \in Failed) => Failed' = Failed
  BY DEF Unseen, Failed
<1>3. Left'[c] = Left[c] => Left' = Left
  BY DEF Unseen, Left
<1>4. Phases'[c] = Phases[c] => Phases' = Phases
  BY DEF Unseen, Phases
<1> HIDE DEF Unseen
<1>5. CASE Unseen(c)
  BY <1>2, <1>3, <1>4, <1>5 DEF Unseen, Promise!svars
<1>6. CASE /\ Phases[c] = "out" /\ Phases'[c] = "reading"
           /\ Left'[c] = Left[c] /\ (c \in Failed' <=> c \in Failed)
  <2>1. Promise!Admit(c)
    BY <1>1, <1>2, <1>3, <1>6 DEF Promise!Admit
  <2>2. QED
    BY <2>1 DEF Promise!SNext
<1>7. CASE /\ Phases[c] = "out" /\ Phases'[c] = "refused"
           /\ Left'[c] = Left[c] /\ c \notin Failed'
  <2>1. Promise!Refuse(c)
    BY <1>1, <1>2, <1>3, <1>7 DEF Promise!Refuse
  <2>2. QED
    BY <2>1 DEF Promise!SNext
<1>8. CASE /\ Phases[c] = "reading" /\ Phases'[c] = "answering"
           /\ Left'[c] \in Nat \ {0} /\ (c \in Failed' <=> c \in Failed)
  <2>1. Promise!Answer(c)
    BY <1>1, <1>2, <1>8 DEF Promise!Answer
  <2>2. QED
    BY <2>1 DEF Promise!SNext
<1>9. CASE /\ Phases[c] = "answering" /\ Phases'[c] = "answering"
           /\ c \notin Failed /\ c \notin Failed'
           /\ \E n \in 1 .. Left[c] : Left'[c] = Left[c] - n
  <2>1. Promise!Deliver(c)
    BY <1>1, <1>2, <1>4, <1>9 DEF Promise!Deliver
  <2>2. QED
    BY <2>1 DEF Promise!SNext
<1>10. CASE /\ Phases[c] = "answering" /\ Left[c] = 0 /\ Phases'[c] = "served"
            /\ Left'[c] = 0 /\ c \notin Failed'
  <2>1. Promise!Finish(c)
    BY <1>1, <1>2, <1>3, <1>10 DEF Promise!Finish
  <2>2. QED
    BY <2>1 DEF Promise!SNext
<1>11. CASE /\ Phases[c] \in {"reading", "answering"} /\ c \in Failed
            /\ Phases'[c] = "broken" /\ Left'[c] = 0 /\ c \notin Failed'
  <2>1. Promise!BreakOff(c)
    BY <1>1, <1>2, <1>11 DEF Promise!BreakOff
  <2>2. QED
    BY <2>1 DEF Promise!SNext
<1>12. CASE /\ Phases[c] \in {"out", "reading", "answering"}
            /\ Phases'[c] = Phases[c] /\ Left'[c] = Left[c] /\ c \in Failed'
  <2>1. Promise!Fail(c)
    BY <1>2, <1>3, <1>4, <1>12 DEF Promise!Fail
  <2>2. QED
    BY <2>1 DEF Promise!SNext
<1>13. QED
  BY <1>5, <1>6, <1>7, <1>8, <1>9, <1>10, <1>11, <1>12 DEF SeenIn

-----------------------------------------------------------------------------
(***************************************************************************)
(* PromiseInv is an invariant.                                             *)
(***************************************************************************)
LEMMA PromiseInit == Init => PromiseInv
  BY CoreInit, TableInit DEF Init, PromiseInv, LackInv, QueueInv, Live, Unallocated

\* The two steps of a client that Service is told of.
LEMMA PromiseEnvironment ==
    ASSUME PromiseInv, NEW c \in Client,
           Connect(c) \/ Send(c) \/ Shut(c) \/ Reset(c) \/ Drain(c) \/ Steal(c)
    PROVE  /\ LackInv' /\ QueueInv'
           /\ SeenIn(c) /\ \A d \in Client \ {c} : Unseen(d)
<1> USE DEF PromiseInv
<1>1. conn' = conn /\ req' = req
  BY EnvironmentKeeps DEF TableInv
<1>2. \A d \in Client \ {c} : due'[d] = due[d] /\ peer'[d] = peer[d]
  BY DEF Connect, Send, Shut, Reset, Drain, Steal, Closed, CoreInv, TypeOK
<1>3. \A d \in Client \ {c} : Unseen(d)
  BY <1>1, <1>2, Untouched
<1>4. req[c].len \in Nat \ {0}
  BY RequestAssumption DEF CoreInv, TypeOK, RequestType
<1>5. \A i \in Slot : Live(i) => /\ conn[i].socket \in Client /\ Busy(conn[i].socket)
                                 /\ conn[i].socket \notin backlog
  BY LiveClient DEF TableInv, OwnerInv
<1>6. ASSUME Connect(c)
      PROVE  LackInv' /\ QueueInv' /\ SeenIn(c)
  <2>1. /\ peer[c] = "idle" /\ peer'[c] = "open" /\ due'[c] \in Nat \ {0}
        /\ backlog' = backlog \cup {c}
    BY <1>4, <1>6 DEF Connect, CoreInv, TypeOK
  <2>2. NoSlot(c) /\ NoSlot(c)'
    BY <1>1, <1>5, <2>1, NoSockAssumption DEF NoSlot, Busy, Live
  <2>3. Unseen(c)
    BY <1>1, <2>1, <2>2 DEF Unseen, NoSlot, Phases, Left, Failed, Waits, Asks
  <2>4. LackInv'
    BY <1>1, <1>2, <1>5, <2>1 DEF LackInv, Live, Busy
  <2>5. QueueInv'
    BY <1>2, <2>1 DEF QueueInv, CoreInv, TypeOK
  <2>6. QED
    BY <2>3, <2>4, <2>5 DEF SeenIn
<1>7. ASSUME ~Connect(c)
      PROVE  LackInv' /\ QueueInv'
  BY <1>1, <1>7 DEF LackInv, QueueInv, Live, Send, Shut, Reset, Drain, Steal, Closed
<1>8. CASE Send(c) \/ Shut(c) \/ Drain(c)
  <2>1. /\ peer' = peer \/ (peer'[c] = "eof" /\ peer[c] = "open")
        /\ due' = due
    BY <1>8 DEF Send, Shut, Drain, CoreInv, TypeOK
  <2>2. Waits(c)' = Waits(c) /\ Asks(c)' = Asks(c)
    BY <1>1 DEF Waits, Asks
  <2>3. Unseen(c)
    BY <2>1, <2>2 DEF Unseen, Phases, Left, Failed
  <2>4. QED
    BY <1>3, <1>6, <1>7, <2>3 DEF SeenIn
<1>9. CASE Reset(c)
  <2>1. peer[c] \in {"open", "eof"} /\ peer'[c] = "rst" /\ due' = due
    BY <1>9 DEF Reset, CoreInv, TypeOK
  <2>2. Waits(c)' = Waits(c) /\ Asks(c)' = Asks(c)
    BY <1>1 DEF Waits, Asks
  <2>3. /\ Phases'[c] = Phases[c] /\ Left'[c] = Left[c]
        /\ Phases[c] \in {"out", "reading", "answering"}
    BY <2>1, <2>2 DEF Phases, Left
  <2>4. c \in Failed'
    BY <2>1 DEF Failed
  <2>5. QED
    BY <1>3, <1>6, <1>7, <2>3, <2>4 DEF SeenIn
<1>10. CASE Steal(c)
  <2>1. c \in backlog /\ peer'[c] = "refused" /\ Busy(c)
    BY <1>10 DEF Steal, Closed, CoreInv, TypeOK, TableInv, OwnerInv
  <2>2. NoSlot(c) /\ NoSlot(c)'
    BY <1>1, <1>5, <2>1, NoSockAssumption DEF NoSlot, Live
  <2>3. /\ Phases[c] = "out" /\ Left[c] = 0
    BY <2>1, <2>2, OfNoSlot
  <2>4. ~Waits(c)' /\ ~Asks(c)'
    BY <2>2 DEF NoSlot, Waits, Asks
  <2>5. Phases'[c] = "refused" /\ Left'[c] = 0 /\ c \notin Failed'
    BY <2>1, <2>4 DEF Phases, Left, Failed
  <2>6. QED
    BY <1>3, <1>6, <1>7, <2>3, <2>5 DEF SeenIn
<1>11. QED
  BY <1>3, <1>6, <1>8, <1>9, <1>10

-----------------------------------------------------------------------------
(***************************************************************************)
(* The child.                                                              *)
(***************************************************************************)

\* A step that works on the client of slot i.
LEMMA LackKeeps ==
    ASSUME PromiseInv, NEW i \in Slot, Live(i), backlog' = backlog,
           \A j \in Slot \ {i} : conn'[j] = conn[j],
           \A c \in Client \ {conn[i].socket} : due'[c] = due[c] /\ peer'[c] = peer[c],
           conn'[i].socket # NoSock =>
              /\ conn'[i].socket = conn[i].socket
              /\ due'[conn[i].socket] \in Nat
              /\ conn'[i].rxstat # "DONE" => due'[conn[i].socket] > 0
              /\ conn'[i].wxstat = "ERROR" => due'[conn[i].socket] > 0
    PROVE  /\ LackInv' /\ QueueInv'
           /\ \A d \in Client \ {conn[i].socket} : Unseen(d)
<1>1. \A j \in Slot \ {i} : Live(j) => conn[j].socket \in Client \ {conn[i].socket}
  BY LiveClient DEF PromiseInv, TableInv, OwnerInv
<1>2. LackInv'
  <2> SUFFICES ASSUME NEW j \in Slot, Live(j)'
               PROVE  (/\ due[conn[j].socket] \in Nat
                       /\ conn[j].rxstat # "DONE" => due[conn[j].socket] > 0
                       /\ conn[j].wxstat = "ERROR" => due[conn[j].socket] > 0)'
    BY DEF LackInv
  <2>1. CASE j = i
    BY <2>1 DEF Live
  <2>2. CASE j # i
    BY <1>1, <2>2 DEF PromiseInv, LackInv, Live
  <2>3. QED
    BY <2>1, <2>2
<1>3. QueueInv'
  <2>1. \A c \in backlog : c \in Client \ {conn[i].socket}
    BY DEF PromiseInv, CoreInv, TypeOK, TableInv, OwnerInv
  <2>2. QED
    BY <2>1 DEF PromiseInv, QueueInv
<1>4. ASSUME NEW d \in Client \ {conn[i].socket}
      PROVE  Unseen(d)
  <2>1. conn[i].socket # d /\ conn'[i].socket # d
    BY NoSockAssumption
  <2>2. QED
    BY <2>1, Untouched
<1>5. QED
  BY <1>2, <1>3, <1>4

\* select() and the calls that end a pass change nothing that Service sees.
LEMMA PromiseSame ==
    ASSUME PromiseInv, UNCHANGED <<backlog, peer, due>>,
           \A i \in Slot : /\ conn'[i].socket = conn[i].socket
                           /\ conn'[i].rxstat = conn[i].rxstat
                           /\ conn'[i].wxstat = conn[i].wxstat
    PROVE  LackInv' /\ QueueInv' /\ [Promise!SNext]_(Promise!svars)
<1>1. LackInv' /\ QueueInv'
  BY DEF PromiseInv, LackInv, QueueInv, Live
<1>2. \A c \in Client : Waits(c)' = Waits(c) /\ Asks(c)' = Asks(c)
  BY DEF Waits, Asks
<1>3. Phases' = Phases /\ Left' = Left /\ Failed' = Failed
  BY <1>2 DEF Phases, Left, Failed
<1>4. QED
  BY <1>1, <1>3 DEF Promise!svars

LEMMA PromiseAccept ==
    ASSUME PromiseInv, OwnerInv', Select \/ AcceptNext
    PROVE  LackInv' /\ QueueInv' /\ [Promise!SNext]_(Promise!svars)
<1> USE DEF PromiseInv
<1>1. CASE Select
  <2>1. PICK d \in {0, 1} : conn' = [i \in Slot |-> Aged(conn[i], d)]
    BY <1>1 DEF Select
  <2>2. \A i \in Slot : /\ conn'[i].socket = conn[i].socket
                        /\ conn'[i].rxstat = conn[i].rxstat
                        /\ conn'[i].wxstat = conn[i].wxstat
    BY <2>1, AgedType DEF CoreInv, TypeOK, ConnType
  <2>3. UNCHANGED <<backlog, peer, due>>
    BY <1>1 DEF Select, netVars
  <2>4. QED
    BY <2>2, <2>3, PromiseSame
<1>2. ASSUME NEW c \in Client, Accept(c) \/ AcceptFails(c) \/ AcceptDrop(c)
      PROVE  LackInv' /\ QueueInv' /\ [Promise!SNext]_(Promise!svars)
  <2>1. /\ c \in backlog /\ backlog' = backlog \ {c} /\ due' = due
        /\ \A d \in Client \ {c} : peer'[d] = peer[d]
    BY <1>2 DEF Accept, AcceptFails, AcceptDrop, Closed, CoreInv, TypeOK
  <2>2. Busy(c) /\ NoSlot(c) /\ c # NoSock
    BY <2>1, NoSockAssumption DEF TableInv, OwnerInv, NoSlot, Live
  <2>3. Phases[c] = "out" /\ Left[c] = 0 /\ due[c] \in Nat \ {0}
    BY <2>1, <2>2, OfNoSlot DEF QueueInv
  <2>4. QueueInv'
    BY <2>1 DEF QueueInv
  <2>5. CASE Accept(c)
    <3>1. FirstFree \in Slot /\ ~Live(FirstFree)
      BY <2>5, FirstFreeIsFirst DEF Accept, FreeSlots
    <3>2. PICK f \in Slot : f = FirstFree
      BY <3>1
    <3>3. Opened(c).socket = c /\ Opened(c).rxstat = "NONE"
      BY DEF Opened, Unallocated
    <3>4. /\ conn' = [conn EXCEPT ![f] = Opened(c)] /\ peer' = peer
      BY <2>5, <3>2 DEF Accept
    <3>5. /\ conn'[f].socket = c /\ conn'[f].rxstat = "NONE"
          /\ \A i \in Slot \ {f} : conn'[i] = conn[i]
      BY <3>3, <3>4 DEF CoreInv, TypeOK
    <3>6. conn[f].socket = NoSock
      BY <3>1, <3>2 DEF Live
    <3>7. \A d \in Client \ {c} : Unseen(d)
      <4> SUFFICES ASSUME NEW d \in Client \ {c} PROVE Unseen(d)
        OBVIOUS
      <4>1. d # NoSock
        BY NoSockAssumption
      <4>2. QED
        BY <2>1, <3>5, <3>6, <4>1, Untouched
    <3>8. Asks(c)' /\ ~Waits(c)'
      <4>1. \A i \in Slot : conn'[i].socket = c => i = f
        BY <2>2, <3>5 DEF NoSlot
      <4>2. QED
        BY <3>5, <4>1 DEF Asks, Waits
    <3>9. Phases'[c] = "reading" /\ Left'[c] = 0 /\ (c \in Failed' <=> c \in Failed)
      BY <2>2, <3>4, <3>8 DEF Phases, Left, Failed, Busy
    <3>10. SeenIn(c)
      BY <2>3, <3>9 DEF SeenIn
    <3>11. LackInv'
      BY <2>1, <2>3, <3>5 DEF LackInv, Live
    <3>12. QED
      BY <2>4, <3>7, <3>10, <3>11, ServiceStep
  <2>6. CASE AcceptFails(c) \/ AcceptDrop(c)
    <3>1. peer'[c] = "refused"
      BY <2>6 DEF AcceptFails, AcceptDrop, Closed, CoreInv, TypeOK
    <3>2. \A i \in Slot : \/ conn'[i] = conn[i]
                          \/ conn'[i].socket = NoSock /\ conn[i].socket = NoSock
      <4>1. CASE AcceptDrop(c)
        BY <4>1 DEF AcceptDrop
      <4>2. CASE AcceptFails(c)
        <5> DEFINE l == [Opened(c) EXCEPT !.socket = NoSock, !.hs = "DONE"]
        <5>1. FirstFree \in Slot /\ conn[FirstFree].socket = NoSock
          BY <4>2, FirstFreeIsFirst DEF AcceptFails, FreeSlots, Live
        <5>2. l.socket = NoSock
          BY DEF Opened, Unallocated
        <5>3. conn' = [conn EXCEPT ![FirstFree] = l]
          BY <4>2 DEF AcceptFails
        <5> HIDE DEF l
        <5>4. QED
          BY <5>1, <5>2, <5>3 DEF CoreInv, TypeOK
      <4>3. QED
        BY <2>6, <4>1, <4>2
    <3>3. \A d \in Client \ {c} : Unseen(d)
      <4> SUFFICES ASSUME NEW d \in Client \ {c} PROVE Unseen(d)
        OBVIOUS
      <4>1. d # NoSock
        BY NoSockAssumption
      <4>2. QED
        BY <2>1, <3>2, <4>1, Untouched
    <3>4. ~Waits(c)' /\ ~Asks(c)'
      BY <2>2, <3>2 DEF NoSlot, Waits, Asks
    <3>5. Phases'[c] = "refused" /\ Left'[c] = 0 /\ c \notin Failed'
      BY <3>1, <3>4 DEF Phases, Left, Failed
    <3>6. SeenIn(c)
      BY <2>3, <3>5 DEF SeenIn
    <3>7. LackInv'
      BY <2>1, <3>2 DEF LackInv, Live
    <3>8. QED
      BY <2>4, <3>3, <3>6, <3>7, ServiceStep
  <2>7. QED
    BY <1>2, <2>5, <2>6
<1>3. QED
  BY <1>1, <1>2 DEF AcceptNext

LEMMA OfSlotNext ==
    ASSUME OwnerInv', NEW i \in Slot, NEW c \in Client, conn'[i].socket = c
    PROVE  /\ Left'[c] = IF conn'[i].rxstat = "DONE" THEN due'[c] ELSE 0
           /\ Phases'[c] = IF conn'[i].rxstat = "DONE" THEN "answering" ELSE "reading"
<1>1. /\ \A j \in Slot : conn'[j].socket = c => j = i
      /\ peer'[c] # "refused" /\ peer'[c] # "closed"
  BY NoSockAssumption DEF OwnerInv, Busy, Live
<1>2. /\ Waits(c)' <=> conn'[i].rxstat = "DONE"
      /\ Asks(c)' <=> conn'[i].rxstat # "DONE"
  BY <1>1 DEF Waits, Asks
<1>3. QED
  BY <1>1, <1>2 DEF Left, Phases

\* read_connection() and write_connection() work on one connection: they leave
\* its answer as it is, complete the request or deliver a piece.
LEMMA PromiseHandler ==
    ASSUME PromiseInv, OwnerInv', backlog' = backlog,
           NEW i \in Slot, Live(i), NEW c \in Client, c = conn[i].socket,
           \A j \in Slot \ {i} : conn'[j] = conn[j],
           \A d \in Client \ {c} : due'[d] = due[d] /\ peer'[d] = peer[d],
           conn'[i].socket = c,
           conn'[i].wxstat = "ERROR" => due'[c] > 0,
           \/ /\ conn[i].rxstat = "DONE" /\ conn'[i].rxstat = "DONE"
              /\ due'[c] = due[c] /\ (c \in Failed' <=> c \in Failed)
           \/ /\ conn[i].rxstat # "DONE" /\ conn'[i].rxstat # "DONE"
              /\ due'[c] \in Nat \ {0} /\ (c \in Failed' <=> c \in Failed)
           \/ /\ conn[i].rxstat # "DONE" /\ conn'[i].rxstat = "DONE"
              /\ due'[c] \in Nat \ {0} /\ (c \in Failed' <=> c \in Failed)
           \/ /\ conn[i].rxstat = "DONE" /\ conn'[i].rxstat = "DONE"
              /\ \E n \in 1 .. due[c] : due'[c] = due[c] - n
              /\ c \notin Failed /\ c \notin Failed'
    PROVE  LackInv' /\ QueueInv' /\ [Promise!SNext]_(Promise!svars)
<1>1. due[c] \in Nat
  BY DEF PromiseInv, LackInv
<1>2. due'[c] \in Nat /\ (conn'[i].rxstat # "DONE" => due'[c] > 0)
  BY <1>1
<1>3. LackInv' /\ QueueInv' /\ \A d \in Client \ {c} : Unseen(d)
  BY <1>2, LackKeeps
<1>4. /\ Left[c] = IF conn[i].rxstat = "DONE" THEN due[c] ELSE 0
      /\ Phases[c] = IF conn[i].rxstat = "DONE" THEN "answering" ELSE "reading"
  BY OfSlot DEF PromiseInv, TableInv
<1>5. /\ Left'[c] = IF conn'[i].rxstat = "DONE" THEN due'[c] ELSE 0
      /\ Phases'[c] = IF conn'[i].rxstat = "DONE" THEN "answering" ELSE "reading"
  BY OfSlotNext
<1>6. SeenIn(c)
  BY <1>1, <1>4, <1>5 DEF SeenIn, Unseen
<1>7. QED
  BY <1>3, <1>6, ServiceStep

\* The lengths that pages may have.
LEMMA GenLenPositive ==
    ASSUME CoreInv, NEW p, NEW c \in Client
    PROVE  GenLen(p, req[c]) \in Nat \ {0}
  BY GenLenType DEF CoreInv, TypeOK

LEMMA PromiseReceive ==
    ASSUME PromiseInv, OwnerInv', Scan
    PROVE  LackInv' /\ QueueInv' /\ [Promise!SNext]_(Promise!svars)
<1> USE DEF PromiseInv
<1>1. CASE ScanEnd \/ ScanFree
  BY <1>1, PromiseSame DEF ScanEnd, ScanFree, netVars
<1>2. Scanning /\ Live(cur) =>
        /\ cur \in Slot /\ me = conn[cur] /\ me \in ConnType /\ me.socket \in Client
        /\ due[me.socket] \in Nat
        /\ me.rxstat # "DONE" => due[me.socket] \in Nat \ {0}
        /\ me.wxstat = "ERROR" => due[me.socket] > 0
        /\ AnswerOK(me, peer[me.socket])
  BY HandlerTable DEF LackInv
<1>3. CASE ReceiveIdle \/ ReceiveIgnored
  <2>1. Scanning /\ Live(cur) /\ UNCHANGED <<backlog, peer, due>>
    BY <1>3 DEF ReceiveIdle, ReceiveIgnored, netVars
  <2>2. \/ conn' = conn
        \/ me.rxstat = "PRCS" /\ conn' = [conn EXCEPT ![cur].rxstat = "TIMEOUT"]
        \/ conn' = [conn EXCEPT ![cur].age = 0]
    BY <1>3 DEF ReceiveIdle, ReceiveIgnored
  <2>3. /\ \A j \in Slot \ {cur} : conn'[j] = conn[j]
        /\ conn'[cur].socket = me.socket /\ conn'[cur].wxstat = me.wxstat
        /\ \/ conn'[cur].rxstat = me.rxstat
           \/ me.rxstat = "PRCS" /\ conn'[cur].rxstat = "TIMEOUT"
    BY <1>2, <2>1, <2>2 DEF CoreInv, TypeOK, ConnType
  <2>4. me.socket \in Failed' <=> me.socket \in Failed
    BY <2>1 DEF Failed
  <2>5. QED
    BY <1>2, <2>1, <2>3, <2>4, PromiseHandler
<1>4. CASE ReceiveError
  <2> DEFINE l == [me EXCEPT !.age = 0, !.rxstat = "ERROR", !.wxstat = "ERROR"]
  <2>1. /\ Scanning /\ Live(cur) /\ me.rxstat # "DONE" /\ peer[me.socket] = "rst"
        /\ conn' = [conn EXCEPT ![cur] = l]
        /\ peer' = [peer EXCEPT ![me.socket] = "gone"]
        /\ UNCHANGED <<backlog, due>>
    BY <1>4 DEF ReceiveError, Reading
  <2>2. l.socket = me.socket /\ l.rxstat = "ERROR"
    BY <1>2, <2>1 DEF ConnType
  <2> HIDE DEF l
  <2>3. /\ \A j \in Slot \ {cur} : conn'[j] = conn[j]
        /\ conn'[cur].socket = me.socket /\ conn'[cur].rxstat = "ERROR"
        /\ \A d \in Client \ {me.socket} : peer'[d] = peer[d]
        /\ peer'[me.socket] = "gone"
    BY <1>2, <2>1, <2>2 DEF CoreInv, TypeOK
  <2>4. me.socket \in Failed' <=> me.socket \in Failed
    BY <1>2, <2>1, <2>3 DEF Failed
  <2>5. QED
    BY <1>2, <2>1, <2>3, <2>4, PromiseHandler
<1>5. ASSUME NEW rd \in {0, 1}, Read(rd), NEW rx \in {"PRCS", "DONE"},
             NEW l, conn' = [conn EXCEPT ![cur] = l],
             l.socket = me.socket, l.rxstat = rx, l.wxstat = me.wxstat,
             \/ rx = "PRCS" /\ due' = due
             \/ due' = [due EXCEPT ![me.socket] =
                          GenLen(Process(me, rd), req[me.socket])]
      PROVE  LackInv' /\ QueueInv' /\ [Promise!SNext]_(Promise!svars)
  <2>1. /\ Scanning /\ Live(cur) /\ me.rxstat # "DONE" /\ UNCHANGED <<backlog, peer>>
    BY <1>5 DEF Read, Reading
  <2>2. GenLen(Process(me, rd), req[me.socket]) \in Nat \ {0}
    BY <1>2, <2>1, GenLenPositive
  <2>3. /\ due'[me.socket] \in Nat \ {0}
        /\ \A d \in Client \ {me.socket} : due'[d] = due[d]
    BY <1>2, <1>5, <2>1, <2>2 DEF CoreInv, TypeOK
  <2>4. /\ \A j \in Slot \ {cur} : conn'[j] = conn[j]
        /\ conn'[cur] = l
    BY <1>2, <1>5, <2>1 DEF CoreInv, TypeOK
  <2>5. me.socket \in Failed' <=> me.socket \in Failed
    BY <2>1 DEF Failed
  <2>6. QED
    BY <1>2, <1>5, <2>1, <2>3, <2>4, <2>5, PromiseHandler
<1>6. ASSUME NEW rd \in {0, 1}, Read(rd), NEW rx \in {"PRCS", "DONE"}
      PROVE  LET k == Received(Process(me, rd), rx)
             IN  k \in ConnType /\ k.socket = me.socket /\ k.rxstat = rx
                 /\ k.wxstat = me.wxstat
  BY <1>6, ReceivedFields DEF Read, Reading, CoreInv, RxStat
<1>7. CASE ReceiveMore
  <2>1. PICK rd \in {0, 1} :
          /\ Read(rd) /\ due' = due
          /\ conn' = [conn EXCEPT ![cur] = Received(Process(me, rd), "PRCS")]
    BY <1>7 DEF ReceiveMore
  <2>2. QED
    BY <1>5, <1>6, <2>1
<1>8. CASE ReceivePage
  <2>1. PICK rd \in {0, 1} :
          /\ Read(rd)
          /\ due' = [due EXCEPT ![me.socket] =
                       GenLen(Process(me, rd), req[me.socket])]
          /\ \E g : \/ conn' = [conn EXCEPT ![cur] = Received(Process(me, rd), "DONE")]
                   \/ conn' = [conn EXCEPT ![cur] =
                                 [Received(Process(me, rd), "DONE") EXCEPT
                                    !.page = g, !.out = req[me.socket].out]]
    BY <1>8 DEF ReceivePage
  <2>2. PICK g :
          \/ conn' = [conn EXCEPT ![cur] = Received(Process(me, rd), "DONE")]
          \/ conn' = [conn EXCEPT ![cur] =
                        [Received(Process(me, rd), "DONE") EXCEPT
                           !.page = g, !.out = req[me.socket].out]]
    BY <2>1
  <2> DEFINE k == Received(Process(me, rd), "DONE")
             l == [k EXCEPT !.page = g, !.out = req[me.socket].out]
  <2>3. k \in ConnType /\ k.socket = me.socket /\ k.rxstat = "DONE"
        /\ k.wxstat = me.wxstat
    BY <1>6, <2>1
  <2>4. l.socket = me.socket /\ l.rxstat = "DONE" /\ l.wxstat = me.wxstat
    <3> HIDE DEF k
    <3>1. QED
      BY <2>3 DEF ConnType
  <2>5. conn' = [conn EXCEPT ![cur] = k] \/ conn' = [conn EXCEPT ![cur] = l]
    BY <2>2
  <2> HIDE DEF k, l
  <2>6. QED
    BY <1>5, <2>1, <2>3, <2>4, <2>5
<1>9. CASE ReceiveBody
  <2>1. PICK rd \in {0, 1} :
          /\ Read(rd)
          /\ due' = [due EXCEPT ![me.socket] =
                       GenLen(Process(me, rd), req[me.socket])]
          /\ \E g : conn' = Posted(Process(me, rd), g)
    BY <1>9 DEF ReceiveBody, BodyStep
  <2>2. PICK g : conn' = Posted(Process(me, rd), g)
    BY <2>1
  <2> DEFINE k == Received(Process(me, rd), "PRCS")
             l == [k EXCEPT !.page = IF g \in CrashPc THEN "none" ELSE g,
                            !.out = req[me.socket].out]
  <2>3. k \in ConnType /\ k.socket = me.socket /\ k.rxstat = "PRCS"
        /\ k.wxstat = me.wxstat
    BY <1>6, <2>1
  <2>4. l.socket = me.socket /\ l.rxstat = "PRCS" /\ l.wxstat = me.wxstat
    <3> HIDE DEF k
    <3>1. QED
      BY <2>3 DEF ConnType
  <2>5. conn' = [conn EXCEPT ![cur] = l]
    BY <2>2 DEF Posted
  <2> HIDE DEF k, l
  <2>6. QED
    BY <1>5, <2>1, <2>4, <2>5
<1>10. QED
  BY <1>1, <1>3, <1>4, <1>7, <1>8, <1>9 DEF Scan

LEMMA PromiseRespond ==
    ASSUME PromiseInv, OwnerInv', Respond
    PROVE  LackInv' /\ QueueInv' /\ [Promise!SNext]_(Promise!svars)
<1> USE DEF PromiseInv
<1>1. CASE RespondSkip \/ Flush
  BY <1>1, PromiseSame DEF RespondSkip, Flush, netVars
<1>2. Responding =>
        /\ cur \in Slot /\ Live(cur) /\ me = conn[cur] /\ me \in ConnType
        /\ me.socket \in Client /\ due[me.socket] \in Nat /\ me.rxstat = "DONE"
        /\ SentOK(me, due[me.socket])
  BY HandlerTable DEF LackInv, Responding
<1>3. BodyBranch =>
        /\ Responding /\ Sending \in ConnType
        /\ Sending.socket = me.socket /\ Sending.rxstat = "DONE"
        /\ Sending.wxstat = "PRCS" /\ Sending.data_len = due[me.socket]
        /\ due[me.socket] > 0
  <2> SUFFICES ASSUME BodyBranch
               PROVE  /\ Sending \in ConnType
                      /\ Sending.socket = me.socket /\ Sending.rxstat = "DONE"
                      /\ Sending.wxstat = "PRCS" /\ Sending.data_len = due[me.socket]
                      /\ due[me.socket] > 0
    BY DEF BodyBranch
  <2>1. Responding /\ pc = "respond"
    BY DEF BodyBranch, Responding
  <2>2. Sending \in ConnType
    BY <2>1, SendingType
  <2>3. PageLen(me) \in Nat \ {0}
    BY <1>2, <2>1, PageLenType DEF CoreInv, TypeOK
  <2>4. CASE me.hb = "HEAD"
    BY <1>2, <2>1, <2>2, <2>3, <2>4 DEF Sending, ConnType, SentOK
  <2>5. CASE me.hb = "BODY" /\ me.data_len > 0
    BY <1>2, <2>1, <2>2, <2>5 DEF Sending, ConnType, SentOK
  <2>6. QED
    BY <2>4, <2>5 DEF BodyBranch
<1>4. ASSUME Responding, NEW l, conn' = [conn EXCEPT ![cur] = l],
             l.socket = me.socket, l.rxstat = "DONE",
             l.wxstat = "ERROR" => due[me.socket] > 0,
             UNCHANGED <<backlog, due>>,
             \A d \in Client \ {me.socket} : peer'[d] = peer[d],
             me.socket \in Failed' <=> me.socket \in Failed
      PROVE  LackInv' /\ QueueInv' /\ [Promise!SNext]_(Promise!svars)
  <2>1. /\ \A j \in Slot \ {cur} : conn'[j] = conn[j]
        /\ conn'[cur] = l
    BY <1>2, <1>4 DEF CoreInv, TypeOK
  <2>2. QED
    BY <1>2, <1>4, <2>1, PromiseHandler
<1>5. CASE RespondBody
  <2> DEFINE res == SmallerOf(Sending.data_len, win[me.socket])
             l   == [Sending EXCEPT !.data_len = @ - res]
  <2>1. /\ BodyBranch /\ conn' = [conn EXCEPT ![cur] = l]
        /\ due' = [due EXCEPT ![me.socket] = @ - res]
        /\ peer[me.socket] \in {"open", "eof"} /\ win[me.socket] > 0
        /\ UNCHANGED <<backlog, peer>>
    BY <1>5 DEF RespondBody
  <2>2. win[me.socket] \in Nat
    BY <1>2, <1>3, <2>1, BoundAssumption DEF CoreInv, TypeOK
  <2>3. res \in 1 .. due[me.socket]
    BY <1>2, <1>3, <2>1, <2>2 DEF SmallerOf
  <2>4. l.socket = me.socket /\ l.rxstat = "DONE" /\ l.wxstat = "PRCS"
    <3> HIDE DEF res
    <3>1. QED
      BY <1>3, <2>1 DEF ConnType
  <2> HIDE DEF l, res
  <2>5. /\ \A j \in Slot \ {cur} : conn'[j] = conn[j]
        /\ conn'[cur] = l
        /\ due'[me.socket] = due[me.socket] - res
        /\ \A d \in Client \ {me.socket} : due'[d] = due[d]
    BY <1>2, <1>3, <2>1 DEF CoreInv, TypeOK
  <2>6. me.socket \notin Failed /\ me.socket \notin Failed'
    BY <2>1 DEF Failed
  <2>7. QED
    BY <1>2, <1>3, <2>1, <2>3, <2>4, <2>5, <2>6, PromiseHandler
<1>6. CASE RespondLater
  <2>1. /\ BodyBranch /\ conn' = [conn EXCEPT ![cur] = Sending]
        /\ peer' = [peer EXCEPT ![me.socket] = IF @ = "rst" THEN "gone" ELSE @]
        /\ UNCHANGED <<backlog, due>>
    BY <1>6 DEF RespondLater
  <2>2. /\ \A d \in Client \ {me.socket} : peer'[d] = peer[d]
        /\ me.socket \in Failed' <=> me.socket \in Failed
    BY <1>2, <1>3, <2>1 DEF CoreInv, TypeOK, Failed
  <2>3. QED
    BY <1>3, <1>4, <2>1, <2>2
<1>7. CASE RespondBroken
  <2> DEFINE l == [Sending EXCEPT !.wxstat = "ERROR"]
  <2>1. /\ BodyBranch /\ conn' = [conn EXCEPT ![cur] = l]
        /\ UNCHANGED <<backlog, due, peer>>
    BY <1>7 DEF RespondBroken, netVars
  <2>2. l.socket = me.socket /\ l.rxstat = "DONE"
    BY <1>3, <2>1 DEF ConnType
  <2> HIDE DEF l
  <2>3. me.socket \in Failed' <=> me.socket \in Failed
    BY <2>1 DEF Failed
  <2>4. QED
    BY <1>3, <1>4, <2>1, <2>2, <2>3
<1>8. CASE RespondDone \/ RespondFile \/ RespondModula \/ RespondModulaDone
  <2>1. Responding /\ UNCHANGED <<backlog, due, peer>>
    BY <1>8 DEF RespondDone, RespondFile, RespondModula, RespondModulaDone,
                PageSent, netVars
  <2>2. /\ \A j \in Slot \ {cur} : conn'[j] = conn[j]
        /\ conn'[cur].socket = me.socket /\ conn'[cur].rxstat = "DONE"
        /\ conn'[cur].wxstat # "ERROR"
    <3>1. CASE RespondDone
      BY <1>2, <2>1, <3>1 DEF RespondDone, CoreInv, TypeOK, ConnType
    <3>2. CASE RespondFile
      BY <1>2, <2>1, <3>2 DEF RespondFile, CoreInv, TypeOK, ConnType
    <3>3. CASE RespondModula
      BY <1>2, <2>1, <3>3 DEF RespondModula, CoreInv, TypeOK, ConnType
    <3>4. CASE RespondModulaDone
      BY <1>2, <2>1, <3>4 DEF RespondModulaDone, CoreInv, TypeOK, ConnType
    <3>5. QED
      BY <1>8, <3>1, <3>2, <3>3, <3>4
  <2>3. me.socket \in Failed' <=> me.socket \in Failed
    BY <2>1 DEF Failed
  <2>4. QED
    BY <1>2, <2>1, <2>2, <2>3, PromiseHandler
<1>9. QED
  BY <1>1, <1>5, <1>6, <1>7, <1>8 DEF Respond

\* close_connection() ends an exchange that is over, or one whose client's
\* connection has failed.
LEMMA PromiseReap ==
    ASSUME PromiseInv, OwnerInv', Reap
    PROVE  LackInv' /\ QueueInv' /\ [Promise!SNext]_(Promise!svars)
<1> USE DEF PromiseInv
<1>1. CASE ReapSkip
  BY <1>1, PromiseSame DEF ReapSkip, netVars
<1>2. CASE ReapClose
  <2>0. PICK c \in Client : c = me.socket
    BY <1>2, HandlerTable DEF ReapClose
  <2>1. /\ cur \in Slot /\ Live(cur) /\ me = conn[cur] /\ me \in ConnType
        /\ c = me.socket /\ AnswerOK(me, peer[c]) /\ SentOK(me, due[c])
        /\ due[c] \in Nat
        /\ me.wxstat = "ERROR" => due[c] > 0
    BY <1>2, <2>0, HandlerTable DEF ReapClose, LackInv
  <2>2. /\ Finished(me) /\ conn' = [conn EXCEPT ![cur] = Freed(me)]
        /\ peer' = [peer EXCEPT ![c] = "closed"]
        /\ UNCHANGED <<backlog, due>>
    BY <1>2, <2>0 DEF ReapClose, Closed
  <2>3. Freed(me).socket = NoSock
    BY <2>1 DEF Freed, ConnType
  <2>4. /\ conn'[cur].socket = NoSock /\ peer'[c] = "closed"
        /\ \A j \in Slot \ {cur} : conn'[j] = conn[j]
        /\ \A d \in Client \ {c} : peer'[d] = peer[d]
    BY <2>1, <2>2, <2>3 DEF CoreInv, TypeOK
  <2>5. LackInv' /\ QueueInv' /\ \A d \in Client \ {c} : Unseen(d)
    BY <2>1, <2>2, <2>4, LackKeeps
  <2>6. ~Waits(c)' /\ ~Asks(c)'
    BY <2>1, <2>4, NoSockAssumption DEF Waits, Asks, TableInv, OwnerInv
  <2>7. /\ Phases'[c] = IF due[c] = 0 THEN "served" ELSE "broken"
        /\ Left'[c] = 0 /\ c \notin Failed'
    BY <2>1, <2>2, <2>4, <2>6 DEF Phases, Left, Failed
  <2>8. /\ Left[c] = IF me.rxstat = "DONE" THEN due[c] ELSE 0
        /\ Phases[c] = IF me.rxstat = "DONE" THEN "answering" ELSE "reading"
    BY <2>1, OfSlot DEF TableInv
  <2>9. SeenIn(c)
    <3>1. CASE me.wxstat = "DONE"
      <4>1. me.rxstat = "DONE" /\ due[c] = 0
        BY <2>1, <3>1 DEF AnswerOK, SentOK
      <4>2. QED
        BY <2>7, <2>8, <4>1 DEF SeenIn
    <3>2. CASE me.wxstat = "ERROR"
      <4>1. due[c] # 0 /\ c \in Failed
        BY <2>1, <3>2 DEF AnswerOK, Failed
      <4>2. QED
        BY <2>7, <2>8, <4>1 DEF SeenIn
    <3>3. QED
      BY <2>2, <3>1, <3>2 DEF Finished
  <2>10. QED
    BY <2>1, <2>5, <2>9, ServiceStep
<1>3. QED
  BY <1>1, <1>2 DEF Reap

LEMMA PromiseStep ==
    PromiseInv /\ [Next]_vars => PromiseInv' /\ [Promise!SNext]_(Promise!svars)
<1> SUFFICES ASSUME PromiseInv, [Next]_vars
             PROVE  LackInv' /\ QueueInv' /\ [Promise!SNext]_(Promise!svars)
  BY CoreStep, TableStep DEF PromiseInv
<1>1. OwnerInv'
  BY TableStep DEF PromiseInv, TableInv
<1>2. CASE Child
  BY <1>1, <1>2, PromiseAccept, PromiseReceive, PromiseRespond, PromiseReap DEF Child
<1>3. CASE Environment
  BY <1>3, PromiseEnvironment, ServiceStep DEF Environment
<1>4. CASE UNCHANGED vars
  BY <1>4, PromiseSame DEF vars, netVars
<1>5. QED
  BY <1>2, <1>3, <1>4 DEF Next

-----------------------------------------------------------------------------
\* The child keeps the promise of Service, for any number of clients and slots,
\* any requests, and whatever clients and network do (serv.c:216-444): every
\* answer is delivered whole, in pieces, to the client it is for, and only a
\* client whose own connection failed is cut off.
THEOREM PromiseKept == Spec => KeepsPromise
<1>1. Init => Promise!SInit
  <2> SUFFICES ASSUME Init PROVE Promise!SInit
    OBVIOUS
  <2>1. \A c \in Client : NoSlot(c) /\ peer[c] = "idle"
    BY NoSockAssumption DEF Init, NoSlot, Unallocated
  <2>2. \A c \in Client : Phases[c] = "out" /\ Left[c] = 0 /\ c \notin Failed
    BY <2>1, OfNoSlot DEF Failed
  <2>3. QED
    BY <2>2 DEF Promise!SInit, Phases, Left, Failed
<1>2. QED
  BY <1>1, PromiseInit, PromiseStep, PTL DEF Spec, KeepsPromise, Promise!SSpec
=============================================================================
