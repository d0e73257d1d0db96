---------------------------- MODULE WorkerProofs ----------------------------
(***************************************************************************)
(* Proofs about Worker, for any number of clients and slots, any bounds    *)
(* and any set of requests.                                                *)
(***************************************************************************)
EXTENDS Worker, WellFoundedInduction, TLAPS

\* The handlers of a pass work on a connected slot.
InHandler == pc \in {"respond", "flush", "reap"} => cur \in Slot /\ Live(cur)

CoreInv == TypeOK /\ InHandler

-----------------------------------------------------------------------------
(***************************************************************************)
(* Lemmas about the operators of the model.                                *)
(***************************************************************************)

\* The search of new_connection() finds the first slot that is free.
LEMMA FirstFreeIsFirst ==
    ASSUME FreeSlots # {}
    PROVE  /\ FirstFree \in FreeSlots
           /\ \A j \in FreeSlots : FirstFree <= j
<1> DEFINE R == {ss \in Nat \X Nat : ss[1] < ss[2]}
<1>1. IsWellFoundedOn(R, Nat)
  BY NatLessThanWellFounded DEF OpToRel
<1>2. FreeSlots \subseteq Nat
  BY MaxConnAssumption DEF FreeSlots, Slot
<1> HIDE DEF R
<1>3. PICK i \in FreeSlots : \A j \in FreeSlots : ~(<<j, i>> \in R)
  BY <1>1, <1>2, WFMin
<1>4. \A j \in FreeSlots : i <= j
  <2> SUFFICES ASSUME NEW j \in FreeSlots PROVE i <= j
    OBVIOUS
  <2>1. i \in Nat /\ j \in Nat
    BY <1>2
  <2>2. ~(j < i)
    BY <1>3, <2>1 DEF R
  <2>3. QED
    BY <2>1, <2>2
<1>5. QED
  BY <1>4 DEF FirstFree

LEMMA FirstFreeInSlot ==
    ASSUME FreeSlots # {}
    PROVE  FirstFree \in Slot
  BY FirstFreeIsFirst DEF FreeSlots

LEMMA UnallocatedType == Unallocated \in ConnType
  BY BoundAssumption, Z3 DEF Unallocated, ConnType, RxStat, WxStat, Page

\* Whatever is read, the session is left in one of its states.
LEMMA ProcessType ==
    ASSUME NEW k \in ConnType, req \in [Client -> Requests],
           k.socket \in Client, NEW rd \in {0, 1}
    PROVE  /\ Process(k, rd).hs \in {"INIT", "BODY", "DONE"}
           /\ Process(k, rd).slen \in Nat
           /\ Process(k, rd).ctl \in {"NO", "PAGE_READY", "READ_BODY"}
           /\ Process(k, rd).bad \in BOOLEAN
           /\ Process(k, rd).raw \in BOOLEAN
<1>1. /\ req[k.socket].bad \in BOOLEAN
      /\ req[k.socket].head \in Nat
  BY RequestAssumption DEF RequestType
<1>2. k.slen \in Nat /\ k.hs \in {"INIT", "BODY", "DONE"}
  BY DEF ConnType
<1>3. k.slen + rd \in Nat /\ HeadMax \in Nat
  BY <1>2, BoundAssumption
<1>4. CASE k.hs = "DONE"
  BY <1>4, <1>2 DEF Process, Result
<1>5. CASE k.hs = "BODY"
  BY <1>5, <1>2 DEF Process, Result
<1>6. CASE k.hs = "INIT" /\ rd = 0
  <2>1. k.hs # "DONE" /\ k.hs # "BODY" /\ ~(rd > 0)
    BY <1>6
  <2>2. Process(k, rd) = Result("INIT", k.slen, "PAGE_READY", TRUE, TRUE)
    BY <1>6, <2>1, Zenon DEF Process
  <2>3. QED
    BY <1>2, <2>2 DEF Result
<1>7. CASE k.hs = "INIT" /\ rd = 1
  <2> DEFINE n == k.slen + rd
  <2>1. rd # 0 /\ rd > 0 /\ k.hs # "DONE" /\ k.hs # "BODY"
    BY <1>7
  <2>2. n \in Nat /\ (n < HeadMax => ~(n > HeadMax))
    BY <1>2, <1>3
  <2>3. CASE n >= req[k.socket].head /\ n < HeadMax
    <3>1. Process(k, rd) = HeadProcess(req[k.socket], n)
      BY <1>7, <2>1, <2>2, <2>3, Zenon DEF Process
    <3>2. QED
      BY <1>1, <2>2, <3>1 DEF HeadProcess, Result
  <2>4. CASE n > HeadMax
    <3>1. Process(k, rd) = Result("DONE", n, "PAGE_READY", TRUE, TRUE)
      BY <1>7, <2>1, <2>2, <2>4, Zenon DEF Process
    <3>2. QED
      BY <2>2, <3>1 DEF Result
  <2>5. CASE ~(n >= req[k.socket].head /\ n < HeadMax) /\ ~(n > HeadMax)
    <3>1. Process(k, rd) = Result("INIT", n, "NO", FALSE, FALSE)
      BY <1>7, <2>1, <2>5, Zenon DEF Process
    <3>2. QED
      BY <2>2, <3>1 DEF Result
  <2>6. QED
    BY <2>3, <2>4, <2>5
<1>8. QED
  BY <1>2, <1>4, <1>5, <1>6, <1>7

\* A connection with some of its fields changed is a connection.
LEMMA PageLenType ==
    ASSUME NEW k \in ConnType, req \in [Client -> Requests], k.socket \in Client
    PROVE  PageLen(k) \in Nat \ {0}
  BY RequestAssumption, BoundAssumption DEF PageLen, RequestType

LEMMA GenLenType ==
    ASSUME NEW p, NEW r \in Requests
    PROVE  GenLen(p, r) \in Nat \ {0}
  BY RequestAssumption, BoundAssumption DEF GenLen, RequestType

LEMMA GenPageType ==
    ASSUME NEW p, NEW r \in Requests, NEW g \in GenPage(p, r)
    PROVE  g \in CrashPc \/ g \in Page \ {"none"}
  BY RequestAssumption DEF GenPage, RequestType, CrashPc, Page

LEMMA ReceivedType ==
    ASSUME TypeOK, Scanning, Live(cur), NEW rd \in {0, 1}, NEW rx \in RxStat
    PROVE  /\ me \in ConnType
           /\ me.socket \in Client
           /\ cur \in Slot
           /\ Received(Process(me, rd), rx) \in ConnType
           /\ Received(Process(me, rd), rx).socket = me.socket
           /\ Received(Process(me, rd), rx).alloc = me.alloc
<1>1. cur \in Slot
  BY DEF TypeOK, Scanning, Slot
<1>2. me \in ConnType
  BY <1>1 DEF TypeOK, me
<1>3. me.socket \in Client
  BY <1>1, <1>2 DEF Live, me, ConnType
<1>4. /\ Process(me, rd).hs \in {"INIT", "BODY", "DONE"}
      /\ Process(me, rd).slen \in Nat
  BY <1>2, <1>3, ProcessType DEF TypeOK
<1>5. 0 \in 0 .. RdTimeout + 1
  BY BoundAssumption
<1>6. /\ Received(Process(me, rd), rx) \in ConnType
      /\ Received(Process(me, rd), rx).socket = me.socket
      /\ Received(Process(me, rd), rx).alloc = me.alloc
  BY <1>2, <1>4, <1>5 DEF Received, ConnType
<1>7. QED
  BY <1>1, <1>2, <1>3, <1>6

-----------------------------------------------------------------------------
(***************************************************************************)
(* CoreInv is an invariant.                                                *)
(***************************************************************************)
LEMMA CoreInit == Init => CoreInv
<1> SUFFICES ASSUME Init PROVE CoreInv
  OBVIOUS
<1>1. Unallocated \in ConnType
  BY UnallocatedType
<1>2. TypeOK
  BY <1>1, MaxConnAssumption, BoundAssumption DEF Init, TypeOK, RunPc, Slot
<1>3. InHandler
  BY DEF Init, InHandler
<1>4. QED
  BY <1>2, <1>3 DEF CoreInv

\* The clients touch neither the table nor the loop.
LEMMA CoreEnvironment ==
    ASSUME CoreInv, NEW c \in Client,
           Connect(c) \/ Send(c) \/ Shut(c) \/ Reset(c) \/ Drain(c) \/ Steal(c)
    PROVE  CoreInv'
<1> USE DEF CoreInv, TypeOK, InHandler, Live, envUnchanged, loadVars
<1>1. req[c].head \in Nat /\ req[c].body \in Nat /\ req[c].len \in Nat
  BY RequestAssumption DEF RequestType
<1>2. Window \in 0 .. Window /\ 0 \in 0 .. Window
  BY BoundAssumption
<1>3. CASE Connect(c)
  BY <1>1, <1>2, <1>3 DEF Connect
<1>4. CASE Send(c)
  BY <1>4 DEF Send
<1>5. CASE Shut(c)
  BY <1>5 DEF Shut
<1>6. CASE Reset(c)
  BY <1>6 DEF Reset
<1>7. CASE Drain(c)
  BY <1>2, <1>7 DEF Drain
<1>8. CASE Steal(c)
  BY <1>2, <1>8 DEF Steal, Closed
<1>9. QED
  BY <1>3, <1>4, <1>5, <1>6, <1>7, <1>8

LEMMA AgedType ==
    ASSUME NEW k \in ConnType, NEW d \in {0, 1}
    PROVE  /\ Aged(k, d) \in ConnType
           /\ Aged(k, d) = [k EXCEPT !.age = Aged(k, d).age]
<1>1. k.age \in 0 .. RdTimeout + 1
  BY DEF ConnType
<1>2. k.age + d <= RdTimeout + 1 => k.age + d \in 0 .. RdTimeout + 1
  BY <1>1, BoundAssumption
<1>3. QED
  BY <1>2 DEF Aged, ConnType

LEMMA OpenedType ==
    ASSUME TypeOK, NEW c \in Client, FreeSlots # {}
    PROVE  /\ Opened(c) \in ConnType
           /\ [Opened(c) EXCEPT !.socket = NoSock, !.hs = "DONE"] \in ConnType
<1>1. conn[FirstFree].data_len \in Nat
  BY FirstFreeInSlot DEF TypeOK, ConnType
<1>2. QED
  BY <1>1, UnallocatedType DEF Opened, Unallocated, ConnType

LEMMA CoreAccept ==
    ASSUME CoreInv, Select \/ AcceptNext
    PROVE  CoreInv'
<1> USE DEF CoreInv, TypeOK, InHandler
<1>1. CASE Select
  <2>1. PICK d \in {0, 1} : conn' = [i \in Slot |-> Aged(conn[i], d)]
    BY <1>1 DEF Select
  <2>2. conn' \in [Slot -> ConnType]
    BY <2>1, AgedType
  <2>3. 1 \in 1 .. MaxConn + 1
    BY MaxConnAssumption
  <2>4. QED
    <3>1. CASE backlog = {}
      BY <1>1, <2>2, <2>3, <3>1 DEF Select, loadVars, netVars, RunPc
    <3>2. CASE backlog # {}
      BY <1>1, <2>2, <2>3, <3>2 DEF Select, loadVars, netVars, RunPc, Counted
    <3>3. QED
      BY <3>1, <3>2
<1>2. ASSUME NEW c \in Client, Accept(c)
      PROVE  CoreInv'
  BY <1>2, OpenedType, FirstFreeInSlot DEF Accept, loadVars, RunPc
<1>3. ASSUME NEW c \in Client, AcceptFails(c)
      PROVE  CoreInv'
  <2>1. 0 \in 0 .. Window
    BY BoundAssumption
  <2>2. conn' \in [Slot -> ConnType]
    BY <1>3, OpenedType, FirstFreeInSlot DEF AcceptFails
  <2>3. /\ peer' \in [Client -> {"idle", "open", "eof", "rst", "gone", "closed",
                                "refused"}]
        /\ todo' \in [Client -> Nat] /\ inq' \in [Client -> Nat]
        /\ win' \in [Client -> 0 .. Window]
    BY <1>3, <2>1 DEF AcceptFails, Closed
  <2>4. QED
    BY <1>3, <2>2, <2>3 DEF AcceptFails, Closed, RunPc
<1>4. ASSUME NEW c \in Client, AcceptDrop(c)
      PROVE  CoreInv'
  <2>1. 0 \in 0 .. Window
    BY BoundAssumption
  <2>2. QED
    BY <1>4, <2>1 DEF AcceptDrop, Closed, RunPc
<1>5. QED
  BY <1>1, <1>2, <1>3, <1>4 DEF AcceptNext

\* Facts about the slot a handler works on.
LEMMA HandlerSlot ==
    ASSUME CoreInv, pc \in {"respond", "flush", "reap"} \/ (Scanning /\ Live(cur))
    PROVE  /\ cur \in Slot
           /\ me \in ConnType
           /\ me.socket \in Client
           /\ me = conn[cur]
<1>1. cur \in Slot
  BY DEF CoreInv, InHandler, TypeOK, Scanning, Slot
<1>2. Live(cur)
  BY DEF CoreInv, InHandler
<1>3. QED
  BY <1>1, <1>2 DEF CoreInv, TypeOK, me, Live, ConnType

\* A step of read_connection() that stays in the loop.
LEMMA ReadKeeps ==
    ASSUME CoreInv, NEW rd \in {0, 1}, Read(rd),
           conn' \in [Slot -> ConnType], conn'[cur].socket = me.socket,
           fdrdset' \subseteq Client, due' \in [Client -> Int],
           pc' \in RunPc \cup CrashPc
    PROVE  CoreInv'
<1>1. Scanning /\ Live(cur)
  BY DEF Read, Reading
<1>2. me.socket \in Client /\ cur \in Slot
  BY <1>1, HandlerSlot
<1>3. inq[me.socket] \in Nat
  BY <1>2 DEF CoreInv, TypeOK
<1>4. inq[me.socket] - rd \in Nat
  BY <1>3 DEF Read
<1>5. inq' \in [Client -> Nat]
  BY <1>2, <1>4 DEF Read, CoreInv, TypeOK
<1>6. TypeOK'
  BY <1>5 DEF Read, CoreInv, TypeOK, loadVars
<1>7. InHandler'
  BY <1>1, <1>2 DEF InHandler, Live, Read, NoSockAssumption, me
<1>8. QED
  BY <1>6, <1>7 DEF CoreInv

LEMMA CoreReceive ==
    ASSUME CoreInv, Scan
    PROVE  CoreInv'
<1>1. CASE ScanEnd
  BY <1>1 DEF ScanEnd, CoreInv, TypeOK, InHandler, RunPc, loadVars, netVars
<1>2. CASE ScanFree
  <2>1. cur + 1 \in 1 .. MaxConn + 1
    BY <1>2, MaxConnAssumption DEF ScanFree, Scanning, CoreInv, TypeOK
  <2>2. QED
    BY <1>2, <2>1
       DEF ScanFree, Scanning, CoreInv, TypeOK, InHandler, loadVars, netVars
<1>3. CASE ReceiveIdle
  <2>1. cur \in Slot /\ me \in ConnType /\ Live(cur) /\ me = conn[cur]
    BY <1>3, HandlerSlot DEF ReceiveIdle
  <2>2. [me EXCEPT !.rxstat = "TIMEOUT"] \in ConnType
    BY <2>1 DEF ConnType, RxStat
  <2>3. conn' \in [Slot -> ConnType] /\ conn'[cur].socket = conn[cur].socket
    BY <1>3, <2>1, <2>2 DEF ReceiveIdle, CoreInv, TypeOK
  <2>4. QED
    BY <1>3, <2>1, <2>3
       DEF ReceiveIdle, CoreInv, TypeOK, InHandler, Live, RunPc, loadVars, netVars
<1>4. CASE ReceiveIgnored
  <2>1. cur \in Slot /\ me \in ConnType /\ Live(cur) /\ me = conn[cur]
    BY <1>4, HandlerSlot DEF ReceiveIgnored
  <2>2. [me EXCEPT !.age = 0] \in ConnType
    BY <2>1, BoundAssumption DEF ConnType
  <2>3. conn' \in [Slot -> ConnType] /\ conn'[cur].socket = conn[cur].socket
    BY <1>4, <2>1, <2>2 DEF ReceiveIgnored, CoreInv, TypeOK
  <2>4. QED
    BY <1>4, <2>1, <2>3
       DEF ReceiveIgnored, CoreInv, TypeOK, InHandler, Live, RunPc, loadVars, netVars
<1>5. CASE ReceiveError
  <2>1. cur \in Slot /\ me \in ConnType /\ Live(cur) /\ me = conn[cur]
    BY <1>5, HandlerSlot DEF ReceiveError, Reading
  <2>2. [me EXCEPT !.age = 0, !.rxstat = "ERROR", !.wxstat = "ERROR"] \in ConnType
    <3>1. 0 \in 0 .. RdTimeout + 1
      BY BoundAssumption
    <3>2. QED
      BY <2>1, <3>1 DEF ConnType, RxStat, WxStat
  <2> DEFINE k == [me EXCEPT !.age = 0, !.rxstat = "ERROR", !.wxstat = "ERROR"]
  <2>3. conn' \in [Slot -> ConnType] /\ conn'[cur].socket = conn[cur].socket
    <3>1. conn' = [conn EXCEPT ![cur] = k]
      BY <1>5 DEF ReceiveError
    <3>2. k \in ConnType /\ k.socket = conn[cur].socket
      BY <2>1, <2>2 DEF ConnType
    <3> HIDE DEF k
    <3>3. QED
      BY <2>1, <3>1, <3>2 DEF CoreInv, TypeOK
  <2>4. QED
    <3>1. me.socket \in Client
      BY <1>5, HandlerSlot DEF ReceiveError, Reading
    <3>2. /\ fdrdset' \subseteq Client
          /\ peer' \in [Client -> {"idle", "open", "eof", "rst", "gone", "closed",
                                  "refused"}]
      BY <1>5, <3>1 DEF ReceiveError, CoreInv, TypeOK
    <3>3. QED
      BY <1>5, <2>1, <2>3, <3>2
         DEF ReceiveError, CoreInv, TypeOK, InHandler, Live, RunPc, loadVars
<1>6. CASE ReceiveMore
  <2>1. PICK rd \in {0, 1} :
          /\ Read(rd)
          /\ conn' = [conn EXCEPT ![cur] = Received(Process(me, rd), "PRCS")]
          /\ pc' \in {"respond", "crash_free"}
          /\ fdrdset' = fdrdset /\ due' = due
    BY <1>6 DEF ReceiveMore
  <2>2. Scanning /\ Live(cur)
    BY <2>1 DEF Read, Reading
  <2>3. /\ cur \in Slot
        /\ Received(Process(me, rd), "PRCS") \in ConnType
        /\ Received(Process(me, rd), "PRCS").socket = me.socket
    BY <2>2, ReceivedType DEF CoreInv, RxStat
  <2>4. conn' \in [Slot -> ConnType] /\ conn'[cur].socket = me.socket
    BY <2>1, <2>3 DEF CoreInv, TypeOK
  <2>5. fdrdset' \subseteq Client /\ due' \in [Client -> Int]
    BY <2>1 DEF CoreInv, TypeOK
  <2>6. QED
    BY <2>1, <2>4, <2>5, ReadKeeps DEF RunPc, CrashPc
<1>7. CASE ReceivePage
  <2>1. PICK rd \in {0, 1} :
          /\ Read(rd)
          /\ fdrdset' = fdrdset \ {me.socket}
          /\ \E g \in GenPage(Process(me, rd), req[me.socket]) :
                \/ /\ g \in CrashPc
                   /\ pc' = g
                   /\ conn' = [conn EXCEPT ![cur] = Received(Process(me, rd), "DONE")]
                \/ /\ g \notin CrashPc
                   /\ pc' = "respond"
                   /\ conn' = [conn EXCEPT ![cur] =
                                 [Received(Process(me, rd), "DONE") EXCEPT
                                    !.page = g, !.out = req[me.socket].out]]
          /\ due' = [due EXCEPT ![me.socket] =
                       GenLen(Process(me, rd), req[me.socket])]
    BY <1>7 DEF ReceivePage
  <2>2. Scanning /\ Live(cur)
    BY <2>1 DEF Read, Reading
  <2> DEFINE k == Received(Process(me, rd), "DONE")
  <2>3. cur \in Slot /\ k \in ConnType /\ k.socket = me.socket /\ me.socket \in Client
    BY <2>2, ReceivedType DEF CoreInv, RxStat
  <2>4. req[me.socket] \in Requests /\ req[me.socket].out \in Nat
    BY <2>3, RequestAssumption DEF CoreInv, TypeOK, RequestType
  <2> HIDE DEF k
  <2>5. ASSUME NEW g \in Page
        PROVE  /\ [k EXCEPT !.page = g, !.out = req[me.socket].out] \in ConnType
               /\ [k EXCEPT !.page = g, !.out = req[me.socket].out].socket = me.socket
    BY <2>3, <2>4, <2>5 DEF ConnType
  <2>6. /\ conn' \in [Slot -> ConnType] /\ conn'[cur].socket = me.socket
        /\ pc' \in RunPc \cup CrashPc
    <3>1. PICK g \in GenPage(Process(me, rd), req[me.socket]) :
                \/ g \in CrashPc /\ pc' = g /\ conn' = [conn EXCEPT ![cur] = k]
                \/ /\ g \notin CrashPc /\ pc' = "respond"
                   /\ conn' = [conn EXCEPT ![cur] =
                                [k EXCEPT !.page = g, !.out = req[me.socket].out]]
      BY <2>1 DEF k
    <3>2. g \in CrashPc \/ g \in Page
      BY <2>4, GenPageType
    <3>3. QED
      BY <2>3, <2>5, <3>1, <3>2 DEF CoreInv, TypeOK, RunPc
  <2>7. due' \in [Client -> Int]
    BY <2>1, <2>3, <2>4, GenLenType DEF CoreInv, TypeOK
  <2>8. fdrdset' \subseteq Client
    BY <2>1 DEF CoreInv, TypeOK
  <2>9. QED
    BY <2>1, <2>6, <2>7, <2>8, ReadKeeps
<1>8. CASE ReceiveBody
  <2>0. PICK rd \in {0, 1} :
          /\ Read(rd)
          /\ \E g \in GenPage(Process(me, rd), req[me.socket]) :
                BodyStep(Process(me, rd), g)
          /\ due' = [due EXCEPT ![me.socket] =
                       GenLen(Process(me, rd), req[me.socket])]
          /\ fdrdset' = fdrdset
    BY <1>8 DEF ReceiveBody
  <2>1. PICK g \in GenPage(Process(me, rd), req[me.socket]) :
          /\ Read(rd)
          /\ BodyStep(Process(me, rd), g)
          /\ due' = [due EXCEPT ![me.socket] =
                       GenLen(Process(me, rd), req[me.socket])]
          /\ fdrdset' = fdrdset
    BY <2>0
  <2>2. Scanning /\ Live(cur)
    BY <2>1 DEF Read, Reading
  <2> DEFINE k == Received(Process(me, rd), "PRCS")
             page == IF g \in CrashPc THEN "none" ELSE g
             k1 == [k EXCEPT !.page = page, !.out = req[me.socket].out]
             posted == Posted(Process(me, rd), g)
  <2>3. cur \in Slot /\ k \in ConnType /\ k.socket = me.socket /\ me.socket \in Client
    BY <2>2, ReceivedType DEF CoreInv, RxStat
  <2>4. req[me.socket] \in Requests /\ req[me.socket].out \in Nat
    BY <2>3, RequestAssumption DEF CoreInv, TypeOK, RequestType
  <2>5. page \in Page
    BY <2>4, GenPageType DEF Page
  <2>6. k1 \in ConnType /\ k1.socket = me.socket
    <3> HIDE DEF k, page
    <3>1. QED
      BY <2>3, <2>4, <2>5 DEF ConnType
  <2>7. posted \in [Slot -> ConnType] /\ posted[cur].socket = me.socket
    <3>0. posted = [conn EXCEPT ![cur] = k1]
      BY DEF Posted
    <3> HIDE DEF k1, posted
    <3>1. QED
      BY <2>3, <2>6, <3>0 DEF CoreInv, TypeOK
  <2>8. /\ conn' \in [Slot -> ConnType] /\ conn'[cur].socket = me.socket
        /\ pc' \in RunPc \cup CrashPc
    <3> HIDE DEF posted
    <3>1. conn' = posted
      BY <2>1 DEF BodyStep, posted
    <3>2. QED
      BY <2>1, <2>7, <3>1 DEF BodyStep, RunPc, CrashPc
  <2>9. due' \in [Client -> Int]
    BY <2>1, <2>3, <2>4, GenLenType DEF CoreInv, TypeOK
  <2>10. fdrdset' \subseteq Client
    BY <2>1 DEF CoreInv, TypeOK
  <2>11. QED
    BY <2>1, <2>8, <2>9, <2>10, ReadKeeps
<1>9. QED
  BY <1>1, <1>2, <1>3, <1>4, <1>5, <1>6, <1>7, <1>8 DEF Scan

\* A step of write_connection() that changes the connection to k.
LEMMA RespondKeeps ==
    ASSUME CoreInv, pc = "respond", NEW k \in ConnType, k.socket = me.socket,
           conn' = [conn EXCEPT ![cur] = k], cur' = cur
    PROVE  conn' \in [Slot -> ConnType] /\ InHandler'
<1>1. cur \in Slot /\ me.socket \in Client
  BY HandlerSlot
<1>2. conn'[cur].socket # NoSock
  BY <1>1, NoSockAssumption DEF CoreInv, TypeOK
<1>3. QED
  BY <1>1, <1>2 DEF CoreInv, TypeOK, InHandler, Live

LEMMA SendingType ==
    ASSUME CoreInv, pc = "respond"
    PROVE  /\ Sending \in ConnType
           /\ Sending.socket = me.socket
<1>1. me \in ConnType /\ me.socket \in Client
  BY HandlerSlot
<1>2. PageLen(me) \in Nat
  BY <1>1, PageLenType DEF CoreInv, TypeOK
<1>3. QED
  BY <1>1, <1>2 DEF Sending, ConnType, WxStat

LEMMA CoreRespond ==
    ASSUME CoreInv, Respond
    PROVE  CoreInv'
<1> USE DEF RunPc, CrashPc
<1>1. CASE RespondSkip
  BY <1>1 DEF RespondSkip, CoreInv, TypeOK, InHandler, Live, loadVars, netVars
<1>2. CASE Flush
  <2>1. me.socket \in Client
    BY <1>2, HandlerSlot DEF Flush
  <2>2. win[me.socket] \in 0 .. Window /\ win[me.socket] > 0
    BY <1>2, <2>1 DEF Flush, CoreInv, TypeOK
  <2>3. win[me.socket] - 1 \in 0 .. Window
    BY <2>2, BoundAssumption
  <2>4. win' \in [Client -> 0 .. Window]
    BY <1>2, <2>1, <2>3 DEF Flush, CoreInv, TypeOK
  <2>5. QED
    BY <1>2, <2>4 DEF Flush, CoreInv, TypeOK, InHandler, Live, loadVars
<1>3. ASSUME pc = "respond" PROVE /\ cur \in Slot /\ me \in ConnType
                                 /\ me.socket \in Client /\ me = conn[cur]
                                 /\ Sending \in ConnType
                                 /\ Sending.socket = me.socket
  BY <1>3, HandlerSlot, SendingType
<1>4. CASE RespondBody
  <2> DEFINE res == SmallerOf(Sending.data_len, win[me.socket])
             k   == [Sending EXCEPT !.data_len = @ - res]
  <2>1. pc = "respond"
    BY <1>4 DEF RespondBody, BodyBranch, Responding
  <2>2. Sending.data_len \in Nat /\ win[me.socket] \in 0 .. Window
    BY <1>3, <2>1 DEF ConnType, CoreInv, TypeOK
  <2>3. /\ res \in Nat /\ Sending.data_len - res \in Nat
        /\ win[me.socket] - res \in 0 .. Window
    BY <2>2, BoundAssumption DEF SmallerOf
  <2>4. due[me.socket] \in Int
    BY <1>3, <2>1 DEF CoreInv, TypeOK
  <2>5. /\ conn' = [conn EXCEPT ![cur] = k] /\ cur' = cur
        /\ win' = [win EXCEPT ![me.socket] = @ - res]
        /\ due' = [due EXCEPT ![me.socket] = @ - res]
    BY <1>4 DEF RespondBody
  <2>6. k \in ConnType /\ k.socket = me.socket
    <3> HIDE DEF res
    <3>1. QED
      BY <1>3, <2>1, <2>3 DEF ConnType
  <2> HIDE DEF k, res
  <2>7. conn' \in [Slot -> ConnType] /\ InHandler'
    BY <2>1, <2>5, <2>6, RespondKeeps
  <2>8. win' \in [Client -> 0 .. Window] /\ due' \in [Client -> Int]
    BY <1>3, <2>1, <2>3, <2>4, <2>5 DEF CoreInv, TypeOK
  <2>9. QED
    BY <1>4, <2>7, <2>8 DEF RespondBody, CoreInv, TypeOK, loadVars
<1>5. CASE RespondLater
  <2>1. pc = "respond"
    BY <1>5 DEF RespondLater, BodyBranch, Responding
  <2>2. conn' \in [Slot -> ConnType] /\ InHandler'
    BY <1>3, <1>5, <2>1, RespondKeeps DEF RespondLater
  <2>3. peer' \in [Client -> {"idle", "open", "eof", "rst", "gone", "closed",
                             "refused"}]
    BY <1>3, <1>5, <2>1 DEF RespondLater, CoreInv, TypeOK
  <2>4. QED
    BY <1>5, <2>2, <2>3 DEF RespondLater, CoreInv, TypeOK, loadVars
<1>6. CASE RespondBroken
  <2> DEFINE k == [Sending EXCEPT !.wxstat = "ERROR"]
  <2>1. pc = "respond"
    BY <1>6 DEF RespondBroken, BodyBranch, Responding
  <2>2. k \in ConnType /\ k.socket = me.socket
    BY <1>3, <2>1 DEF ConnType, WxStat
  <2>3. conn' = [conn EXCEPT ![cur] = k] /\ cur' = cur
    BY <1>6 DEF RespondBroken
  <2> HIDE DEF k
  <2>4. conn' \in [Slot -> ConnType] /\ InHandler'
    BY <2>1, <2>2, <2>3, RespondKeeps
  <2>5. QED
    BY <1>6, <2>4 DEF RespondBroken, CoreInv, TypeOK, loadVars, netVars
<1>7. CASE RespondDone
  <2> DEFINE k == [me EXCEPT !.wxstat = "DONE"]
  <2>1. pc = "respond"
    BY <1>7 DEF RespondDone, PageSent, Responding
  <2>2. k \in ConnType /\ k.socket = me.socket
    BY <1>3, <2>1 DEF ConnType, WxStat
  <2>3. conn' = [conn EXCEPT ![cur] = k] /\ cur' = cur
    BY <1>3, <1>7, <2>1 DEF RespondDone
  <2> HIDE DEF k
  <2>4. conn' \in [Slot -> ConnType] /\ InHandler'
    BY <2>1, <2>2, <2>3, RespondKeeps
  <2>5. QED
    BY <1>7, <2>4 DEF RespondDone, CoreInv, TypeOK, loadVars, netVars
<1>8. CASE RespondFile
  <2> DEFINE k == [me EXCEPT !.wxstat = "PRCS"]
  <2>1. pc = "respond"
    BY <1>8 DEF RespondFile, PageSent, Responding
  <2>2. k \in ConnType /\ k.socket = me.socket
    BY <1>3, <2>1 DEF ConnType, WxStat
  <2>3. conn' = [conn EXCEPT ![cur] = k] /\ cur' = cur
    BY <1>3, <1>8, <2>1 DEF RespondFile
  <2> HIDE DEF k
  <2>4. conn' \in [Slot -> ConnType] /\ InHandler'
    BY <2>1, <2>2, <2>3, RespondKeeps
  <2>5. QED
    BY <1>8, <2>4 DEF RespondFile, CoreInv, TypeOK, loadVars, netVars
<1>9. CASE RespondModula
  <2> DEFINE k == [me EXCEPT !.wxstat = "PRCS", !.hb = "MODULA", !.out = @ - 1]
  <2>1. pc = "respond" /\ me.out > 0
    BY <1>9 DEF RespondModula, PageSent, Responding
  <2>2. me.out - 1 \in Nat
    BY <1>3, <2>1 DEF ConnType
  <2>3. k \in ConnType /\ k.socket = me.socket
    BY <1>3, <2>1, <2>2 DEF ConnType, WxStat
  <2>4. conn' = [conn EXCEPT ![cur] = k] /\ cur' = cur
    BY <1>9 DEF RespondModula
  <2> HIDE DEF k
  <2>5. conn' \in [Slot -> ConnType] /\ InHandler'
    BY <2>1, <2>3, <2>4, RespondKeeps
  <2>6. QED
    BY <1>9, <2>5 DEF RespondModula, CoreInv, TypeOK, loadVars, netVars
<1>10. CASE RespondModulaDone
  <2> DEFINE k == [me EXCEPT !.wxstat = "DONE", !.hb = "DONE"]
  <2>1. pc = "respond"
    BY <1>10 DEF RespondModulaDone, PageSent, Responding
  <2>2. k \in ConnType /\ k.socket = me.socket
    BY <1>3, <2>1 DEF ConnType, WxStat
  <2>3. conn' = [conn EXCEPT ![cur] = k] /\ cur' = cur
    BY <1>10 DEF RespondModulaDone
  <2> HIDE DEF k
  <2>4. conn' \in [Slot -> ConnType] /\ InHandler'
    BY <2>1, <2>2, <2>3, RespondKeeps
  <2>5. QED
    BY <1>10, <2>4 DEF RespondModulaDone, CoreInv, TypeOK, loadVars, netVars
<1>11. QED
  BY <1>1, <1>2, <1>4, <1>5, <1>6, <1>7, <1>8, <1>9, <1>10 DEF Respond

LEMMA CoreReap ==
    ASSUME CoreInv, Reap
    PROVE  CoreInv'
<1>1. /\ cur \in Slot /\ me \in ConnType /\ me.socket \in Client
      /\ cur + 1 \in 1 .. MaxConn + 1
  <2>1. pc = "reap"
    BY DEF Reap, ReapSkip, ReapClose
  <2>2. cur \in Slot /\ me \in ConnType /\ me.socket \in Client
    BY <2>1, HandlerSlot
  <2>3. QED
    BY <2>2, MaxConnAssumption DEF Slot
<1>2. CASE ReapSkip
  BY <1>1, <1>2 DEF ReapSkip, CoreInv, TypeOK, InHandler, RunPc, loadVars, netVars
<1>3. CASE ReapClose
  <2> DEFINE k == [me EXCEPT !.socket = NoSock, !.page = "none", !.data_len = 0,
                             !.age = 0, !.hs = "DONE", !.slen = 0, !.out = 0]
  <2>1. 0 \in 0 .. RdTimeout + 1 /\ 0 \in 0 .. Window
    BY BoundAssumption
  <2>2. k \in ConnType
    BY <1>1, <2>1 DEF ConnType, Page
  <2>3. conn' = [conn EXCEPT ![cur] = k]
    BY <1>3 DEF ReapClose, Freed
  <2> HIDE DEF k
  <2>4. conn' \in [Slot -> ConnType]
    BY <2>2, <2>3 DEF CoreInv, TypeOK
  <2>5. pc' \in {"receive", "crash_nopage", "crash_free"}
    BY <1>3 DEF ReapClose, CloseOutcomes
  <2>6. /\ peer' \in [Client -> {"idle", "open", "eof", "rst", "gone", "closed",
                                "refused"}]
        /\ todo' \in [Client -> Nat] /\ inq' \in [Client -> Nat]
        /\ win' \in [Client -> 0 .. Window]
    BY <1>1, <1>3, <2>1 DEF ReapClose, Closed, CoreInv, TypeOK
  <2>7. QED
    BY <1>1, <1>3, <2>4, <2>5, <2>6
       DEF ReapClose, Uncount, Closed, CoreInv, TypeOK, InHandler, RunPc, CrashPc
<1>4. QED
  BY <1>2, <1>3 DEF Reap

LEMMA CoreStep == CoreInv /\ [Next]_vars => CoreInv'
<1> SUFFICES ASSUME CoreInv, [Next]_vars PROVE CoreInv'
  OBVIOUS
<1>1. CASE Child
  BY <1>1, CoreAccept, CoreReceive, CoreRespond, CoreReap DEF Child
<1>2. CASE Environment
  BY <1>2, CoreEnvironment DEF Environment
<1>3. CASE UNCHANGED vars
  BY <1>3 DEF vars, loadVars, netVars, CoreInv, TypeOK, InHandler, Live
<1>4. QED
  BY <1>1, <1>2, <1>3 DEF Next

\* Every variable keeps its type, and a handler is only ever called on a slot
\* that holds a connection (serv.c:251-255).
THEOREM TypeCorrect == Spec => []TypeOK
<1>1. Spec => []CoreInv
  BY CoreInit, CoreStep, PTL DEF Spec
<1>2. CoreInv => TypeOK
  BY DEF CoreInv
<1>3. QED
  BY <1>1, <1>2, PTL

-----------------------------------------------------------------------------
(***************************************************************************)
(* The table of connections, the read set and the answers of Worker: the   *)
(* inductive invariant behind SlotPrefix, OneSlotEach, WatchExact,         *)
(* AnswerHasPage, Delivery and CloseJustified.                             *)
(***************************************************************************)
Watched == {"NONE", "PRCS", "TIMEOUT"}

Busy(c) == peer[c] \notin {"idle", "closed", "refused"}

AllocInv ==
    /\ SlotPrefix
    /\ \A i \in Slot : Live(i) => conn[i].alloc

OwnerInv ==
    /\ \A i, j \in Slot : Live(i) /\ conn[i].socket = conn[j].socket => i = j
    /\ \A i \in Slot : Live(i) =>
         /\ conn[i].socket \notin backlog
         /\ Busy(conn[i].socket)
    /\ \A c \in backlog : Busy(c)

WatchInv ==
    /\ \A i \in Slot : Live(i) =>
         (conn[i].socket \in fdrdset <=> conn[i].rxstat \in Watched)
    /\ \A c \in fdrdset : \E i \in Slot : conn[i].socket = c

\* What holds of a connection k whose client stands as p, and, while the
\* child runs, of one whose client still lacks d units.
AnswerOK(k, p) ==
    /\ k.hb # "HEAD" => k.rxstat = "DONE"
    /\ k.wxstat \in {"PRCS", "DONE"} => k.rxstat = "DONE"
    /\ k.wxstat = "ERROR" => p = "gone"

SentOK(k, d) ==
    k.rxstat = "DONE" =>
        /\ k.page # "none"
        /\ k.hb = "HEAD" => d = PageLen(k)
        /\ k.hb # "HEAD" => d = k.data_len
        /\ k.wxstat = "DONE" => d = 0

AnswerInv ==
    \A i \in Slot : Live(i) =>
        /\ AnswerOK(conn[i], peer[conn[i].socket])
        /\ ~Crashed => SentOK(conn[i], due[conn[i].socket])

TableInv == AllocInv /\ OwnerInv /\ WatchInv /\ AnswerInv

LEMMA TableInit == Init => TableInv
<1> SUFFICES ASSUME Init PROVE TableInv
  OBVIOUS
<1>1. \A i \in Slot : conn[i] = Unallocated /\ ~Live(i) /\ ~conn[i].alloc
  BY DEF Init, Live, Unallocated
<1>2. AllocInv
  BY <1>1 DEF AllocInv, SlotPrefix
<1>3. OwnerInv /\ WatchInv /\ AnswerInv
  BY <1>1 DEF Init, OwnerInv, WatchInv, AnswerInv
<1>4. QED
  BY <1>2, <1>3 DEF TableInv

\* The clients change only how they stand; one that connects was idle.
LEMMA EnvironmentKeeps ==
    ASSUME CoreInv, OwnerInv, NEW c \in Client,
           Connect(c) \/ Send(c) \/ Shut(c) \/ Reset(c) \/ Drain(c) \/ Steal(c)
    PROVE  /\ UNCHANGED <<conn, fdrdset, pc, req>>
           /\ \A d \in Client : Busy(d) /\ d \notin backlog =>
                /\ d \notin backlog' /\ Busy(d)' /\ due'[d] = due[d]
                /\ peer[d] = "gone" => peer'[d] = "gone"
           /\ \A d \in backlog' : Busy(d)'
<1> USE DEF CoreInv, TypeOK, OwnerInv, Busy, envUnchanged
<1>1. CASE Connect(c)
  BY <1>1 DEF Connect
<1>2. CASE Send(c)
  BY <1>2 DEF Send
<1>3. CASE Shut(c)
  BY <1>3 DEF Shut
<1>4. CASE Reset(c)
  BY <1>4 DEF Reset
<1>5. CASE Drain(c)
  BY <1>5 DEF Drain
<1>6. CASE Steal(c)
  BY <1>6 DEF Steal, Closed
<1>7. QED
  BY <1>1, <1>2, <1>3, <1>4, <1>5, <1>6

LEMMA LiveClient ==
    ASSUME CoreInv, NEW i \in Slot, Live(i)
    PROVE  conn[i].socket \in Client
  BY DEF CoreInv, TypeOK, Live, ConnType

LEMMA TableEnvironment ==
    ASSUME CoreInv, TableInv, NEW c \in Client,
           Connect(c) \/ Send(c) \/ Shut(c) \/ Reset(c) \/ Drain(c) \/ Steal(c)
    PROVE  TableInv'
<1>1. /\ UNCHANGED <<conn, fdrdset, pc, req>>
      /\ \A d \in Client : Busy(d) /\ d \notin backlog =>
           /\ d \notin backlog' /\ Busy(d)' /\ due'[d] = due[d]
           /\ peer[d] = "gone" => peer'[d] = "gone"
      /\ \A d \in backlog' : Busy(d)'
  BY EnvironmentKeeps DEF TableInv
<1>2. \A i \in Slot : Live(i)' = Live(i)
  BY <1>1 DEF Live
<1>3. AllocInv'
  BY <1>1, <1>2 DEF TableInv, AllocInv, SlotPrefix
<1>4. OwnerInv'
  BY <1>1, <1>2, LiveClient DEF TableInv, OwnerInv
<1>5. WatchInv'
  BY <1>1, <1>2 DEF TableInv, WatchInv
<1>6. AnswerInv'
  <2> SUFFICES ASSUME NEW i \in Slot, Live(i)
               PROVE  (/\ AnswerOK(conn[i], peer[conn[i].socket])
                       /\ ~Crashed => SentOK(conn[i], due[conn[i].socket]))'
    BY <1>2 DEF AnswerInv
  <2>1. /\ due'[conn[i].socket] = due[conn[i].socket]
        /\ peer[conn[i].socket] = "gone" => peer'[conn[i].socket] = "gone"
    BY <1>1, LiveClient DEF TableInv, OwnerInv
  <2>2. AnswerOK(conn[i], peer[conn[i].socket])'
    BY <1>1, <2>1 DEF TableInv, AnswerInv, AnswerOK
  <2>3. ~Crashed' => SentOK(conn[i], due[conn[i].socket])'
    BY <1>1, <2>1 DEF TableInv, AnswerInv, SentOK, PageLen, Crashed
  <2>4. QED
    BY <2>2, <2>3
<1>7. QED
  BY <1>3, <1>4, <1>5, <1>6 DEF TableInv
-----------------------------------------------------------------------------
(***************************************************************************)
(* The child.  Alike leaves out what TableInv does not look at.            *)
(***************************************************************************)
Alike(k, l) ==
    /\ k.socket = l.socket /\ k.alloc = l.alloc
    /\ k.rxstat = l.rxstat /\ k.wxstat = l.wxstat
    /\ k.hb = l.hb /\ k.page = l.page /\ k.data_len = l.data_len

\* A step that changes one live connection, keeping its socket.
LEMMA TableKeeps ==
    ASSUME CoreInv, TableInv, ~Crashed, req' = req, backlog' = backlog,
           NEW i \in Slot, Live(i),
           \A j \in Slot \ {i} : Alike(conn'[j], conn[j]),
           conn'[i].socket = conn[i].socket, conn'[i].alloc = conn[i].alloc,
           \A c \in Client : Busy(c) => Busy(c)',
           \A c \in Client \ {conn[i].socket} :
              /\ c \in fdrdset' <=> c \in fdrdset
              /\ due'[c] = due[c] /\ peer'[c] = peer[c],
           fdrdset' \subseteq Client,
           conn[i].socket \in fdrdset' <=> conn'[i].rxstat \in Watched,
           AnswerOK(conn'[i], peer'[conn[i].socket]),
           ~Crashed' => SentOK(conn[i], due[conn[i].socket])'
    PROVE  TableInv'
<1>1. \A j \in Slot : /\ conn'[j].socket = conn[j].socket
                      /\ conn'[j].alloc = conn[j].alloc
                      /\ Live(j)' = Live(j)
  BY DEF Alike, Live
<1>2. \A j \in Slot \ {i} : Live(j) => conn[j].socket \in Client \ {conn[i].socket}
  BY LiveClient DEF TableInv, OwnerInv
<1>3. AllocInv'
  BY <1>1 DEF TableInv, AllocInv, SlotPrefix
<1>4. OwnerInv'
  <2>1. \A j \in Slot : Live(j) => conn[j].socket \in Client
    BY LiveClient
  <2>2. backlog \subseteq Client
    BY DEF CoreInv, TypeOK
  <2>3. QED
    BY <1>1, <2>1, <2>2 DEF TableInv, OwnerInv
<1>5. WatchInv'
  <2>1. ASSUME NEW j \in Slot, Live(j)
        PROVE  conn'[j].socket \in fdrdset' <=> conn'[j].rxstat \in Watched
    <3>1. CASE j = i
      BY <1>1, <3>1
    <3>2. CASE j # i
      BY <1>2, <2>1, <3>2 DEF TableInv, WatchInv, Alike
    <3>3. QED
      BY <3>1, <3>2
  <2>2. ASSUME NEW c \in fdrdset'
        PROVE  \E j \in Slot : conn'[j].socket = c
    <3>1. CASE c = conn[i].socket
      BY <1>1, <3>1
    <3>2. CASE c # conn[i].socket
      BY <1>1, <3>2 DEF TableInv, WatchInv
    <3>3. QED
      BY <3>1, <3>2
  <2>3. QED
    BY <1>1, <2>1, <2>2 DEF WatchInv
<1>6. AnswerInv'
  <2> SUFFICES ASSUME NEW j \in Slot, Live(j)
               PROVE  /\ AnswerOK(conn'[j], peer'[conn'[j].socket])
                      /\ ~Crashed' => SentOK(conn[j], due[conn[j].socket])'
    BY <1>1 DEF AnswerInv
  <2>1. CASE j = i
    BY <1>1, <2>1
  <2>2. CASE j # i
    <3>1. /\ due'[conn[j].socket] = due[conn[j].socket]
          /\ peer'[conn[j].socket] = peer[conn[j].socket]
          /\ Alike(conn'[j], conn[j])
      BY <1>2, <2>2
    <3>2. AnswerOK(conn'[j], peer'[conn'[j].socket])
      BY <3>1 DEF TableInv, AnswerInv, AnswerOK, Alike
    <3>3. SentOK(conn[j], due[conn[j].socket])
      BY DEF TableInv, AnswerInv
    <3>4. SentOK(conn[j], due[conn[j].socket])'
      BY <3>1, <3>3 DEF SentOK, PageLen, Alike
    <3>5. QED
      BY <3>2, <3>4
  <2>3. QED
    BY <2>1, <2>2
<1>7. QED
  BY <1>3, <1>4, <1>5, <1>6 DEF TableInv

\* select() and the first half of the pass leave every connection alike.
LEMMA TableSelect ==
    ASSUME CoreInv, TableInv, Select
    PROVE  TableInv'
<1>1. PICK d \in {0, 1} : conn' = [i \in Slot |-> Aged(conn[i], d)]
  BY DEF Select
<1>2. \A i \in Slot : Alike(conn'[i], conn[i])
  BY <1>1, AgedType DEF CoreInv, TypeOK, ConnType, Alike
<1>3. /\ UNCHANGED <<fdrdset, backlog, peer, req, due>>
      /\ ~Crashed
  BY DEF Select, netVars, Crashed, CrashPc
<1>4. \A i \in Slot : Live(i)' = Live(i) /\ conn'[i].socket = conn[i].socket
  BY <1>2 DEF Live, Alike
<1>5. AllocInv'
  BY <1>2, <1>4 DEF TableInv, AllocInv, SlotPrefix, Alike
<1>6. OwnerInv'
  BY <1>3, <1>4 DEF TableInv, OwnerInv, Busy
<1>7. WatchInv'
  BY <1>2, <1>3, <1>4 DEF TableInv, WatchInv, Alike
<1>8. AnswerInv'
  <2> SUFFICES ASSUME NEW i \in Slot, Live(i)
               PROVE  (/\ AnswerOK(conn[i], peer[conn[i].socket])
                       /\ SentOK(conn[i], due[conn[i].socket]))'
    BY <1>4 DEF AnswerInv
  <2>1. /\ AnswerOK(conn[i], peer[conn[i].socket])
        /\ SentOK(conn[i], due[conn[i].socket])
    BY <1>3 DEF TableInv, AnswerInv
  <2>2. QED
    BY <1>2, <1>3, <2>1 DEF AnswerOK, SentOK, PageLen, Alike
<1>9. QED
  BY <1>5, <1>6, <1>7, <1>8 DEF TableInv

\* A slot that is taken is the first free one, so that no NULL is left
\* before it; a slot that accept() failed for is allocated all the same.
LEMMA TableSlotTaken ==
    ASSUME CoreInv, TableInv, FreeSlots # {},
           NEW k, k.alloc, k.rxstat = "NONE", k.wxstat = "NONE", k.hb = "HEAD",
           conn' = [conn EXCEPT ![FirstFree] = k],
           NEW c \in backlog, backlog' = backlog \ {c}, UNCHANGED <<req, due>>,
           \A d \in Client \ {c} : peer'[d] = peer[d],
           \/ k.socket = NoSock /\ fdrdset' = fdrdset
           \/ k.socket = c /\ fdrdset' = fdrdset \cup {c} /\ peer' = peer,
           ~Crashed
    PROVE  TableInv'
<1>0. PICK f \in Slot : f = FirstFree
  BY FirstFreeInSlot
<1>1. ~Live(f) /\ \A j \in Slot : ~Live(j) => f <= j
  BY <1>0, FirstFreeIsFirst DEF FreeSlots
<1>2. conn'[f] = k /\ \A j \in Slot \ {f} : conn'[j] = conn[j]
  BY <1>0 DEF CoreInv, TypeOK
<1>3. c \in Client /\ c # NoSock /\ fdrdset \subseteq Client
  BY NoSockAssumption DEF CoreInv, TypeOK
<1>4. \A j \in Slot : Live(j) => /\ conn[j].socket \in Client \ {c}
                                 /\ j # f /\ Live(j)'
  BY <1>1, <1>2, LiveClient DEF TableInv, OwnerInv, Live
<1>5. \A j \in Slot \ {f} : Live(j)' = Live(j)
  BY <1>2 DEF Live
<1>6. AllocInv'
  <2>1. SlotPrefix'
    <3> SUFFICES ASSUME NEW i \in Slot, NEW j \in Slot, i < j, conn'[j].alloc
                 PROVE  conn'[i].alloc
      BY DEF SlotPrefix
    <3>1. CASE j = f
      <4>1. i \in Int /\ f \in Int /\ i < f
        BY <1>1, <3>1 DEF Slot
      <4>2. Live(i)
        BY <1>1, <4>1
      <4>3. QED
        BY <1>2, <1>4, <4>2 DEF TableInv, AllocInv
    <3>2. CASE j # f
      BY <1>2, <3>2 DEF TableInv, AllocInv, SlotPrefix
    <3>3. QED
      BY <3>1, <3>2
  <2>2. QED
    BY <1>2, <1>5, <2>1 DEF TableInv, AllocInv
<1>7. OwnerInv'
  <2>1. \A d \in Client \ {c} : Busy(d)' = Busy(d)
    BY DEF Busy
  <2>2. Live(f)' => k.socket = c /\ peer' = peer
    BY <1>2 DEF Live
  <2>3. ASSUME NEW i \in Slot, NEW j \in Slot, Live(i)',
               conn'[i].socket = conn'[j].socket
        PROVE  i = j
    <3>1. Live(j)'
      BY <2>3 DEF Live
    <3>2. CASE i = f
      BY <1>2, <1>4, <1>5, <2>2, <2>3, <3>1, <3>2
    <3>3. CASE j = f
      BY <1>2, <1>4, <1>5, <2>2, <2>3, <3>1, <3>3
    <3>4. CASE i # f /\ j # f
      BY <1>2, <1>5, <2>3, <3>4 DEF TableInv, OwnerInv
    <3>5. QED
      BY <3>2, <3>3, <3>4
  <2>4. \A i \in Slot : Live(i)' =>
           conn'[i].socket \notin backlog' /\ Busy(conn[i].socket)'
    <3> SUFFICES ASSUME NEW i \in Slot, Live(i)'
                 PROVE  conn'[i].socket \notin backlog' /\ Busy(conn[i].socket)'
      OBVIOUS
    <3>1. CASE i = f
      BY <1>2, <2>2, <3>1 DEF TableInv, OwnerInv, Busy
    <3>2. CASE i # f
      BY <1>2, <1>4, <1>5, <2>1, <3>2 DEF TableInv, OwnerInv
    <3>3. QED
      BY <3>1, <3>2
  <2>5. \A d \in backlog' : Busy(d)'
    BY <2>1 DEF TableInv, OwnerInv, CoreInv, TypeOK
  <2>6. QED
    BY <2>3, <2>4, <2>5 DEF OwnerInv
<1>8. WatchInv'
  <2>1. ASSUME NEW i \in Slot, Live(i)'
        PROVE  conn'[i].socket \in fdrdset' <=> conn'[i].rxstat \in Watched
    <3>1. CASE i = f
      BY <1>2, <2>1, <3>1 DEF Live, Watched
    <3>2. CASE i # f
      BY <1>2, <1>4, <1>5, <2>1, <3>2 DEF TableInv, WatchInv
    <3>3. QED
      BY <3>1, <3>2
  <2>2. ASSUME NEW d \in fdrdset'
        PROVE  \E i \in Slot : conn'[i].socket = d
    <3>1. CASE d \in fdrdset
      <4>1. PICK i \in Slot : conn[i].socket = d
        BY <3>1 DEF TableInv, WatchInv
      <4>2. Live(i)
        BY <1>3, <3>1, <4>1, NoSockAssumption DEF Live
      <4>3. QED
        BY <1>2, <1>4, <4>1, <4>2
    <3>2. CASE d \notin fdrdset
      BY <1>1, <1>2, <2>2, <3>2
    <3>3. QED
      BY <3>1, <3>2
  <2>3. QED
    BY <2>1, <2>2 DEF WatchInv
<1>9. AnswerInv'
  <2> SUFFICES ASSUME NEW i \in Slot, Live(i)'
               PROVE  (/\ AnswerOK(conn[i], peer[conn[i].socket])
                       /\ SentOK(conn[i], due[conn[i].socket]))'
    BY DEF AnswerInv
  <2>1. CASE i = f
    BY <1>2, <2>1 DEF AnswerOK, SentOK
  <2>2. CASE i # f
    <3>1. /\ AnswerOK(conn[i], peer[conn[i].socket])
          /\ SentOK(conn[i], due[conn[i].socket])
      BY <1>5, <2>2 DEF TableInv, AnswerInv
    <3>2. conn'[i] = conn[i] /\ peer'[conn[i].socket] = peer[conn[i].socket]
      BY <1>2, <1>4, <1>5, <2>2
    <3>3. QED
      BY <3>1, <3>2 DEF AnswerOK, SentOK, PageLen
  <2>3. QED
    BY <2>1, <2>2
<1>10. QED
  BY <1>6, <1>7, <1>8, <1>9 DEF TableInv

LEMMA TableAccept ==
    ASSUME CoreInv, TableInv, AcceptNext
    PROVE  TableInv'
<1>1. PICK c \in Client : Accept(c) \/ AcceptFails(c) \/ AcceptDrop(c)
  BY DEF AcceptNext
<1>2. ~Crashed
  BY <1>1 DEF Accept, AcceptFails, AcceptDrop, Crashed, CrashPc
<1>3. CASE Accept(c)
  <2> DEFINE k == Opened(c)
  <2>1. /\ k.alloc /\ k.rxstat = "NONE" /\ k.wxstat = "NONE" /\ k.hb = "HEAD"
        /\ k.socket = c
    BY DEF Opened, Unallocated
  <2>2. /\ conn' = [conn EXCEPT ![FirstFree] = k] /\ FreeSlots # {}
        /\ c \in backlog /\ backlog' = backlog \ {c} /\ UNCHANGED <<req, due, peer>>
        /\ fdrdset' = fdrdset \cup {c}
    BY <1>3 DEF Accept
  <2> HIDE DEF k
  <2>3. QED
    BY <1>2, <2>1, <2>2, TableSlotTaken
<1>4. CASE AcceptFails(c)
  <2> DEFINE k == [Opened(c) EXCEPT !.socket = NoSock, !.hs = "DONE"]
  <2>1. /\ k.alloc /\ k.rxstat = "NONE" /\ k.wxstat = "NONE" /\ k.hb = "HEAD"
        /\ k.socket = NoSock
    BY DEF Opened, Unallocated
  <2>2. /\ conn' = [conn EXCEPT ![FirstFree] = k] /\ FreeSlots # {}
        /\ c \in backlog /\ backlog' = backlog \ {c} /\ UNCHANGED <<req, due>>
        /\ fdrdset' = fdrdset
        /\ \A d \in Client \ {c} : peer'[d] = peer[d]
    BY <1>4 DEF AcceptFails, Closed, CoreInv, TypeOK
  <2> HIDE DEF k
  <2>3. QED
    BY <1>2, <2>1, <2>2, TableSlotTaken
<1>5. CASE AcceptDrop(c)
  <2>1. /\ UNCHANGED <<conn, fdrdset, req, due>> /\ backlog' = backlog \ {c}
        /\ c \in backlog /\ \A d \in Client \ {c} : peer'[d] = peer[d]
    BY <1>5 DEF AcceptDrop, Closed, CoreInv, TypeOK
  <2>2. \A i \in Slot : /\ Live(i)' = Live(i)
                        /\ Live(i) => conn[i].socket \in Client \ {c}
    BY <2>1, LiveClient DEF Live, TableInv, OwnerInv
  <2>3. AllocInv' /\ WatchInv'
    BY <2>1, <2>2 DEF TableInv, AllocInv, SlotPrefix, WatchInv
  <2>4. OwnerInv'
    BY <2>1, <2>2 DEF TableInv, OwnerInv, Busy, CoreInv, TypeOK
  <2>5. AnswerInv'
    BY <1>2, <2>1, <2>2 DEF TableInv, AnswerInv, AnswerOK, SentOK, PageLen
  <2>6. QED
    BY <2>3, <2>4, <2>5 DEF TableInv
<1>6. QED
  BY <1>1, <1>3, <1>4, <1>5

-----------------------------------------------------------------------------
(***************************************************************************)
(* The handlers of a pass.                                                 *)
(***************************************************************************)

\* What a handler may take for granted of its slot.
LEMMA HandlerTable ==
    ASSUME CoreInv, TableInv,
           pc \in {"respond", "flush", "reap"} \/ (Scanning /\ Live(cur))
    PROVE  /\ cur \in Slot /\ Live(cur) /\ me = conn[cur] /\ me \in ConnType
           /\ me.socket \in Client /\ Busy(me.socket) /\ ~Crashed
           /\ me.socket \in fdrdset <=> me.rxstat \in Watched
           /\ AnswerOK(me, peer[me.socket]) /\ SentOK(me, due[me.socket])
<1>1. ~Crashed
  BY DEF Scanning, Crashed, CrashPc
<1>2. /\ cur \in Slot /\ Live(cur) /\ me = conn[cur] /\ me \in ConnType
      /\ me.socket \in Client
  BY HandlerSlot DEF CoreInv, InHandler
<1>3. QED
  BY <1>1, <1>2 DEF TableInv, OwnerInv, WatchInv, AnswerInv

\* Units read leave the connection's answer to come, or a page for it.
LEMMA TableRead ==
    ASSUME CoreInv, TableInv, Reading, NEW rd \in {0, 1}, Read(rd),
           \A j \in Slot \ {cur} : Alike(conn'[j], conn[j]),
           conn'[cur].socket = me.socket, conn'[cur].alloc = me.alloc,
           conn'[cur].hb = me.hb, conn'[cur].wxstat = me.wxstat,
           \A c \in Client \ {me.socket} : due'[c] = due[c],
           \/ conn'[cur].rxstat = "PRCS" /\ fdrdset' = fdrdset
           \/ /\ conn'[cur].rxstat = "DONE" /\ fdrdset' = fdrdset \ {me.socket}
              /\ ~Crashed' => /\ conn'[cur].page # "none"
                              /\ (due[conn[cur].socket] = PageLen(conn[cur]))'
    PROVE  TableInv'
<1>1. /\ cur \in Slot /\ Live(cur) /\ me = conn[cur]
      /\ me.socket \in Client /\ ~Crashed
      /\ me.socket \in fdrdset <=> me.rxstat \in Watched
      /\ AnswerOK(me, peer[me.socket])
  BY HandlerTable DEF Reading
<1>2. me.rxstat \in {"NONE", "PRCS"} /\ me.hb = "HEAD"
      /\ me.wxstat \notin {"PRCS", "DONE"}
  BY <1>1 DEF Reading, AnswerOK
<1>3. UNCHANGED <<req, backlog, peer, cur>> /\ fdrdset' \subseteq Client
  BY DEF Read, CoreInv, TypeOK
<1>4. AnswerOK(conn'[cur], peer'[me.socket])
  BY <1>1, <1>2, <1>3 DEF AnswerOK
<1>5. ~Crashed' => SentOK(conn[cur], due[conn[cur].socket])'
  BY <1>1, <1>2, <1>3 DEF SentOK
<1>6. conn[cur].socket \in fdrdset' <=> conn'[cur].rxstat \in Watched
  BY <1>1, <1>2 DEF Watched
<1>7. \A c \in Client : Busy(c) => Busy(c)'
  BY <1>3 DEF Busy
<1>8. QED
  BY <1>1, <1>3, <1>4, <1>5, <1>6, <1>7, TableKeeps

\* http_session_process() leaves alone what the answer depends on.
LEMMA ReceivedFields ==
    ASSUME TypeOK, Scanning, Live(cur), NEW rd \in {0, 1}, NEW rx \in RxStat
    PROVE  LET k == Received(Process(me, rd), rx)
           IN  /\ k \in ConnType /\ k.socket = me.socket /\ k.alloc = me.alloc
               /\ k.hb = me.hb /\ k.wxstat = me.wxstat /\ k.rxstat = rx
               /\ k.page = me.page /\ k.data_len = me.data_len
<1>1. me \in ConnType /\ Received(Process(me, rd), rx) \in ConnType
  BY ReceivedType
<1>2. QED
  BY <1>1, ReceivedType DEF Received, ConnType

LEMMA TableReceivePage ==
    ASSUME CoreInv, TableInv, ReceivePage
    PROVE  TableInv'
<1>1. PICK rd \in {0, 1} :
        /\ Read(rd)
        /\ fdrdset' = fdrdset \ {me.socket}
        /\ \E g \in GenPage(Process(me, rd), req[me.socket]) :
              \/ /\ g \in CrashPc
                 /\ pc' = g
                 /\ conn' = [conn EXCEPT ![cur] = Received(Process(me, rd), "DONE")]
              \/ /\ g \notin CrashPc
                 /\ pc' = "respond"
                 /\ conn' = [conn EXCEPT ![cur] =
                               [Received(Process(me, rd), "DONE") EXCEPT
                                  !.page = g, !.out = req[me.socket].out]]
        /\ due' = [due EXCEPT ![me.socket] =
                     GenLen(Process(me, rd), req[me.socket])]
  BY DEF ReceivePage
<1>2. Reading /\ Scanning /\ Live(cur)
  BY <1>1 DEF Read, Reading
<1>3. /\ cur \in Slot /\ me = conn[cur] /\ me \in ConnType
      /\ me.socket \in Client /\ UNCHANGED <<cur, req>>
  BY <1>1, <1>2, HandlerTable DEF Read
<1> DEFINE k == Received(Process(me, rd), "DONE")
<1>4. /\ k \in ConnType /\ k.socket = me.socket /\ k.alloc = me.alloc
      /\ k.hb = me.hb /\ k.wxstat = me.wxstat /\ k.rxstat = "DONE"
  BY <1>2, ReceivedFields DEF CoreInv, RxStat
<1>5. PICK g \in GenPage(Process(me, rd), req[me.socket]) :
        \/ g \in CrashPc /\ pc' = g /\ conn' = [conn EXCEPT ![cur] = k]
        \/ /\ g \notin CrashPc /\ pc' = "respond"
           /\ conn' = [conn EXCEPT ![cur] =
                        [k EXCEPT !.page = g, !.out = req[me.socket].out]]
  BY <1>1
<1> HIDE DEF k
<1>6. /\ \A j \in Slot \ {cur} : conn'[j] = conn[j]
      /\ conn'[cur].socket = me.socket /\ conn'[cur].alloc = me.alloc
      /\ conn'[cur].hb = me.hb /\ conn'[cur].wxstat = me.wxstat
      /\ conn'[cur].rxstat = "DONE"
      /\ ~Crashed' => g \notin CrashPc /\ conn'[cur].page = g
  <2>1. CASE g \in CrashPc
    BY <1>3, <1>4, <1>5, <2>1 DEF CoreInv, TypeOK, Crashed
  <2>2. CASE g \notin CrashPc
    <3> DEFINE l == [k EXCEPT !.page = g, !.out = req[me.socket].out]
    <3>1. /\ l.socket = me.socket /\ l.alloc = me.alloc /\ l.hb = me.hb
          /\ l.wxstat = me.wxstat /\ l.rxstat = "DONE" /\ l.page = g
      BY <1>4 DEF ConnType
    <3>2. conn' = [conn EXCEPT ![cur] = l]
      BY <1>5, <2>2
    <3> HIDE DEF l
    <3>3. QED
      BY <1>3, <2>2, <3>1, <3>2 DEF CoreInv, TypeOK
  <2>3. QED
    BY <2>1, <2>2
<1>7. req[me.socket] \in Requests /\ req[me.socket].op \in {"plain", "big", "modula", "fail"}
  BY <1>3, RequestAssumption DEF CoreInv, TypeOK, RequestType
<1>8. g \notin CrashPc =>
        /\ g # "none"
        /\ g = "bad" <=> Process(me, rd).bad
  BY <1>7 DEF GenPage, CrashPc
<1>9. due'[me.socket] = GenLen(Process(me, rd), req[me.socket])
      /\ \A c \in Client \ {me.socket} : due'[c] = due[c]
  BY <1>1, <1>3 DEF CoreInv, TypeOK
<1>10. ~Crashed' => /\ conn'[cur].page # "none"
                    /\ (due[conn[cur].socket] = PageLen(conn[cur]))'
  BY <1>3, <1>6, <1>8, <1>9 DEF GenLen, PageLen
<1>11. \A j \in Slot \ {cur} : Alike(conn'[j], conn[j])
  BY <1>6 DEF Alike
<1>12. QED
  BY <1>1, <1>2, <1>6, <1>9, <1>10, <1>11, TableRead

LEMMA TableReceiveBody ==
    ASSUME CoreInv, TableInv, ReceiveBody
    PROVE  TableInv'
<1>1. PICK rd \in {0, 1} :
        /\ Read(rd)
        /\ \E g \in GenPage(Process(me, rd), req[me.socket]) :
              BodyStep(Process(me, rd), g)
        /\ due' = [due EXCEPT ![me.socket] =
                     GenLen(Process(me, rd), req[me.socket])]
        /\ fdrdset' = fdrdset
  BY DEF ReceiveBody
<1>2. PICK g \in GenPage(Process(me, rd), req[me.socket]) :
        BodyStep(Process(me, rd), g)
  BY <1>1
<1>3. Reading /\ Scanning /\ Live(cur)
  BY <1>1 DEF Read, Reading
<1>4. cur \in Slot /\ me = conn[cur] /\ me.socket \in Client
  BY <1>3, HandlerTable
<1> DEFINE k == Received(Process(me, rd), "PRCS")
           l == [k EXCEPT !.page = IF g \in CrashPc THEN "none" ELSE g,
                          !.out = req[me.socket].out]
           posted == Posted(Process(me, rd), g)
<1>5. /\ k \in ConnType /\ k.socket = me.socket /\ k.alloc = me.alloc
      /\ k.hb = me.hb /\ k.wxstat = me.wxstat /\ k.rxstat = "PRCS"
  BY <1>3, ReceivedFields DEF CoreInv, RxStat
<1>6. /\ l.socket = me.socket /\ l.alloc = me.alloc /\ l.hb = me.hb
      /\ l.wxstat = me.wxstat /\ l.rxstat = "PRCS"
  <2> HIDE DEF k
  <2>1. QED
    BY <1>5 DEF ConnType
<1>7. posted = [conn EXCEPT ![cur] = l]
  BY DEF Posted
<1>8. conn' = posted
  BY <1>2 DEF BodyStep
<1> HIDE DEF l, k, posted
<1>9. posted[cur] = l /\ \A j \in Slot \ {cur} : posted[j] = conn[j]
  BY <1>4, <1>7 DEF CoreInv, TypeOK
<1>10. cur + 1 # cur
  BY <1>4 DEF Slot
<1>11. /\ conn'[cur] = l
       /\ \A j \in Slot \ {cur} : conn'[j] = conn[j]
  BY <1>8, <1>9
<1>12. \A j \in Slot \ {cur} : Alike(conn'[j], conn[j])
  <2> SUFFICES ASSUME NEW j \in Slot \ {cur} PROVE Alike(conn'[j], conn[j])
    OBVIOUS
  <2>1. conn[j] \in ConnType
    BY DEF CoreInv, TypeOK
  <2>2. QED
    BY <1>11, <2>1 DEF Alike, ConnType
<1>13. \A c \in Client \ {me.socket} : due'[c] = due[c]
  BY <1>1, <1>4 DEF CoreInv, TypeOK
<1>14. QED
  BY <1>1, <1>3, <1>6, <1>11, <1>12, <1>13, TableRead

LEMMA TableReceive ==
    ASSUME CoreInv, TableInv, Scan
    PROVE  TableInv'
<1>1. CASE ScanEnd \/ ScanFree
  BY <1>1 DEF ScanEnd, ScanFree, Scanning, netVars, TableInv, AllocInv, SlotPrefix,
              OwnerInv, WatchInv, AnswerInv, AnswerOK, SentOK, PageLen, Live,
              Busy, Crashed, CrashPc
<1>2. CASE ReceiveIdle \/ ReceiveIgnored
  <2>1. /\ cur \in Slot /\ Live(cur) /\ me = conn[cur] /\ me \in ConnType
        /\ me.socket \in Client /\ ~Crashed
        /\ me.socket \in fdrdset <=> me.rxstat \in Watched
        /\ AnswerOK(me, peer[me.socket]) /\ SentOK(me, due[me.socket])
    BY <1>2, HandlerTable DEF ReceiveIdle, ReceiveIgnored
  <2>2. /\ UNCHANGED <<cur, fdrdset, backlog, peer, req, due>>
        /\ \/ conn' = conn
           \/ me.rxstat = "PRCS" /\ conn' = [conn EXCEPT ![cur].rxstat = "TIMEOUT"]
           \/ conn' = [conn EXCEPT ![cur].age = 0]
    BY <1>2 DEF ReceiveIdle, ReceiveIgnored, netVars
  <2>3. /\ \A j \in Slot \ {cur} : conn'[j] = conn[j]
        /\ conn'[cur].socket = me.socket /\ conn'[cur].alloc = me.alloc
        /\ conn'[cur].hb = me.hb /\ conn'[cur].wxstat = me.wxstat
        /\ conn'[cur].page = me.page /\ conn'[cur].data_len = me.data_len
        /\ \/ conn'[cur].rxstat = me.rxstat
           \/ me.rxstat = "PRCS" /\ conn'[cur].rxstat = "TIMEOUT"
    BY <2>1, <2>2 DEF CoreInv, TypeOK, ConnType
  <2>4. \A j \in Slot \ {cur} : Alike(conn'[j], conn[j])
    BY <2>3 DEF Alike
  <2>5. AnswerOK(conn'[cur], peer'[me.socket])
    BY <2>1, <2>2, <2>3 DEF AnswerOK
  <2>6. SentOK(conn[cur], due[conn[cur].socket])'
    BY <2>1, <2>2, <2>3 DEF SentOK, PageLen
  <2>7. conn[cur].socket \in fdrdset' <=> conn'[cur].rxstat \in Watched
    BY <2>1, <2>2, <2>3 DEF Watched
  <2>8. \A c \in Client : Busy(c) => Busy(c)'
    BY <2>2 DEF Busy
  <2>9. fdrdset' \subseteq Client
    BY <2>2 DEF CoreInv, TypeOK
  <2>10. QED
    BY <2>1, <2>2, <2>3, <2>4, <2>5, <2>6, <2>7, <2>8, <2>9, TableKeeps
<1>3. CASE ReceiveError
  <2> DEFINE k == [me EXCEPT !.age = 0, !.rxstat = "ERROR", !.wxstat = "ERROR"]
  <2>1. /\ cur \in Slot /\ Live(cur) /\ me = conn[cur] /\ me \in ConnType
        /\ me.socket \in Client /\ ~Crashed /\ AnswerOK(me, peer[me.socket])
        /\ me.rxstat \in {"NONE", "PRCS"}
    BY <1>3, HandlerTable DEF ReceiveError, Reading
  <2>2. /\ k.socket = me.socket /\ k.alloc = me.alloc /\ k.hb = me.hb
        /\ k.rxstat = "ERROR" /\ k.wxstat = "ERROR"
    BY <2>1 DEF ConnType
  <2>3. /\ conn' = [conn EXCEPT ![cur] = k] /\ fdrdset' = fdrdset \ {me.socket}
        /\ peer' = [peer EXCEPT ![me.socket] = "gone"]
        /\ UNCHANGED <<cur, backlog, req, due>>
    BY <1>3 DEF ReceiveError
  <2> HIDE DEF k
  <2>4. conn'[cur] = k /\ \A j \in Slot \ {cur} : Alike(conn'[j], conn[j])
    BY <2>1, <2>3 DEF CoreInv, TypeOK, Alike
  <2>5. /\ peer'[me.socket] = "gone"
        /\ \A c \in Client \ {me.socket} : peer'[c] = peer[c]
    BY <2>1, <2>3 DEF CoreInv, TypeOK
  <2>6. AnswerOK(conn'[cur], peer'[me.socket])
    BY <2>1, <2>2, <2>4, <2>5 DEF AnswerOK
  <2>7. SentOK(conn[cur], due[conn[cur].socket])'
    BY <2>2, <2>3, <2>4 DEF SentOK
  <2>8. \A c \in Client : Busy(c) => Busy(c)'
    BY <2>5 DEF Busy
  <2>9. fdrdset' \subseteq Client
    BY <2>3 DEF CoreInv, TypeOK
  <2>10. QED
    BY <2>1, <2>2, <2>3, <2>4, <2>5, <2>6, <2>7, <2>8, <2>9, TableKeeps DEF Watched
<1>4. CASE ReceiveMore
  <2>1. PICK rd \in {0, 1} :
          /\ Read(rd)
          /\ conn' = [conn EXCEPT ![cur] = Received(Process(me, rd), "PRCS")]
          /\ fdrdset' = fdrdset /\ due' = due
    BY <1>4 DEF ReceiveMore
  <2> DEFINE k == Received(Process(me, rd), "PRCS")
  <2>2. Reading /\ Scanning /\ Live(cur) /\ cur \in Slot
    BY <2>1, HandlerTable DEF Read, Reading
  <2>3. /\ k.socket = me.socket /\ k.alloc = me.alloc
        /\ k.hb = me.hb /\ k.wxstat = me.wxstat /\ k.rxstat = "PRCS"
    BY <2>2, ReceivedFields DEF CoreInv, RxStat
  <2>4. conn'[cur] = k /\ \A j \in Slot \ {cur} : Alike(conn'[j], conn[j])
    BY <2>1, <2>2 DEF CoreInv, TypeOK, Alike
  <2> HIDE DEF k
  <2>5. QED
    BY <2>1, <2>2, <2>3, <2>4, TableRead
<1>5. QED
  BY <1>1, <1>2, <1>3, <1>4, TableReceivePage, TableReceiveBody DEF Scan

\* A call of write_connection() that leaves the connection as k.
LEMMA TableWrite ==
    ASSUME CoreInv, TableInv, pc \in {"respond", "flush"},
           UNCHANGED <<cur, backlog, req>>,
           NEW k, conn' = [conn EXCEPT ![cur] = k],
           k.socket = me.socket, k.alloc = me.alloc, k.rxstat = me.rxstat,
           \A c \in Client \ {me.socket} : due'[c] = due[c] /\ peer'[c] = peer[c],
           Busy(me.socket)',
           \/ fdrdset' = fdrdset
           \/ me.rxstat = "DONE" /\ fdrdset' = fdrdset \ {me.socket},
           AnswerOK(k, peer'[me.socket]),
           ~Crashed' => SentOK(conn[cur], due[conn[cur].socket])'
    PROVE  TableInv'
<1>1. /\ cur \in Slot /\ Live(cur) /\ me = conn[cur]
      /\ me.socket \in Client /\ ~Crashed
      /\ me.socket \in fdrdset <=> me.rxstat \in Watched
  BY HandlerTable
<1>2. conn'[cur] = k /\ \A j \in Slot \ {cur} : Alike(conn'[j], conn[j])
  BY <1>1 DEF CoreInv, TypeOK, Alike
<1>3. \A c \in Client : Busy(c) => Busy(c)'
  <2>1. \A c \in Client \ {me.socket} : Busy(c)' = Busy(c)
    BY DEF Busy
  <2>2. QED
    BY <1>2, <2>1 DEF Busy, me
<1>4. fdrdset' \subseteq Client
  BY DEF CoreInv, TypeOK
<1>5. conn[cur].socket \in fdrdset' <=> conn'[cur].rxstat \in Watched
  BY <1>1, <1>2 DEF Watched
<1>6. QED
  BY <1>1, <1>2, <1>3, <1>4, <1>5, TableKeeps

LEMMA TableRespond ==
    ASSUME CoreInv, TableInv, Respond
    PROVE  TableInv'
<1>1. /\ cur \in Slot /\ Live(cur) /\ me = conn[cur] /\ me \in ConnType
      /\ me.socket \in Client /\ Busy(me.socket)
      /\ AnswerOK(me, peer[me.socket]) /\ SentOK(me, due[me.socket])
      /\ pc \in {"respond", "flush"}
  <2>1. pc \in {"respond", "flush"}
    BY DEF Respond, RespondSkip, RespondBody, RespondLater, RespondBroken,
           RespondDone, RespondFile, RespondModula, RespondModulaDone, Flush,
           BodyBranch, PageSent, Responding
  <2>2. QED
    BY <2>1, HandlerTable
<1>2. CASE RespondSkip \/ Flush
  <2>1. UNCHANGED <<cur, conn, fdrdset, backlog, peer, req, due>>
    BY <1>2 DEF RespondSkip, Flush, netVars
  <2>2. ~Crashed
    BY <1>1 DEF Crashed, CrashPc
  <2>3. QED
    BY <2>1, <2>2 DEF TableInv, AllocInv, SlotPrefix, OwnerInv, WatchInv, AnswerInv,
              AnswerOK, SentOK, PageLen, Live, Busy
<1>3. BodyBranch =>
        /\ Sending.socket = me.socket /\ Sending.alloc = me.alloc
        /\ Sending.rxstat = "DONE" /\ me.rxstat = "DONE"
        /\ Sending.wxstat = "PRCS" /\ Sending.hb = "BODY"
        /\ Sending.page = me.page /\ Sending.page # "none"
        /\ Sending.data_len = due[me.socket] /\ Sending \in ConnType
  <2> SUFFICES ASSUME BodyBranch
               PROVE  /\ Sending.socket = me.socket /\ Sending.alloc = me.alloc
                      /\ Sending.rxstat = "DONE" /\ me.rxstat = "DONE"
                      /\ Sending.wxstat = "PRCS" /\ Sending.hb = "BODY"
                      /\ Sending.page = me.page /\ Sending.page # "none"
                      /\ Sending.data_len = due[me.socket] /\ Sending \in ConnType
    OBVIOUS
  <2>1. pc = "respond" /\ me.rxstat = "DONE" /\ me.hb \in {"HEAD", "BODY"}
    BY DEF BodyBranch, Responding
  <2>2. Sending \in ConnType
    BY <2>1, SendingType
  <2>3. CASE me.hb = "HEAD"
    BY <1>1, <2>1, <2>2, <2>3 DEF Sending, ConnType, SentOK
  <2>4. CASE me.hb = "BODY"
    BY <1>1, <2>1, <2>2, <2>4 DEF Sending, ConnType, SentOK
  <2>5. QED
    BY <2>1, <2>3, <2>4
<1>4. CASE RespondBody
  <2> DEFINE res == SmallerOf(Sending.data_len, win[me.socket])
             k   == [Sending EXCEPT !.data_len = @ - res]
  <2>1. BodyBranch /\ conn' = [conn EXCEPT ![cur] = k]
        /\ due' = [due EXCEPT ![me.socket] = @ - res]
        /\ UNCHANGED <<cur, backlog, req, fdrdset, peer>>
    BY <1>4 DEF RespondBody
  <2>2. /\ k.socket = me.socket /\ k.alloc = me.alloc /\ k.rxstat = "DONE"
        /\ k.wxstat = "PRCS" /\ k.hb = "BODY" /\ k.page # "none"
        /\ k.data_len = Sending.data_len - res
    <3> HIDE DEF res
    <3>1. QED
      BY <1>3, <2>1 DEF ConnType
  <2> HIDE DEF k, res
  <2>3. /\ due'[me.socket] = due[me.socket] - res
        /\ \A c \in Client \ {me.socket} : due'[c] = due[c] /\ peer'[c] = peer[c]
    BY <1>1, <2>1 DEF CoreInv, TypeOK
  <2>4. conn'[cur] = k
    BY <1>1, <2>1 DEF CoreInv, TypeOK
  <2>5. SentOK(conn[cur], due[conn[cur].socket])'
    BY <1>3, <2>1, <2>2, <2>3, <2>4 DEF SentOK
  <2>6. AnswerOK(k, peer'[me.socket])
    BY <2>2 DEF AnswerOK
  <2>7. Busy(me.socket)'
    BY <1>1, <2>1, <2>2, <2>4 DEF Busy, me
  <2>8. QED
    BY <1>1, <1>3, <2>1, <2>2, <2>3, <2>5, <2>6, <2>7, TableWrite
<1>5. CASE RespondLater
  <2> DEFINE k == Sending
  <2>1. BodyBranch /\ conn' = [conn EXCEPT ![cur] = k]
        /\ peer' = [peer EXCEPT ![me.socket] = IF @ = "rst" THEN "gone" ELSE @]
        /\ peer[me.socket] # "gone"
        /\ UNCHANGED <<cur, backlog, req, fdrdset, due>>
    BY <1>5 DEF RespondLater
  <2>2. /\ k.socket = me.socket /\ k.alloc = me.alloc /\ k.rxstat = "DONE"
        /\ k.wxstat = "PRCS" /\ k.hb = "BODY" /\ k.page # "none"
        /\ k.data_len = due[me.socket]
    BY <1>3, <2>1
  <2> HIDE DEF k
  <2>3. /\ \A c \in Client \ {me.socket} : due'[c] = due[c] /\ peer'[c] = peer[c]
        /\ peer'[me.socket] \in {"gone", peer[me.socket]}
    BY <1>1, <2>1 DEF CoreInv, TypeOK
  <2>4. conn'[cur] = k
    BY <1>1, <2>1 DEF CoreInv, TypeOK
  <2>5. SentOK(conn[cur], due[conn[cur].socket])'
    BY <2>1, <2>2, <2>4 DEF SentOK
  <2>6. AnswerOK(k, peer'[me.socket])
    BY <2>2 DEF AnswerOK
  <2>7. Busy(me.socket)'
    BY <1>1, <2>1, <2>2, <2>3, <2>4 DEF Busy, me
  <2>8. QED
    BY <1>1, <1>3, <2>1, <2>2, <2>3, <2>5, <2>6, <2>7, TableWrite
<1>6. CASE RespondBroken
  <2> DEFINE k == [Sending EXCEPT !.wxstat = "ERROR"]
  <2>1. BodyBranch /\ conn' = [conn EXCEPT ![cur] = k] /\ peer[me.socket] = "gone"
        /\ fdrdset' = fdrdset \ {me.socket}
        /\ UNCHANGED <<cur, backlog, req, due, peer>>
    BY <1>6 DEF RespondBroken, netVars
  <2>2. /\ k.socket = me.socket /\ k.alloc = me.alloc /\ k.rxstat = "DONE"
        /\ k.wxstat = "ERROR" /\ k.hb = "BODY" /\ k.page # "none"
        /\ k.data_len = due[me.socket]
    BY <1>3, <2>1 DEF ConnType
  <2> HIDE DEF k
  <2>3. conn'[cur] = k
    BY <1>1, <2>1 DEF CoreInv, TypeOK
  <2>4. SentOK(conn[cur], due[conn[cur].socket])'
    BY <2>1, <2>2, <2>3 DEF SentOK
  <2>5. AnswerOK(k, peer'[me.socket])
    BY <2>1, <2>2 DEF AnswerOK
  <2>6. Busy(me.socket)'
    BY <1>1, <2>1, <2>2, <2>3 DEF Busy, me
  <2>7. QED
    BY <1>1, <1>3, <2>1, <2>2, <2>4, <2>5, <2>6, TableWrite
<1>7. CASE RespondDone \/ RespondModulaDone
  <2>1. \E k : /\ conn' = [conn EXCEPT ![cur] = k]
               /\ k.socket = me.socket /\ k.alloc = me.alloc
               /\ k.rxstat = me.rxstat /\ k.wxstat = "DONE"
               /\ k.hb # "HEAD" /\ k.page = me.page /\ k.data_len = me.data_len
    <3>1. CASE RespondDone
      <4> DEFINE k == [me EXCEPT !.wxstat = "DONE"]
      <4>1. /\ k.socket = me.socket /\ k.alloc = me.alloc
            /\ k.rxstat = me.rxstat /\ k.wxstat = "DONE"
            /\ k.hb # "HEAD" /\ k.page = me.page /\ k.data_len = me.data_len
        BY <1>1, <3>1 DEF RespondDone, PageSent, ConnType
      <4>2. conn' = [conn EXCEPT ![cur] = k]
        BY <1>1, <3>1 DEF RespondDone
      <4> HIDE DEF k
      <4>3. QED
        BY <4>1, <4>2
    <3>2. CASE RespondModulaDone
      <4> DEFINE k == [me EXCEPT !.wxstat = "DONE", !.hb = "DONE"]
      <4>1. /\ k.socket = me.socket /\ k.alloc = me.alloc
            /\ k.rxstat = me.rxstat /\ k.wxstat = "DONE"
            /\ k.hb # "HEAD" /\ k.page = me.page /\ k.data_len = me.data_len
        BY <1>1, <3>2 DEF RespondModulaDone, PageSent, ConnType
      <4>2. conn' = [conn EXCEPT ![cur] = k]
        BY <1>1, <3>2 DEF RespondModulaDone
      <4> HIDE DEF k
      <4>3. QED
        BY <4>1, <4>2
    <3>3. QED
      BY <1>7, <3>1, <3>2
  <2>2. PICK k : /\ conn' = [conn EXCEPT ![cur] = k]
                 /\ k.socket = me.socket /\ k.alloc = me.alloc
                 /\ k.rxstat = me.rxstat /\ k.wxstat = "DONE"
                 /\ k.hb # "HEAD" /\ k.page = me.page /\ k.data_len = me.data_len
    BY <2>1
  <2>3. /\ me.rxstat = "DONE" /\ me.hb # "HEAD" /\ me.data_len = 0
        /\ fdrdset' = fdrdset \ {me.socket}
        /\ UNCHANGED <<cur, backlog, req, due, peer>>
    BY <1>7 DEF RespondDone, RespondModulaDone, PageSent, Responding, netVars
  <2>4. conn'[cur] = k
    BY <1>1, <2>2 DEF CoreInv, TypeOK
  <2>5. SentOK(conn[cur], due[conn[cur].socket])'
    BY <1>1, <2>2, <2>3, <2>4 DEF SentOK
  <2>6. AnswerOK(k, peer'[me.socket])
    BY <2>2, <2>3 DEF AnswerOK
  <2>7. Busy(me.socket)'
    BY <1>1, <2>2, <2>3, <2>4 DEF Busy, me
  <2>8. QED
    BY <1>1, <2>2, <2>3, <2>5, <2>6, <2>7, TableWrite
<1>8. CASE RespondFile \/ RespondModula
  <2>1. \E k : /\ conn' = [conn EXCEPT ![cur] = k]
               /\ k.socket = me.socket /\ k.alloc = me.alloc
               /\ k.rxstat = me.rxstat /\ k.wxstat = "PRCS"
               /\ k.hb # "HEAD" /\ k.page = me.page /\ k.data_len = me.data_len
    <3>1. CASE RespondFile
      <4> DEFINE k == [me EXCEPT !.wxstat = "PRCS"]
      <4>1. /\ k.socket = me.socket /\ k.alloc = me.alloc
            /\ k.rxstat = me.rxstat /\ k.wxstat = "PRCS"
            /\ k.hb # "HEAD" /\ k.page = me.page /\ k.data_len = me.data_len
        BY <1>1, <3>1 DEF RespondFile, PageSent, ConnType
      <4>2. conn' = [conn EXCEPT ![cur] = k]
        BY <1>1, <3>1 DEF RespondFile
      <4> HIDE DEF k
      <4>3. QED
        BY <4>1, <4>2
    <3>2. CASE RespondModula
      <4> DEFINE k == [me EXCEPT !.wxstat = "PRCS", !.hb = "MODULA", !.out = @ - 1]
      <4>1. /\ k.socket = me.socket /\ k.alloc = me.alloc
            /\ k.rxstat = me.rxstat /\ k.wxstat = "PRCS"
            /\ k.hb # "HEAD" /\ k.page = me.page /\ k.data_len = me.data_len
        BY <1>1, <3>2 DEF RespondModula, PageSent, ConnType
      <4>2. conn' = [conn EXCEPT ![cur] = k]
        BY <1>1, <3>2 DEF RespondModula
      <4> HIDE DEF k
      <4>3. QED
        BY <4>1, <4>2
    <3>3. QED
      BY <1>8, <3>1, <3>2
  <2>2. PICK k : /\ conn' = [conn EXCEPT ![cur] = k]
                 /\ k.socket = me.socket /\ k.alloc = me.alloc
                 /\ k.rxstat = me.rxstat /\ k.wxstat = "PRCS"
                 /\ k.hb # "HEAD" /\ k.page = me.page /\ k.data_len = me.data_len
    BY <2>1
  <2>3. /\ me.rxstat = "DONE" /\ me.hb # "HEAD"
        /\ UNCHANGED <<cur, backlog, req, due, peer, fdrdset>>
    BY <1>8 DEF RespondFile, RespondModula, PageSent, Responding, netVars
  <2>4. conn'[cur] = k
    BY <1>1, <2>2 DEF CoreInv, TypeOK
  <2>5. SentOK(conn[cur], due[conn[cur].socket])'
    BY <1>1, <2>2, <2>3, <2>4 DEF SentOK
  <2>6. AnswerOK(k, peer'[me.socket])
    BY <2>2, <2>3 DEF AnswerOK
  <2>7. Busy(me.socket)'
    BY <1>1, <2>2, <2>3, <2>4 DEF Busy, me
  <2>8. QED
    BY <1>1, <2>2, <2>3, <2>5, <2>6, <2>7, TableWrite
<1>9. QED
  BY <1>2, <1>4, <1>5, <1>6, <1>7, <1>8 DEF Respond

LEMMA TableReap ==
    ASSUME CoreInv, TableInv, Reap
    PROVE  TableInv'
<1>1. /\ cur \in Slot /\ Live(cur) /\ me = conn[cur] /\ me \in ConnType
      /\ me.socket \in Client /\ Busy(me.socket) /\ ~Crashed
  <2>1. pc = "reap"
    BY DEF Reap, ReapSkip, ReapClose
  <2>2. QED
    BY <2>1, HandlerTable
<1>2. CASE ReapSkip
  BY <1>1, <1>2 DEF ReapSkip, netVars, TableInv, AllocInv, SlotPrefix, OwnerInv,
              WatchInv, AnswerInv, AnswerOK, SentOK, PageLen, Live, Busy
<1>3. CASE ReapClose
  <2> DEFINE k == [me EXCEPT !.socket = NoSock, !.page = "none", !.data_len = 0,
                             !.age = 0, !.hs = "DONE", !.slen = 0, !.out = 0]
  <2>1. /\ conn' = [conn EXCEPT ![cur] = k] /\ fdrdset' = fdrdset \ {me.socket}
        /\ peer' = [peer EXCEPT ![me.socket] = "closed"]
        /\ UNCHANGED <<backlog, req, due>>
    BY <1>3 DEF ReapClose, Closed, Freed
  <2>2. k.socket = NoSock /\ k.alloc = me.alloc
    BY <1>1 DEF ConnType
  <2> HIDE DEF k
  <2>3. PICK i \in Slot : i = cur
    BY <1>1
  <2>4. /\ ~Live(i)' /\ conn'[i].alloc = conn[i].alloc
        /\ \A j \in Slot \ {i} : conn'[j] = conn[j] /\ Live(j)' = Live(j)
    BY <1>1, <2>1, <2>2, <2>3 DEF CoreInv, TypeOK, Live
  <2>5. \A j \in Slot \ {i} : Live(j) => conn[j].socket \in Client \ {me.socket}
    BY <1>1, <2>3, LiveClient DEF TableInv, OwnerInv
  <2>6. \A c \in Client \ {me.socket} : peer'[c] = peer[c]
    BY <2>1 DEF CoreInv, TypeOK
  <2>7. me.socket \notin backlog
    BY <1>1 DEF TableInv, OwnerInv
  <2>8. AllocInv'
    BY <2>4 DEF TableInv, AllocInv, SlotPrefix
  <2>9. OwnerInv'
    BY <2>1, <2>4, <2>5, <2>6, <2>7 DEF TableInv, OwnerInv, Busy, CoreInv, TypeOK, Live
  <2>10. WatchInv'
    <3>1. \A j \in Slot : Live(j)' =>
             (conn'[j].socket \in fdrdset' <=> conn'[j].rxstat \in Watched)
      BY <2>1, <2>4, <2>5 DEF TableInv, WatchInv
    <3>2. \A c \in fdrdset' : \E j \in Slot : conn'[j].socket = c
      BY <1>1, <2>1, <2>3, <2>4 DEF TableInv, WatchInv
    <3>3. QED
      BY <3>1, <3>2 DEF WatchInv
  <2>11. AnswerInv'
    <3> SUFFICES ASSUME NEW j \in Slot, Live(j)'
                 PROVE  (/\ AnswerOK(conn[j], peer[conn[j].socket])
                         /\ SentOK(conn[j], due[conn[j].socket]))'
      BY DEF AnswerInv
    <3>1. j # i /\ Live(j) /\ conn'[j] = conn[j]
      BY <2>4
    <3>2. /\ AnswerOK(conn[j], peer[conn[j].socket])
          /\ SentOK(conn[j], due[conn[j].socket])
      BY <1>1, <3>1 DEF TableInv, AnswerInv
    <3>3. QED
      BY <2>1, <2>5, <2>6, <3>1, <3>2 DEF AnswerOK, SentOK, PageLen
  <2>12. QED
    BY <2>8, <2>9, <2>10, <2>11 DEF TableInv
<1>4. QED
  BY <1>2, <1>3 DEF Reap

-----------------------------------------------------------------------------
LEMMA TableStep == CoreInv /\ TableInv /\ [Next]_vars => TableInv'
<1> SUFFICES ASSUME CoreInv, TableInv, [Next]_vars PROVE TableInv'
  OBVIOUS
<1>1. CASE Child
  BY <1>1, TableSelect, TableAccept, TableReceive, TableRespond, TableReap DEF Child
<1>2. CASE Environment
  BY <1>2, TableEnvironment DEF Environment
<1>3. CASE UNCHANGED vars
  BY <1>3 DEF vars, netVars, TableInv, AllocInv, SlotPrefix, OwnerInv, WatchInv,
              AnswerInv, AnswerOK, SentOK, PageLen, Live, Busy, Crashed
<1>4. QED
  BY <1>1, <1>2, <1>3 DEF Next

LEMMA TableAlways == Spec => [](CoreInv /\ TableInv)
<1>1. Init => CoreInv /\ TableInv
  BY CoreInit, TableInit
<1>2. CoreInv /\ TableInv /\ [Next]_vars => (CoreInv /\ TableInv)'
  BY CoreStep, TableStep
<1>3. QED
  BY <1>1, <1>2, PTL DEF Spec

\* The pass that stops at the first NULL (serv.c:252) misses no connection:
\* new_connection() always takes the first slot that is free.
THEOREM NoneBehindNull == Spec => []SlotPrefix
<1>1. CoreInv /\ TableInv => SlotPrefix
  BY DEF TableInv, AllocInv
<1>2. QED
  BY <1>1, TableAlways, PTL

\* However connections come and go, each is in one slot, and none of a client
\* that still waits in the kernel or was turned away (serv.c:289-316, 576-637).
THEOREM OneSlotForEach == Spec => []OneSlotEach
<1>1. CoreInv /\ TableInv => OneSlotEach
  BY DEF TableInv, AllocInv, OwnerInv, OneSlotEach, LiveSlots, Busy
<1>2. QED
  BY <1>1, TableAlways, PTL

\* select() is never given a closed descriptor, which would end the child,
\* and never misses one whose request is incomplete (serv.c:233-246).
THEOREM ReadSetExact == Spec => []WatchExact
<1>1. CoreInv /\ TableInv => WatchExact
  <2> SUFFICES ASSUME CoreInv, TableInv PROVE WatchExact
    OBVIOUS
  <2>1. ASSUME NEW c \in fdrdset
        PROVE  \E i \in LiveSlots : conn[i].socket = c /\ conn[i].rxstat \in Watched
    <3>1. PICK i \in Slot : conn[i].socket = c
      BY DEF TableInv, WatchInv
    <3>2. Live(i)
      BY <3>1, NoSockAssumption DEF CoreInv, TypeOK, Live
    <3>3. QED
      BY <3>1, <3>2 DEF TableInv, WatchInv, LiveSlots
  <2>2. ASSUME NEW i \in LiveSlots, conn[i].rxstat \in Watched
        PROVE  conn[i].socket \in fdrdset
    BY <2>2 DEF TableInv, WatchInv, LiveSlots
  <2>3. QED
    BY <2>1, <2>2 DEF WatchExact, Watched
<1>2. QED
  BY <1>1, TableAlways, PTL

\* write_connection() always has a page (its test at serv.c:329 is dead), and
\* nothing is sent for a request that is not complete.
THEOREM PageForAnswer == Spec => []AnswerHasPage
<1>1. CoreInv /\ TableInv => AnswerHasPage
  BY DEF TableInv, AnswerInv, AnswerHasPage, AnswerOK, SentOK, LiveSlots
<1>2. QED
  BY <1>1, TableAlways, PTL

\* However write() cuts the page up, data_len is what the client lacks of it
\* (serv.c:349-372).
THEOREM DeliveryExact == Spec => []Delivery
<1>1. CoreInv /\ TableInv => Delivery
  BY DEF TableInv, AnswerInv, Delivery, SentOK, LiveSlots
<1>2. QED
  BY <1>1, TableAlways, PTL

\* close_connection() is called only when the page is out or the client gone
\* (serv.c:273-279).
THEOREM ClosedOnlyWhenDone == Spec => CloseJustified
<1>1. CoreInv /\ TableInv /\ [Next]_vars =>
        [\A c \in Client : peer'[c] = "closed" /\ peer[c] # "closed" =>
            due[c] = 0 \/ peer[c] = "gone"]_vars
  <2> SUFFICES ASSUME CoreInv, TableInv, [Next]_vars, NEW c \in Client,
                      peer'[c] = "closed", peer[c] # "closed"
               PROVE  due[c] = 0 \/ peer[c] = "gone"
    OBVIOUS
  <2>1. ReapClose /\ c = me.socket
    <3>1. CASE Environment
      BY <3>1 DEF Environment, Connect, Send, Shut, Reset, Drain, Steal, Closed,
                  CoreInv, TypeOK
    <3>2. CASE Select \/ AcceptNext
      BY <3>2 DEF Select, AcceptNext, Accept, AcceptFails, AcceptDrop, Closed,
                  CoreInv, TypeOK, netVars
    <3>3. CASE Scan
      BY <3>3 DEF Scan, ScanEnd, ScanFree, ReceiveIdle, ReceiveIgnored, ReceiveError,
                  ReceiveMore, ReceivePage, ReceiveBody, Read, CoreInv, TypeOK, netVars
    <3>4. CASE Respond
      BY <3>4 DEF Respond, RespondSkip, RespondBody, RespondLater, RespondBroken,
                  RespondDone, RespondFile, RespondModula, RespondModulaDone, Flush,
                  CoreInv, TypeOK, netVars
    <3>5. CASE Reap
      BY <3>5 DEF Reap, ReapSkip, ReapClose, Closed, CoreInv, TypeOK, netVars
    <3>6. CASE UNCHANGED vars
      BY <3>6 DEF vars, netVars
    <3>7. QED
      BY <3>1, <3>2, <3>3, <3>4, <3>5, <3>6 DEF Next, Child
  <2>2. /\ AnswerOK(me, peer[me.socket]) /\ SentOK(me, due[me.socket])
        /\ Finished(me)
    BY <2>1, HandlerTable DEF ReapClose
  <2>3. QED
    BY <2>1, <2>2 DEF AnswerOK, SentOK, Finished
<1>2. QED
  BY <1>1, TableAlways, PTL DEF Spec, CloseJustified
=============================================================================
