----------------------------- MODULE UftpProofs -----------------------------
(***************************************************************************)
(* Proofs about Uftp, for any clients, names, files and number of faults.  *)
(***************************************************************************)
EXTENDS Uftp, SequenceTheorems, TLAPS

-----------------------------------------------------------------------------
\* Payloads.

\* Cutting a payload to a buffer leaves a payload.
LEMMA FitPayload ==
    ASSUME NEW p \in Payload, NEW m \in Nat
    PROVE  Fit(p, m) \in Payload /\ Fit(p, m).len <= m /\ Fit(p, m).kind = p.kind
  BY DEF Fit, Payload, Least

\* What a command line, the notice and a listing are.
LEMMA LinePayload ==
    ASSUME NEW op \in Ops, NEW f, <<op, f>> \in (FileOps \X Names) \cup ((Ops \ FileOps) \X {NoName})
    PROVE  Line(op, f) \in Payload
  BY SizeAssumption DEF Line, Payload, Commands, Ops, FileOps

LEMMA OtherPayload ==
    /\ Deleted \in Payload
    /\ \A S \in SUBSET Names : Listing(S) \in Payload
  BY SizeAssumption DEF Deleted, Listing, Payload, NoticeSize, BUFSIZE

\* The echo of a payload is a payload; that of a typed line is the line.
LEMMA TextPayload ==
    ASSUME NEW p \in Payload
    PROVE  Text(p) \in Payload
<1>1. TextLen(p) \in Nat
  BY SizeAssumption DEF TextLen, Payload, NoticeText
<1> QED BY <1>1, FitPayload DEF Text

LEMMA TextLine == \A op, f : Text(Line(op, f)) = Line(op, f)
  BY SizeAssumption DEF Text, TextLen, Line, Fit, Least
-----------------------------------------------------------------------------
\* Queues.

\* A fault leaves a queue of the same kind of datagrams.
LEMMA PerturbedSeq ==
    ASSUME NEW S, NEW q \in Seq(S), q # <<>>, NEW r \in Perturbed(q)
    PROVE  r \in Seq(S)
  BY DEF Perturbed
-----------------------------------------------------------------------------
\* TypeOK is inductive by itself: one step per action.

LEMMA InitTypeOK == Init => TypeOK
  BY ServerAssumption, ClientAssumption, SizeAssumption
  DEF Init, NetInit, ServerInit, ClientInit, TypeOK, NetTypeOK, ServerTypeOK,
      ClientTypeOK, Reply

\* What every step of the server finds at the head of its queue.
LEMMA HeadDatagram ==
    ASSUME NetTypeOK, toServer # <<>>
    PROVE  /\ Head(toServer) \in Datagram
           /\ Head(toServer).from \in Clients
           /\ Head(toServer).data \in Payload
           /\ Tail(toServer) \in Seq(Datagram)
<1>1. Head(toServer) \in Datagram /\ Tail(toServer) \in Seq(Datagram)
  BY DEF NetTypeOK
<1> QED BY <1>1 DEF Datagram

\* The file name of a get, put or delete is a file name.
LEMMA HeadName ==
    ASSUME NetTypeOK, NEW op \in FileOps, Receive(op)
    PROVE  Head(toServer).data.val.name \in Names
  BY HeadDatagram DEF Receive, Payload, Commands, FileOps, Ops

\* Sending payloads to a client keeps the type of the clients' queues, and so
\* do the marks of Skew for skewed.
LEMMA SendType ==
    ASSUME NetTypeOK, NEW c \in Clients, NEW ps \in Seq(Payload)
    PROVE  SendToClient(c, ps) => toClient' \in [Clients -> Seq(Payload)]
  BY DEF NetTypeOK, SendToClient

LEMMA SkewType == \A C : Skew(C) => skewed' \in [Clients -> BOOLEAN]
  BY DEF Skew

LEMMA ServerType == TypeOK /\ Server => TypeOK'
<1> SUFFICES ASSUME TypeOK, Server PROVE TypeOK'
  OBVIOUS
<1> DEFINE d == Head(toServer)
           f == d.data.val.name
<1>0. NetTypeOK /\ ServerTypeOK /\ ClientTypeOK /\ UNCHANGED clientVars
  BY DEF TypeOK, Server
<1>c. ClientTypeOK'
  BY <1>0 DEF ClientTypeOK, clientVars
<1>1. CASE ServeDelete
  <2>1. d \in Datagram /\ d.from \in Clients /\ d.data \in Payload /\ toServer' \in Seq(Datagram) /\ f \in Names
    BY <1>0, <1>1, HeadDatagram, HeadName DEF ServeDelete, Receive, FileOps
  <2>2. <<Deleted, Text(d.data)>> \in Seq(Payload) /\ <<Text(d.data)>> \in Seq(Payload)
    BY <2>1, TextPayload, OtherPayload
  <2>3. toClient' \in [Clients -> Seq(Payload)]
    BY <1>0, <1>1, <2>1, <2>2, SendType DEF ServeDelete
  <2>4. skewed' \in [Clients -> BOOLEAN]
    BY <1>0, <1>1, SkewType DEF ServeDelete, NetTypeOK
  <2>5. NetTypeOK'
    BY <1>0, <1>1, <2>1, <2>3, <2>4 DEF ServeDelete, NetTypeOK
  <2>6. ServerTypeOK'
    BY <1>0, <1>1, <2>1 DEF ServeDelete, ServerTypeOK
  <2> QED BY <1>c, <2>5, <2>6 DEF TypeOK
<1>2. CASE ServeGet
  <2>1. d \in Datagram /\ d.from \in Clients /\ d.data \in Payload /\ toServer' \in Seq(Datagram) /\ f \in Names
    BY <1>0, <1>2, HeadDatagram, HeadName DEF ServeGet, Receive, FileOps
  <2>2. store[f] \in Payload
    BY <1>0, <1>2, <2>1 DEF ServeGet, ServerTypeOK, Found
  <2>3. GetReplies(d) \in Seq(Payload)
    BY <2>1, <2>2, TextPayload DEF GetReplies
  <2>4. toClient' \in [Clients -> Seq(Payload)]
    BY <1>0, <1>2, <2>1, <2>3, SendType DEF ServeGet
  <2>5. NetTypeOK'
    BY <1>0, <1>2, <2>1, <2>4 DEF ServeGet, NetTypeOK
  <2>6. ServerTypeOK'
    BY <1>0, <1>2, <2>1, <2>2 DEF ServeGet, ServerTypeOK, Reply
  <2> QED BY <1>c, <2>5, <2>6 DEF TypeOK
<1>3. CASE ServeGetEmpty
  <2>1. d \in Datagram /\ d.from \in Clients /\ d.data \in Payload /\ toServer' \in Seq(Datagram)
    BY <1>0, <1>3, HeadDatagram DEF ServeGetEmpty, Receive
  <2>2. toClient' \in [Clients -> Seq(Payload)]
    <3>1. <<Text(d.data)>> \in Seq(Payload)
      BY <2>1, TextPayload
    <3> QED BY <1>0, <1>3, <2>1, <3>1, SendType DEF ServeGetEmpty
  <2>3. NetTypeOK'
    BY <1>0, <1>3, <2>1, <2>2, SkewType DEF ServeGetEmpty, NetTypeOK
  <2>4. ServerTypeOK'
    BY <1>0, <1>3 DEF ServeGetEmpty, ServerTypeOK, serverVars
  <2> QED BY <1>c, <2>3, <2>4 DEF TypeOK
<1>4. CASE ServeGetCrash
  <2>1. toServer' \in Seq(Datagram)
    BY <1>0, <1>4, HeadDatagram DEF ServeGetCrash, Receive
  <2>2. NetTypeOK' /\ ServerTypeOK'
    BY <1>0, <1>4, <2>1 DEF ServeGetCrash, NetTypeOK, ServerTypeOK
  <2> QED BY <1>c, <2>2 DEF TypeOK
<1>5. CASE ServePut
  <2>1. d \in Datagram /\ toServer' \in Seq(Datagram) /\ f \in Names
    BY <1>0, <1>5, HeadDatagram, HeadName DEF ServePut, Receive, FileOps
  <2>2. NetTypeOK'
    BY <1>0, <1>5, <2>1 DEF ServePut, NetTypeOK
  <2>3. ServerTypeOK'
    BY <1>0, <1>5, <2>1 DEF ServePut, Receive, ServerTypeOK
  <2> QED BY <1>c, <2>2, <2>3 DEF TypeOK
<1>6. CASE StorePut
  <2>1. d \in Datagram /\ d.from \in Clients /\ d.data \in Payload /\ toServer' \in Seq(Datagram)
    BY <1>0, <1>6, HeadDatagram DEF StorePut
  <2>2. request[1] \in Datagram /\ request[1].data \in Payload
    <3>1. request[1] \in Datagram
      <4>1. request \in Seq(Datagram) /\ Len(request) = 1
        BY <1>0, <1>6 DEF StorePut, ServerTypeOK
      <4> QED BY <4>1
    <3> QED BY <3>1 DEF Datagram
  <2>3. request[1].data.val.name \in Names
    BY <1>0, <1>6, <2>2 DEF StorePut, ServerTypeOK, Payload, Commands, FileOps, Ops
  <2>4. Uploaded(d) \in Payload
    BY <2>1, FitPayload DEF Uploaded, SERVERFILE
  <2>5. toClient' \in [Clients -> Seq(Payload)]
    <3>1. <<Text(request[1].data)>> \in Seq(Payload)
      BY <2>2, TextPayload
    <3> QED BY <1>0, <1>6, <2>1, <3>1, SendType DEF StorePut
  <2>6. NetTypeOK'
    BY <1>0, <1>6, <2>1, <2>5, SkewType DEF StorePut, NetTypeOK
  <2>7. ServerTypeOK'
    BY <1>0, <1>6, <2>3, <2>4 DEF StorePut, ServerTypeOK
  <2> QED BY <1>c, <2>6, <2>7 DEF TypeOK
<1>7. CASE ServeLs
  <2>1. d.from \in Clients /\ toServer' \in Seq(Datagram)
    BY <1>0, <1>7, HeadDatagram DEF ServeLs, Receive
  <2>2. <<Listing(Directory)>> \in Seq(Payload)
    BY OtherPayload DEF Directory
  <2>3. toClient' \in [Clients -> Seq(Payload)]
    BY <1>0, <1>7, <2>1, <2>2, SendType DEF ServeLs
  <2>4. NetTypeOK' /\ ServerTypeOK'
    BY <1>0, <1>7, <2>1, <2>3 DEF ServeLs, NetTypeOK, ServerTypeOK, serverVars
  <2> QED BY <1>c, <2>4 DEF TypeOK
<1>8. CASE ServeExit
  <2>1. toServer' \in Seq(Datagram)
    BY <1>0, <1>8, HeadDatagram DEF ServeExit, Receive
  <2>2. NetTypeOK' /\ ServerTypeOK'
    BY <1>0, <1>8, <2>1 DEF ServeExit, NetTypeOK, ServerTypeOK
  <2> QED BY <1>c, <2>2 DEF TypeOK
<1>9. CASE ServeOther
  <2>1. d.from \in Clients /\ d.data \in Payload /\ toServer' \in Seq(Datagram)
    BY <1>0, <1>9, HeadDatagram DEF ServeOther, ReceiveOther
  <2>2. <<Text(Fit(d.data, BUFSIZE))>> \in Seq(Payload)
    BY <2>1, FitPayload, TextPayload DEF BUFSIZE
  <2>3. toClient' \in [Clients -> Seq(Payload)]
    BY <1>0, <1>9, <2>1, <2>2, SendType DEF ServeOther
  <2>4. NetTypeOK' /\ ServerTypeOK'
    BY <1>0, <1>9, <2>1, <2>3, SkewType DEF ServeOther, ReceiveOther, NetTypeOK, ServerTypeOK, serverVars
  <2> QED BY <1>c, <2>4 DEF TypeOK
<1>10. CASE ServeOtherCrash
  <2>1. toServer' \in Seq(Datagram)
    BY <1>0, <1>10, HeadDatagram DEF ServeOtherCrash, ReceiveOther
  <2>2. NetTypeOK' /\ ServerTypeOK'
    BY <1>0, <1>10, <2>1 DEF ServeOtherCrash, NetTypeOK, ServerTypeOK
  <2> QED BY <1>c, <2>2 DEF TypeOK
<1> QED
  BY <1>1, <1>2, <1>3, <1>4, <1>5, <1>6, <1>7, <1>8, <1>9, <1>10 DEF Server, ServerNext

\* A queue of the server's socket with one more datagram.
LEMMA SendToServerType ==
    ASSUME NetTypeOK, NEW c \in Clients, NEW p \in Payload, SendToServer(c, p)
    PROVE  toServer' \in Seq(Datagram)
<1>1. [from |-> c, data |-> p] \in Datagram
  BY DEF Datagram
<1> QED BY <1>1 DEF NetTypeOK, SendToServer

\* Typing a command.
LEMMA TypeLineType ==
    ASSUME TypeOK, UNCHANGED serverVars, NEW c \in Clients, NEW op, NEW f, NEW next,
           <<op, f>> \in (FileOps \X Names) \cup ((Ops \ FileOps) \X {NoName}),
           next \in Waiting \cup {"putSend", "exited"},
           next \in {"getData", "putSend"} => f \in Names,
           TypeLine(c, op, f, next),
           skewed' \in [Clients -> BOOLEAN]
    PROVE  TypeOK'
<1>1. op \in Ops /\ f \in Names \cup {NoName}
  BY DEF Ops, FileOps
<1>2. toServer' \in Seq(Datagram)
  BY <1>1, LinePayload, SendToServerType DEF TypeLine, TypeOK
<1>3. NetTypeOK'
  BY <1>2 DEF TypeLine, TypeOK, NetTypeOK
<1>4. ServerTypeOK'
  BY DEF TypeOK, ServerTypeOK, serverVars
<1>5. ClientTypeOK'
  BY <1>1, ClientAssumption DEF TypeOK, TypeLine, ClientTypeOK
<1> QED BY <1>3, <1>4, <1>5 DEF TypeOK

\* Reading a datagram, up to what the handler does to the local directory.
LEMMA TakeType ==
    ASSUME TypeOK, UNCHANGED serverVars, NEW c \in Clients, NEW from,
           NEW to \in {"prompt", "getEcho"}, Take(c, from, to),
           local' \in [Clients -> [Names -> Payload \cup {NoFile}]]
    PROVE  TypeOK'
<1>1. Tail(toClient[c]) \in Seq(Payload)
  BY DEF Take, TypeOK, NetTypeOK
<1>2. NetTypeOK'
  BY <1>1 DEF Take, TypeOK, NetTypeOK
<1>3. ServerTypeOK'
  BY DEF TypeOK, ServerTypeOK, serverVars
<1>4. ClientTypeOK'
  <2>1. \A b \in Clients : cpc'[b] \in {"getData", "putSend"} => wanted'[b] \in Names
    BY DEF Take, TypeOK, ClientTypeOK
  <2>2. cpc' \in [Clients -> Waiting \cup {"prompt", "putSend", "crashed", "exited"}]
    BY DEF Take, TypeOK, ClientTypeOK, Waiting
  <2> QED BY <2>1, <2>2 DEF Take, TypeOK, ClientTypeOK
<1> QED BY <1>2, <1>3, <1>4 DEF TypeOK

LEMMA ClientType == \A c \in Clients : TypeOK /\ Client(c) => TypeOK'
<1> SUFFICES ASSUME TypeOK, NEW c \in Clients, Client(c) PROVE TypeOK'
  OBVIOUS
<1>0. NetTypeOK /\ ServerTypeOK /\ ClientTypeOK /\ UNCHANGED serverVars
  BY DEF TypeOK, Client
<1>1. ASSUME NEW f \in Names, TypeDelete(c, f) \/ TypeGet(c, f) \/ TypePut(c, f)
      PROVE  TypeOK'
  BY <1>0, <1>1, TypeLineType, SkewType
  DEF TypeDelete, TypeGet, TypePut, Waiting, FileOps, NetTypeOK
<1>2. CASE TypeLs(c) \/ TypeExit(c)
  BY <1>0, <1>2, TypeLineType DEF TypeLs, TypeExit, Waiting, Ops, FileOps, NetTypeOK
<1>3. CASE PutSend(c)
  <2> DEFINE p == local[c][wanted[c]]
  <2>1. wanted[c] \in Names /\ p \in Payload
    BY <1>0, <1>3 DEF PutSend, ClientTypeOK
  <2>2. toServer' \in Seq(Datagram)
    BY <1>0, <1>3, <2>1, SendToServerType DEF PutSend, NetTypeOK
  <2>3. NetTypeOK'
    BY <1>0, <1>3, <2>2 DEF PutSend, NetTypeOK
  <2>4. ClientTypeOK'
    BY <1>0, <1>3, <2>1 DEF PutSend, ClientTypeOK
  <2>5. ServerTypeOK'
    BY <1>0 DEF ServerTypeOK, serverVars
  <2> QED BY <2>3, <2>4, <2>5 DEF TypeOK
<1>4. CASE PutCrash(c)
  BY <1>0, <1>4 DEF PutCrash, TypeOK, NetTypeOK, ServerTypeOK, ClientTypeOK, netVars, serverVars
<1>5. CASE GetData(c)
  <2>1. wanted[c] \in Names /\ Head(toClient[c]) \in Payload
    BY <1>0, <1>5 DEF GetData, Take, ClientTypeOK, NetTypeOK
  <2>2. Fit(Head(toClient[c]), CLIENTFILE) \in Payload
    BY <2>1, FitPayload DEF CLIENTFILE
  <2>3. local' \in [Clients -> [Names -> Payload \cup {NoFile}]]
    BY <1>0, <1>5, <2>1, <2>2 DEF GetData, ClientTypeOK
  <2> QED BY <1>0, <1>5, <2>3, TakeType DEF GetData
<1>6. CASE GetEcho(c) \/ DelReply(c) \/ LsReply(c)
  BY <1>0, <1>6, TakeType DEF GetEcho, DelReply, LsReply, ClientTypeOK
<1> QED
  BY <1>1, <1>2, <1>3, <1>4, <1>5, <1>6 DEF Client, ClientNext, ClientReceive

LEMMA NetworkType == TypeOK /\ Network => TypeOK'
<1> SUFFICES ASSUME TypeOK, Network PROVE TypeOK'
  OBVIOUS
<1>0. ServerTypeOK' /\ ClientTypeOK'
  BY DEF TypeOK, Network, ServerTypeOK, ClientTypeOK, serverVars, clientVars
<1>1. CASE FaultToServer
  <2>1. toServer' \in Seq(Datagram)
    BY <1>1, PerturbedSeq DEF FaultToServer, TypeOK, NetTypeOK
  <2>2. NetTypeOK'
    BY <1>1, <2>1, SkewType, SizeAssumption DEF FaultToServer, Fault, TypeOK, NetTypeOK
  <2> QED BY <1>0, <2>2 DEF TypeOK
<1>2. ASSUME NEW c \in Clients, FaultToClient(c) PROVE TypeOK'
  <2>1. \A q \in Perturbed(toClient[c]) : q \in Seq(Payload)
    BY <1>2, PerturbedSeq DEF FaultToClient, TypeOK, NetTypeOK
  <2>2. NetTypeOK'
    BY <1>2, <2>1, SkewType, SizeAssumption DEF FaultToClient, Fault, TypeOK, NetTypeOK
  <2> QED BY <1>0, <2>2 DEF TypeOK
<1> QED BY <1>1, <1>2 DEF Network, NetNext

\* Every variable of the server, the clients and the network keeps its type.
THEOREM TypeCorrect == Spec => []TypeOK
<1>1. TypeOK /\ [Next]_vars => TypeOK'
  <2> SUFFICES ASSUME TypeOK, [Next]_vars PROVE TypeOK'
    OBVIOUS
  <2>1. CASE UNCHANGED vars
    BY <2>1 DEF vars, TypeOK, NetTypeOK, ServerTypeOK, ClientTypeOK, netVars,
                serverVars, clientVars
  <2> QED BY <2>1, ServerType, ClientType, NetworkType DEF Next
<1> QED BY InitTypeOK, <1>1, PTL DEF Spec
-----------------------------------------------------------------------------
\* StoreFits: every file an exchange writes has been cut to a buffer.

\* No upload or get makes a file that outgrows the fixed buffers.
THEOREM StoresFit == Spec => []StoreFits
<1>1. Init => StoreFits
  BY DEF Init, ServerInit, ClientInit, StoreFits
<1>2. TypeOK /\ StoreFits /\ [Next]_vars => StoreFits'
  <2> SUFFICES ASSUME TypeOK, StoreFits, [Next]_vars PROVE StoreFits'
    OBVIOUS
  <2>1. CASE UNCHANGED <<store, local>>
    BY <2>1 DEF StoreFits
  <2>2. CASE ServeDelete /\ UNCHANGED clientVars
    BY <2>2 DEF ServeDelete, StoreFits, clientVars, TypeOK, ServerTypeOK
  <2>3. CASE StorePut /\ UNCHANGED clientVars
    <3>1. toServer # <<>> /\ Head(toServer).data \in Payload
      BY <2>3, HeadDatagram DEF StorePut, TypeOK
    <3>2. Uploaded(Head(toServer)).len <= SERVERFILE
      BY <3>1, FitPayload DEF Uploaded, SERVERFILE
    <3> QED BY <2>3, <3>2 DEF StorePut, StoreFits, clientVars, TypeOK, ServerTypeOK
  <2>4. ASSUME NEW c \in Clients, GetData(c), UNCHANGED serverVars PROVE StoreFits'
    <3>1. Head(toClient[c]) \in Payload
      BY <2>4 DEF GetData, Take, TypeOK, NetTypeOK
    <3>2. Fit(Head(toClient[c]), CLIENTFILE).len <= CLIENTFILE
      BY <3>1, FitPayload DEF CLIENTFILE
    <3> QED BY <2>4, <3>2 DEF GetData, StoreFits, serverVars, TypeOK, ClientTypeOK
  <2>5. Server => UNCHANGED <<store, local>> \/ ((ServeDelete \/ StorePut) /\ UNCHANGED clientVars)
    BY DEF Server, ServerNext, ServeGet, ServeGetEmpty, ServeGetCrash, ServePut,
           ServeLs, ServeExit, ServeOther, ServeOtherCrash, serverVars, clientVars
  <2>6. \A c \in Clients : Client(c) => UNCHANGED <<store, local>> \/ (GetData(c) /\ UNCHANGED serverVars)
    BY DEF Client, ClientNext, ClientReceive, TypeDelete, TypeGet, TypePut, TypeLs,
           TypeExit, TypeLine, PutSend, PutCrash, GetEcho, DelReply, LsReply, serverVars
  <2> QED
    BY <2>1, <2>2, <2>3, <2>4, <2>5, <2>6
    DEF Next, Network, vars, serverVars, clientVars
<1> QED BY <1>1, <1>2, TypeCorrect, PTL DEF Spec
-----------------------------------------------------------------------------
\* What queue operations do to the datagrams of one client.

LEMMA SilentAppend ==
    ASSUME NEW q \in Seq(Datagram), NEW c, NEW e \in Datagram, e.from # c
    PROVE  /\ Silent(q, c) => Silent(Append(q, e), c)
           /\ \A p : Single(q, c, p) => Single(Append(q, e), c, p)
<1> DEFINE r == Append(q, e)
<1>1. /\ Len(r) = Len(q) + 1 /\ r[Len(r)] = e
      /\ \A i \in 1..Len(r) : i # Len(r) => i \in 1..Len(q)
      /\ \A i \in 1..Len(q) : i \in 1..Len(r) /\ r[i] = q[i]
  OBVIOUS
<1> HIDE DEF r
<1>2. Silent(q, c) => Silent(r, c)
  BY <1>1 DEF Silent
<1>3. ASSUME NEW p, Single(q, c, p) PROVE Single(r, c, p)
  <2>1. PICK i \in 1..Len(q) : /\ q[i] = [from |-> c, data |-> p]
                              /\ \A j \in 1..Len(q) : j # i => q[j].from # c
    BY <1>3 DEF Single
  <2>2. i \in 1..Len(r) /\ r[i] = [from |-> c, data |-> p]
    BY <1>1, <2>1
  <2>3. \A j \in 1..Len(r) : j # i => r[j].from # c
    BY <1>1, <2>1
  <2> QED BY <2>2, <2>3 DEF Single
<1> QED BY <1>2, <1>3 DEF r

LEMMA SingleAppend ==
    ASSUME NEW q \in Seq(Datagram), NEW c, NEW p, Silent(q, c)
    PROVE  Single(Append(q, [from |-> c, data |-> p]), c, p)
<1> DEFINE r == Append(q, [from |-> c, data |-> p])
<1>1. Len(r) \in 1..Len(r) /\ r[Len(r)] = [from |-> c, data |-> p]
  OBVIOUS
<1>2. \A j \in 1..Len(r) : j # Len(r) => r[j].from # c
  BY DEF Silent
<1> QED BY <1>1, <1>2 DEF Single

LEMMA TailOther ==
    ASSUME NEW q \in Seq(Datagram), q # <<>>, NEW c, Head(q).from # c
    PROVE  /\ Silent(q, c) => Silent(Tail(q), c)
           /\ \A p : Single(q, c, p) => Single(Tail(q), c, p)
<1> DEFINE r == Tail(q)
<1>1. /\ Len(r) = Len(q) - 1 /\ q[1].from # c
      /\ \A i \in 1..Len(r) : i + 1 \in 1..Len(q) /\ r[i] = q[i + 1]
      /\ \A i \in 1..Len(q) : i # 1 => i - 1 \in 1..Len(r) /\ r[i - 1] = q[i]
  OBVIOUS
<1> HIDE DEF r
<1>2. Silent(q, c) => Silent(r, c)
  BY <1>1 DEF Silent
<1>3. ASSUME NEW p, Single(q, c, p) PROVE Single(r, c, p)
  <2>1. PICK i \in 1..Len(q) : /\ q[i] = [from |-> c, data |-> p]
                              /\ \A j \in 1..Len(q) : j # i => q[j].from # c
    BY <1>3 DEF Single
  <2>2. i # 1
    BY <1>1, <2>1
  <2>3. i - 1 \in 1..Len(r) /\ r[i - 1] = [from |-> c, data |-> p]
    BY <1>1, <2>1, <2>2
  <2>4. \A j \in 1..Len(r) : j # i - 1 => r[j].from # c
    BY <1>1, <2>1
  <2> QED BY <2>3, <2>4 DEF Single
<1> QED BY <1>2, <1>3 DEF r

LEMMA TailOwn ==
    ASSUME NEW q \in Seq(Datagram), q # <<>>, NEW c, NEW p,
           Single(q, c, p), Head(q).from = c
    PROVE  Head(q) = [from |-> c, data |-> p] /\ Silent(Tail(q), c)
<1>1. PICK i \in 1..Len(q) : /\ q[i] = [from |-> c, data |-> p]
                            /\ \A j \in 1..Len(q) : j # i => q[j].from # c
  BY DEF Single
<1>2. i = 1
  BY <1>1
<1>3. \A j \in 1..Len(Tail(q)) : j + 1 \in 1..Len(q) /\ Tail(q)[j] = q[j + 1]
  OBVIOUS
<1> QED BY <1>1, <1>2, <1>3 DEF Silent

\* The head of a queue is from no client that is silent in it.
LEMMA HeadNotSilent ==
    ASSUME NEW q \in Seq(Datagram), q # <<>>, NEW c, Silent(q, c)
    PROVE  Head(q).from # c
  BY DEF Silent

\* Short queues.
LEMMA ShortQueues ==
    /\ \A p : <<>> \o <<p>> = <<p>>
    /\ \A p, r : <<>> \o <<p, r>> = <<p, r>>
    /\ \A S : \A q \in Seq(S) : Len(q) = 1 => Tail(q) = <<>>
<1>1. \A p : <<>> \o <<p>> = <<p>>
  OBVIOUS
<1>2. \A p, r : <<>> \o <<p, r>> = <<p, r>>
  OBVIOUS
<1>3. ASSUME NEW S, NEW q \in Seq(S), Len(q) = 1 PROVE Tail(q) = <<>>
  <2>1. q # <<>>
    BY <1>3, EmptySeq
  <2>2. Tail(q) \in Seq(S) /\ Len(Tail(q)) = 0
    BY <1>3, <2>1, HeadTailProperties
  <2> QED BY <2>2, EmptySeq
<1> QED BY <1>1, <1>2, <1>3

\* A fault on another client's datagram moves nothing of c's out of the queue.
LEMMA PerturbedOther ==
    ASSUME NEW q \in Seq(Datagram), q # <<>>, NEW c, Head(q).from # c,
           NEW r \in Perturbed(q)
    PROVE  /\ Silent(q, c) => Silent(r, c)
           /\ \A p : Single(q, c, p) => Single(r, c, p)
<1>1. Head(q) \in Datagram /\ Tail(q) \in Seq(Datagram)
  OBVIOUS
<1>2. CASE r = Tail(q)
  BY <1>2, TailOther
<1>3. CASE r = Append(q, Head(q))
  BY <1>1, <1>3, SilentAppend
<1>4. CASE r = Append(Tail(q), Head(q))
  BY <1>1, <1>4, TailOther, SilentAppend
<1> QED BY <1>2, <1>3, <1>4 DEF Perturbed
-----------------------------------------------------------------------------
\* InStepInv is inductive on top of TypeOK.  A step concerns one client; the
\* others keep their conversation because the queue operations keep their
\* datagrams.

\* A step that leaves c's state alone, and c's datagrams in the server's queue.
LEMMA KeepInStep ==
    ASSUME NEW c \in Clients, InStep(c),
           cpc'[c] = cpc[c], toClient'[c] = toClient[c], wanted'[c] = wanted[c],
           served'[c] = served[c], local'[c] = local[c], Stopped => Stopped',
           Silent(toServer, c) => Silent(toServer', c),
           \A p : Single(toServer, c, p) => Single(toServer', c, p)
    PROVE  InStep(c)'
  BY DEF InStep, Asked, Answered, GetFaithful

\* What an in-step client has at the head of the server's queue.
LEMMA OwnRequest ==
    ASSUME TypeOK, NEW c \in Clients, InStep(c), toServer # <<>>, Head(toServer).from = c
    PROVE  /\ Silent(Tail(toServer), c)
           /\ toClient[c] = <<>>
           /\ \/ cpc[c] \in Waiting \ {"getEcho"} /\ Head(toServer).data = Asked(c)
              \/ cpc[c] = "exited" /\ Head(toServer).data = Line("exit", NoName)
<1>1. toServer \in Seq(Datagram)
  BY DEF TypeOK, NetTypeOK
<1>2. ~Silent(toServer, c)
  BY <1>1, HeadNotSilent
<1>3. CASE Single(toServer, c, Asked(c)) /\ cpc[c] \in Waiting \ {"getEcho"} /\ toClient[c] = <<>>
  <2>1. Head(toServer) = [from |-> c, data |-> Asked(c)] /\ Silent(Tail(toServer), c)
    BY <1>1, <1>3, TailOwn
  <2> QED BY <1>3, <2>1
<1>4. CASE Single(toServer, c, Line("exit", NoName)) /\ cpc[c] = "exited" /\ toClient[c] = <<>>
  <2>1. Head(toServer) = [from |-> c, data |-> Line("exit", NoName)] /\ Silent(Tail(toServer), c)
    BY <1>1, <1>4, TailOwn
  <2> QED BY <1>4, <2>1
<1> QED BY <1>2, <1>3, <1>4 DEF InStep

\* The operation an in-step client asked for tells where it waits.
LEMMA AskedOp ==
    ASSUME NEW c \in Clients, cpc[c] \in Waiting \ {"getEcho"}
    PROVE  /\ Asked(c).val.op \in {"delete", "get", "ls"}
           /\ Asked(c).val.op = "delete" => cpc[c] = "delReply" /\ Asked(c) = Line("delete", wanted[c])
           /\ Asked(c).val.op = "get" => cpc[c] = "getData" /\ Asked(c) = Line("get", wanted[c])
           /\ Asked(c).val.op = "ls" => cpc[c] = "lsReply"
  BY DEF Asked, Waiting, Line

\* A server step on some other client's datagram.
LEMMA ServerOther ==
    ASSUME TypeOK, Server, NEW c \in Clients, InStep(c), Head(toServer).from # c
    PROVE  InStep(c)'
<1>1. /\ toServer \in Seq(Datagram) /\ toServer # <<>>
      /\ toServer' = Tail(toServer) /\ ~Stopped
  BY DEF Server, ServerNext, ServeDelete, ServeGet, ServeGetEmpty, ServeGetCrash,
         ServePut, StorePut, ServeLs, ServeExit, ServeOther, ServeOtherCrash, ReceiveOther, Receive, Stopped,
         TypeOK, NetTypeOK
<1>2. /\ Silent(toServer, c) => Silent(toServer', c)
      /\ \A p : Single(toServer, c, p) => Single(toServer', c, p)
  BY <1>1, TailOther
<1>3. toClient'[c] = toClient[c] /\ served'[c] = served[c]
  BY DEF Server, ServerNext, ServeDelete, ServeGet, ServeGetEmpty, ServeGetCrash,
         ServePut, StorePut, ServeLs, ServeExit, ServeOther, ServeOtherCrash, SendToClient,
         serverVars,
         TypeOK, NetTypeOK, ServerTypeOK
<1>4. cpc'[c] = cpc[c] /\ wanted'[c] = wanted[c] /\ local'[c] = local[c]
  BY DEF Server, clientVars
<1> QED BY <1>1, <1>2, <1>3, <1>4, KeepInStep

\* A server step on the client's own datagram.
LEMMA ServerOwn ==
    ASSUME TypeOK, Server, NEW c \in Clients, InStep(c), ~skewed'[c],
           toServer # <<>>, Head(toServer).from = c
    PROVE  InStep(c)'
<1> DEFINE d == Head(toServer)
           f == d.data.val.name
<1>0. /\ Silent(Tail(toServer), c) /\ toClient[c] = <<>>
      /\ \/ cpc[c] \in Waiting \ {"getEcho"} /\ d.data = Asked(c)
         \/ cpc[c] = "exited" /\ d.data = Line("exit", NoName)
  BY OwnRequest
<1>1. UNCHANGED clientVars /\ NetTypeOK /\ ServerTypeOK
  BY DEF Server, TypeOK
<1>2. CASE ServeDelete
  <2>1. toClient' = [toClient EXCEPT ![c] = @ \o <<Text(d.data)>>]
    BY <1>2 DEF ServeDelete, Skew, SendToClient
  <2>2. cpc[c] = "delReply" /\ d.data = Line("delete", wanted[c])
    BY <1>0, <1>2, AskedOp DEF ServeDelete, Receive, Line
  <2>3. toClient'[c] = <<Line("delete", wanted[c])>>
    BY <1>0, <1>1, <2>1, <2>2, TextLine DEF NetTypeOK
  <2>4. toServer' = Tail(toServer)
    BY <1>2 DEF ServeDelete, Receive
  <2> QED BY <1>0, <1>1, <2>2, <2>3, <2>4 DEF InStep, Answered, Waiting, clientVars
<1>3. CASE ServeGet
  <2>1. cpc[c] = "getData" /\ d.data = Line("get", wanted[c]) /\ f = wanted[c]
    BY <1>0, <1>3, AskedOp DEF ServeGet, Receive, Line
  <2>2. toClient'[c] = <<store[wanted[c]], Line("get", wanted[c])>>
    <3>1. GetReplies(d) = <<store[wanted[c]], Line("get", wanted[c])>>
      BY <2>1, TextLine DEF GetReplies
    <3>2. toClient'[c] = toClient[c] \o GetReplies(d)
      BY <1>1, <1>3 DEF ServeGet, SendToClient, NetTypeOK
    <3> QED BY <1>0, <3>1, <3>2, ShortQueues
  <2>3. served'[c] = [name |-> wanted[c], data |-> store[wanted[c]]] /\ store[wanted[c]] # NoFile
    BY <1>1, <1>3, <2>1 DEF ServeGet, Found, ServerTypeOK
  <2>4. toServer' = Tail(toServer)
    BY <1>3 DEF ServeGet, Receive
  <2> QED BY <1>0, <1>1, <2>1, <2>2, <2>3, <2>4 DEF InStep, Answered, Waiting, clientVars
<1>4. CASE ServeGetEmpty \/ StorePut \/ ServeOther
  BY <1>4 DEF ServeGetEmpty, StorePut, ServeOther, Skew
<1>5. CASE ServeGetCrash
  <2>1. cpc[c] = "getData"
    BY <1>0, <1>5, AskedOp DEF ServeGetCrash, Receive, Line
  <2>2. toServer' = Tail(toServer) /\ toClient' = toClient /\ Stopped'
    BY <1>5 DEF ServeGetCrash, Receive, Stopped
  <2> QED BY <1>0, <1>1, <2>1, <2>2 DEF InStep, Waiting, clientVars
<1>6. CASE ServePut
  BY <1>0, <1>6, AskedOp DEF ServePut, Receive, Line
<1>7. CASE ServeLs
  <2>1. cpc[c] = "lsReply"
    BY <1>0, <1>7, AskedOp DEF ServeLs, Receive, Line
  <2>2. toClient'[c] = <<Listing(Directory)>>
    BY <1>0, <1>1, <1>7, ShortQueues DEF ServeLs, SendToClient, NetTypeOK
  <2>3. toServer' = Tail(toServer)
    BY <1>7 DEF ServeLs, Receive
  <2> QED BY <1>0, <1>1, <2>1, <2>2, <2>3 DEF InStep, Answered, Waiting, Listing, clientVars
<1>8. CASE ServeExit
  <2>1. cpc[c] = "exited"
    BY <1>0, <1>8, AskedOp DEF ServeExit, Receive, Line
  <2>2. toServer' = Tail(toServer) /\ toClient' = toClient
    BY <1>8 DEF ServeExit, Receive
  <2> QED BY <1>0, <1>1, <2>1, <2>2 DEF InStep, clientVars
<1>9. CASE ServeOtherCrash
  BY <1>0, <1>9 DEF ServeOtherCrash, ReceiveOther, Asked, Line
<1> QED
  BY <1>2, <1>3, <1>4, <1>5, <1>6, <1>7, <1>8, <1>9 DEF Server, ServerNext

\* A step of client b, seen by any other client c.
LEMMA ClientOther ==
    ASSUME TypeOK, NEW b \in Clients, Client(b), NEW c \in Clients, c # b, InStep(c)
    PROVE  InStep(c)'
<1>1. /\ cpc'[c] = cpc[c] /\ wanted'[c] = wanted[c] /\ local'[c] = local[c]
      /\ toClient'[c] = toClient[c] /\ UNCHANGED serverVars
  BY DEF Client, ClientNext, ClientReceive, TypeDelete, TypeGet, TypePut, TypeLs, TypeExit,
         TypeLine, PutSend, PutCrash, GetData, GetEcho, DelReply, LsReply, Take, netVars,
         TypeOK, NetTypeOK, ClientTypeOK
<1>2. \/ toServer' = toServer
      \/ \E e \in Datagram : e.from = b /\ toServer' = Append(toServer, e)
  <2>1. CASE PutSend(b)
    <3>1. local[b][wanted[b]].len > 0 => local[b][wanted[b]] \in Payload
      BY <2>1 DEF PutSend, TypeOK, ClientTypeOK
    <3> QED BY <2>1, <3>1 DEF PutSend, SendToServer, Datagram
  <2>2. ASSUME NEW op, NEW f, NEW next, TypeLine(b, op, f, next),
               <<op, f>> \in (FileOps \X Names) \cup ((Ops \ FileOps) \X {NoName})
        PROVE  \E e \in Datagram : e.from = b /\ toServer' = Append(toServer, e)
    <3>1. Line(op, f) \in Payload
      BY <2>2, LinePayload DEF Ops, FileOps
    <3> QED BY <2>2, <3>1 DEF TypeLine, SendToServer, Datagram
  <2>3. ASSUME NEW f \in Names, TypeDelete(b, f) \/ TypeGet(b, f) \/ TypePut(b, f)
        PROVE  \E e \in Datagram : e.from = b /\ toServer' = Append(toServer, e)
    BY <2>2, <2>3 DEF TypeDelete, TypeGet, TypePut, FileOps
  <2>4. CASE TypeLs(b) \/ TypeExit(b)
    BY <2>2, <2>4 DEF TypeLs, TypeExit, FileOps, Ops
  <2>5. CASE ClientReceive(b) \/ PutCrash(b)
    BY <2>5 DEF ClientReceive, GetData, GetEcho, DelReply, LsReply, Take, PutCrash, netVars
  <2> QED BY <2>1, <2>3, <2>4, <2>5 DEF Client, ClientNext
<1>3. /\ Silent(toServer, c) => Silent(toServer', c)
      /\ \A p : Single(toServer, c, p) => Single(toServer', c, p)
  BY <1>2, SilentAppend DEF TypeOK, NetTypeOK
<1>4. served'[c] = served[c] /\ (Stopped => Stopped')
  BY <1>1 DEF serverVars, Stopped
<1> QED BY <1>1, <1>3, <1>4, KeepInStep

\* A step of an in-step client itself.
LEMMA ClientOwn ==
    ASSUME TypeOK, NEW c \in Clients, Client(c), InStep(c), ~skewed'[c]
    PROVE  InStep(c)'
<1>0. NetTypeOK /\ ClientTypeOK /\ UNCHANGED serverVars
  BY DEF Client, TypeOK
<1>1. ASSUME NEW op, NEW f, NEW next, TypeLine(c, op, f, next)
      PROVE  /\ Single(toServer', c, Line(op, f)) /\ toClient'[c] = <<>>
             /\ cpc'[c] = next /\ wanted'[c] = f
  <2>1. Silent(toServer, c) /\ toClient[c] = <<>>
    BY <1>1 DEF TypeLine, InStep, Waiting
  <2> QED BY <1>0, <1>1, <2>1, SingleAppend
          DEF TypeLine, SendToServer, NetTypeOK, ClientTypeOK
<1>2. ASSUME NEW f \in Names, TypeDelete(c, f) PROVE InStep(c)'
  BY <1>1, <1>2 DEF TypeDelete, InStep, Asked, Waiting
<1>3. ASSUME NEW f \in Names, TypeGet(c, f) PROVE InStep(c)'
  BY <1>1, <1>3 DEF TypeGet, InStep, Asked, Waiting
<1>4. CASE TypeLs(c)
  BY <1>1, <1>4 DEF TypeLs, InStep, Asked, Waiting
<1>5. CASE TypeExit(c)
  BY <1>1, <1>5 DEF TypeExit, InStep
<1>6. ASSUME NEW f \in Names, TypePut(c, f) PROVE FALSE
  BY <1>6 DEF TypePut, Skew
<1>7. CASE PutSend(c) \/ PutCrash(c)
  BY <1>7 DEF PutSend, PutCrash, InStep, Waiting
<1>8. CASE ClientReceive(c)
  <2>1. Silent(toServer, c) /\ Answered(c) /\ toServer' = toServer
    BY <1>8 DEF ClientReceive, GetData, GetEcho, DelReply, LsReply, Take, InStep, Waiting
  <2>2. toClient'[c] = Tail(toClient[c])
    BY <1>0, <1>8 DEF ClientReceive, GetData, GetEcho, DelReply, LsReply, Take, NetTypeOK
  <2>3. CASE GetData(c)
    <3>1. /\ toClient[c] = <<served[c].data, Line("get", wanted[c])>>
          /\ served[c].name = wanted[c] /\ served[c].data # NoFile
      BY <2>1, <2>3 DEF GetData, Take, Answered
    <3>2. toClient'[c] = <<Line("get", wanted[c])>> /\ Head(toClient[c]) = served[c].data
      BY <2>2, <3>1
    <3>3. cpc'[c] = "getEcho" /\ wanted' = wanted /\ served' = served
      BY <1>0, <2>3 DEF GetData, Take, ClientTypeOK, serverVars
    <3>4. local'[c][wanted[c]] = Fit(served[c].data, CLIENTFILE)
      BY <1>0, <2>3, <3>2 DEF GetData, Take, ClientTypeOK
    <3>5. GetFaithful(c)'
      BY <3>1, <3>3, <3>4 DEF GetFaithful
    <3> QED BY <2>1, <3>2, <3>3, <3>5 DEF InStep, Answered, Waiting
  <2>4. CASE GetEcho(c) \/ DelReply(c) \/ LsReply(c)
    <3>1. Len(toClient[c]) = 1 /\ cpc'[c] = "prompt"
      BY <1>0, <2>1, <2>4 DEF GetEcho, DelReply, LsReply, Take, Answered, ClientTypeOK
    <3>2. toClient'[c] = <<>>
      BY <1>0, <2>2, <3>1, ShortQueues DEF NetTypeOK
    <3> QED BY <2>1, <3>1, <3>2 DEF InStep
  <2> QED BY <1>8, <2>3, <2>4 DEF ClientReceive
<1> QED
  BY <1>2, <1>3, <1>4, <1>5, <1>6, <1>7, <1>8 DEF Client, ClientNext

\* A fault spares the clients it does not mark.
LEMMA NetworkInStep ==
    ASSUME TypeOK, Network, NEW c \in Clients, InStep(c), ~skewed'[c]
    PROVE  InStep(c)'
<1>0. UNCHANGED <<serverVars, clientVars>> /\ NetTypeOK
  BY DEF Network, TypeOK
<1>1. CASE FaultToServer
  <2>1. Head(toServer).from # c /\ toClient' = toClient
    BY <1>1 DEF FaultToServer, Skew
  <2>2. /\ Silent(toServer, c) => Silent(toServer', c)
        /\ \A p : Single(toServer, c, p) => Single(toServer', c, p)
    BY <1>0, <1>1, <2>1, PerturbedOther DEF FaultToServer, NetTypeOK
  <2> QED BY <1>0, <2>1, <2>2, KeepInStep DEF serverVars, clientVars, Stopped
<1>2. ASSUME NEW b \in Clients, FaultToClient(b) PROVE InStep(c)'
  <2>1. b # c /\ toServer' = toServer
    BY <1>2 DEF FaultToClient, Skew
  <2>2. toClient'[c] = toClient[c]
    BY <1>0, <1>2, <2>1 DEF FaultToClient, NetTypeOK
  <2> QED BY <1>0, <2>1, <2>2, KeepInStep DEF serverVars, clientVars, Stopped
<1> QED BY <1>1, <1>2 DEF Network, NetNext

\* skewed is never reset.
LEMMA SkewStays == TypeOK /\ [Next]_vars => \A c \in Clients : skewed[c] => skewed'[c]
<1> SUFFICES ASSUME TypeOK, [Next]_vars PROVE \A c \in Clients : skewed[c] => skewed'[c]
  OBVIOUS
<1>1. skewed' = skewed \/ \E C : Skew(C)
  BY DEF Next, vars, netVars, Server, ServerNext, ServeDelete, ServeGet, ServeGetEmpty,
         ServeGetCrash, ServePut, StorePut, ServeLs, ServeExit, ServeOther, ServeOtherCrash,
         Client, ClientNext, ClientReceive, TypeDelete, TypeGet, TypePut, TypeLs, TypeExit,
         PutSend, PutCrash, GetData, GetEcho, DelReply, LsReply, Take,
         Network, NetNext, FaultToServer, FaultToClient
<1> QED BY <1>1 DEF Skew

\* For every number of clients, files and faults, the conversation of a client
\* that is not marked as skewed is one of those InStep lists.
THEOREM InStepAlways == Spec => []InStepInv
<1>1. Init => InStepInv
  BY DEF Init, NetInit, ClientInit, InStepInv, InStep, Silent
<1>2. TypeOK /\ InStepInv /\ [Next]_vars => InStepInv'
  <2> SUFFICES ASSUME TypeOK, InStepInv, [Next]_vars, NEW c \in Clients, ~skewed'[c]
               PROVE  InStep(c)'
    BY DEF InStepInv
  <2>1. InStep(c)
    BY SkewStays DEF InStepInv
  <2>2. CASE UNCHANGED vars
    BY <2>1, <2>2, KeepInStep DEF vars, netVars, serverVars, clientVars, Stopped
  <2>3. CASE Server
    <3>1. toServer # <<>>
      BY <2>3 DEF Server, ServerNext, ServeDelete, ServeGet, ServeGetEmpty,
         ServeGetCrash, ServePut, StorePut, ServeLs, ServeExit, ServeOther, ServeOtherCrash, ReceiveOther, Receive
    <3> QED BY <2>1, <2>3, <3>1, ServerOther, ServerOwn
  <2>4. ASSUME NEW b \in Clients, Client(b) PROVE InStep(c)'
    BY <2>1, <2>4, ClientOther, ClientOwn
  <2>5. CASE Network
    BY <2>1, <2>5, NetworkInStep
  <2> QED BY <2>2, <2>3, <2>4, <2>5 DEF Next
<1> QED BY <1>1, <1>2, TypeCorrect, PTL DEF Spec

\* A client in step gets its files right.
THEOREM GetsFaithful == Spec => []GetFaithfulInStep
<1>1. InStepInv => GetFaithfulInStep
  BY DEF InStepInv, InStep, Answered, GetFaithful, GetFaithfulInStep, Waiting
<1> QED BY <1>1, InStepAlways, PTL

\* Every datagram that a client in step reads answers the command it waits for.
THEOREM AnswersAlways == Spec => []AnswersInStep
<1>1. InStepInv => AnswersInStep
  BY DEF InStepInv, InStep, Answered, AnswersInStep, IsAnswer, Waiting
<1> QED BY <1>1, InStepAlways, PTL
=============================================================================
