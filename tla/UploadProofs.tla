----------------------------- MODULE UploadProofs -----------------------------
(***************************************************************************)
(* UploadsPaired of Uftp, proved for a client that nothing disturbs: any   *)
(* names, files and number of commands.                                    *)
(***************************************************************************)
EXTENDS UftpProofs

-----------------------------------------------------------------------------
\* Flight, and how it moves.

LEMMA FlightFact ==
    ASSUME TypeOK, PairInv
    PROVE  /\ Flight \in Seq(Datagram) /\ toServer \in Seq(Datagram)
           /\ srv # "putData" => request = <<>> /\ Flight = toServer
           /\ srv = "putData" =>
                 /\ Len(request) = 1 /\ Len(Flight) = 1 + Len(toServer)
                 /\ Flight[1] = request[1] /\ IsPut(request[1].data)
                 /\ \A i \in 1..Len(toServer) : Flight[i + 1] = toServer[i]
<1>1. toServer \in Seq(Datagram) /\ request \in Seq(Datagram)
  BY DEF TypeOK, NetTypeOK, ServerTypeOK
<1>2. Flight \in Seq(Datagram)
  BY <1>1 DEF Flight
<1>3. CASE srv # "putData"
  <2>1. request = <<>>
    BY <1>3 DEF PairInv
  <2> QED BY <1>1, <1>2, <1>3, <2>1 DEF Flight
<1>4. CASE srv = "putData"
  <2>1. Len(request) = 1 /\ IsPut(request[1].data)
    BY <1>4 DEF TypeOK, ServerTypeOK, IsPut
  <2>2. /\ Len(Flight) = 1 + Len(toServer) /\ Flight[1] = request[1]
        /\ \A i \in 1..Len(toServer) : Flight[i + 1] = toServer[i]
    <3>1. Len(toServer) \in Nat /\ Len(request) = 1
      BY <1>1, <2>1
    <3>2. /\ Len(Flight) = Len(request) + Len(toServer)
          /\ \A i \in 1..(Len(request) + Len(toServer)) :
                Flight[i] = IF i <= Len(request) THEN request[i] ELSE toServer[i - Len(request)]
      BY <1>1, ConcatProperties DEF Flight
    <3>3. Flight[1] = request[1]
      BY <3>1, <3>2
    <3>4. ASSUME NEW i \in 1..Len(toServer) PROVE Flight[i + 1] = toServer[i]
      <4>1. i + 1 > Len(request) /\ i + 1 \in 1..(Len(request) + Len(toServer)) /\ (i + 1) - Len(request) = i
        BY <3>1
      <4> QED BY <3>2, <4>1
    <3> QED BY <3>1, <3>2, <3>3, <3>4
  <2> QED BY <1>1, <1>2, <1>4, <2>1, <2>2
<1> QED BY <1>3, <1>4

\* The first n datagrams are done with.
LEMMA Shift ==
    ASSUME NEW n \in {1, 2}, Flight \in Seq(Datagram), Flight' \in Seq(Datagram),
           NEW D, DataAt(D), n <= Len(Flight),
           n = 1 => ~IsPut(Flight[1].data),
           n = 2 => 2 \in D,
           Len(Flight') = Len(Flight) - n,
           \A i \in 1..Len(Flight') : Flight'[i] = Flight[i + n],
           UNCHANGED <<cpc, wanted, uploads>>
    PROVE  \E E \in SUBSET (2..Len(Flight')) : DataAt(E)'
<1>e. PICK E : E = {i \in 2..Len(Flight') : i + n \in D}
  OBVIOUS
<1>0. Len(Flight) \in Nat /\ Len(Flight') \in Nat /\ n \in Nat
  OBVIOUS
<1>1. D \subseteq 2..Len(Flight) /\ \A i \in D : i - 1 \notin D /\ IsPut(Flight[i - 1].data)
  BY DEF DataAt
<1>2. n + 1 \notin D
  <2>1. CASE n = 1
    BY <1>1, <2>1
  <2>2. CASE n = 2
    BY <1>1, <2>2
  <2> QED BY <2>1, <2>2
<1>3. \A i \in 1..Len(Flight') : i \in E <=> i + n \in D
  BY <1>0, <1>2, <1>e
<1>4. E \subseteq 2..Len(Flight')
  BY <1>e
<1>5. ASSUME NEW i \in E
      PROVE  /\ i - 1 \notin E /\ IsPut(Flight'[i - 1].data)
             /\ <<Flight'[i - 1].data.val.name, Flight'[i].data>> \in uploads'
  <2>1. i \in 2..Len(Flight') /\ i - 1 \in 1..Len(Flight') /\ i + n \in D /\ (i - 1) + n = (i + n) - 1
    BY <1>0, <1>e
  <2>2. Flight'[i] = Flight[i + n] /\ Flight'[i - 1] = Flight[(i + n) - 1]
    <3>1. Flight'[i - 1] = Flight[(i - 1) + n] /\ Flight'[i] = Flight[i + n]
      BY <2>1
    <3> QED BY <2>1, <3>1
  <2>3. /\ (i + n) - 1 \notin D /\ IsPut(Flight[(i + n) - 1].data)
        /\ <<Flight[(i + n) - 1].data.val.name, Flight[i + n].data>> \in uploads
    BY <2>1 DEF DataAt
  <2> QED BY <1>3, <2>1, <2>2, <2>3
<1>6. ASSUME NEW i \in 1..Len(Flight') \ E
      PROVE  /\ Flight'[i].data.kind = "line" /\ Flight'[i].data.len > 0
             /\ IsPut(Flight'[i].data) => i + 1 \in E \/ (i = Len(Flight') /\ AtPut')
  <2>1. i + n \in 1..Len(Flight) \ D /\ Flight'[i] = Flight[i + n]
    BY <1>0, <1>3
  <2>2. /\ Flight[i + n].data.kind = "line" /\ Flight[i + n].data.len > 0
        /\ IsPut(Flight[i + n].data) => (i + n) + 1 \in D \/ (i + n = Len(Flight) /\ AtPut)
    BY <2>1 DEF DataAt
  <2>3. AtPut' = AtPut
    BY DEF AtPut
  <2>4. (i + n) + 1 \in D => i + 1 \in E
    <3>1. (i + n) + 1 \in D => i + 1 \in 2..Len(Flight') /\ (i + 1) + n = (i + n) + 1
      BY <1>0, <1>1
    <3> QED BY <1>e, <3>1
  <2>5. i + n = Len(Flight) => i = Len(Flight')
    BY <1>0
  <2> QED BY <2>1, <2>2, <2>3, <2>4, <2>5
<1>7. ASSUME NEW c \in Clients, cpc'[c] = "putSend"
      PROVE  /\ Flight' # <<>> /\ Len(Flight') \notin E
             /\ IsPut(Flight'[Len(Flight')].data)
             /\ Flight'[Len(Flight')].data.val.name = wanted'[c]
  <2>1. /\ Flight # <<>> /\ Len(Flight) \notin D
        /\ IsPut(Flight[Len(Flight)].data) /\ Flight[Len(Flight)].data.val.name = wanted[c]
    BY <1>7 DEF DataAt
  <2>2. Len(Flight) > n
    BY <1>0, <2>1
  <2>3. Len(Flight') \in 1..Len(Flight') /\ Len(Flight') + n = Len(Flight)
    BY <1>0, <2>2
  <2>4. Flight'[Len(Flight')] = Flight[Len(Flight)]
    BY <2>3
  <2>5. Flight' # <<>>
    BY <2>3
  <2> QED BY <1>3, <2>1, <2>3, <2>4, <2>5
<1>8. DataAt(E)'
  BY <1>4, <1>5, <1>6, <1>7 DEF DataAt
<1> QED BY <1>4, <1>8

\* One more datagram: a command, or the data of the put before it.
LEMMA Grow ==
    ASSUME Flight \in Seq(Datagram), NEW d \in Datagram, Flight' = Append(Flight, d),
           NEW D, DataAt(D), NEW E, E \in {D, D \cup {Len(Flight) + 1}},
           \A u \in uploads : u \in uploads',
           Len(Flight) + 1 \in E =>
               /\ Flight # <<>> /\ Len(Flight) \notin D /\ IsPut(Flight[Len(Flight)].data)
               /\ <<Flight[Len(Flight)].data.val.name, d.data>> \in uploads'
               /\ \A c \in Clients : cpc'[c] # "putSend",
           Len(Flight) + 1 \notin E =>
               /\ ~AtPut /\ d.data.kind = "line" /\ d.data.len > 0
               /\ IsPut(d.data) => AtPut'
               /\ \A c \in Clients : cpc'[c] = "putSend" =>
                     IsPut(d.data) /\ d.data.val.name = wanted'[c]
    PROVE  E \in SUBSET (2..Len(Flight')) /\ DataAt(E)'
<1> DEFINE n == Len(Flight)
<1>0. /\ n \in Nat /\ Len(Flight') = n + 1 /\ Flight'[n + 1] = d /\ Flight' # <<>>
      /\ \A i \in 1..n : Flight'[i] = Flight[i]
  OBVIOUS
<1> HIDE DEF n
<1>1. n = Len(Flight)
  BY DEF n
<1>2. D \subseteq 2..n
  BY <1>1 DEF DataAt
<1>3. \A i \in 1..n : i \in E <=> i \in D
  BY <1>0, <1>1
<1>4. E \subseteq 2..(n + 1)
  <2>1. CASE n + 1 \in E
    <3>1. n >= 1
      BY <1>0, <1>1, <2>1
    <3> QED BY <1>0, <1>1, <1>2, <3>1
  <2>2. CASE n + 1 \notin E
    BY <1>0, <1>1, <1>2, <2>2
  <2> QED BY <2>1, <2>2
<1>5. ASSUME NEW i \in E
      PROVE  /\ i - 1 \notin E /\ IsPut(Flight'[i - 1].data)
             /\ <<Flight'[i - 1].data.val.name, Flight'[i].data>> \in uploads'
  <2>1. CASE i = n + 1
    <3>1. n \in 1..n /\ i - 1 = n
      BY <1>0, <1>4, <2>1
    <3> QED BY <1>0, <1>1, <1>3, <2>1, <3>1
  <2>2. CASE i # n + 1
    <3>1. i \in 2..n /\ i \in D /\ i - 1 \in 1..n
      BY <1>0, <1>1, <1>4, <2>2
    <3>2. /\ i - 1 \notin D /\ IsPut(Flight[i - 1].data)
          /\ <<Flight[i - 1].data.val.name, Flight[i].data>> \in uploads
      BY <3>1 DEF DataAt
    <3>3. Flight'[i - 1] = Flight[i - 1] /\ Flight'[i] = Flight[i]
      BY <1>0, <3>1
    <3> QED BY <1>3, <3>1, <3>2, <3>3
  <2> QED BY <2>1, <2>2
<1>6. ASSUME NEW i \in 1..(n + 1) \ E
      PROVE  /\ Flight'[i].data.kind = "line" /\ Flight'[i].data.len > 0
             /\ IsPut(Flight'[i].data) => i + 1 \in E \/ (i = n + 1 /\ AtPut')
  <2>1. CASE i = n + 1
    BY <1>0, <1>1, <1>6, <2>1
  <2>2. CASE i # n + 1
    <3>1. i \in 1..n \ D /\ Flight'[i] = Flight[i]
      BY <1>0, <1>3, <1>6, <2>2
    <3>2. /\ Flight[i].data.kind = "line" /\ Flight[i].data.len > 0
          /\ IsPut(Flight[i].data) => i + 1 \in D \/ (i = n /\ AtPut)
      BY <1>1, <3>1 DEF DataAt
    <3>3. D \subseteq E
      OBVIOUS
    <3>4. i = n /\ AtPut => i + 1 \in E
      BY <1>1
    <3> QED BY <3>1, <3>2, <3>3, <3>4
  <2> QED BY <2>1, <2>2
<1>7. ASSUME NEW c \in Clients, cpc'[c] = "putSend"
      PROVE  /\ n + 1 \notin E /\ IsPut(Flight'[n + 1].data)
             /\ Flight'[n + 1].data.val.name = wanted'[c]
  BY <1>0, <1>1, <1>7
<1>8. DataAt(E)'
  BY <1>0, <1>4, <1>5, <1>6, <1>7 DEF DataAt
<1> QED BY <1>0, <1>4, <1>8

\* A step that leaves Flight alone.
LEMMA Same ==
    ASSUME Flight' = Flight, NEW D, DataAt(D), AtPut => AtPut', uploads' = uploads,
           \A c \in Clients : cpc'[c] = "putSend" => cpc[c] = "putSend" /\ wanted'[c] = wanted[c]
    PROVE  DataAt(D)'
  BY DEF DataAt

\* The client sends d.
LEMMA FlightAppend ==
    ASSUME TypeOK, NEW d \in Datagram, toServer' = Append(toServer, d), request' = request
    PROVE  Flight \in Seq(Datagram) /\ Flight' = Append(Flight, d)
<1>1. toServer \in Seq(Datagram) /\ request \in Seq(Datagram)
  BY DEF TypeOK, NetTypeOK, ServerTypeOK
<1> QED BY <1>1 DEF Flight

\* What the server finds at the head of its queue: a command, unless it waits for
\* the data of a put.
LEMMA HeadCommand ==
    ASSUME TypeOK, PairInv, srv # "putData", toServer # <<>>
    PROVE  /\ Head(toServer) = Flight[1]
           /\ Head(toServer).data.kind = "line" /\ Head(toServer).data.len > 0
<1>1. PICK D \in SUBSET (2..Len(Flight)) : DataAt(D)
  BY DEF PairInv
<1>2. Flight = toServer /\ toServer \in Seq(Datagram)
  BY FlightFact
<1>3. 1 \in 1..Len(Flight) \ D
  BY <1>2
<1> QED BY <1>1, <1>2, <1>3 DEF DataAt
-----------------------------------------------------------------------------
\* No datagram is empty.

LEMMA LineText ==
    ASSUME NEW p \in Payload, p.kind = "line"
    PROVE  Text(p).len = p.len
  BY DEF Text, TextLen, Fit, Least, Payload

LEMMA FitFilled ==
    ASSUME NEW p \in Payload, p.len > 0, NEW n \in Nat, n > 0
    PROVE  Fit(p, n).len > 0
  BY DEF Fit, Least, Payload

LEMMA SendFilled ==
    ASSUME TypeOK, PairInv, NEW c \in Clients, NEW ps \in Seq(Payload), SendToClient(c, ps),
           \A i \in 1..Len(ps) : ps[i].len > 0
    PROVE  \A b \in Clients : \A i \in 1..Len(toClient'[b]) : toClient'[b][i].len > 0
<1> SUFFICES ASSUME NEW b \in Clients PROVE \A i \in 1..Len(toClient'[b]) : toClient'[b][i].len > 0
  OBVIOUS
<1>1. toClient \in [Clients -> Seq(Payload)]
  BY DEF TypeOK, NetTypeOK
<1>2. \A i \in 1..Len(toClient[b]) : toClient[b][i].len > 0
  BY DEF PairInv
<1>3. CASE b # c
  BY <1>1, <1>2, <1>3 DEF SendToClient
<1>4. CASE b = c
  <2>1. toClient'[b] = toClient[b] \o ps /\ toClient[b] \in Seq(Payload)
    BY <1>1, <1>4 DEF SendToClient
  <2>2. \A i \in 1..(Len(toClient[b]) + Len(ps)) : toClient'[b][i] =
            IF i <= Len(toClient[b]) THEN toClient[b][i] ELSE ps[i - Len(toClient[b])]
    BY <2>1, ConcatProperties
  <2>3. Len(toClient'[b]) = Len(toClient[b]) + Len(ps)
    BY <2>1, ConcatProperties
  <2> QED BY <1>2, <2>1, <2>2, <2>3
<1> QED BY <1>3, <1>4
-----------------------------------------------------------------------------
\* The parts of PairInv that are not about what is in flight.
Sizes == /\ Filled(store) /\ \A u \in uploads : u[2].len > 0
         /\ \A c \in Clients :
               Filled(local[c]) /\ \A i \in 1..Len(toClient[c]) : toClient[c][i].len > 0
Parsing == (request = <<>>) <=> (srv # "putData")
InFlight == \E D \in SUBSET (2..Len(Flight)) : DataAt(D)

LEMMA PairParts == PairInv <=> UploadsPaired /\ Sizes /\ Parsing /\ InFlight
  BY DEF PairInv, Sizes, Parsing, InFlight

\* The server is done with a command that is no put.
LEMMA CommandDone ==
    ASSUME TypeOK, TypeOK', PairInv, srv = "recv", srv' # "putData", toServer # <<>>,
           toServer' = Tail(toServer), request' = request, UNCHANGED clientVars,
           ~IsPut(Head(toServer).data)
    PROVE  Parsing' /\ InFlight'
<1>1. PICK D \in SUBSET (2..Len(Flight)) : DataAt(D)
  BY DEF PairInv
<1>2. Flight = toServer /\ toServer \in Seq(Datagram) /\ request = <<>> /\ Head(toServer) = Flight[1]
  BY FlightFact, HeadCommand
<1>3. toServer' \in Seq(Datagram)
  BY DEF TypeOK, NetTypeOK
<1>4. Flight' = toServer'
  BY <1>2, <1>3 DEF Flight
<1>5. /\ Flight \in Seq(Datagram) /\ Flight' \in Seq(Datagram) /\ 1 <= Len(Flight)
      /\ Len(Flight') = Len(Flight) - 1
      /\ \A i \in 1..Len(Flight') : Flight'[i] = Flight[i + 1]
  BY <1>2, <1>3, <1>4
<1>6. UNCHANGED <<cpc, wanted, uploads>>
  BY DEF clientVars
<1>7. InFlight'
  BY <1>1, <1>2, <1>5, <1>6, Shift DEF InFlight
<1> QED BY <1>2, <1>7 DEF Parsing

\* put, before and after its second recvfrom().
LEMMA PutBegun ==
    ASSUME TypeOK, TypeOK', PairInv, ServePut, UNCHANGED clientVars
    PROVE  Parsing' /\ InFlight'
<1>1. PICK D \in SUBSET (2..Len(Flight)) : DataAt(D)
  BY DEF PairInv
<1>2. /\ toServer # <<>> /\ toServer' = Tail(toServer) /\ request' = <<Head(toServer)>>
      /\ srv' = "putData" /\ srv = "recv"
  BY DEF ServePut, Receive
<1>3. Flight = toServer /\ toServer \in Seq(Datagram)
  BY <1>2, FlightFact
<1>4. Flight' = Flight
  <2>1. toServer = <<Head(toServer)>> \o Tail(toServer)
    BY <1>2, <1>3
  <2> QED BY <1>2, <1>3, <2>1 DEF Flight
<1>5. DataAt(D)'
  BY <1>1, <1>4, Same DEF clientVars, AtPut
<1> QED BY <1>1, <1>2, <1>4, <1>5 DEF Parsing, InFlight

LEMMA PutDone ==
    ASSUME TypeOK, TypeOK', PairInv, StorePut, UNCHANGED clientVars
    PROVE  /\ Parsing' /\ InFlight'
           /\ <<request[1].data.val.name, Head(toServer).data>> \in uploads
<1>1. PICK D \in SUBSET (2..Len(Flight)) : DataAt(D)
  BY DEF PairInv
<1>2. srv = "putData" /\ toServer # <<>> /\ toServer' = Tail(toServer) /\ request' = <<>> /\ srv' = "recv"
  BY DEF StorePut
<1>3. /\ Flight \in Seq(Datagram) /\ toServer \in Seq(Datagram)
      /\ Len(Flight) = 1 + Len(toServer) /\ Flight[1] = request[1] /\ IsPut(request[1].data)
      /\ \A i \in 1..Len(toServer) : Flight[i + 1] = toServer[i]
  BY <1>2, FlightFact
<1>4. Len(toServer) \in Nat /\ Len(toServer) >= 1
  BY <1>2, <1>3
<1>5. 2 \in D
  <2>1. 1 \in 1..Len(Flight) \ D /\ 1 # Len(Flight)
    BY <1>3, <1>4
  <2> QED BY <1>1, <1>3, <2>1 DEF DataAt
<1>6. Flight[2] = Head(toServer)
  <2>1. Flight[1 + 1] = toServer[1]
    BY <1>3, <1>4
  <2> QED BY <1>2, <1>3, <2>1
<1>7. <<request[1].data.val.name, Head(toServer).data>> \in uploads
  <2>1. \A i \in D : <<Flight[i - 1].data.val.name, Flight[i].data>> \in uploads
    BY <1>1 DEF DataAt
  <2>2. <<Flight[1].data.val.name, Flight[2].data>> \in uploads
    BY <1>5, <2>1
  <2> QED BY <1>3, <1>6, <2>2
<1>8. toServer' \in Seq(Datagram) /\ Flight' = toServer'
  BY <1>2 DEF TypeOK, NetTypeOK, Flight
<1>9. /\ Len(Flight') = Len(Flight) - 2 /\ 2 <= Len(Flight)
      /\ \A i \in 1..Len(Flight') : Flight'[i] = Flight[i + 2]
  <2>1. Len(toServer') = Len(toServer) - 1 /\ \A i \in 1..Len(toServer') : toServer'[i] = toServer[i + 1]
    BY <1>2, <1>3
  <2>2. ASSUME NEW i \in 1..Len(Flight') PROVE Flight'[i] = Flight[i + 2]
    <3>1. i + 1 \in 1..Len(toServer) /\ (i + 1) + 1 = i + 2
      BY <1>4, <1>8, <2>1
    <3>2. Flight[(i + 1) + 1] = toServer[i + 1]
      BY <1>3, <3>1
    <3> QED BY <1>8, <2>1, <3>1, <3>2
  <2> QED BY <1>3, <1>4, <1>8, <2>1, <2>2
<1>10. UNCHANGED <<cpc, wanted, uploads>>
  BY DEF clientVars
<1>11. InFlight'
  BY <1>1, <1>3, <1>5, <1>8, <1>9, <1>10, Shift DEF InFlight
<1> QED BY <1>2, <1>7, <1>11 DEF Parsing
-----------------------------------------------------------------------------
\* A step of the server.

\* Every command but put, and nothing else, is taken at the main loop.
LEMMA ServerFlight ==
    ASSUME TypeOK, TypeOK', PairInv, Server
    PROVE  Parsing' /\ InFlight'
<1>1. UNCHANGED clientVars
  BY DEF Server
<1>2. CASE ServePut
  BY <1>1, <1>2, PutBegun
<1>3. CASE StorePut
  BY <1>1, <1>3, PutDone
<1>4. ASSUME NEW op \in Ops \ {"put"}, Receive(op), request' = request, srv' # "putData"
      PROVE  Parsing' /\ InFlight'
  <2>1. toServer # <<>> /\ srv = "recv" /\ toServer' = Tail(toServer) /\ ~IsPut(Head(toServer).data)
    BY <1>4 DEF Receive, IsPut
  <2> QED BY <1>1, <1>4, <2>1, CommandDone
<1>5. CASE ServeDelete \/ ServeGet \/ ServeGetEmpty \/ ServeGetCrash \/ ServeLs \/ ServeExit
  <2>1. request' = request
    BY <1>5 DEF ServeDelete, ServeGet, ServeGetEmpty, ServeGetCrash, ServeLs, ServeExit, serverVars
  <2>2. Receive("delete") \/ Receive("get") \/ Receive("ls") \/ Receive("exit")
    BY <1>5 DEF ServeDelete, ServeGet, ServeGetEmpty, ServeGetCrash, ServeLs, ServeExit
  <2>3. srv' # "putData"
    BY <1>5 DEF ServeDelete, ServeGet, ServeGetEmpty, ServeGetCrash, ServeLs, ServeExit, Receive, serverVars
  <2> QED BY <1>4, <2>1, <2>2, <2>3 DEF Ops, FileOps
<1>6. CASE ServeOther \/ ServeOtherCrash
  BY <1>6, HeadCommand DEF ServeOther, ServeOtherCrash, ReceiveOther
<1> QED BY <1>2, <1>3, <1>5, <1>6 DEF Server, ServerNext

LEMMA ServerSizes ==
    ASSUME TypeOK, TypeOK', PairInv, Server
    PROVE  Sizes' /\ UploadsPaired'
<1> DEFINE d == Head(toServer)
           f == d.data.val.name
<1>0. /\ UNCHANGED clientVars /\ NetTypeOK
      /\ store \in [Names -> Payload \cup {NoFile}] /\ request \in Seq(Datagram)
      /\ toServer # <<>> => d \in Datagram /\ d.from \in Clients /\ d.data \in Payload
      /\ srv = "recv" /\ toServer # <<>> => Text(d.data).len > 0 /\ d.data.kind = "line"
  <2>1. UNCHANGED clientVars /\ NetTypeOK /\ store \in [Names -> Payload \cup {NoFile}] /\ request \in Seq(Datagram)
    BY DEF Server, TypeOK, ServerTypeOK
  <2>2. toServer # <<>> => d \in Datagram /\ d.from \in Clients /\ d.data \in Payload
    BY <2>1, HeadDatagram
  <2>3. srv = "recv" /\ toServer # <<>> => Text(d.data).len > 0 /\ d.data.kind = "line"
    BY <2>2, HeadCommand, LineText
  <2> QED BY <2>1, <2>2, <2>3
<1>1. /\ UploadsPaired /\ Filled(store)
      /\ \A u \in uploads : u[2].len > 0
      /\ \A c \in Clients : Filled(local[c]) /\ \A i \in 1..Len(toClient[c]) : toClient[c][i].len > 0
  BY DEF PairInv
<1>2. uploads' = uploads /\ local' = local
  BY <1>0 DEF clientVars
<1>3. ASSUME \A i \in Names : store'[i] = store[i] \/ store'[i] = NoFile
      PROVE  Filled(store)' /\ UploadsPaired'
  BY <1>1, <1>2, <1>3 DEF Filled, UploadsPaired
<1>4. ASSUME Filled(store)',
             \A c \in Clients : \A i \in 1..Len(toClient'[c]) : toClient'[c][i].len > 0
      PROVE  Sizes'
  BY <1>1, <1>2, <1>4 DEF Sizes, Filled
<1>5. ASSUME toServer # <<>>, NEW ps \in Seq(Payload), SendToClient(d.from, ps),
             \A i \in 1..Len(ps) : ps[i].len > 0
      PROVE  \A c \in Clients : \A i \in 1..Len(toClient'[c]) : toClient'[c][i].len > 0
  BY <1>0, <1>5, SendFilled
<1>6. CASE ServeDelete
  <2>1. toServer # <<>> /\ srv = "recv" /\ f \in Names
    BY <1>0, <1>6, HeadName DEF ServeDelete, Receive, FileOps
  <2>2. \A i \in Names : store'[i] = store[i] \/ store'[i] = NoFile
    BY <1>0, <1>6 DEF ServeDelete
  <2>3. Text(d.data) \in Payload /\ Deleted \in Payload /\ Deleted.len > 0
    BY <1>0, <2>1, TextPayload, OtherPayload DEF Deleted, NoticeSize
  <2>4. \E ps \in Seq(Payload) : SendToClient(d.from, ps) /\ \A i \in 1..Len(ps) : ps[i].len > 0
    <3> DEFINE both == <<Deleted, Text(d.data)>>
               one == <<Text(d.data)>>
    <3>1. both \in Seq(Payload) /\ \A i \in 1..Len(both) : both[i].len > 0
      BY <1>0, <2>1, <2>3
    <3>2. one \in Seq(Payload) /\ \A i \in 1..Len(one) : one[i].len > 0
      BY <1>0, <2>1, <2>3
    <3>3. SendToClient(d.from, both) \/ SendToClient(d.from, one)
      BY <1>6 DEF ServeDelete
    <3> HIDE DEF both, one
    <3> QED BY <3>1, <3>2, <3>3
  <2>5. \A c \in Clients : \A i \in 1..Len(toClient'[c]) : toClient'[c][i].len > 0
    BY <1>5, <2>1, <2>4
  <2> QED BY <1>3, <1>4, <2>2, <2>5
<1>7. CASE ServeGet
  <2>1. toServer # <<>> /\ srv = "recv" /\ f \in Names /\ store[f] \in Payload /\ store[f].len > 0 /\ store' = store
    BY <1>0, <1>7, HeadName DEF ServeGet, Receive, FileOps, Found
  <2>2. Text(d.data) \in Payload
    BY <1>0, <2>1, TextPayload
  <2>3. GetReplies(d) \in Seq(Payload) /\ \A i \in 1..Len(GetReplies(d)) : GetReplies(d)[i].len > 0
    BY <1>0, <2>1, <2>2 DEF GetReplies
  <2>4. \A c \in Clients : \A i \in 1..Len(toClient'[c]) : toClient'[c][i].len > 0
    BY <1>5, <1>7, <2>1, <2>3 DEF ServeGet
  <2> QED BY <1>3, <1>4, <2>1, <2>4
<1>8. CASE ServeGetEmpty
  <2>1. f \in Names /\ store[f] # NoFile /\ store[f].len = 0
    BY <1>0, <1>8, HeadName DEF ServeGetEmpty, FileOps, Found
  <2> QED BY <1>1, <2>1 DEF Filled
<1>9. CASE ServeGetCrash \/ ServePut \/ ServeExit
  <2>1. store' = store /\ toClient' = toClient
    BY <1>9 DEF ServeGetCrash, ServePut, ServeExit
  <2> QED BY <1>1, <1>3, <1>4, <2>1
<1>10. CASE StorePut
  <2> DEFINE g == request[1].data.val.name
             w == request[1].data
  <2>1. /\ toServer # <<>> /\ srv = "putData"
        /\ store' = [store EXCEPT ![g] = Uploaded(d)]
        /\ SendToClient(d.from, <<Text(w)>>)
    BY <1>10 DEF StorePut
  <2>2. <<g, d.data>> \in uploads
    BY <1>0, <1>10, PutDone
  <2>3. d.data.len > 0
    <3>1. <<g, d.data>>[2].len > 0
      BY <1>1, <2>2
    <3> QED BY <3>1
  <2>4. Uploaded(d).len > 0 /\ Uploaded(d) = Fit(d.data, SERVERFILE)
    BY <1>0, <2>1, <2>3, FitFilled DEF Uploaded, SERVERFILE
  <2>5. Filled(store)'
    BY <1>0, <1>1, <2>1, <2>4 DEF Filled
  <2>6. UploadsPaired'
    <3>1. \E u \in uploads : u[1] = g /\ Uploaded(d) = Fit(u[2], SERVERFILE)
      BY <2>2, <2>4
    <3>2. ASSUME NEW i \in Names
          PROVE  \/ store'[i] \in {NoFile, StoreInit[i]}
                 \/ \E u \in uploads : u[1] = i /\ store'[i] = Fit(u[2], SERVERFILE)
      BY <1>0, <1>1, <2>1, <3>1 DEF UploadsPaired
    <3> QED BY <1>2, <3>2 DEF UploadsPaired
  <2>7. w \in Payload /\ w.kind = "line" /\ w.len > 0
    <3>1. PICK D \in SUBSET (2..Len(Flight)) : DataAt(D)
      BY DEF PairInv
    <3>2. 1 \in 1..Len(Flight) \ D /\ Flight[1] = request[1] /\ Flight \in Seq(Datagram)
      BY <2>1, FlightFact
    <3>3. Flight[1].data.kind = "line" /\ Flight[1].data.len > 0 /\ Flight[1] \in Datagram
      BY <3>1, <3>2 DEF DataAt
    <3> QED BY <3>2, <3>3 DEF Datagram
  <2>8. <<Text(w)>> \in Seq(Payload) /\ Text(w).len > 0
    BY <2>7, TextPayload, LineText
  <2>9. \A c \in Clients : \A i \in 1..Len(toClient'[c]) : toClient'[c][i].len > 0
    <3>1. \A i \in 1..Len(<<Text(w)>>) : <<Text(w)>>[i].len > 0
      BY <2>8
    <3> HIDE DEF w
    <3> QED BY <1>5, <2>1, <2>8, <3>1
  <2> QED BY <1>4, <2>5, <2>6, <2>9
<1>11. CASE ServeLs
  <2>1. toServer # <<>> /\ srv = "recv" /\ store' = store /\ SendToClient(d.from, <<Listing(Directory)>>)
    BY <1>11 DEF ServeLs, Receive, serverVars
  <2>2. <<Listing(Directory)>> \in Seq(Payload) /\ Listing(Directory).len > 0
    BY OtherPayload, SizeAssumption DEF Directory, Listing, BUFSIZE
  <2>3. \A i \in 1..Len(<<Listing(Directory)>>) : <<Listing(Directory)>>[i].len > 0
    BY <2>2
  <2>4. \A c \in Clients : \A i \in 1..Len(toClient'[c]) : toClient'[c][i].len > 0
    BY <1>5, <2>1, <2>2, <2>3
  <2> QED BY <1>3, <1>4, <2>1, <2>4
<1>12. CASE ServeOther \/ ServeOtherCrash
  BY <1>12, HeadCommand DEF ServeOther, ServeOtherCrash, ReceiveOther
<1> QED
  BY <1>6, <1>7, <1>8, <1>9, <1>10, <1>11, <1>12 DEF Server, ServerNext
-----------------------------------------------------------------------------
\* A step of the only client.

LEMMA Typing ==
    ASSUME TypeOK, PairInv, NEW c \in Clients, Clients = {c}, NEW op \in Ops, NEW f, NEW next,
           TypeLine(c, op, f, next), Line(op, f) \in Payload,
           next = "putSend" <=> op = "put", UNCHANGED serverVars
    PROVE  InFlight'
<1> DEFINE d == [from |-> c, data |-> Line(op, f)]
<1>1. PICK D \in SUBSET (2..Len(Flight)) : DataAt(D)
  BY DEF PairInv
<1>2. d \in Datagram /\ d.data = Line(op, f)
  BY DEF Datagram
<1>3. toServer' = Append(toServer, d) /\ request' = request /\ uploads' = uploads
  BY DEF TypeLine, SendToServer, serverVars
<1>4. cpc[c] = "prompt" /\ cpc' = [cpc EXCEPT ![c] = next] /\ wanted' = [wanted EXCEPT ![c] = f]
  BY DEF TypeLine
<1>5. cpc'[c] = next /\ wanted'[c] = f
  BY <1>4 DEF TypeOK, ClientTypeOK
<1>6. /\ d.data.kind = "line" /\ d.data.len > 0
      /\ d.data.val.op = op /\ d.data.val.name = f
  BY <1>2, SizeAssumption DEF Line
<1> HIDE DEF d
<1>7. Flight \in Seq(Datagram) /\ Flight' = Append(Flight, d)
  BY <1>2, <1>3, FlightAppend
<1>8. ~AtPut
  BY <1>4 DEF AtPut
<1>9. IsPut(d.data) => AtPut'
  BY <1>5, <1>6 DEF IsPut, AtPut
<1>10. \A b \in Clients : cpc'[b] = "putSend" => IsPut(d.data) /\ d.data.val.name = wanted'[b]
  BY <1>5, <1>6 DEF IsPut
<1>11. Len(Flight) + 1 \notin D
  BY <1>7
<1> QED BY <1>1, <1>2, <1>3, <1>6, <1>7, <1>8, <1>9, <1>10, <1>11, Grow DEF InFlight

\* The data goes out right behind its put.
LEMMA Sending ==
    ASSUME TypeOK, PairInv, NEW c \in Clients, Clients = {c}, PutSend(c), UNCHANGED serverVars
    PROVE  InFlight' /\ \A u \in uploads' : u[2].len > 0
<1> DEFINE p == local[c][wanted[c]]
           d == [from |-> c, data |-> p]
<1>1. PICK D \in SUBSET (2..Len(Flight)) : DataAt(D)
  BY DEF PairInv
<1>2. wanted[c] \in Names /\ p \in Payload /\ p.len > 0
  <2>1. wanted[c] \in Names /\ p \in Payload \cup {NoFile} /\ p # NoFile
    BY DEF PutSend, TypeOK, ClientTypeOK
  <2>2. Filled(local[c])
    BY DEF PairInv
  <2> QED BY <2>1, <2>2 DEF Filled
<1>3. /\ toServer' = Append(toServer, d) /\ request' = request
      /\ uploads' = uploads \cup {<<wanted[c], p>>}
      /\ cpc[c] = "putSend" /\ cpc' = [cpc EXCEPT ![c] = "prompt"] /\ wanted' = wanted
  BY <1>2 DEF PutSend, SendToServer, serverVars
<1>4. cpc'[c] = "prompt"
  BY <1>3 DEF TypeOK, ClientTypeOK
<1>5. d \in Datagram /\ d.data = p
  BY <1>2 DEF Datagram
<1>6. \A u \in uploads' : u[2].len > 0
  BY <1>2, <1>3 DEF PairInv
<1> HIDE DEF p, d
<1>7. Flight \in Seq(Datagram) /\ Flight' = Append(Flight, d)
  BY <1>3, <1>5, FlightAppend
<1>8. /\ Flight # <<>> /\ Len(Flight) \notin D /\ IsPut(Flight[Len(Flight)].data)
      /\ Flight[Len(Flight)].data.val.name = wanted[c]
  BY <1>1, <1>3 DEF DataAt
<1>9. <<wanted[c], d.data>> \in uploads' /\ \A u \in uploads : u \in uploads'
  BY <1>3, <1>5
<1>10. \A b \in Clients : cpc'[b] # "putSend"
  BY <1>4
<1>e. PICK E : E = D \cup {Len(Flight) + 1}
  OBVIOUS
<1>11. E \in SUBSET (2..Len(Flight')) /\ DataAt(E)'
  <2>1. <<Flight[Len(Flight)].data.val.name, d.data>> \in uploads'
    BY <1>8, <1>9
  <2> QED BY <1>1, <1>5, <1>7, <1>8, <1>9, <1>10, <1>e, <2>1, Grow
<1> QED BY <1>6, <1>11 DEF InFlight

LEMMA ClientPair ==
    ASSUME TypeOK, TypeOK', PairInv, NEW c \in Clients, Clients = {c}, Client(c)
    PROVE  PairInv'
<1>1. UNCHANGED serverVars /\ ClientNext(c)
  BY DEF Client
<1>2. store' = store /\ request' = request /\ srv' = srv
  BY <1>1 DEF serverVars
<1>3. Parsing' /\ Filled(store)'
  BY <1>2 DEF Parsing, PairInv, Filled
<1>4. ASSUME \A u \in uploads : u \in uploads' PROVE UploadsPaired'
  BY <1>2, <1>4 DEF PairInv, UploadsPaired
<1>6. ASSUME NEW op \in Ops, NEW f, NEW next, TypeLine(c, op, f, next),
             Line(op, f) \in Payload, next = "putSend" <=> op = "put"
      PROVE  PairInv'
  <2>1. InFlight'
    BY <1>1, <1>6, Typing
  <2>2. uploads' = uploads /\ local' = local /\ toClient' = toClient
    BY <1>6 DEF TypeLine
  <2>3. Sizes'
    BY <1>3, <2>2 DEF Sizes, PairInv, Filled
  <2> QED BY <1>3, <1>4, <2>1, <2>2, <2>3 DEF PairInv, Sizes, Parsing, InFlight
<1>7. CASE \E f \in Names : TypeDelete(c, f) \/ TypeGet(c, f) \/ TypePut(c, f)
  <2>1. PICK f \in Names : TypeDelete(c, f) \/ TypeGet(c, f) \/ TypePut(c, f)
    BY <1>7
  <2>2. \A op \in FileOps : op \in Ops /\ Line(op, f) \in Payload
    BY LinePayload DEF Ops, Commands
  <2> QED BY <1>6, <2>1, <2>2 DEF TypeDelete, TypeGet, TypePut, FileOps
<1>8. CASE TypeLs(c) \/ TypeExit(c)
  <2>1. \A op \in {"ls", "exit"} : op \in Ops /\ Line(op, NoName) \in Payload
    BY LinePayload DEF Ops, Commands, FileOps
  <2> QED BY <1>6, <1>8, <2>1 DEF TypeLs, TypeExit
<1>9. CASE PutSend(c)
  <2>1. InFlight' /\ \A u \in uploads' : u[2].len > 0
    BY <1>1, <1>9, Sending
  <2>2. local' = local /\ toClient' = toClient /\ \A u \in uploads : u \in uploads'
    BY <1>9 DEF PutSend
  <2>3. Sizes'
    BY <1>3, <2>1, <2>2 DEF Sizes, PairInv, Filled
  <2> QED BY <1>3, <1>4, <2>1, <2>2, <2>3 DEF PairInv, Sizes, Parsing, InFlight
<1>10. CASE PutCrash(c)
  <2>1. /\ uploads' = uploads /\ local' = local /\ toClient' = toClient /\ toServer' = toServer
        /\ wanted' = wanted /\ cpc' = [cpc EXCEPT ![c] = "crashed"]
    BY <1>10 DEF PutCrash, netVars
  <2>2. cpc'[c] = "crashed" /\ Flight' = Flight
    BY <1>2, <2>1 DEF TypeOK, ClientTypeOK, Flight
  <2>3. InFlight'
    BY <2>1, <2>2, Same DEF PairInv, InFlight, AtPut
  <2>4. Sizes'
    BY <1>3, <2>1 DEF Sizes, PairInv, Filled
  <2> QED BY <1>3, <1>4, <2>1, <2>3, <2>4 DEF PairInv, Sizes, Parsing, InFlight
<1>11. CASE ClientReceive(c)
  <2>1. PICK from, to : Take(c, from, to) /\ from \in Waiting /\ to \in {"getEcho", "prompt"}
    BY <1>11 DEF ClientReceive, GetData, GetEcho, DelReply, LsReply, Waiting
  <2>2. /\ uploads' = uploads /\ wanted' = wanted /\ toServer' = toServer /\ cpc[c] = from
        /\ toClient[c] # <<>> /\ toClient' = [toClient EXCEPT ![c] = Tail(@)]
        /\ cpc' = [cpc EXCEPT ![c] = to]
    BY <2>1 DEF Take
  <2>3. cpc'[c] = to /\ cpc[c] \notin {"putSend", "crashed"} /\ Flight' = Flight
    BY <1>2, <2>1, <2>2 DEF TypeOK, ClientTypeOK, Waiting, Flight
  <2>4. InFlight'
    BY <2>1, <2>2, <2>3, Same DEF PairInv, InFlight, AtPut
  <2>5. toClient[c] \in Seq(Payload) /\ toClient'[c] = Tail(toClient[c])
    BY <2>2 DEF TypeOK, NetTypeOK
  <2>6. \A i \in 1..Len(toClient[c]) : toClient[c][i].len > 0
    BY DEF PairInv
  <2>7. \A i \in 1..Len(toClient'[c]) : toClient'[c][i].len > 0
    BY <2>2, <2>5, <2>6
  <2>8. Filled(local'[c])
    <3>1. CASE local' = local
      BY <3>1 DEF PairInv
    <3>2. CASE GetData(c)
      <4> DEFINE h == Head(toClient[c])
      <4>1. local' = [local EXCEPT ![c][wanted[c]] = Fit(h, CLIENTFILE)]
        BY <3>2 DEF GetData
      <4>2. h \in Payload /\ h.len > 0
        BY <2>2, <2>5, <2>6
      <4>3. Fit(h, CLIENTFILE).len > 0
        BY <4>2, FitFilled DEF CLIENTFILE
      <4>4. \A f \in Names : local'[c][f] \in {local[c][f], Fit(h, CLIENTFILE)}
        BY <4>1 DEF TypeOK, ClientTypeOK
      <4>5. Filled(local[c])
        BY DEF PairInv
      <4> QED BY <4>3, <4>4, <4>5 DEF Filled
    <3> QED BY <1>11, <3>1, <3>2 DEF ClientReceive, GetEcho, DelReply, LsReply
  <2>9. Sizes'
    BY <1>3, <2>2, <2>7, <2>8 DEF Sizes, PairInv, Filled
  <2> QED BY <1>3, <1>4, <2>2, <2>4, <2>9 DEF PairInv, Sizes, Parsing, InFlight
<1> QED BY <1>1, <1>7, <1>8, <1>9, <1>10, <1>11 DEF ClientNext
-----------------------------------------------------------------------------
LEMMA InitPair == Undisturbed /\ Init => PairInv
<1> SUFFICES ASSUME Undisturbed, Init PROVE PairInv
  OBVIOUS
<1> USE DEF Init, NetInit, ServerInit, ClientInit
<1>1. Flight = <<>>
  BY DEF Flight
<1>2. DataAt({}) /\ {} \in SUBSET (2..Len(Flight))
  BY <1>1 DEF DataAt
<1>3. UploadsPaired
  BY DEF UploadsPaired
<1>4. Filled(store) /\ \A c \in Clients : Filled(local[c])
  BY DEF Undisturbed, Filled
<1> QED BY <1>2, <1>3, <1>4 DEF PairInv

LEMMA StepPair == Undisturbed /\ TypeOK /\ TypeOK' /\ PairInv /\ [Next]_vars => PairInv'
<1> SUFFICES ASSUME Undisturbed, TypeOK, TypeOK', PairInv, [Next]_vars PROVE PairInv'
  OBVIOUS
<1>1. PICK c : Clients = {c}
  BY DEF Undisturbed
<1>2. CASE Server
  BY <1>2, ServerFlight, ServerSizes DEF PairInv, Sizes, Parsing, InFlight
<1>3. CASE \E b \in Clients : Client(b)
  BY <1>1, <1>3, ClientPair
<1>4. ~Network
  <2>1. MaxFaults = 0 /\ faults = 0
    BY DEF Undisturbed, TypeOK, NetTypeOK
  <2> QED BY <2>1 DEF Network, NetNext, FaultToServer, FaultToClient, Fault
<1>5. CASE UNCHANGED vars
  <2>1. UNCHANGED <<store, uploads, local, toClient, srv, request, toServer, cpc, wanted>>
    BY <1>5 DEF vars, netVars, serverVars, clientVars
  <2>2. Flight' = Flight
    BY <2>1 DEF Flight
  <2>3. InFlight'
    BY <2>1, <2>2, Same DEF PairInv, InFlight, AtPut
  <2>4. UploadsPaired' /\ Sizes' /\ Parsing'
    BY <2>1 DEF PairInv, UploadsPaired, Sizes, Parsing, Filled
  <2> QED BY <2>3, <2>4 DEF PairInv, Sizes, Parsing, InFlight
<1> QED BY <1>2, <1>3, <1>4, <1>5 DEF Next

\* One client that nothing disturbs, none of its files empty: whatever it types,
\* the server stores under a name the bytes of a put of that name.
THEOREM UploadsStayPaired == Undisturbed => (Spec => []UploadsPaired)
<1>1. PairInv => UploadsPaired
  BY DEF PairInv
<1>2. SUFFICES ASSUME Undisturbed PROVE Spec => []UploadsPaired
  OBVIOUS
<1>3. Init => PairInv
  BY <1>2, InitPair
<1>4. TypeOK /\ TypeOK' /\ PairInv /\ [Next]_vars => PairInv'
  BY <1>2, StepPair
<1> QED BY <1>1, <1>3, <1>4, TypeCorrect, PTL DEF Spec
=============================================================================
