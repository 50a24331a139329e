------------------------------ MODULE DfsProofs ------------------------------
(***************************************************************************)
(* Proofs about Dfs, for any clients, servers started, names, files and    *)
(* commands, and about the placement table and the split of a file.        *)
(***************************************************************************)
EXTENDS Dfs, SequenceTheorems, FiniteSetTheorems, TLAPS

-----------------------------------------------------------------------------
\* The placement table of dfc.c.

\* The parts of a server are neighbours, and which ones they are shifts by one
\* with the hash: the sixteen cases of the switch follow one rule.
LEMMA PlacementRule ==
    \A x \in Hashes, s \in Servers :
        /\ FirstPart(x, s) = ((s + 4 - x) % 4) + 1
        /\ SecondPart(x, s) = ((s + 5 - x) % 4) + 1
<1> TAKE x \in Hashes, s \in Servers
<1>1. /\ x = 0 \/ x = 1 \/ x = 2 \/ x = 3
      /\ s = 0 \/ s = 1 \/ s = 2 \/ s = 3
  BY DEF Hashes, Servers
<1>2. CASE x = 0
  BY <1>1, <1>2 DEF FirstPart, SecondPart, Placement
<1>3. CASE x = 1
  BY <1>1, <1>3 DEF FirstPart, SecondPart, Placement
<1>4. CASE x = 2
  BY <1>1, <1>4 DEF FirstPart, SecondPart, Placement
<1>5. CASE x = 3
  BY <1>1, <1>5 DEF FirstPart, SecondPart, Placement
<1> QED BY <1>1, <1>2, <1>3, <1>4, <1>5

\* Every part is on exactly two servers, as the first part of one and as the
\* second part of the server before it.
THEOREM OnTwoServers ==
    \A x \in Hashes, i \in Parts :
        \E s, t \in Servers :
            /\ s # t /\ FirstPart(x, s) = i /\ SecondPart(x, t) = i
            /\ \A u \in Servers : i \in PartsOn(x, u) => u \in {s, t}
<1> TAKE x \in Hashes, i \in Parts
<1> DEFINE s == (i + 3 + x) % 4
           t == (i + 2 + x) % 4
<1>1. x \in 0..3 /\ i \in 1..4 /\ s \in 0..3 /\ t \in 0..3 /\ s # t
  BY DEF Hashes, Parts
<1>2. FirstPart(x, s) = i /\ SecondPart(x, t) = i
  <2>1. ((s + 4 - x) % 4) + 1 = i /\ ((t + 5 - x) % 4) + 1 = i
    BY <1>1
  <2> QED BY <1>1, <2>1, PlacementRule DEF Servers
<1>3. \A u \in Servers : i \in PartsOn(x, u) => u \in {s, t}
  <2> SUFFICES ASSUME NEW u \in Servers, i \in PartsOn(x, u)
               PROVE  u \in {s, t}
    OBVIOUS
  <2>1. i = ((u + 4 - x) % 4) + 1 \/ i = ((u + 5 - x) % 4) + 1
    BY PlacementRule DEF PartsOn
  <2> QED BY <1>1, <2>1 DEF Servers
<1> QED BY <1>1, <1>2, <1>3 DEF Servers

\* Whichever server is lost, every part is on another one.
THEOREM OneServerMayFail ==
    \A x \in Hashes, i \in Parts, lost \in Servers :
        \E s \in Servers \ {lost} : i \in PartsOn(x, s)
  BY OnTwoServers DEF PartsOn

\* The four reads never cover a file: whatever the hash, they leave a tail of
\* at least one byte, so the end of every file put is lost.
THEOREM SplitLosesTail ==
    \A x \in Hashes : \A n \in Nat : n >= 20 => Covered(n, x) < n
<1> TAKE x \in Hashes
<1> TAKE n \in Nat
<1>1. n \div 4 \in Nat /\ 4 * (n \div 4) <= n /\ x \in 0..3
  BY DEF Hashes
<1>2. Covered(n, x) = 4 * (n \div 4) + x - 4
  BY <1>1 DEF Covered, PartBytes
<1> QED BY <1>1, <1>2
-----------------------------------------------------------------------------
\* Chunks and queues.

\* The kind of a chunk tells what it is.
LEMMA ChunkKinds ==
    ASSUME NEW ch \in Chunk
    PROVE  /\ ch.kind = "req" <=> ch \in Requests
           /\ ch.kind = "req" => ch.op \in {"LIST", "PUT"} /\ ch.name \in Names
  BY DEF Chunk, Requests, Req, Blank, Cred, Part

LEMMA FileNames ==
    ASSUME NEW r \in Requests
    PROVE  r.name \in Names /\ r.name \in Files /\ Second[r.name] \in Files
  BY DEF Requests, Req, Files

\* What is left of a queue after n of its chunks, and the first n chunks.
LEMMA LeftOver ==
    ASSUME NEW S, NEW q \in Seq(S), NEW n \in 0..Len(q)
    PROVE  /\ SubSeq(q, n + 1, Len(q)) \in Seq(S)
           /\ Len(SubSeq(q, n + 1, Len(q))) = Len(q) - n
           /\ \A i \in 1..Len(q) - n : SubSeq(q, n + 1, Len(q))[i] = q[n + i]
<1>1. Len(q) \in Nat /\ \A i \in n + 1 .. Len(q) : q[i] \in S
  BY ElementOfSeq
<1>2. /\ SubSeq(q, n + 1, Len(q)) \in Seq(S)
      /\ Len(SubSeq(q, n + 1, Len(q))) = IF n + 1 <= Len(q) THEN Len(q) - (n + 1) + 1 ELSE 0
      /\ \A i \in 1 .. Len(q) - (n + 1) + 1 : SubSeq(q, n + 1, Len(q))[i] = q[n + 1 + i - 1]
  BY <1>1, SubSeqProperties
<1> QED BY <1>1, <1>2

LEMMA FirstOnes ==
    ASSUME NEW S, NEW q \in Seq(S), NEW n \in 0..Len(q)
    PROVE  /\ SubSeq(q, 1, n) \in Seq(S)
           /\ Len(SubSeq(q, 1, n)) = n
           /\ \A i \in 1..n : SubSeq(q, 1, n)[i] = q[i]
<1>1. Len(q) \in Nat /\ \A i \in 1..n : q[i] \in S
  BY ElementOfSeq
<1>2. /\ SubSeq(q, 1, n) \in Seq(S)
      /\ Len(SubSeq(q, 1, n)) = IF 1 <= n THEN n - 1 + 1 ELSE 0
      /\ \A i \in 1 .. n - 1 + 1 : SubSeq(q, 1, n)[i] = q[1 + i - 1]
  BY <1>1, SubSeqProperties
<1> QED BY <1>1, <1>2

\* A read takes at most what is queued.
LEMMA AmountsBound ==
    ASSUME NEW k \in Conns, NEW n \in Amounts(k), up[k] \in Seq(Chunk)
    PROVE  n \in 0..Len(up[k])
  BY DEF Amounts

LEMMA HeadFirst ==
    ASSUME NEW S, NEW q \in Seq(S), q # <<>>
    PROVE  Len(q) \in Nat \ {0} /\ Head(q) = q[1] /\ q[1] \in S
  BY EmptySeq, ElementOfSeq

LEMMA ConsumeType ==
    ASSUME WireTypeOK, NEW k \in Conns, NEW n \in Amounts(k), Consume(k, n)
    PROVE  up' \in [Conns -> Seq(Chunk)]
<1>1. up[k] \in Seq(Chunk)
  BY DEF WireTypeOK
<1>2. SubSeq(up[k], n + 1, Len(up[k])) \in Seq(Chunk)
  BY <1>1, AmountsBound, LeftOver
<1> QED BY <1>2 DEF Consume, WireTypeOK

\* Writing over the start of a file keeps what is past the end of the new bytes.
LEMMA OverType ==
    ASSUME NEW S, NEW new \in Seq(S), NEW old \in Seq(S)
    PROVE  /\ Over(new, old) \in Seq(S)
           /\ \A i \in 1..Len(Over(new, old)) :
                 \/ i \in 1..Len(new) /\ Over(new, old)[i] = new[i]
                 \/ i \in 1..Len(old) /\ Over(new, old)[i] = old[i]
<1> DEFINE tail == SubSeq(old, Len(new) + 1, Len(old))
<1>0. Len(new) \in Nat /\ Len(old) \in Nat
  OBVIOUS
<1>1. tail \in Seq(S) /\ Len(tail) = (IF Len(new) <= Len(old) THEN Len(old) - Len(new) ELSE 0)
      /\ \A i \in 1..Len(old) - Len(new) : tail[i] = old[Len(new) + i]
  <2>1. CASE Len(new) <= Len(old)
    <3>1. Len(new) \in 0..Len(old)
      BY <1>0, <2>1
    <3> QED BY <1>0, <2>1, <3>1, LeftOver
  <2>2. CASE Len(new) > Len(old)
    <3>1. tail = <<>>
      BY <1>0, <2>2, SubSeqEmpty
    <3> QED BY <1>0, <2>2, <3>1, EmptySeq
  <2> QED BY <1>0, <2>1, <2>2
<1> HIDE DEF tail
<1>2. /\ new \o tail \in Seq(S)
      /\ Len(new \o tail) = Len(new) + Len(tail)
      /\ \A i \in 1..Len(new) + Len(tail) :
            (new \o tail)[i] = IF i <= Len(new) THEN new[i] ELSE tail[i - Len(new)]
  BY <1>1, ConcatProperties
<1>3. Over(new, old) = new \o tail
  BY DEF Over, tail
<1>4. ASSUME NEW i \in 1..Len(new \o tail)
      PROVE  \/ i \in 1..Len(new) /\ (new \o tail)[i] = new[i]
             \/ i \in 1..Len(old) /\ (new \o tail)[i] = old[i]
  <2>1. CASE i <= Len(new)
    BY <1>0, <1>2, <1>4, <2>1
  <2>2. CASE i > Len(new)
    <3>1. Len(tail) = Len(old) - Len(new) /\ i - Len(new) \in 1..Len(tail)
      BY <1>0, <1>1, <1>2, <1>4, <2>2
    <3>2. tail[i - Len(new)] = old[Len(new) + (i - Len(new))]
      BY <1>1, <3>1
    <3> QED BY <1>0, <1>2, <1>4, <2>2, <3>1, <3>2
  <2> QED BY <1>0, <1>2, <1>4, <2>1, <2>2
<1> QED BY <1>2, <1>3, <1>4

LEMMA ContentsType ==
    ASSUME ServerTypeOK, NEW k \in Conns
    PROVE  /\ Contents1(k) \in Seq(Chunk \cup {Zeros})
           /\ Contents2(k) \in Seq(Chunk \cup {Zeros})
           /\ Len(Contents2(k)) = n2[k]
<1>1. buf[k] \in Seq(Chunk) /\ n2[k] \in Nat
  BY DEF ServerTypeOK
<1>2. \A i \in 1..Len(buf[k]) : buf[k][i] \in Chunk
  BY <1>1, ElementOfSeq
<1> QED BY <1>1, <1>2 DEF Contents1, Contents2
-----------------------------------------------------------------------------
\* TypeOK is inductive by itself: one step per action.

LEMMA InitTypeOK == Init => TypeOK
  BY WireAssumption, ClientAssumption
  DEF Init, WireInit, ServerInit, ClientInit, TypeOK, WireTypeOK, ServerTypeOK,
      ClientTypeOK, Conns, Servers

LEMMA ConnServer == \A k \in Conns : k[1] \in Clients /\ k[2] \in Servers /\ k = <<k[1], k[2]>>
  BY DEF Conns

\* Storing a sequence as a file of a server.
LEMMA StoreType ==
    ASSUME ServerTypeOK, NEW k \in Conns, NEW f \in Files,
           NEW v \in Seq(Chunk \cup {Zeros}), store' = [store EXCEPT ![k[2]][f] = v]
    PROVE  /\ store' \in [Servers -> [Files -> Seq(Chunk \cup {Zeros}) \cup {Missing}]]
           /\ store'[k[2]][f] # Missing
           /\ \A s \in Servers, g \in Files : store[s][g] # Missing => store'[s][g] # Missing
<1>1. v # Missing /\ k[2] \in Servers
  BY ServerAssumption, ConnServer
<1> QED BY <1>1 DEF ServerTypeOK

LEMMA ThreadType == ASSUME TypeOK, NEW k \in Conns, Thread(k) PROVE TypeOK'
<1>0. WireTypeOK /\ ServerTypeOK /\ ClientTypeOK /\ UNCHANGED clientVars
  BY DEF TypeOK, Thread
<1>k. k[1] \in Clients /\ k[2] \in Servers /\ up[k] \in Seq(Chunk)
  BY <1>0, ConnServer DEF WireTypeOK
<1>c. ClientTypeOK'
  BY <1>0 DEF ClientTypeOK, clientVars
<1>1. CASE ReadRequest(k)
  <2>1. PICK n \in Amounts(k) \ {0} :
            Head(up[k]).kind = "req" /\ req' = [req EXCEPT ![k] = Head(up[k])] /\ Consume(k, n)
    BY <1>1 DEF ReadRequest
  <2>2. Head(up[k]) \in Requests
    <3>1. up[k] # <<>>
      BY <1>k, <2>1, EmptySeq DEF Amounts
    <3> QED BY <1>k, <2>1, <3>1, HeadFirst, ChunkKinds
  <2>3. Head(up[k]) # NoReq
    BY <2>2, ServerAssumption DEF Chunk
  <2>4. WireTypeOK'
    BY <1>0, <1>1, <2>1, ConsumeType DEF ReadRequest, WireTypeOK
  <2>5. ServerTypeOK'
    BY <1>0, <1>1, <2>1, <2>2, <2>3 DEF ReadRequest, Goto, ServerTypeOK
  <2> QED BY <1>c, <2>4, <2>5 DEF TypeOK
<1>2. CASE RequestExit(k)
  <2>1. WireTypeOK' /\ ServerTypeOK'
    BY <1>0, <1>2 DEF RequestExit, Ends, WireTypeOK, ServerTypeOK, serverVars
  <2> QED BY <1>c, <2>1 DEF TypeOK
<1>3. CASE RequestLeftover(k)
  <2>1. PICK j \in Conns : req[j] # NoReq /\ req' = [req EXCEPT ![k] = req[j]]
    BY <1>3 DEF RequestLeftover
  <2>2. WireTypeOK'
    BY <1>0, <1>3 DEF RequestLeftover, WireTypeOK, wireVars
  <2>3. ServerTypeOK'
    BY <1>0, <1>3, <2>1 DEF RequestLeftover, Goto, ServerTypeOK
  <2> QED BY <1>c, <2>2, <2>3 DEF TypeOK
<1>4. CASE ReadCred(k)
  <2>1. PICK n \in Amounts(k) :
            /\ Consume(k, n)
            /\ Goto(k, "list") \/ Goto(k, "part1") \/ Goto(k, "done")
            /\ valid' = [valid EXCEPT ![k] = TRUE] \/ UNCHANGED valid
    BY <1>4 DEF ReadCred
  <2>2. WireTypeOK'
    BY <1>0, <1>4, <2>1, ConsumeType DEF ReadCred, WireTypeOK
  <2>3. ServerTypeOK'
    BY <1>0, <1>4, <2>1 DEF ReadCred, At, Goto, ServerTypeOK
  <2> QED BY <1>c, <2>2, <2>3 DEF TypeOK
<1>5. CASE SendListing(k)
  <2>1. {f \in Files : store[k[2]][f] # Missing} \in SUBSET Files
    OBVIOUS
  <2>2. Append(down[k], {f \in Files : store[k[2]][f] # Missing}) \in Seq(SUBSET Files)
    BY <1>0, <2>1, AppendProperties DEF WireTypeOK
  <2>3. WireTypeOK'
    BY <1>0, <1>5, <2>2 DEF SendListing, Listed, WireTypeOK
  <2>4. ServerTypeOK'
    BY <1>0, <1>5 DEF SendListing, Listed, Goto, ServerTypeOK
  <2> QED BY <1>c, <2>3, <2>4 DEF TypeOK
<1>6. CASE ReadPart1(k)
  <2>1. PICK n \in Amounts(k) : buf' = [buf EXCEPT ![k] = SubSeq(up[k], 1, n)] /\ Consume(k, n)
    BY <1>6 DEF ReadPart1
  <2>2. SubSeq(up[k], 1, n) \in Seq(Chunk)
    BY <1>k, AmountsBound, FirstOnes
  <2>3. WireTypeOK'
    BY <1>0, <1>6, <2>1, ConsumeType DEF ReadPart1, WireTypeOK
  <2>4. ServerTypeOK'
    BY <1>0, <1>6, <2>1, <2>2 DEF ReadPart1, At, Goto, ServerTypeOK
  <2> QED BY <1>c, <2>3, <2>4 DEF TypeOK
<1>7. CASE ReadPart2(k)
  <2>1. PICK n \in Amounts(k) : n2' = [n2 EXCEPT ![k] = n] /\ Consume(k, n)
    BY <1>7 DEF ReadPart2
  <2>2. n \in Nat
    BY <1>k, AmountsBound
  <2>3. WireTypeOK'
    BY <1>0, <1>7, <2>1, ConsumeType DEF ReadPart2, WireTypeOK
  <2>4. ServerTypeOK'
    BY <1>0, <1>7, <2>1, <2>2 DEF ReadPart2, At, Goto, ServerTypeOK
  <2> QED BY <1>c, <2>3, <2>4 DEF TypeOK
<1>8. ASSUME NEW f \in Files, NEW v \in Seq(Chunk \cup {Zeros}),
             store' = [store EXCEPT ![k[2]][f] = v],
             UNCHANGED <<req, valid, buf, n2, starved, wireVars>>,
             \/ At(k, "open1") /\ Goto(k, "open2") /\ f = req[k].name
             \/ At(k, "open2") /\ Goto(k, "close2") /\ f = Second[req[k].name]
             \/ At(k, "close2") /\ Goto(k, "close1")
             \/ At(k, "close1") /\ Goto(k, "done")
      PROVE  TypeOK'
  <2>1. /\ store' \in [Servers -> [Files -> Seq(Chunk \cup {Zeros}) \cup {Missing}]]
        /\ store'[k[2]][f] # Missing
        /\ \A s \in Servers, g \in Files : store[s][g] # Missing => store'[s][g] # Missing
    BY <1>0, <1>8, StoreType
  <2>2. WireTypeOK'
    BY <1>0, <1>8 DEF WireTypeOK, wireVars
  <2>3. tpc' \in [Conns -> {"none", "queued", "request", "cred", "list", "part1", "part2",
                            "open1", "open2", "close2", "close1", "done"}]
    BY <1>0, <1>8 DEF Goto, ServerTypeOK
  <2>4. ASSUME NEW j \in Conns
        PROVE  /\ tpc'[j] \notin {"none", "queued", "request", "done"} => req'[j] # NoReq
               /\ tpc'[j] \in {"open2", "close2", "close1"} =>
                     store'[j[2]][req'[j].name] # Missing
               /\ tpc'[j] \in {"close2", "close1"} =>
                     store'[j[2]][Second[req'[j].name]] # Missing
    <3>1. CASE tpc[j] \in {"none", "queued", "request", "done"}
      BY <1>0, <1>8, <2>4, <3>1 DEF At, Goto, ServerTypeOK
    <3>2. CASE tpc[j] \notin {"none", "queued", "request", "done"}
      <4>1. req'[j] = req[j] /\ req[j] \in Requests /\ j[2] \in Servers
        BY <1>0, <1>8, <2>4, <3>2, ConnServer DEF ServerTypeOK
      <4>2. req[j].name \in Files /\ Second[req[j].name] \in Files
        BY <4>1, FileNames
      <4> QED BY <1>0, <1>8, <2>1, <2>4, <3>2, <4>1, <4>2 DEF At, Goto, ServerTypeOK
    <3> QED BY <3>1, <3>2
  <2>5. ServerTypeOK'
    BY <1>0, <1>8, <2>1, <2>3, <2>4 DEF ServerTypeOK
  <2> QED BY <1>c, <2>2, <2>5 DEF TypeOK
<1>9. ASSUME At(k, "open1") \/ At(k, "open2") \/ At(k, "close2") \/ At(k, "close1")
      PROVE  /\ req[k].name \in Files /\ Second[req[k].name] \in Files
             /\ At(k, "close1") => store[k[2]][req[k].name] \in Seq(Chunk \cup {Zeros})
             /\ At(k, "close2") => store[k[2]][Second[req[k].name]] \in Seq(Chunk \cup {Zeros})
  <2>1. req[k] \in Requests
    BY <1>0, <1>9 DEF At, ServerTypeOK
  <2>2. req[k].name \in Files /\ Second[req[k].name] \in Files
    BY <2>1, FileNames
  <2> QED BY <1>0, <1>k, <1>9, <2>2 DEF At, ServerTypeOK
<1>10. <<>> \in Seq(Chunk \cup {Zeros})
  BY EmptySeq
<1>11. CASE Open1(k)
  BY <1>8, <1>9, <1>10, <1>11 DEF Open1, Truncate
<1>12. CASE Open2(k)
  BY <1>8, <1>9, <1>10, <1>12 DEF Open2, Truncate
<1>13. CASE Close2(k)
  <2> DEFINE f == Second[req[k].name]
             v == Over(Contents2(k), store[k[2]][f])
  <2>1. At(k, "close2") /\ f \in Files /\ store[k[2]][f] \in Seq(Chunk \cup {Zeros})
    BY <1>9, <1>13 DEF Close2, Flush
  <2>2. v \in Seq(Chunk \cup {Zeros})
    BY <1>0, <2>1, ContentsType, OverType
  <2>3. store' = [store EXCEPT ![k[2]][f] = v]
    BY <1>0, <1>k, <1>13, <2>1 DEF Close2, Flush, ServerTypeOK
  <2> QED BY <1>8, <1>13, <2>1, <2>2, <2>3 DEF Close2, Flush
<1>14. CASE Close1(k)
  <2> DEFINE f == req[k].name
             v == Over(Contents1(k), store[k[2]][f])
  <2>1. At(k, "close1") /\ f \in Files /\ store[k[2]][f] \in Seq(Chunk \cup {Zeros})
    BY <1>9, <1>14 DEF Close1, Flush
  <2>2. v \in Seq(Chunk \cup {Zeros})
    BY <1>0, <2>1, ContentsType, OverType
  <2>3. store' = [store EXCEPT ![k[2]][f] = v]
    BY <1>0, <1>k, <1>14, <2>1 DEF Close1, Flush, ServerTypeOK
  <2> QED BY <1>8, <1>14, <2>1, <2>2, <2>3 DEF Close1, Flush
<1>15. CASE Accept(k)
  <2>1. WireTypeOK' /\ ServerTypeOK'
    BY <1>0, <1>15 DEF Accept, At, Goto, WireTypeOK, ServerTypeOK, wireVars
  <2> QED BY <1>c, <2>1 DEF TypeOK
\* A call that finds no descriptor, or an fopen() that fails.
<1>16. ASSUME k[2] \in alive, Starves(k[2]) \/ UNCHANGED starved,
              Ends(k[2]) \/ UNCHANGED alive,
              UNCHANGED tpc \/ (At(k, "list") /\ Goto(k, "done")),
              UNCHANGED <<req, valid, buf, n2, store, up, down, closed>>
       PROVE  TypeOK'
  <2>1. WireTypeOK'
    BY <1>0, <1>16 DEF Ends, WireTypeOK
  <2>2. starved' \subseteq Running
    BY <1>0, <1>16 DEF Starves, ServerTypeOK, WireTypeOK
  <2>3. ServerTypeOK'
    BY <1>0, <1>16, <2>2 DEF At, Goto, ServerTypeOK
  <2> QED BY <1>c, <2>1, <2>3 DEF TypeOK
<1>17. CASE CredExit(k)
  BY <1>16, <1>17 DEF CredExit, At
<1>18. CASE ListFails(k)
  <2>1. k[2] \in alive /\ At(k, "list")
    BY <1>18 DEF ListFails, At
  <2> QED BY <1>16, <1>18, <2>1 DEF ListFails
<1>19. CASE OpenFails(k)
  BY <1>16, <1>19 DEF OpenFails
<1> QED BY <1>1, <1>2, <1>3, <1>4, <1>5, <1>6, <1>7, <1>11, <1>12, <1>13, <1>14, <1>15,
           <1>17, <1>18, <1>19 DEF Thread, ThreadNext

LEMMA StrayType == ASSUME TypeOK, NEW s \in Servers, Stray(s) PROVE TypeOK'
<1>0. WireTypeOK /\ ServerTypeOK /\ ClientTypeOK /\ UNCHANGED clientVars
  BY DEF TypeOK, Stray
<1>c. ClientTypeOK'
  BY <1>0 DEF ClientTypeOK, clientVars
<1>1. CASE AcceptFails(s)
  <2>1. WireTypeOK'
    BY <1>0, <1>1 DEF AcceptFails, Ends, WireTypeOK
  <2>2. starved' \subseteq Running
    BY <1>0, <1>1 DEF AcceptFails, Starves, ServerTypeOK, WireTypeOK
  <2>3. ServerTypeOK'
    BY <1>0, <1>1, <2>2 DEF AcceptFails, ServerTypeOK
  <2> QED BY <1>c, <2>1, <2>3 DEF TypeOK
<1>2. CASE StrayWrite(s)
  <2>1. WireTypeOK'
    BY <1>0, <1>2 DEF StrayWrite, Ends, WireTypeOK
  <2>2. CASE UNCHANGED store
    <3>1. ServerTypeOK'
      BY <1>0, <1>2, <2>2 DEF StrayWrite, ServerTypeOK
    <3> QED BY <1>c, <2>1, <3>1 DEF TypeOK
  <2>3. CASE ~UNCHANGED store
    <3>1. PICK j \in Conns, v \in {<<>>, <<Zeros>>} :
              /\ j[2] = s /\ req[j] # NoReq
              /\ \E f \in {req[j].name, Second[req[j].name]} :
                    store' = [store EXCEPT ![s][f] = v]
      BY <1>2, <2>3 DEF StrayWrite
    <3>2. req[j] \in Requests
      BY <1>0, <3>1 DEF ServerTypeOK
    <3>3. v \in Seq(Chunk \cup {Zeros})
      <4>1. <<>> \in Seq(Chunk \cup {Zeros}) /\ <<Zeros>> \in Seq(Chunk \cup {Zeros})
        OBVIOUS
      <4> QED BY <3>1, <4>1
    <3>4. PICK f \in Files : store' = [store EXCEPT ![j[2]][f] = v]
      BY <3>1, <3>2, FileNames
    <3>5. /\ store' \in [Servers -> [Files -> Seq(Chunk \cup {Zeros}) \cup {Missing}]]
          /\ \A t \in Servers, g \in Files : store[t][g] # Missing => store'[t][g] # Missing
      BY <1>0, <3>3, <3>4, StoreType
    <3>6. ASSUME NEW i \in Conns
          PROVE  /\ tpc[i] \in {"open2", "close2", "close1"} =>
                       store'[i[2]][req[i].name] # Missing
                 /\ tpc[i] \in {"close2", "close1"} =>
                       store'[i[2]][Second[req[i].name]] # Missing
      <4>1. CASE tpc[i] \in {"none", "queued", "request", "done"}
        BY <4>1
      <4>2. CASE tpc[i] \notin {"none", "queued", "request", "done"}
        <5>1. req[i] \in Requests /\ i[2] \in Servers
          BY <1>0, <4>2, ConnServer DEF ServerTypeOK
        <5>2. req[i].name \in Files /\ Second[req[i].name] \in Files
          BY <5>1, FileNames
        <5> QED BY <1>0, <3>5, <5>1, <5>2 DEF ServerTypeOK
      <4> QED BY <4>1, <4>2
    <3>7. UNCHANGED <<tpc, req, valid, buf, n2, starved>>
      BY <1>2 DEF StrayWrite
    <3>8. ServerTypeOK'
      BY <1>0, <3>5, <3>6, <3>7 DEF ServerTypeOK
    <3> QED BY <1>c, <2>1, <3>8 DEF TypeOK
  <2> QED BY <2>2, <2>3
<1> QED BY <1>1, <1>2 DEF Stray, StrayNext
-----------------------------------------------------------------------------
\* What the client puts in its queue of writes.
LEMMA ToAllType ==
    ASSUME NEW ch \in Chunk
    PROVE  ToAll(ch) \in Seq(Servers \X Chunk)
  BY DEF ToAll, Servers

LEMMA PartWritesType ==
    ASSUME NEW c \in Clients, NEW x \in Hashes
    PROVE  PartWrites(c, x) \in Seq(Servers \X Chunk)
<1>1. \A s \in Servers : FirstPart(x, s) \in Parts /\ SecondPart(x, s) \in Parts
  BY PlacementRule DEF Servers, Hashes, Parts
<1>2. \A s \in Servers : /\ <<s, Part(c, FirstPart(x, s))>> \in Servers \X Chunk
                         /\ <<s, Part(c, SecondPart(x, s))>> \in Servers \X Chunk
  <2>1. \A i \in Parts : Part(c, i) \in Chunk
    BY DEF Chunk
  <2> QED BY <1>1, <2>1
<1>3. 0 \in Servers /\ 1 \in Servers /\ 2 \in Servers /\ 3 \in Servers
  BY DEF Servers
<1> QED BY <1>2, <1>3 DEF PartWrites

LEMMA ForwardType ==
    ASSUME TypeOK, NEW c \in Clients, NEW line \in Chunk, Forward(c, line),
           cmd' \in [Clients -> Requests \cup {NoReq}], again' \in [Clients -> BOOLEAN],
           \A d \in Clients : again'[d] => cmd'[d] # NoReq,
           \A d \in Clients : cmd[d] # NoReq => cmd'[d] # NoReq,
           cmd'[c] # NoReq
    PROVE  TypeOK'
<1>0. WireTypeOK /\ ServerTypeOK /\ ClientTypeOK
  BY DEF TypeOK
<1>1. ToAll(line) \o ToAll(Cred(c)) \in Seq(Servers \X Chunk)
  <2>1. Cred(c) \in Chunk
    BY DEF Chunk
  <2> QED BY <2>1, ToAllType, ConcatProperties
<1>2. cmds' \in [Clients -> Nat]
  BY <1>0 DEF ClientTypeOK, Forward
<1>3. ClientTypeOK'
  BY <1>0, <1>1, <1>2 DEF ClientTypeOK, Forward, Step
<1>4. WireTypeOK' /\ ServerTypeOK'
  BY <1>0 DEF Forward, WireTypeOK, ServerTypeOK, wireVars, serverVars
<1> QED BY <1>3, <1>4 DEF TypeOK

LEMMA ClientType == ASSUME TypeOK, NEW c \in Clients, Run(c) \/ Prompt(c) PROVE TypeOK'
<1>0. WireTypeOK /\ ServerTypeOK /\ ClientTypeOK
  BY DEF TypeOK
<1>n. next[c] \in Servers /\ (next[c] + 1) % 4 \in Servers
  BY <1>0 DEF ClientTypeOK, Servers
<1>1. CASE Dial(c)
  <2>0. \E to \in {"dial", "prompt"} : cpc' = [cpc EXCEPT ![c] = to]
    BY <1>1 DEF Dial, Advance, Step
  <2>m. next' \in [Clients -> Servers] /\ sock' \in [Clients -> SUBSET Servers]
    <3>1. next' = [next EXCEPT ![c] = (next[c] + 1) % 4] /\ next \in [Clients -> Servers]
      BY <1>0, <1>1 DEF Dial, Advance, ClientTypeOK
    <3>2. next' \in [Clients -> Servers]
      BY <1>n, <3>1
    <3>3. sock \in [Clients -> SUBSET Servers]
      BY <1>0 DEF ClientTypeOK
    <3>4. sock' = sock \/ sock' = [sock EXCEPT ![c] = @ \cup {next[c]}]
      BY <1>1 DEF Dial
    <3> QED BY <1>n, <3>2, <3>3, <3>4
  <2>1. ClientTypeOK'
    BY <1>0, <1>1, <2>0, <2>m DEF Dial, ClientTypeOK
  <2>2. ServerTypeOK'
    <3>1. CASE UNCHANGED tpc
      BY <1>0, <1>1, <3>1 DEF Dial, ServerTypeOK
    <3>2. CASE Queue(<<c, next[c]>>)
      BY <1>0, <1>1, <3>2 DEF Dial, Queue, Goto, ServerTypeOK
    <3> QED BY <1>1, <3>1, <3>2 DEF Dial
  <2>3. WireTypeOK'
    BY <1>0, <1>1 DEF Dial, WireTypeOK, wireVars
  <2> QED BY <2>1, <2>2, <2>3 DEF TypeOK
<1>2. CASE \E f \in Names, op \in {"LIST", "PUT"} : Type(c, op, f)
  <2>1. PICK f \in Names, op \in {"LIST", "PUT"} : Type(c, op, f)
    BY <1>2
  <2>2. Req(op, f) \in Requests /\ Req(op, f) \in Chunk /\ Req(op, f) # NoReq
    BY ServerAssumption DEF Requests, Chunk
  <2>3. /\ Forward(c, Req(op, f))
        /\ cmd' = [cmd EXCEPT ![c] = Req(op, f)]
        /\ again' = [again EXCEPT ![c] = TRUE]
    BY <2>1 DEF Type
  <2>4. /\ cmd' \in [Clients -> Requests \cup {NoReq}]
        /\ again' \in [Clients -> BOOLEAN]
        /\ \A d \in Clients : again'[d] => cmd'[d] # NoReq
        /\ \A d \in Clients : cmd[d] # NoReq => cmd'[d] # NoReq
        /\ cmd'[c] # NoReq
    BY <1>0, <2>2, <2>3 DEF ClientTypeOK
  <2> HIDE DEF TypeOK
  <2> QED BY <2>2, <2>3, <2>4, ForwardType
<1>3. CASE Repeat(c)
  <2>1. Blank \in Chunk
    BY DEF Chunk
  <2> QED BY <1>0, <1>3, <2>1, ForwardType DEF Repeat, ClientTypeOK
<1>4. CASE TypeExit(c)
  <2>1. ClientTypeOK'
    BY <1>0, <1>4 DEF TypeExit, Step, ClientTypeOK
  <2>2. ServerTypeOK' /\ WireTypeOK'
    BY <1>0, <1>4 DEF TypeExit, Leave, ServerTypeOK, WireTypeOK, serverVars
  <2> QED BY <2>1, <2>2 DEF TypeOK
<1>5. CASE Unrecognized(c)
  <2>1. ClientTypeOK'
    BY <1>0, <1>5 DEF Unrecognized, ClientTypeOK
  <2>2. ServerTypeOK' /\ WireTypeOK'
    BY <1>0, <1>5 DEF Unrecognized, ServerTypeOK, WireTypeOK, serverVars, wireVars
  <2> QED BY <2>1, <2>2 DEF TypeOK
<1>6. CASE Send(c)
  <2> DEFINE s == Head(out[c])[1]
             ch == Head(out[c])[2]
  <2>1. s \in Servers /\ ch \in Chunk /\ Tail(out[c]) \in Seq(Servers \X Chunk)
    BY <1>0, <1>6, HeadTailProperties DEF Send, ClientTypeOK
  <2>2. /\ up' \in [Conns -> Seq(Chunk)]
        /\ asked' \in [Clients -> SUBSET Servers]
    <3>1. CASE UNCHANGED <<up, asked>>
      BY <1>0, <3>1 DEF WireTypeOK, ClientTypeOK
    <3>2. CASE up' = [up EXCEPT ![<<c, s>>] = Append(@, ch)]
               /\ asked' = [asked EXCEPT ![c] = @ \cup {t \in {s} : ch.kind = "req"}]
      <4>1. <<c, s>> \in Conns
        BY <2>1 DEF Conns
      <4>2. Append(up[<<c, s>>], ch) \in Seq(Chunk)
        BY <1>0, <2>1, <4>1, AppendProperties DEF WireTypeOK
      <4>3. asked[c] \cup {t \in {s} : ch.kind = "req"} \in SUBSET Servers
        BY <1>0, <2>1 DEF ClientTypeOK
      <4> QED BY <1>0, <3>2, <4>1, <4>2, <4>3 DEF WireTypeOK, ClientTypeOK
    <3> QED BY <1>6, <3>1, <3>2 DEF Send
  <2>3. WireTypeOK'
    BY <1>0, <1>6, <2>2 DEF Send, WireTypeOK
  <2>4. ServerTypeOK'
    BY <1>0, <1>6 DEF Send, ServerTypeOK, serverVars
  <2>5. /\ cpc[c] = "send"
        /\ \E to \in {"send", "prompt", "read", "file"} : cpc' = [cpc EXCEPT ![c] = to]
    <3>1. AfterSend(c, ch) \in {"prompt", "read", "file"}
      BY DEF AfterSend
    <3>2. Step(c, "send", IF Len(out[c]) = 1 THEN AfterSend(c, ch) ELSE "send")
      BY <1>6 DEF Send
    <3> HIDE DEF ch
    <3> QED BY <3>1, <3>2 DEF Step
  <2>6. ClientTypeOK'
    BY <1>0, <1>6, <2>1, <2>2, <2>5 DEF Send, ClientTypeOK
  <2> QED BY <2>3, <2>4, <2>6 DEF TypeOK
<1>7. CASE SigPipe(c)
  <2>1. ClientTypeOK'
    BY <1>0, <1>7 DEF SigPipe, Step, ClientTypeOK
  <2>2. ServerTypeOK' /\ WireTypeOK'
    BY <1>0, <1>7 DEF SigPipe, Leave, ServerTypeOK, WireTypeOK, serverVars
  <2> QED BY <2>1, <2>2 DEF TypeOK
<1>8. CASE ReadListing(c)
  <2>1. ClientTypeOK'
    BY <1>0, <1>8, <1>n DEF ReadListing, Advance, Step, ClientTypeOK
  <2>2. down' \in [Conns -> Seq(SUBSET Files)]
    <3>1. CASE UNCHANGED down
      BY <1>0, <3>1 DEF WireTypeOK
    <3>2. CASE down[<<c, next[c]>>] # <<>>
               /\ down' = [down EXCEPT ![<<c, next[c]>>] = Tail(@)]
      <4>1. <<c, next[c]>> \in Conns
        BY <1>n DEF Conns
      <4>2. Tail(down[<<c, next[c]>>]) \in Seq(SUBSET Files)
        BY <1>0, <3>2, <4>1, HeadTailProperties DEF WireTypeOK
      <4> QED BY <1>0, <3>2, <4>1, <4>2 DEF WireTypeOK
    <3> QED BY <1>8, <3>1, <3>2 DEF ReadListing
  <2>3. ServerTypeOK' /\ WireTypeOK'
    BY <1>0, <1>8, <2>2 DEF ReadListing, ServerTypeOK, WireTypeOK, serverVars
  <2> QED BY <2>1, <2>3 DEF TypeOK
<1>9. CASE OpenFile(c)
  <2>1. PICK x \in Hashes : out' = [out EXCEPT ![c] = PartWrites(c, x)]
    BY <1>9 DEF OpenFile
  <2>2. PartWrites(c, x) \in Seq(Servers \X Chunk)
    BY PartWritesType
  <2>3. ClientTypeOK'
    BY <1>0, <1>9, <2>1, <2>2 DEF OpenFile, Step, ClientTypeOK
  <2>4. ServerTypeOK' /\ WireTypeOK'
    BY <1>0, <1>9 DEF OpenFile, ServerTypeOK, WireTypeOK, serverVars, wireVars
  <2> QED BY <2>3, <2>4 DEF TypeOK
<1>10. CASE NoSuchFile(c)
  <2>1. ClientTypeOK'
    BY <1>0, <1>10 DEF NoSuchFile, Step, ClientTypeOK
  <2>2. ServerTypeOK' /\ WireTypeOK'
    BY <1>0, <1>10 DEF NoSuchFile, Leave, ServerTypeOK, WireTypeOK, serverVars
  <2> QED BY <2>1, <2>2 DEF TypeOK
<1> QED BY <1>1, <1>2, <1>3, <1>4, <1>5, <1>6, <1>7, <1>8, <1>9, <1>10 DEF Run, Prompt

\* Every variable of Dfs has its type in every reachable state, for any clients,
\* servers started, names and commands typed.
THEOREM TypeCorrect == Spec => []TypeOK
<1>1. TypeOK /\ [Next]_vars => TypeOK'
  <2> SUFFICES ASSUME TypeOK, [Next]_vars PROVE TypeOK'
    OBVIOUS
  <2>1. CASE Next
    BY <2>1, ThreadType, StrayType, ClientType DEF Next
  <2>2. CASE UNCHANGED vars
    BY <2>2 DEF vars, wireVars, serverVars, clientVars, TypeOK, WireTypeOK, ServerTypeOK,
                ClientTypeOK
  <2> QED BY <2>1, <2>2
<1> QED BY InitTypeOK, <1>1, PTL DEF Spec
-----------------------------------------------------------------------------
\* AskedInv: a thread's first read finds a request, unless its client is gone
\* and has never sent one.

LEMMA InitAsked == Init => AskedInv
  BY ConnServer
  DEF Init, WireInit, ServerInit, ClientInit, AskedInv, ConnAsked, ClientAsks, EndsOnlyFor, Conns

\* A connection that was accepted stays so, and with it a server stays crowded.
LEMMA CrowdedStays ==
    ASSUME NEW s \in Servers, Crowded(s), MaxFds \in Nat,
           \A k \in Conns : tpc[k] \notin {"none", "queued"} => tpc'[k] \notin {"none", "queued"}
    PROVE  Crowded(s)'
<1>1. Started(s) \in SUBSET Clients /\ Started(s)' \in SUBSET Clients /\ IsFiniteSet(Clients)
  BY WireAssumption DEF Started
<1>2. IsFiniteSet(Started(s)')
  BY <1>1, FS_Subset
<1>3. Started(s) \in SUBSET Started(s)'
  BY DEF Started, Conns
<1>4. /\ Cardinality(Started(s)) <= Cardinality(Started(s)')
      /\ Cardinality(Started(s)) \in Nat /\ Cardinality(Started(s)') \in Nat
  BY <1>1, <1>2, <1>3, FS_Subset, FS_CardinalityType
<1> QED BY <1>4 DEF Crowded

\* A thread's step that ends no server: it leaves "request", and reads only from
\* its own connection, on which there is nothing without a request.
LEMMA ReadAsked ==
    ASSUME TypeOK, AskedInv, NEW k \in Conns, k[2] \in alive, tpc[k] # "none",
           NEW pc, Goto(k, pc), pc \notin {"none", "queued"},
           pc = "request" => tpc[k] = "queued" /\ UNCHANGED up,
           UNCHANGED <<closed, alive, clientVars>>,
           \A j \in Conns \ {k} : req'[j] = req[j],
           UNCHANGED starved \/ Starves(k[2]),
           \/ UNCHANGED up
           \/ \E n \in Amounts(k) : Consume(k, n)
    PROVE  AskedInv'
<1>0. WireTypeOK /\ ServerTypeOK /\ k[1] \in Clients /\ k[2] \in Servers
  BY ConnServer DEF TypeOK
<1>1. \A j \in Conns : j # k => up'[j] = up[j] /\ tpc'[j] = tpc[j]
  BY <1>0 DEF Consume, Goto, WireTypeOK, ServerTypeOK
<1>2. tpc'[k] = pc
  BY <1>0 DEF Goto, ServerTypeOK
<1>3. up[k] = <<>> => up'[k] = <<>>
  <2>1. SUFFICES ASSUME up[k] = <<>>, NEW n \in Amounts(k), Consume(k, n) PROVE up'[k] = <<>>
    OBVIOUS
  <2>2. up[k] \in Seq(Chunk)
    BY <1>0 DEF WireTypeOK
  <2>3. n \in 0..0 /\ Len(up[k]) = 0
    BY <2>1, <2>2, AmountsBound
  <2>4. SubSeq(up[k], n + 1, Len(up[k])) = <<>>
    BY <2>3, SubSeqEmpty
  <2> QED BY <1>0, <2>1, <2>4 DEF Consume, WireTypeOK
<1>4. \A j \in Conns : ConnAsked(j)'
  BY <1>1, <1>2, <1>3 DEF AskedInv, ConnAsked, clientVars
<1>5. \A c \in Clients : ClientAsks(c)'
  <2> SUFFICES ASSUME NEW c \in Clients PROVE ClientAsks(c)'
    OBVIOUS
  <2>1. \A s \in Servers : tpc[<<c, s>>] = "none" => tpc'[<<c, s>>] = "none"
    BY <1>1 DEF Conns
  <2> QED BY <2>1 DEF AskedInv, ClientAsks, AllAsked, AsksFirst, WillAsk, clientVars
<1>6. \A s \in starved' : Crowded(s)'
  <2>1. \A s \in starved' : Crowded(s) /\ s \in Servers
    BY <1>0, WireAssumption DEF AskedInv, Starves, ServerTypeOK
  <2> QED BY <1>1, <1>2, <2>1, CrowdedStays, ServerAssumption
<1>7. EndsOnlyFor'
  <2>1. starved \subseteq starved'
    BY DEF Starves
  <2>2. ASSUME NEW s \in Running \ alive, CannotCreate(s) PROVE CannotCreate(s)'
    <3>1. \A c \in Clients : /\ tpc'[<<c, s>>] = tpc[<<c, s>>]
                              /\ req'[<<c, s>>] = req[<<c, s>>]
      BY <1>1, WireAssumption DEF Conns
    <3> QED BY <2>2, <3>1 DEF CannotCreate, Opens
  <2>3. \A s : SilentlyLeft(s) => SilentlyLeft(s)'
    BY DEF SilentlyLeft, clientVars
  <2> QED BY <2>1, <2>2, <2>3 DEF AskedInv, EndsOnlyFor
<1>8. \A c \in closed' : cpc'[c] = "gone"
  BY DEF AskedInv, clientVars
<1> QED BY <1>4, <1>5, <1>6, <1>7, <1>8 DEF AskedInv

\* A step that may end a server and moves no thread.
LEMMA EndAsked ==
    ASSUME TypeOK, AskedInv, NEW s \in Servers, Ends(s) \/ UNCHANGED alive,
           UNCHANGED <<tpc, req, up, closed, clientVars>>,
           UNCHANGED starved \/ Starves(s),
           UNCHANGED alive \/ SilentlyLeft(s) \/ s \in starved' \/ CannotCreate(s)
    PROVE  AskedInv'
<1>0. WireTypeOK /\ ServerTypeOK /\ alive' \subseteq alive /\ alive \ alive' \subseteq {s}
  BY DEF TypeOK, Ends
<1>1. \A j \in Conns : ConnAsked(j)'
  BY <1>0 DEF AskedInv, ConnAsked, clientVars
<1>2. ASSUME NEW c \in Clients PROVE ClientAsks(c)'
  <2>1. ClientAsks(c)
    BY DEF AskedInv
  <2>2. AllAsked(c) => AllAsked(c)'
    BY <1>0 DEF AllAsked, clientVars
  <2>3. AsksFirst(c) => AsksFirst(c)'
    BY <1>0 DEF AsksFirst, clientVars
  <2>4. \A t : WillAsk(c, t)' = WillAsk(c, t)
    BY DEF WillAsk, clientVars
  <2> QED BY <1>0, <2>1, <2>2, <2>3, <2>4 DEF ClientAsks, clientVars
<1>3. \A t \in starved' : Crowded(t)'
  BY <1>0 DEF AskedInv, Starves, Crowded, Started
<1>4. \A t : /\ SilentlyLeft(t) => SilentlyLeft(t)'
             /\ CannotCreate(t) => CannotCreate(t)'
             /\ t \in starved => t \in starved'
  BY DEF SilentlyLeft, CannotCreate, Opens, Starves, clientVars
<1>5. EndsOnlyFor'
  BY <1>0, <1>4 DEF AskedInv, EndsOnlyFor
<1>6. \A c \in closed' : cpc'[c] = "gone"
  BY DEF AskedInv, clientVars
<1> QED BY <1>1, <1>2, <1>3, <1>5, <1>6 DEF AskedInv

LEMMA ThreadAsked == ASSUME TypeOK, AskedInv, NEW k \in Conns, Thread(k) PROVE AskedInv'
<1>0. UNCHANGED clientVars /\ k[1] \in Clients /\ k[2] \in Servers /\ k = <<k[1], k[2]>>
  BY ConnServer DEF Thread
<1>r. DOMAIN req = Conns
  BY DEF TypeOK, ServerTypeOK
<1>1. CASE RequestExit(k)
  <2>1. Invalid(k) /\ tpc[k] = "request" /\ Ends(k[2]) /\ UNCHANGED <<up, tpc, req, starved, closed>>
    BY <1>1 DEF RequestExit, At, serverVars
  <2>2. k[2] \notin asked[k[1]]
    BY <2>1 DEF AskedInv, ConnAsked, Invalid, Amounts
  <2>3. k[1] \in closed
    BY <2>1, <2>2 DEF AskedInv, ConnAsked, Invalid, Amounts
  <2>4. k[2] \in sock[k[1]]
    BY <2>1 DEF AskedInv, ConnAsked
  <2>5. SilentlyLeft(k[2])
    BY <2>2, <2>3, <2>4 DEF SilentlyLeft
  <2> QED BY <1>0, <2>1, <2>5, EndAsked
<1>2. CASE ReadRequest(k)
  BY <1>0, <1>r, <1>2, ReadAsked DEF ReadRequest, At
<1>3. CASE RequestLeftover(k)
  BY <1>0, <1>r, <1>3, ReadAsked DEF RequestLeftover, At, wireVars
<1>4. CASE ReadCred(k)
  <2>1. \E n \in Amounts(k) : Consume(k, n)
    BY <1>4 DEF ReadCred
  <2>2. Goto(k, "list") \/ Goto(k, "part1") \/ Goto(k, "done")
    BY <1>4 DEF ReadCred
  <2>3. tpc[k] # "none" /\ k[2] \in alive /\ UNCHANGED <<req, starved, closed, alive>>
    BY <1>4 DEF ReadCred, At
  <2> QED BY <1>0, <2>1, <2>2, <2>3, ReadAsked
<1>5. CASE SendListing(k)
  BY <1>0, <1>5, ReadAsked DEF SendListing, Listed, At
<1>6. CASE ReadPart1(k)
  BY <1>0, <1>6, ReadAsked DEF ReadPart1, At
<1>7. CASE ReadPart2(k)
  BY <1>0, <1>7, ReadAsked DEF ReadPart2, At
<1>8. CASE Open1(k)
  BY <1>0, <1>8, ReadAsked DEF Open1, Truncate, At, wireVars
<1>9. CASE Open2(k)
  BY <1>0, <1>9, ReadAsked DEF Open2, Truncate, At, wireVars
<1>10. CASE Close2(k)
  BY <1>0, <1>10, ReadAsked DEF Close2, Flush, At, wireVars
<1>11. CASE Close1(k)
  BY <1>0, <1>11, ReadAsked DEF Close1, Flush, At, wireVars
<1>12. CASE Accept(k)
  BY <1>0, <1>12, ReadAsked DEF Accept, At, wireVars
<1>13. CASE CredExit(k)
  BY <1>0, <1>13, EndAsked DEF CredExit, Starves
<1>14. CASE ListFails(k)
  <2>1. CASE Ends(k[2]) /\ UNCHANGED tpc
    BY <1>0, <1>14, <2>1, EndAsked DEF ListFails, Starves
  <2>2. CASE Goto(k, "done") /\ UNCHANGED alive
    BY <1>0, <1>14, <2>2, ReadAsked DEF ListFails, At
  <2> QED BY <1>14, <2>1, <2>2 DEF ListFails
<1>15. CASE OpenFails(k)
  <2>1. CASE Opens(k) \cap Creatable = {} /\ UNCHANGED starved
    <3>1. CannotCreate(k[2])
      BY <1>0, <1>15, <2>1 DEF OpenFails, CannotCreate
    <3> QED BY <1>0, <1>15, <2>1, <3>1, EndAsked DEF OpenFails
  <2>2. CASE Starves(k[2])
    BY <1>0, <1>15, <2>2, EndAsked DEF OpenFails, Starves
  <2> QED BY <1>15, <2>1, <2>2 DEF OpenFails
<1> QED BY <1>1, <1>2, <1>3, <1>4, <1>5, <1>6, <1>7, <1>8, <1>9, <1>10, <1>11, <1>12, <1>13,
           <1>14, <1>15 DEF Thread, ThreadNext

LEMMA StrayAsked == ASSUME TypeOK, AskedInv, NEW s \in Servers, Stray(s) PROVE AskedInv'
<1>1. CASE AcceptFails(s)
  BY <1>1, EndAsked DEF AcceptFails, Starves, Stray
<1>2. CASE StrayWrite(s)
  BY <1>2, EndAsked DEF StrayWrite, Stray
<1> QED BY <1>1, <1>2 DEF Stray, StrayNext
-----------------------------------------------------------------------------
\* A client's step touches its own variables and its own connections.
LEMMA OwnStepAsked ==
    ASSUME TypeOK, AskedInv, NEW c \in Clients, cpc[c] # "gone", UNCHANGED alive,
           \/ UNCHANGED closed
           \/ closed' = closed \cup {c} /\ cpc'[c] = "gone",
           \A d \in Clients \ {c} :
               /\ cpc'[d] = cpc[d] /\ again'[d] = again[d] /\ asked'[d] = asked[d]
               /\ sock'[d] = sock[d] /\ out'[d] = out[d] /\ next'[d] = next[d],
           \A k \in Conns : k[1] # c => tpc'[k] = tpc[k] /\ up'[k] = up[k],
           UNCHANGED <<req, starved>>,
           \A k \in Conns : tpc'[k] = tpc[k] \/ (tpc[k] = "none" /\ k[2] \in alive),
           \A k \in Conns : k[1] = c => ConnAsked(k)',
           ClientAsks(c)'
    PROVE  AskedInv'
<1>0. closed \subseteq Clients /\ c \notin closed
  BY DEF TypeOK, WireTypeOK, AskedInv
<1>1. \A k \in Conns : ConnAsked(k)'
  BY ConnServer DEF AskedInv, ConnAsked
<1>2. \A d \in Clients : ClientAsks(d)'
  <2> SUFFICES ASSUME NEW d \in Clients \ {c} PROVE ClientAsks(d)'
    OBVIOUS
  <2>1. /\ cpc'[d] = cpc[d] /\ again'[d] = again[d] /\ asked'[d] = asked[d]
        /\ sock'[d] = sock[d] /\ out'[d] = out[d] /\ next'[d] = next[d] /\ alive' = alive
        /\ \A s \in Servers : tpc'[<<d, s>>] = tpc[<<d, s>>]
    BY DEF Conns
  <2>2. ClientAsks(d)
    BY DEF AskedInv
  <2>3. AsksFirst(d)' = AsksFirst(d) /\ AllAsked(d)' = AllAsked(d)
    BY <2>1 DEF AsksFirst, AllAsked
  <2>4. \A s : WillAsk(d, s)' = WillAsk(d, s)
    BY <2>1 DEF WillAsk
  <2> QED BY <2>1, <2>2, <2>3, <2>4 DEF ClientAsks
<1>3. \A d \in closed' : cpc'[d] = "gone"
  BY <1>0 DEF AskedInv
<1>4. EndsOnlyFor'
  <2>1. ASSUME NEW s \in Running \ alive, CannotCreate(s) PROVE CannotCreate(s)'
    <3>1. \A d \in Clients : tpc'[<<d, s>>] = tpc[<<d, s>>]
      BY WireAssumption DEF Conns
    <3> QED BY <2>1, <3>1 DEF CannotCreate, Opens
  <2>2. ASSUME NEW s, SilentlyLeft(s) PROVE SilentlyLeft(s)'
    <3>1. \A d \in closed : d \in closed' /\ sock'[d] = sock[d] /\ asked'[d] = asked[d]
      BY <1>0
    <3> QED BY <2>2, <3>1 DEF SilentlyLeft
  <2> QED BY <2>1, <2>2 DEF AskedInv, EndsOnlyFor
<1>5. \A s \in starved' : Crowded(s)'
  <2>1. \A s \in starved : Crowded(s) /\ s \in Servers
    BY WireAssumption DEF AskedInv, TypeOK, ServerTypeOK
  <2>2. \A k \in Conns : tpc[k] \notin {"none", "queued"} => tpc'[k] \notin {"none", "queued"}
    OBVIOUS
  <2> QED BY <2>1, <2>2, CrowdedStays, ServerAssumption
<1> QED BY <1>1, <1>2, <1>3, <1>4, <1>5 DEF AskedInv

\* A client's step that leaves its connections alone.
LEMMA QuietAsked ==
    ASSUME TypeOK, AskedInv, NEW c \in Clients, cpc[c] # "gone",
           UNCHANGED <<alive, sock, asked, tpc, req, starved, up>>,
           \/ UNCHANGED closed
           \/ closed' = closed \cup {c} /\ cpc'[c] = "gone",
           \A d \in Clients \ {c} :
               /\ cpc'[d] = cpc[d] /\ again'[d] = again[d] /\ out'[d] = out[d]
               /\ next'[d] = next[d],
           ClientAsks(c)'
    PROVE  AskedInv'
<1>1. \A k \in Conns : ConnAsked(k)'
  BY DEF AskedInv, ConnAsked
<1> QED BY <1>1, OwnStepAsked

\* Eight writes: a line to each server, then the pair to each.
LEMMA ForwardWrites ==
    ASSUME NEW c \in Clients, NEW line \in Chunk
    PROVE  LET q == ToAll(line) \o ToAll(Cred(c))
           IN  /\ Len(q) = 8
               /\ \A i \in 1..8 : q[i][1] \in Servers /\ q[i][1] + 1 <= i
               /\ \A s \in Servers : q[s + 1] = <<s, line>>
<1> DEFINE q == ToAll(line) \o ToAll(Cred(c))
<1>1. Cred(c) \in Chunk
  BY DEF Chunk
<1>2. ToAll(line) \in Seq(Servers \X Chunk) /\ ToAll(Cred(c)) \in Seq(Servers \X Chunk)
  BY <1>1, ToAllType
<1>3. \A ch : Len(ToAll(ch)) = 4 /\ \A i \in 1..4 : ToAll(ch)[i] = <<i - 1, ch>>
  BY DEF ToAll
<1>4. /\ Len(q) = Len(ToAll(line)) + Len(ToAll(Cred(c)))
      /\ \A i \in 1 .. Len(ToAll(line)) + Len(ToAll(Cred(c))) :
            q[i] = IF i <= Len(ToAll(line)) THEN ToAll(line)[i]
                   ELSE ToAll(Cred(c))[i - Len(ToAll(line))]
  BY <1>2, ConcatProperties
<1> HIDE DEF q
<1>5. Len(q) = 8 /\ \A i \in 1..8 : q[i] = IF i <= 4 THEN <<i - 1, line>> ELSE <<i - 5, Cred(c)>>
  <2>1. Len(ToAll(line)) = 4 /\ \A i \in 1..4 : ToAll(line)[i] = <<i - 1, line>>
    BY <1>3
  <2>2. Len(ToAll(Cred(c))) = 4 /\ \A i \in 1..4 : ToAll(Cred(c))[i] = <<i - 1, Cred(c)>>
    BY <1>3
  <2>3. Len(q) = 8 /\ \A i \in 1..8 : q[i] = IF i <= 4 THEN ToAll(line)[i] ELSE ToAll(Cred(c))[i - 4]
    BY <1>4, <2>1, <2>2
  <2>4. ASSUME NEW i \in 1..8
        PROVE  q[i] = IF i <= 4 THEN <<i - 1, line>> ELSE <<i - 5, Cred(c)>>
    <3>1. CASE i <= 4
      <4>1. i \in 1..4
        BY <2>4, <3>1
      <4> QED BY <2>1, <2>3, <3>1, <4>1
    <3>2. CASE ~(i <= 4)
      <4>1. i - 4 \in 1..4 /\ (i - 4) - 1 = i - 5
        BY <2>4, <3>2
      <4> QED BY <2>2, <2>3, <3>2, <4>1
    <3> QED BY <3>1, <3>2
  <2> QED BY <2>3, <2>4
<1>6. \A i \in 1..8 : q[i][1] \in Servers /\ q[i][1] + 1 <= i
  <2> TAKE i \in 1..8
  <2>1. q[i][1] = IF i <= 4 THEN i - 1 ELSE i - 5
    BY <1>5
  <2> QED BY <2>1 DEF Servers
<1>7. \A s \in Servers : q[s + 1] = <<s, line>>
  BY <1>5 DEF Servers
<1> QED BY <1>5, <1>6, <1>7 DEF q

LEMMA ForwardAsked ==
    ASSUME TypeOK, AskedInv, NEW c \in Clients, NEW line \in Chunk, Forward(c, line),
           again[c] \/ line.kind = "req",
           \A d \in Clients \ {c} : again'[d] = again[d]
    PROVE  AskedInv'
<1> DEFINE q == ToAll(line) \o ToAll(Cred(c))
<1>0. /\ cpc[c] = "prompt" /\ cpc' = [cpc EXCEPT ![c] = "send"] /\ out' = [out EXCEPT ![c] = q]
      /\ UNCHANGED <<next, sock, asked, tpc, req, starved, up, closed, alive>>
      /\ DOMAIN cpc = Clients /\ DOMAIN out = Clients
  BY DEF Forward, Step, wireVars, serverVars, TypeOK, ClientTypeOK
<1>1. /\ Len(q) = 8
      /\ \A i \in 1..8 : q[i][1] \in Servers /\ q[i][1] + 1 <= i
      /\ \A s \in Servers : q[s + 1] = <<s, line>>
  BY ForwardWrites
<1> HIDE DEF q
<1>2. cpc'[c] = "send" /\ out'[c] = q
  BY <1>0
<1>3. sock[c] \subseteq Servers
  BY DEF TypeOK, ClientTypeOK
<1>4. CASE line.kind = "req"
  <2>1. \A s \in Servers : s + 1 \in 1..8 /\ q[s + 1][1] = s /\ q[s + 1][2].kind = "req"
    BY <1>1, <1>4 DEF Servers
  <2>2. AsksFirst(c)'
    <3> SUFFICES ASSUME NEW i \in 1..8
                 PROVE  \E j \in 1..i : q[j][1] = q[i][1] /\ q[j][2].kind = "req"
      BY <1>1, <1>2 DEF AsksFirst
    <3>1. q[i][1] \in Servers /\ q[i][1] + 1 \in 1..i
      BY <1>1 DEF Servers
    <3> QED BY <2>1, <3>1
  <2>3. \A s \in Servers : WillAsk(c, s)'
    BY <1>1, <1>2, <2>1 DEF WillAsk
  <2>4. ClientAsks(c)'
    BY <1>0, <1>2, <1>3, <2>2, <2>3 DEF ClientAsks
  <2> QED BY <1>0, <2>4, QuietAsked
<1>5. CASE again[c]
  <2>1. AllAsked(c)
    BY <1>0, <1>5 DEF AskedInv, ClientAsks
  <2>2. ClientAsks(c)'
    BY <1>0, <1>2, <2>1 DEF ClientAsks, AllAsked, AsksFirst
  <2> QED BY <1>0, <2>2, QuietAsked
<1> QED BY <1>4, <1>5
-----------------------------------------------------------------------------
LEMMA DialAsked == ASSUME TypeOK, AskedInv, NEW c \in Clients, Dial(c) PROVE AskedInv'
<1> DEFINE n == next[c]
<1>0. WireTypeOK /\ ServerTypeOK /\ ClientTypeOK /\ n \in Servers /\ <<c, n>> \in Conns
  BY DEF TypeOK, ClientTypeOK, Conns
<1>1. cpc[c] = "dial" /\ UNCHANGED <<out, again, asked, req, starved, up, closed, alive>>
  BY DEF Dial, Advance, Step, wireVars
<1>2. /\ ~again[c] /\ asked[c] = {}
      /\ \A s \in Servers : s >= n => tpc[<<c, s>>] = "none"
  BY <1>1 DEF AskedInv, ClientAsks
<1>3. /\ cpc'[c] = (IF n = 3 THEN "prompt" ELSE "dial") /\ next'[c] = (n + 1) % 4
      /\ \A d \in Clients \ {c} : cpc'[d] = cpc[d] /\ next'[d] = next[d]
  BY <1>0 DEF Dial, Advance, Step, ClientTypeOK
<1>4. \/ UNCHANGED <<sock, tpc>>
      \/ /\ sock' = [sock EXCEPT ![c] = @ \cup {n}] /\ tpc' = [tpc EXCEPT ![<<c, n>>] = "queued"]
         /\ n \in alive
  BY DEF Dial, Queue, Goto
<1>n. tpc[<<c, n>>] = "none"
  BY <1>0, <1>2 DEF Servers
<1> HIDE DEF n
<1>5. sock \in [Clients -> SUBSET Servers] /\ DOMAIN tpc = Conns
  BY <1>0 DEF ClientTypeOK, ServerTypeOK
<1>6. /\ \A d \in Clients \ {c} : sock'[d] = sock[d]
      /\ sock[c] \subseteq sock'[c]
      /\ \A k \in Conns : tpc'[k] = tpc[k] \/ (k = <<c, n>> /\ n \in sock'[c] /\ n \in alive)
  <2>1. CASE UNCHANGED <<sock, tpc>>
    BY <2>1
  <2>2. CASE /\ sock' = [sock EXCEPT ![c] = @ \cup {n}]
             /\ tpc' = [tpc EXCEPT ![<<c, n>>] = "queued"] /\ n \in alive
    <3>1. sock'[c] = sock[c] \cup {n} /\ \A d \in Clients \ {c} : sock'[d] = sock[d]
      BY <1>5, <2>2
    <3>2. \A k \in Conns : tpc'[k] = tpc[k] \/ k = <<c, n>>
      BY <1>5, <2>2
    <3> QED BY <2>2, <3>1, <3>2
  <2> QED BY <1>4, <2>1, <2>2
<1>7. \A k \in Conns : k[1] # c => tpc'[k] = tpc[k] /\ up'[k] = up[k]
  BY <1>1, <1>6
<1>8. ASSUME NEW k \in Conns, k[1] = c PROVE ConnAsked(k)'
  <2>1. k[2] \notin asked'[k[1]] /\ up'[k] = <<>>
    BY <1>1, <1>2, <1>8 DEF AskedInv, ConnAsked
  <2>2. tpc'[k] # "none" => k[2] \in sock'[k[1]]
    BY <1>6, <1>8 DEF AskedInv, ConnAsked
  <2> QED BY <2>1, <2>2 DEF ConnAsked
<1>9. ClientAsks(c)'
  <2>1. ASSUME n # 3, NEW s \in Servers, s >= next'[c] PROVE tpc'[<<c, s>>] = "none"
    <3>1. s > n
      BY <1>0, <1>3, <2>1 DEF Servers
    <3>2. tpc[<<c, s>>] = "none" /\ <<c, s>> \in Conns /\ <<c, s>> # <<c, n>>
      BY <1>0, <1>2, <3>1 DEF Servers, Conns
    <3> QED BY <1>6, <3>2
  <2> QED BY <1>1, <1>2, <1>3, <2>1 DEF ClientAsks
<1>10. \A k \in Conns : tpc'[k] = tpc[k] \/ (tpc[k] = "none" /\ k[2] \in alive)
  BY <1>6, <1>n
<1> QED BY <1>1, <1>3, <1>6, <1>7, <1>8, <1>9, <1>10, OwnStepAsked

LEMMA SendAsked == ASSUME TypeOK, AskedInv, NEW c \in Clients, Send(c) PROVE AskedInv'
<1> DEFINE q == out[c]
           s == Head(q)[1]
           ch == Head(q)[2]
           Open == sock[c] \cap alive
<1>0. WireTypeOK /\ ServerTypeOK /\ ClientTypeOK
  BY DEF TypeOK
<1>1. /\ cpc[c] = "send" /\ UNCHANGED <<next, sock, again, tpc, req, starved, closed, alive>>
      /\ \A d \in Clients \ {c} : cpc'[d] = cpc[d]
      /\ \A d \in Clients \ {c} : out'[d] = out[d]
      /\ out'[c] = Tail(q)
  BY <1>0 DEF Send, Step, ClientTypeOK, serverVars
<1>2. q \in Seq(Servers \X Chunk) /\ q # <<>>
  BY <1>0 DEF Send, ClientTypeOK
<1>3. /\ s \in Servers /\ ch \in Chunk /\ Len(q) \in Nat \ {0}
      /\ q[1][1] = s /\ q[1][2] = ch
  BY <1>2, HeadFirst
<1>4. /\ Len(Tail(q)) = Len(q) - 1
      /\ \A i \in 1..Len(Tail(q)) : Tail(q)[i] = q[i + 1]
  BY <1>2, HeadTailProperties
<1>5. cpc'[c] = IF Len(q) = 1 THEN AfterSend(c, ch) ELSE "send"
  BY <1>0 DEF Send, Step, ClientTypeOK
<1>6. \/ s \notin Open /\ UNCHANGED <<up, asked>>
      \/ /\ s \in Open
         /\ up' = [up EXCEPT ![<<c, s>>] = Append(@, ch)]
         /\ asked' = [asked EXCEPT ![c] = @ \cup {t \in {s} : ch.kind = "req"}]
  BY DEF Send
<1>7. AsksFirst(c) /\ \A t \in Open \ asked[c] : WillAsk(c, t)
  BY <1>1 DEF AskedInv, ClientAsks
<1>8. AfterSend(c, ch) \in {"prompt", "read", "file"}
  BY DEF AfterSend
<1>9. <<c, s>> \in Conns /\ up[<<c, s>>] \in Seq(Chunk)
  BY <1>0, <1>3 DEF Conns, WireTypeOK
<1> HIDE DEF q, s, ch
\* The first write to an open connection is a request.
<1>10. s \in Open => s \in asked[c] \/ ch.kind = "req"
  <2>1. 1 \in 1..Len(q) /\ \A j \in 1..1 : j = 1
    BY <1>3
  <2> QED BY <1>3, <1>7, <2>1 DEF AsksFirst, q
<1>11. /\ \A d \in Clients \ {c} : asked'[d] = asked[d]
       /\ asked[c] \subseteq asked'[c]
       /\ s \in Open /\ ch.kind = "req" => s \in asked'[c]
       /\ s \notin Open => asked'[c] = asked[c]
       /\ \A t \in asked'[c] : t \in asked[c] \/ (t = s /\ ch.kind = "req" /\ s \in Open)
  <2>1. DOMAIN asked = Clients
    BY <1>0 DEF ClientTypeOK
  <2>2. CASE s \notin Open /\ UNCHANGED asked
    BY <2>2
  <2>3. CASE s \in Open /\ asked' = [asked EXCEPT ![c] = @ \cup {t \in {s} : ch.kind = "req"}]
    <3>1. /\ asked'[c] = asked[c] \cup {t \in {s} : ch.kind = "req"}
          /\ \A d \in Clients \ {c} : asked'[d] = asked[d]
      BY <2>1, <2>3
    <3> QED BY <2>3, <3>1
  <2> QED BY <1>6, <2>2, <2>3
<1>12. DOMAIN up = Conns
  BY <1>0 DEF WireTypeOK
<1>13. ASSUME NEW k \in Conns, k[1] # c PROVE tpc'[k] = tpc[k] /\ up'[k] = up[k]
  <2>1. k # <<c, s>>
    BY <1>13
  <2> QED BY <1>1, <1>6, <1>12, <2>1
<1>14. ASSUME NEW k \in Conns, k[1] = c PROVE ConnAsked(k)'
  <2>0. ConnAsked(k) /\ k = <<c, k[2]>>
    BY <1>14, ConnServer DEF AskedInv
  <2>1. CASE s \in Open /\ k[2] = s
    <3>1. k = <<c, s>> /\ up'[k] = Append(up[k], ch) /\ s \in asked'[c]
      BY <1>6, <1>9, <1>10, <1>11, <1>12, <2>0, <2>1
    <3>2. Append(up[k], ch) # <<>>
          /\ Head(Append(up[k], ch)) = IF up[k] = <<>> THEN ch ELSE Head(up[k])
      <4>1. up[k] \in Seq(Chunk)
        BY <1>9, <3>1
      <4>2. /\ Append(up[k], ch) \in Seq(Chunk) /\ Append(up[k], ch) # <<>>
            /\ \A i \in 1..Len(up[k]) : Append(up[k], ch)[i] = up[k][i]
            /\ Append(up[k], ch)[Len(up[k]) + 1] = ch
        BY <1>3, <4>1, AppendProperties
      <4>3. Head(Append(up[k], ch)) = Append(up[k], ch)[1]
        BY <4>2, HeadFirst
      <4>4. CASE up[k] = <<>>
        BY <4>2, <4>3, <4>4
      <4>5. CASE up[k] # <<>>
        <5>1. Len(up[k]) \in Nat \ {0} /\ Head(up[k]) = up[k][1]
          BY <4>1, <4>5, HeadFirst
        <5>2. 1 \in 1..Len(up[k])
          BY <5>1
        <5> QED BY <4>2, <4>3, <4>5, <5>1, <5>2
      <4> QED BY <4>2, <4>4, <4>5
    <3>3. tpc'[k] \in {"queued", "request"} => Head(up'[k]).kind = "req"
      BY <1>1, <1>10, <1>14, <2>0, <2>1, <3>1, <3>2 DEF ConnAsked
    <3> QED BY <1>1, <1>14, <2>0, <2>1, <3>1, <3>2, <3>3 DEF ConnAsked
  <2>2. CASE ~(s \in Open /\ k[2] = s)
    <3>1. up'[k] = up[k]
      BY <1>6, <1>12, <2>0, <2>2
    <3>2. k[2] \in asked'[c] <=> k[2] \in asked[c]
      BY <1>11, <2>2
    <3> QED BY <1>1, <1>14, <2>0, <3>1, <3>2 DEF ConnAsked
  <2> QED BY <2>1, <2>2
\* A write that is still to be made is the next one or stays in the queue.
<1>15. ASSUME NEW t \in Open \ asked'[c] PROVE WillAsk(c, t)' /\ Len(q) > 1
  <2>1. PICK j \in 1..Len(q) : q[j][1] = t /\ q[j][2].kind = "req"
    BY <1>7, <1>11, <1>15 DEF WillAsk, q
  <2>2. j # 1
    BY <1>3, <1>11, <1>15, <2>1
  <2>3. j - 1 \in 1..Len(Tail(q)) /\ Tail(q)[j - 1] = q[j]
    <3>1. j - 1 \in 1..Len(Tail(q)) /\ (j - 1) + 1 = j
      BY <1>3, <1>4, <2>2
    <3> QED BY <1>4, <3>1
  <2>4. Len(q) > 1
    BY <1>3, <2>2
  <2>5. out'[c] = Tail(q)
    BY <1>1
  <2>6. /\ j - 1 \in 1..Len(out'[c])
        /\ out'[c][j - 1][1] = t /\ out'[c][j - 1][2].kind = "req"
    BY <2>1, <2>3, <2>5
  <2> QED BY <2>4, <2>6 DEF WillAsk
<1>16. AsksFirst(c)'
  <2> SUFFICES ASSUME NEW i \in 1..Len(Tail(q)),
                      Tail(q)[i][1] \in Open \ asked'[c]
               PROVE  \E j \in 1..i : Tail(q)[j][1] = Tail(q)[i][1] /\ Tail(q)[j][2].kind = "req"
    BY <1>1 DEF AsksFirst
  <2>1. i + 1 \in 1..Len(q) /\ Tail(q)[i] = q[i + 1]
    BY <1>3, <1>4
  <2>2. q[i + 1][1] \in Open \ asked[c]
    BY <1>11, <2>1
  <2>3. PICK j \in 1..i + 1 : q[j][1] = q[i + 1][1] /\ q[j][2].kind = "req"
    BY <1>7, <2>1, <2>2 DEF AsksFirst, q
  <2>4. j # 1
    BY <1>3, <1>11, <2>1, <2>2, <2>3
  <2>5. j - 1 \in 1..i /\ Tail(q)[j - 1] = q[j]
    <3>1. j - 1 \in 1..i /\ j - 1 \in 1..Len(Tail(q)) /\ (j - 1) + 1 = j
      BY <1>3, <1>4, <2>3, <2>4
    <3> QED BY <1>4, <3>1
  <2> QED BY <2>1, <2>3, <2>5
<1>17. ClientAsks(c)'
  <2>1. CASE Len(q) = 1
    <3>1. Open \subseteq asked'[c]
      BY <1>15, <2>1
    <3> QED BY <1>1, <1>5, <1>8, <2>1, <3>1 DEF ClientAsks, AllAsked
  <2>2. CASE Len(q) # 1
    BY <1>1, <1>5, <1>15, <1>16, <2>2 DEF ClientAsks
  <2> QED BY <2>1, <2>2
<1> QED BY <1>1, <1>11, <1>13, <1>14, <1>17, OwnStepAsked
-----------------------------------------------------------------------------
LEMMA ClientAsked ==
    ASSUME TypeOK, AskedInv, NEW c \in Clients, Run(c) \/ Prompt(c)
    PROVE  AskedInv'
<1>0. DOMAIN cpc = Clients /\ DOMAIN again = Clients /\ DOMAIN out = Clients
      /\ DOMAIN next = Clients
  BY DEF TypeOK, ClientTypeOK
<1>a. ClientAsks(c)
  BY DEF AskedInv
\* Leaving asks for nothing more.
<1>1. ASSUME cpc[c] # "gone", cpc' = [cpc EXCEPT ![c] = "gone"], Leave(c),
             UNCHANGED <<next, alive, sock, asked, out, again, tpc, req, starved, up>>
      PROVE  AskedInv'
  <2>1. cpc'[c] = "gone" /\ \A d \in Clients \ {c} : cpc'[d] = cpc[d]
    BY <1>0, <1>1
  <2>2. ClientAsks(c)'
    BY <2>1 DEF ClientAsks
  <2> QED BY <1>1, <2>1, <2>2, QuietAsked DEF Leave
<1>2. CASE Dial(c)
  BY <1>2, DialAsked
<1>3. CASE Send(c)
  BY <1>3, SendAsked
<1>4. CASE SigPipe(c)
  BY <1>1, <1>4 DEF SigPipe, Step, serverVars
<1>5. CASE ReadListing(c)
  <2>1. /\ cpc[c] = "read"
        /\ UNCHANGED <<alive, sock, asked, out, again, tpc, req, starved, up, closed>>
        /\ \E to \in {"read", "prompt"} : cpc' = [cpc EXCEPT ![c] = to]
    BY <1>5 DEF ReadListing, Advance, Step, serverVars
  <2>2. /\ cpc'[c] \in {"read", "prompt"}
        /\ \A d \in Clients \ {c} : cpc'[d] = cpc[d] /\ next'[d] = next[d]
    BY <1>0, <1>5, <2>1 DEF ReadListing, Advance
  <2>3. ClientAsks(c)'
    BY <1>a, <2>1, <2>2 DEF ClientAsks, AllAsked
  <2> QED BY <2>1, <2>2, <2>3, QuietAsked
<1>6. CASE OpenFile(c)
  <2>1. /\ cpc[c] = "file" /\ cpc' = [cpc EXCEPT ![c] = "send"]
        /\ UNCHANGED <<next, alive, sock, asked, again, tpc, req, starved, up, closed>>
    BY <1>6 DEF OpenFile, Step, serverVars, wireVars
  <2>2. \E x \in Hashes : out' = [out EXCEPT ![c] = PartWrites(c, x)]
    BY <1>6 DEF OpenFile
  <2>3. cpc'[c] = "send" /\ \A d \in Clients \ {c} : cpc'[d] = cpc[d] /\ out'[d] = out[d]
    BY <1>0, <2>1, <2>2
  <2>4. AllAsked(c)
    BY <1>a, <2>1 DEF ClientAsks
  <2>5. AsksFirst(c)' /\ \A s \in ((sock[c] \cap alive) \ asked[c])' : WillAsk(c, s)'
    BY <2>1, <2>4 DEF AllAsked, AsksFirst
  <2>6. ClientAsks(c)'
    BY <2>3, <2>5 DEF ClientAsks
  <2> QED BY <2>1, <2>3, <2>6, QuietAsked
<1>7. CASE NoSuchFile(c)
  BY <1>1, <1>7 DEF NoSuchFile, Step, serverVars
<1>8. CASE \E f \in Names, op \in {"LIST", "PUT"} : Type(c, op, f)
  <2>1. PICK f \in Names, op \in {"LIST", "PUT"} : Type(c, op, f)
    BY <1>8
  <2>2. Req(op, f) \in Chunk /\ Req(op, f).kind = "req"
    BY DEF Chunk, Requests, Req
  <2>3. Forward(c, Req(op, f)) /\ \A d \in Clients \ {c} : again'[d] = again[d]
    BY <1>0, <2>1 DEF Type
  <2> QED BY <2>2, <2>3, ForwardAsked
<1>9. CASE TypeExit(c)
  BY <1>1, <1>9 DEF TypeExit, Step, serverVars
<1>10. CASE Repeat(c)
  <2>1. Blank \in Chunk
    BY DEF Chunk
  <2> QED BY <1>10, <2>1, ForwardAsked DEF Repeat
<1>11. CASE Unrecognized(c)
  <2>1. /\ cpc[c] = "prompt" /\ again' = [again EXCEPT ![c] = FALSE]
        /\ UNCHANGED <<cpc, next, alive, sock, asked, out, tpc, req, starved, up, closed>>
    BY <1>11 DEF Unrecognized, serverVars, wireVars
  <2>2. ~again'[c] /\ \A d \in Clients \ {c} : again'[d] = again[d]
    BY <1>0, <2>1
  <2>3. ClientAsks(c)'
    BY <2>1, <2>2 DEF ClientAsks
  <2> QED BY <2>1, <2>2, <2>3, QuietAsked
<1> QED BY <1>2, <1>3, <1>4, <1>5, <1>6, <1>7, <1>8, <1>9, <1>10, <1>11 DEF Run, Prompt

\* AskedInv is inductive, given the types.
THEOREM AskedAlways == Spec => []AskedInv
<1>1. TypeOK /\ AskedInv /\ [Next]_vars => AskedInv'
  <2> SUFFICES ASSUME TypeOK, AskedInv, [Next]_vars PROVE AskedInv'
    OBVIOUS
  <2>1. CASE Next
    BY <2>1, ThreadAsked, StrayAsked, ClientAsked DEF Next
  <2>2. CASE UNCHANGED vars
    <3>1. UNCHANGED <<tpc, req, starved, next, sock, asked, up, alive, closed, cpc, again, out>>
      BY <2>2 DEF vars, wireVars, serverVars, clientVars
    <3>2. \A k \in Conns : ConnAsked(k)'
      BY <3>1 DEF AskedInv, ConnAsked
    <3>3. \A c \in Clients : ClientAsks(c)'
      BY <3>1 DEF AskedInv, ClientAsks, AllAsked, AsksFirst, WillAsk
    <3>4. EndsOnlyFor' /\ \A s \in starved' : Crowded(s)'
      BY <3>1 DEF AskedInv, EndsOnlyFor, SilentlyLeft, CannotCreate, Opens, Crowded, Started
    <3> QED BY <3>1, <3>2, <3>3, <3>4 DEF AskedInv
  <2> QED BY <2>1, <2>2
<1> QED BY InitAsked, <1>1, TypeCorrect, PTL DEF Spec

\* With descriptors enough for all clients no server ever lacks one.
LEMMA NobodyStarves ==
    ASSUME TypeOK, AskedInv, EnoughDescriptors
    PROVE  starved = {} /\ \A s \in Servers : ~Crowded(s)
<1>1. ASSUME NEW s \in Servers PROVE ~Crowded(s)
  <2>1. Started(s) \in SUBSET Clients /\ IsFiniteSet(Clients)
    BY WireAssumption DEF Started
  <2>2. /\ Cardinality(Started(s)) <= Cardinality(Clients)
        /\ Cardinality(Started(s)) \in Nat /\ Cardinality(Clients) \in Nat
    BY <2>1, FS_Subset, FS_CardinalityType
  <2> QED BY <2>2, ServerAssumption DEF Crowded, EnoughDescriptors
<1>2. starved \subseteq Servers /\ \A s \in starved : Crowded(s)
  BY WireAssumption DEF TypeOK, ServerTypeOK, AskedInv
<1> QED BY <1>1, <1>2

\* And with the directories for all files none fails to create one.
LEMMA OpensFiles ==
    ASSUME TypeOK, NEW k \in Conns
    PROVE  Opens(k) \subseteq Files
<1>1. tpc[k] \in {"open1", "open2"} => req[k] \in Requests
  BY DEF TypeOK, ServerTypeOK
<1> QED BY <1>1, FileNames DEF Opens

LEMMA EndsAlone ==
    ASSUME TypeOK, AskedInv, EnoughDescriptors, AllCreatable
    PROVE  ExitOnlyAfterSilentClient
<1>1. ASSUME NEW s \in Running, NEW c \in Clients PROVE Opens(<<c, s>>) \ Creatable = {}
  <2>1. <<c, s>> \in Conns
    BY WireAssumption DEF Conns
  <2> QED BY <2>1, OpensFiles DEF AllCreatable
<1>2. \A s \in Running : ~CannotCreate(s)
  BY <1>1 DEF CannotCreate
<1> QED BY <1>2, NobodyStarves DEF AskedInv, EndsOnlyFor, ExitOnlyAfterSilentClient

\* No sequence of LISTs and PUTs, however TCP cuts and merges their writes, makes
\* a server see an invalid request and end: as long as its descriptors are enough
\* for all clients and it can create the files, a server that has ended was
\* connected to a client that went away without having sent it one.
THEOREM ServersSurvive ==
    ASSUME EnoughDescriptors, AllCreatable
    PROVE  Spec => []ExitOnlyAfterSilentClient
<1>1. TypeOK /\ AskedInv => ExitOnlyAfterSilentClient
  BY EndsAlone
<1> QED BY <1>1, AskedAlways, TypeCorrect, PTL
-----------------------------------------------------------------------------
\* TrustInv: what a connection carries is its client's, and a thread is past
\* botherUser() only for a client that is entitled, or on a finished thread's pair.

LEMMA InitTrust == Init => TrustInv
  BY DEF Init, WireInit, ServerInit, ClientInit, TrustInv, OwnChunks, OnlyTrustedStore, PastCred,
         Leftover

\* A read leaves each queue a suffix of what it was.
LEMMA ConsumeOwn ==
    ASSUME WireTypeOK, \A j \in Conns : OwnChunks(j[1], cmds[j[1]], up[j]),
           NEW k \in Conns, NEW n \in Amounts(k), Consume(k, n)
    PROVE  \A j \in Conns : OwnChunks(j[1], cmds[j[1]], up'[j])
<1>1. up[k] \in Seq(Chunk) /\ up \in [Conns -> Seq(Chunk)]
  BY DEF WireTypeOK
<1>2. n \in 0..Len(up[k]) /\ Len(up[k]) \in Nat
  BY <1>1, AmountsBound
<1> DEFINE r == SubSeq(up[k], n + 1, Len(up[k]))
<1>3. Len(r) = Len(up[k]) - n /\ \A i \in 1..Len(up[k]) - n : r[i] = up[k][n + i]
  BY <1>1, <1>2, LeftOver
<1>4. up' = [up EXCEPT ![k] = r]
  BY DEF Consume
<1> HIDE DEF r
<1>5. OwnChunks(k[1], cmds[k[1]], r)
  <2>1. OwnChunks(k[1], cmds[k[1]], up[k])
    OBVIOUS
  <2>2. \A i \in 1..Len(r) : n + i \in 1..Len(up[k]) /\ r[i] = up[k][n + i]
    BY <1>2, <1>3
  <2> QED BY <2>1, <2>2 DEF OwnChunks
<1> QED BY <1>1, <1>4, <1>5

\* Nothing can be read from an empty queue.
LEMMA ConsumeNothing ==
    ASSUME WireTypeOK, NEW k \in Conns, up[k] = <<>>, NEW n \in Amounts(k), Consume(k, n)
    PROVE  n = 0 /\ up'[k] = <<>> /\ SubSeq(up[k], 1, n) = <<>>
<1>1. up[k] \in Seq(Chunk) /\ up \in [Conns -> Seq(Chunk)]
  BY DEF WireTypeOK
<1>2. n \in 0..Len(up[k])
  BY <1>1, AmountsBound
<1>3. n = 0 /\ Len(up[k]) = 0
  BY <1>2
<1>4. SubSeq(up[k], n + 1, Len(up[k])) = <<>> /\ SubSeq(up[k], 1, n) = <<>>
  BY <1>3, SubSeqEmpty
<1> QED BY <1>1, <1>3, <1>4 DEF Consume

LEMMA OverStored ==
    ASSUME NEW new \in Seq(Chunk \cup {Zeros}), NEW old \in Seq(Chunk \cup {Zeros}), NEW C,
           StoredBy(C, new), StoredBy(C, old)
    PROVE  StoredBy(C, Over(new, old))
<1>1. \A i \in 1..Len(Over(new, old)) :
         \/ i \in 1..Len(new) /\ Over(new, old)[i] = new[i]
         \/ i \in 1..Len(old) /\ Over(new, old)[i] = old[i]
  BY OverType
<1> QED BY <1>1 DEF StoredBy

\* What a thread writes to its files is from its client, if it is anybody's.
LEMMA ContentsStored ==
    ASSUME ServerTypeOK, NEW k \in Conns, NEW n, OwnChunks(k[1], n, buf[k]),
           NEW C, k[1] \in C \/ buf[k] = <<>>
    PROVE  StoredBy(C, Contents1(k)) /\ StoredBy(C, Contents2(k))
<1>1. buf[k] \in Seq(Chunk) /\ n2[k] \in Nat /\ Len(buf[k]) \in Nat
  BY DEF ServerTypeOK
<1>2. buf[k] = <<>> => Len(buf[k]) = 0
  BY EmptySeq
<1>3. \A i \in 1..Len(buf[k]) : buf[k][i].kind = "part" => buf[k][i].from \in C
  BY <1>2 DEF OwnChunks, OwnChunk
<1>4. StoredBy(C, Contents1(k))
  BY <1>3 DEF StoredBy, Contents1
<1>5. Len(Contents2(k)) = n2[k]
  BY ContentsType
<1>6. ASSUME NEW i \in 1..n2[k] PROVE \/ Contents2(k)[i] = Zeros
                                      \/ i \in 1..Len(buf[k]) /\ Contents2(k)[i] = buf[k][i]
  BY <1>1 DEF Contents2
<1>7. StoredBy(C, Contents2(k))
  BY <1>3, <1>5, <1>6 DEF StoredBy
<1> QED BY <1>4, <1>7

\* Whoever a server has let in stays let in.
LEMMA StorersStay ==
    ASSUME NEW s \in Servers, TypeOK,
           \A k \in Conns : Done(k) /\ valid[k] => Done(k)' /\ valid'[k],
           \A c \in Clients : cmds[c] > 1 => cmds'[c] > 1
    PROVE  /\ Admitted(s) => Admitted(s)'
           /\ Storers(s) \subseteq Storers(s)'
<1>1. \A c \in Entitled : <<c, s>> \in Conns
  BY WireAssumption DEF Entitled, Conns
<1>2. Admitted(s) => Admitted(s)'
  BY <1>1 DEF Admitted
<1> QED BY <1>2 DEF Storers

\* With the pair that is in userN and passN goes one who is entitled.
LEMMA MayPassTrust ==
    ASSUME TypeOK, TrustInv, NEW k \in Conns, NEW n \in Amounts(k), MayPass(k, n)
    PROVE  \/ k[1] \in Entitled
           \/ Admitted(k[2]) /\ (cmds[k[1]] > 1 \/ (n = 0 /\ up[k] = <<>> /\ k[1] \in closed))
<1>0. up[k] \in Seq(Chunk) /\ OwnChunks(k[1], cmds[k[1]], up[k])
  BY DEF TypeOK, WireTypeOK, TrustInv
<1>1. n \in 0..Len(up[k]) /\ Len(up[k]) \in Nat
  BY <1>0, AmountsBound
<1>2. CASE \E i \in 1..n : First(k, n, i) /\ (Valid(up[k][i]) \/ Spelt(k, n, i))
  <2>1. PICK i \in 1..n : Valid(up[k][i]) \/ Spelt(k, n, i)
    BY <1>2
  <2>2. OwnChunk(k[1], cmds[k[1]], up[k][i])
    BY <1>0, <1>1 DEF OwnChunks
  <2> QED BY <2>1, <2>2 DEF Valid, Spelt, OwnChunk, Entitled
<1>3. CASE Wordless(k, n) /\ PairLeft(k)
  <2>1. PICK j \in Conns : j[2] = k[2] /\ Done(j) /\ valid[j]
    BY <1>3 DEF PairLeft
  <2>2. j[1] \in Entitled \/ Admitted(k[2])
    BY <2>1 DEF TrustInv, OnlyTrustedStore, PastCred
  <2>3. Admitted(k[2])
    BY <2>1, <2>2, ConnServer DEF Admitted
  <2>4. CASE n = 0
    BY <2>3, <2>4 DEF Amounts
  <2>5. CASE n # 0
    <3>1. 1 \in 1..n /\ 1 \in 1..Len(up[k])
      BY <1>1, <2>5
    <3>2. OwnChunk(k[1], cmds[k[1]], up[k][1]) /\ up[k][1].kind = "blank"
      BY <1>0, <1>3, <3>1 DEF OwnChunks, Wordless
    <3> QED BY <2>3, <3>2 DEF OwnChunk
  <2> QED BY <2>4, <2>5
<1> QED BY <1>2, <1>3 DEF MayPass

LEMMA ThreadTrust == ASSUME TypeOK, TrustInv, NEW k \in Conns, Thread(k) PROVE TrustInv'
<1>0. WireTypeOK /\ ServerTypeOK /\ ClientTypeOK /\ UNCHANGED clientVars
  BY DEF TypeOK, Thread
<1>k. /\ k[1] \in Clients /\ k[2] \in Servers /\ up[k] \in Seq(Chunk)
      /\ OwnChunks(k[1], cmds[k[1]], up[k]) /\ OwnChunks(k[1], cmds[k[1]], buf[k])
  BY <1>0, ConnServer DEF WireTypeOK, TrustInv
<1>c. /\ UNCHANGED <<cmds, again, out>> /\ DOMAIN tpc = Conns /\ DOMAIN valid = Conns
      /\ DOMAIN up = Conns /\ DOMAIN buf = Conns
  BY <1>0 DEF clientVars, ServerTypeOK, WireTypeOK
<1>o. \A c \in Clients : /\ again'[c] => cmds'[c] > 0
                         /\ \A i \in 1..Len(out'[c]) : OwnChunk(c, cmds'[c], out'[c][i][2])
  BY <1>c DEF TrustInv
<1>p. /\ \A j \in Conns : tpc[j] \notin {"none", "queued", "request", "cred", "done"} => valid[j]
      /\ \A j \in Conns : valid[j] => j[1] \in Entitled \/ Admitted(j[2])
      /\ \A j \in Conns : Leftover(j) => NothingLeft(j)
  BY DEF TrustInv, OnlyTrustedStore, PastCred
\* A step by which the thread alone moves, with the pair it has.
<1>1. ASSUME NEW pc, tpc' = [tpc EXCEPT ![k] = pc], ~Done(k), UNCHANGED <<valid, closed>>,
             \/ pc \in {"queued", "request", "cred", "done"}
             \/ tpc[k] \notin {"none", "queued", "request", "cred", "done"},
             \/ UNCHANGED up
             \/ \E n \in Amounts(k) : Consume(k, n),
             tpc[k] = "list" => pc = "done",
             UNCHANGED buf /\ tpc[k] # "part1"
      PROVE  /\ PastCred'
             /\ \A j \in Conns : Leftover(j)' => NothingLeft(j)'
             /\ \A s \in Servers : Storers(s) \subseteq Storers(s)'
  <2>1. \A j \in Conns : Done(j) /\ valid[j] => Done(j)' /\ valid'[j]
    BY <1>c, <1>1 DEF Done
  <2>2. \A s \in Servers : (Admitted(s) => Admitted(s)') /\ Storers(s) \subseteq Storers(s)'
    BY <1>c, <2>1, StorersStay
  <2>3. PastCred'
    BY <1>c, <1>p, <1>1, <2>2, ConnServer DEF PastCred
  <2>4. ASSUME NEW j \in Conns, Leftover(j)' PROVE NothingLeft(j)'
    <3>1. NothingLeft(j)
      BY <1>c, <1>p, <1>1, <2>4 DEF Leftover
    <3>2. CASE j # k
      BY <1>c, <1>1, <3>1, <3>2 DEF NothingLeft, Consume
    <3>3. CASE j = k
      <4>1. up'[k] = <<>>
        BY <1>0, <1>1, <3>1, <3>3, ConsumeNothing DEF NothingLeft
      <4> QED BY <1>c, <1>1, <3>1, <3>3, <4>1 DEF NothingLeft, Done
    <3> QED BY <3>2, <3>3
  <2> QED BY <2>2, <2>3, <2>4
\* A step that writes no file and reads nothing into buf4Files1.
<1>2. ASSUME UNCHANGED <<buf, store>>, starved \subseteq starved', PastCred',
             \A j \in Conns : Leftover(j)' => NothingLeft(j)',
             \A s \in Servers : Storers(s) \subseteq Storers(s)',
             \/ UNCHANGED up
             \/ \E n \in Amounts(k) : Consume(k, n)
      PROVE  TrustInv'
  <2>1. \A j \in Conns : OwnChunks(j[1], cmds'[j[1]], up'[j])
    BY <1>0, <1>c, <1>2, ConsumeOwn DEF TrustInv
  <2>2. ASSUME NEW s \in Servers \ starved', NEW f \in Files, store'[s][f] # Missing
        PROVE  StoredBy(Storers(s)', store'[s][f])
    BY <1>2, <2>2 DEF TrustInv, OnlyTrustedStore, StoredBy
  <2>3. \A j \in Conns : OwnChunks(j[1], cmds'[j[1]], buf'[j])
    BY <1>c, <1>2 DEF TrustInv
  <2> QED BY <1>2, <1>o, <2>1, <2>2, <2>3 DEF TrustInv, OnlyTrustedStore
\* A step that writes a file.
<1>3. ASSUME NEW f \in Files, NEW v \in Seq(Chunk \cup {Zeros}),
             store' = [store EXCEPT ![k[2]][f] = v], UNCHANGED <<buf, up, starved>>,
             k[2] \notin starved => StoredBy(Storers(k[2]), v), PastCred',
             \A j \in Conns : Leftover(j)' => NothingLeft(j)',
             \A s \in Servers : Storers(s) \subseteq Storers(s)'
      PROVE  TrustInv'
  <2>1. ASSUME NEW s \in Servers \ starved', NEW g \in Files, store'[s][g] # Missing
        PROVE  StoredBy(Storers(s)', store'[s][g])
    <3>1. \/ s = k[2] /\ store'[s][g] = v
          \/ store'[s][g] = store[s][g]
      BY <1>0, <1>3 DEF ServerTypeOK
    <3> QED BY <1>3, <2>1, <3>1 DEF TrustInv, OnlyTrustedStore, StoredBy
  <2>2. \A j \in Conns : /\ OwnChunks(j[1], cmds'[j[1]], up'[j])
                         /\ OwnChunks(j[1], cmds'[j[1]], buf'[j])
    BY <1>c, <1>3 DEF TrustInv
  <2> QED BY <1>3, <1>o, <2>1, <2>2 DEF TrustInv, OnlyTrustedStore
\* A call that finds no descriptor, or fails otherwise, and ends the server.
<1>4. ASSUME UNCHANGED <<tpc, valid, buf, store, up, closed>>, starved \subseteq starved'
      PROVE  TrustInv'
  <2>1. \A s \in Servers : (Admitted(s) => Admitted(s)') /\ Storers(s) \subseteq Storers(s)'
    BY <1>c, <1>4, StorersStay DEF Done
  <2>2. PastCred' /\ \A j \in Conns : Leftover(j)' => NothingLeft(j)'
    BY <1>c, <1>p, <1>4, <2>1, ConnServer DEF PastCred, Leftover, NothingLeft
  <2> QED BY <1>2, <1>4, <2>1, <2>2
<1>5. CASE Accept(k)
  BY <1>1, <1>2, <1>5 DEF Accept, At, Goto, Done, wireVars
<1>6. CASE ReadRequest(k)
  BY <1>1, <1>2, <1>6 DEF ReadRequest, At, Goto, Done
<1>7. CASE RequestExit(k)
  BY <1>4, <1>7 DEF RequestExit, serverVars
<1>8. CASE RequestLeftover(k)
  BY <1>1, <1>2, <1>8 DEF RequestLeftover, At, Goto, Done, wireVars
<1>9. CASE ReadCred(k)
  <2>1. PICK n \in Amounts(k) :
            /\ \/ /\ MayPass(k, n) /\ valid' = [valid EXCEPT ![k] = TRUE]
                  /\ Goto(k, "list") \/ Goto(k, "part1")
               \/ Goto(k, "done") /\ UNCHANGED valid
            /\ Consume(k, n)
    BY <1>9 DEF ReadCred
  <2>2. tpc[k] = "cred" /\ UNCHANGED <<req, buf, store, starved, closed>>
    BY <1>9 DEF ReadCred, At
  <2>3. CASE Goto(k, "done") /\ UNCHANGED valid
    BY <1>1, <1>2, <2>1, <2>2, <2>3 DEF Goto, Done
  <2>4. CASE /\ MayPass(k, n) /\ valid' = [valid EXCEPT ![k] = TRUE]
             /\ Goto(k, "list") \/ Goto(k, "part1")
    <3>1. \A j \in Conns : Done(j) /\ valid[j] => Done(j)' /\ valid'[j]
      BY <1>c, <2>2, <2>4 DEF Done, Goto
    <3>2. \A s \in Servers : (Admitted(s) => Admitted(s)') /\ Storers(s) \subseteq Storers(s)'
      BY <1>c, <3>1, StorersStay
    <3>3. \/ k[1] \in Entitled
          \/ Admitted(k[2]) /\ (cmds[k[1]] > 1 \/ (n = 0 /\ up[k] = <<>> /\ k[1] \in closed))
      BY <2>4, MayPassTrust
    <3>4. PastCred'
      BY <1>c, <1>k, <1>p, <2>4, <3>2, <3>3, ConnServer DEF PastCred, Goto
    <3>5. ASSUME NEW j \in Conns, Leftover(j)' PROVE NothingLeft(j)'
      <4>1. CASE j # k
        <5>1. NothingLeft(j) /\ tpc'[j] = tpc[j] /\ up'[j] = up[j]
          BY <1>c, <1>p, <2>1, <2>4, <3>5, <4>1 DEF Leftover, Goto, Consume
        <5> QED BY <2>2, <5>1 DEF NothingLeft
      <4>2. CASE j = k
        <5>1. cmds[k[1]] \in Nat
          BY <1>0, <1>k DEF ClientTypeOK
        <5>2. up[k] = <<>> /\ k[1] \in closed
          BY <1>c, <3>3, <3>5, <4>2, <5>1 DEF Leftover
        <5>3. up'[k] = <<>>
          BY <1>0, <2>1, <5>2, ConsumeNothing
        <5>4. tpc'[k] \in {"list", "part1"}
          BY <1>c, <2>4 DEF Goto
        <5> QED BY <2>2, <4>2, <5>2, <5>3, <5>4 DEF NothingLeft
      <4> QED BY <4>1, <4>2
    <3> QED BY <1>2, <2>1, <2>2, <3>2, <3>4, <3>5
  <2> QED BY <2>1, <2>3, <2>4
<1>10. CASE CredExit(k)
  BY <1>4, <1>10 DEF CredExit, Starves
<1>11. CASE SendListing(k)
  BY <1>1, <1>2, <1>11 DEF SendListing, Listed, At, Goto, Done
<1>12. CASE ListFails(k)
  <2>1. CASE UNCHANGED tpc
    BY <1>4, <1>12, <2>1 DEF ListFails, Starves
  <2>2. CASE Goto(k, "done")
    <3>1. starved \subseteq starved'
      BY <1>12 DEF ListFails, Starves
    <3> QED BY <1>1, <1>2, <1>12, <2>2, <3>1 DEF ListFails, At, Goto, Done
  <2> QED BY <1>12, <2>1, <2>2 DEF ListFails
<1>13. CASE ReadPart1(k)
  <2>1. PICK n \in Amounts(k) : buf' = [buf EXCEPT ![k] = SubSeq(up[k], 1, n)] /\ Consume(k, n)
    BY <1>13 DEF ReadPart1
  <2>2. n \in 0..Len(up[k])
    BY <1>k, AmountsBound
  <2>3. Len(SubSeq(up[k], 1, n)) = n /\ \A i \in 1..n : SubSeq(up[k], 1, n)[i] = up[k][i]
    BY <1>k, <2>2, FirstOnes
  <2>4. OwnChunks(k[1], cmds[k[1]], SubSeq(up[k], 1, n))
    <3>1. \A i \in 1..n : i \in 1..Len(up[k])
      BY <1>k, <2>2
    <3> QED BY <1>k, <2>3, <3>1 DEF OwnChunks
  <2>5. \A j \in Conns : OwnChunks(j[1], cmds'[j[1]], buf'[j])
    BY <1>c, <2>1, <2>4 DEF TrustInv
  <2>6. \A j \in Conns : OwnChunks(j[1], cmds'[j[1]], up'[j])
    BY <1>0, <1>c, <2>1, ConsumeOwn DEF TrustInv
  <2>7. /\ tpc[k] = "part1" /\ tpc' = [tpc EXCEPT ![k] = "part2"]
        /\ UNCHANGED <<valid, store, starved, closed>>
    BY <1>13 DEF ReadPart1, At, Goto
  <2>8. /\ PastCred'
        /\ \A j \in Conns : Leftover(j)' => NothingLeft(j)'
        /\ \A s \in Servers : Storers(s) \subseteq Storers(s)'
    <3>1. \A j \in Conns : Done(j) /\ valid[j] => Done(j)' /\ valid'[j]
      BY <1>c, <2>7 DEF Done
    <3>2. \A s \in Servers : (Admitted(s) => Admitted(s)') /\ Storers(s) \subseteq Storers(s)'
      BY <1>c, <3>1, StorersStay
    <3>3. PastCred'
      BY <1>c, <1>p, <2>7, <3>2, ConnServer DEF PastCred
    <3>4. ASSUME NEW j \in Conns, Leftover(j)' PROVE NothingLeft(j)'
      <4>1. NothingLeft(j)
        BY <1>c, <1>p, <2>7, <3>4 DEF Leftover
      <4>2. CASE j # k
        BY <1>c, <2>1, <2>7, <4>1, <4>2 DEF NothingLeft, Consume
      <4>3. CASE j = k
        <5>1. up'[k] = <<>> /\ SubSeq(up[k], 1, n) = <<>>
          BY <1>0, <2>1, <4>1, <4>3, ConsumeNothing DEF NothingLeft
        <5>2. buf'[k] = <<>>
          BY <1>c, <2>1, <5>1
        <5> QED BY <2>7, <4>1, <4>3, <5>1, <5>2 DEF NothingLeft
      <4> QED BY <4>2, <4>3
    <3> QED BY <3>2, <3>3, <3>4
  <2>9. ASSUME NEW s \in Servers \ starved', NEW f \in Files, store'[s][f] # Missing
        PROVE  StoredBy(Storers(s)', store'[s][f])
    BY <2>7, <2>8, <2>9 DEF TrustInv, OnlyTrustedStore, StoredBy
  <2> QED BY <1>o, <2>5, <2>6, <2>8, <2>9 DEF TrustInv, OnlyTrustedStore
<1>14. CASE ReadPart2(k)
  BY <1>1, <1>2, <1>14 DEF ReadPart2, At, Goto, Done
\* The four steps that write: the bytes in the thread's buffer may be stored.
<1>15. ASSUME At(k, "open1") \/ At(k, "open2") \/ At(k, "close2") \/ At(k, "close1"),
              NEW pc \in {"open2", "close2", "close1", "done"}, Goto(k, pc),
              UNCHANGED <<valid, buf, closed, up>>
       PROVE  /\ PastCred' /\ (\A j \in Conns : Leftover(j)' => NothingLeft(j)')
              /\ \A s \in Servers : Storers(s) \subseteq Storers(s)'
              /\ k[1] \in Storers(k[2]) \/ buf[k] = <<>>
              /\ req[k].name \in Files /\ Second[req[k].name] \in Files
              /\ At(k, "close1") => store[k[2]][req[k].name] # Missing
              /\ At(k, "close2") => store[k[2]][Second[req[k].name]] # Missing
  <2>1. req[k] \in Requests
    BY <1>0, <1>15 DEF At, ServerTypeOK
  <2>2. req[k].name \in Files /\ Second[req[k].name] \in Files
    BY <2>1, FileNames
  <2>3. /\ PastCred' /\ (\A j \in Conns : Leftover(j)' => NothingLeft(j)')
        /\ \A s \in Servers : Storers(s) \subseteq Storers(s)'
    BY <1>1, <1>15 DEF At, Goto, Done
  <2>4. valid[k] /\ tpc[k] \notin {"list", "part1", "done"}
    BY <1>p, <1>15 DEF At
  <2>5. cmds[k[1]] \in Nat
    BY <1>0, <1>k DEF ClientTypeOK
  <2>6. k[1] \in Storers(k[2]) \/ buf[k] = <<>>
    BY <1>k, <1>p, <2>4, <2>5 DEF Leftover, NothingLeft, Storers
  <2> QED BY <1>0, <1>15, <2>2, <2>3, <2>6 DEF At, ServerTypeOK
<1>16. <<>> \in Seq(Chunk \cup {Zeros}) /\ \A C : StoredBy(C, <<>>)
  BY EmptySeq DEF StoredBy
<1>17. CASE Open1(k)
  BY <1>3, <1>15, <1>16, <1>17 DEF Open1, Truncate, wireVars
<1>18. CASE Open2(k)
  BY <1>3, <1>15, <1>16, <1>18 DEF Open2, Truncate, wireVars
<1>19. CASE OpenFails(k)
  BY <1>4, <1>19 DEF OpenFails, Starves
<1>20. ASSUME NEW f \in Files, NEW new \in Seq(Chunk \cup {Zeros}), StoredBy(Storers(k[2]), new),
              store[k[2]][f] # Missing, PastCred', UNCHANGED <<buf, up, starved>>,
              \A j \in Conns : Leftover(j)' => NothingLeft(j)',
              \A s \in Servers : Storers(s) \subseteq Storers(s)',
              store' = [store EXCEPT ![k[2]][f] = Over(new, @)]
       PROVE  TrustInv'
  <2>1. /\ store[k[2]][f] \in Seq(Chunk \cup {Zeros})
        /\ k[2] \notin starved => StoredBy(Storers(k[2]), store[k[2]][f])
    BY <1>0, <1>k, <1>20 DEF ServerTypeOK, TrustInv, OnlyTrustedStore
  <2>2. Over(new, store[k[2]][f]) \in Seq(Chunk \cup {Zeros})
    BY <1>20, <2>1, OverType
  <2>3. k[2] \notin starved => StoredBy(Storers(k[2]), Over(new, store[k[2]][f]))
    BY <1>20, <2>1, OverStored
  <2>4. store' = [store EXCEPT ![k[2]][f] = Over(new, store[k[2]][f])]
    BY <1>0, <1>k, <1>20 DEF ServerTypeOK
  <2> QED BY <1>3, <1>20, <2>2, <2>3, <2>4
<1>21. CASE Close2(k)
  <2>0. At(k, "close2") /\ Goto(k, "close1") /\ UNCHANGED <<valid, buf, closed, up, starved>>
    BY <1>21 DEF Close2, Flush, wireVars
  <2>1. /\ Second[req[k].name] \in Files /\ store[k[2]][Second[req[k].name]] # Missing
        /\ PastCred' /\ (\A j \in Conns : Leftover(j)' => NothingLeft(j)')
        /\ \A s \in Servers : Storers(s) \subseteq Storers(s)'
        /\ k[1] \in Storers(k[2]) \/ buf[k] = <<>>
    BY <1>15, <2>0
  <2>2. StoredBy(Storers(k[2]), Contents2(k)) /\ Contents2(k) \in Seq(Chunk \cup {Zeros})
    BY <1>0, <1>k, <2>1, ContentsStored, ContentsType
  <2> QED BY <1>20, <1>21, <2>0, <2>1, <2>2 DEF Close2, Flush
<1>22. CASE Close1(k)
  <2>0. At(k, "close1") /\ Goto(k, "done") /\ UNCHANGED <<valid, buf, closed, up, starved>>
    BY <1>22 DEF Close1, Flush, wireVars
  <2>1. /\ req[k].name \in Files /\ store[k[2]][req[k].name] # Missing
        /\ PastCred' /\ (\A j \in Conns : Leftover(j)' => NothingLeft(j)')
        /\ \A s \in Servers : Storers(s) \subseteq Storers(s)'
        /\ k[1] \in Storers(k[2]) \/ buf[k] = <<>>
    BY <1>15, <2>0
  <2>2. StoredBy(Storers(k[2]), Contents1(k)) /\ Contents1(k) \in Seq(Chunk \cup {Zeros})
    BY <1>0, <1>k, <2>1, ContentsStored, ContentsType
  <2> QED BY <1>20, <1>22, <2>0, <2>1, <2>2 DEF Close1, Flush
<1> QED BY <1>5, <1>6, <1>7, <1>8, <1>9, <1>10, <1>11, <1>12, <1>13, <1>14, <1>17, <1>18, <1>19,
           <1>21, <1>22 DEF Thread, ThreadNext

LEMMA StrayTrust == ASSUME TypeOK, TrustInv, NEW s \in Servers, Stray(s) PROVE TrustInv'
<1>0. /\ TypeOK /\ UNCHANGED <<clientVars, tpc, valid, buf, up, closed>>
      /\ starved \subseteq starved'
  BY DEF Stray, StrayNext, AcceptFails, StrayWrite, Starves
<1>1. \A t \in Servers : (Admitted(t) => Admitted(t)') /\ Storers(t) \subseteq Storers(t)'
  BY <1>0, StorersStay DEF Done, clientVars
<1>2. PastCred'
  BY <1>0, <1>1, ConnServer DEF TrustInv, OnlyTrustedStore, PastCred
<1>3. \A k \in Conns : Leftover(k)' => NothingLeft(k)'
  BY <1>0 DEF TrustInv, Leftover, NothingLeft, clientVars
<1>4. ASSUME NEW t \in Servers \ starved', NEW g \in Files, store'[t][g] # Missing
      PROVE  StoredBy(Storers(t)', store'[t][g])
  <2>1. store'[t][g] = store[t][g]
    <3>1. CASE AcceptFails(s)
      BY <3>1 DEF AcceptFails
    <3>2. CASE StrayWrite(s)
      <4>1. t # s
        BY <1>0, <1>4, <3>2 DEF StrayWrite
      <4>2. \/ UNCHANGED store
            \/ \E f, v : store' = [store EXCEPT ![s][f] = v]
        BY <3>2 DEF StrayWrite
      <4> QED BY <1>0, <4>1, <4>2 DEF TypeOK, ServerTypeOK
    <3> QED BY <3>1, <3>2 DEF Stray, StrayNext
  <2> QED BY <1>0, <1>1, <1>4, <2>1 DEF TrustInv, OnlyTrustedStore, StoredBy
<1>5. \A k \in Conns : /\ OwnChunks(k[1], cmds'[k[1]], up'[k])
                       /\ OwnChunks(k[1], cmds'[k[1]], buf'[k])
  BY <1>0 DEF TrustInv, clientVars
<1>6. \A c \in Clients : /\ again'[c] => cmds'[c] > 0
                         /\ \A i \in 1..Len(out'[c]) : OwnChunk(c, cmds'[c], out'[c][i][2])
  BY <1>0 DEF TrustInv, clientVars
<1> QED BY <1>2, <1>3, <1>4, <1>5, <1>6 DEF TrustInv, OnlyTrustedStore
-----------------------------------------------------------------------------
\* A client's step: it has not left, and moves no thread but by dialling.
LEMMA OwnStepTrust ==
    ASSUME TypeOK, AskedInv, TrustInv, NEW c \in Clients, cpc[c] # "gone",
           \A j \in Conns : tpc'[j] = tpc[j] \/ (tpc[j] = "none" /\ tpc'[j] = "queued"),
           UNCHANGED <<valid, buf, store, starved>>,
           closed \subseteq closed',
           \A j \in Conns : j[1] # c => up'[j] = up[j],
           \A d \in Clients : cmds'[d] >= cmds[d],
           cmds' \in [Clients -> Nat],
           \A j \in Conns : OwnChunks(j[1], cmds'[j[1]], up'[j]),
           \A d \in Clients : /\ again'[d] => cmds'[d] > 0
                              /\ \A i \in 1..Len(out'[d]) : OwnChunk(d, cmds'[d], out'[d][i][2])
    PROVE  TrustInv'
<1>0. /\ c \notin closed
      /\ \A d \in Clients : cmds[d] \in Nat /\ cmds'[d] \in Nat
      /\ \A j \in Conns : j[1] \in Clients
  BY ConnServer DEF AskedInv, TypeOK, ClientTypeOK
<1>1. \A j \in Conns : Done(j) /\ valid[j] => Done(j)' /\ valid'[j]
  BY DEF Done
<1>2. \A d \in Clients : cmds[d] > 1 => cmds'[d] > 1
  BY <1>0
<1>3. \A s \in Servers : (Admitted(s) => Admitted(s)') /\ Storers(s) \subseteq Storers(s)'
  BY <1>1, <1>2, StorersStay
<1>4. PastCred'
  BY <1>3, ConnServer DEF TrustInv, OnlyTrustedStore, PastCred
<1>5. ASSUME NEW j \in Conns, Leftover(j)' PROVE NothingLeft(j)'
  <2>1. Leftover(j)
    BY <1>0, <1>5 DEF Leftover
  <2>2. NothingLeft(j)
    BY <2>1 DEF TrustInv
  <2>3. j[1] # c
    BY <1>0, <2>2 DEF NothingLeft
  <2> QED BY <2>2, <2>3 DEF NothingLeft
<1>6. ASSUME NEW s \in Servers \ starved', NEW f \in Files, store'[s][f] # Missing
      PROVE  StoredBy(Storers(s)', store'[s][f])
  BY <1>3, <1>6 DEF TrustInv, OnlyTrustedStore, StoredBy
<1>7. \A j \in Conns : OwnChunks(j[1], cmds'[j[1]], buf'[j])
  <2>1. \A j \in Conns : OwnChunks(j[1], cmds[j[1]], buf[j]) /\ cmds'[j[1]] >= cmds[j[1]]
    BY <1>0 DEF TrustInv
  <2> QED BY <1>0, <2>1 DEF OwnChunks, OwnChunk
<1> QED BY <1>4, <1>5, <1>6, <1>7 DEF TrustInv, OnlyTrustedStore

\* One that changes its own writes only.
LEMMA OutTrust ==
    ASSUME TypeOK, AskedInv, TrustInv, NEW c \in Clients, cpc[c] # "gone",
           NEW q \in Seq(Servers \X Chunk), out' = [out EXCEPT ![c] = q],
           NEW n \in Nat, n >= cmds[c], cmds' = [cmds EXCEPT ![c] = n],
           \A i \in 1..Len(q) : OwnChunk(c, n, q[i][2]),
           \A d \in Clients : again'[d] => again[d] \/ (d = c /\ n > 0),
           UNCHANGED <<serverVars, up, closed>>
    PROVE  TrustInv'
<1>0. /\ out \in [Clients -> Seq(Servers \X Chunk)] /\ cmds \in [Clients -> Nat]
      /\ \A j \in Conns : j[1] \in Clients
  BY ConnServer DEF TypeOK, ClientTypeOK
<1>1. /\ cmds' \in [Clients -> Nat] /\ cmds'[c] = n
      /\ \A d \in Clients : cmds'[d] >= cmds[d]
      /\ \A d \in Clients \ {c} : cmds'[d] = cmds[d] /\ out'[d] = out[d]
  BY <1>0
<1>2. \A d \in Clients : \A i \in 1..Len(out'[d]) : OwnChunk(d, cmds'[d], out'[d][i][2])
  BY <1>0, <1>1 DEF TrustInv
<1>3. \A d \in Clients : again'[d] => cmds'[d] > 0
  BY <1>0, <1>1 DEF TrustInv
<1>4. \A j \in Conns : OwnChunks(j[1], cmds'[j[1]], up'[j])
  <2>1. \A j \in Conns : OwnChunks(j[1], cmds[j[1]], up[j]) /\ cmds'[j[1]] >= cmds[j[1]]
    BY <1>0, <1>1 DEF TrustInv
  <2> QED BY <1>0, <1>1, <2>1 DEF OwnChunks, OwnChunk
<1> QED BY <1>1, <1>2, <1>3, <1>4, OwnStepTrust DEF serverVars

LEMMA ForwardTrust ==
    ASSUME TypeOK, AskedInv, TrustInv, NEW c \in Clients, NEW line \in Requests \cup {Blank},
           Forward(c, line), line = Blank => again[c],
           \A d \in Clients : again'[d] => again[d] \/ d = c
    PROVE  TrustInv'
<1> DEFINE q == ToAll(line) \o ToAll(Cred(c))
           n == cmds[c] + 1
<1>1. line \in Chunk /\ Cred(c) \in Chunk
  BY DEF Chunk
<1>2. ToAll(line) \in Seq(Servers \X Chunk) /\ ToAll(Cred(c)) \in Seq(Servers \X Chunk)
  BY <1>1, ToAllType
<1>3. q \in Seq(Servers \X Chunk)
  BY <1>2, ConcatProperties
<1>n. cmds[c] \in Nat /\ n \in Nat /\ n >= cmds[c] /\ n > 0 /\ (line = Blank => n > 1)
  BY DEF TypeOK, ClientTypeOK, TrustInv
<1>4. OwnChunk(c, n, line) /\ OwnChunk(c, n, Cred(c))
  <2> HIDE DEF n
  <2> QED BY <1>n DEF OwnChunk, Requests, Req, Blank, Cred
<1>5. Len(ToAll(line)) = 4 /\ Len(ToAll(Cred(c))) = 4
      /\ \A i \in 1..4 : ToAll(line)[i][2] = line /\ ToAll(Cred(c))[i][2] = Cred(c)
  BY DEF ToAll
<1>6. \A i \in 1..Len(q) : q[i][2] = line \/ q[i][2] = Cred(c)
  <2>1. /\ Len(q) = 4 + 4
        /\ \A i \in 1..4 + 4 : q[i] = IF i <= 4 THEN ToAll(line)[i] ELSE ToAll(Cred(c))[i - 4]
    <3>1. /\ Len(q) = Len(ToAll(line)) + Len(ToAll(Cred(c)))
          /\ \A i \in 1 .. Len(ToAll(line)) + Len(ToAll(Cred(c))) :
                q[i] = IF i <= Len(ToAll(line)) THEN ToAll(line)[i]
                       ELSE ToAll(Cred(c))[i - Len(ToAll(line))]
      BY <1>2, ConcatProperties
    <3> HIDE DEF q
    <3> QED BY <1>5, <3>1
  <2> HIDE DEF q
  <2> QED BY <1>5, <2>1
<1>7. /\ out' = [out EXCEPT ![c] = q] /\ cmds' = [cmds EXCEPT ![c] = n]
      /\ cpc[c] # "gone" /\ UNCHANGED <<serverVars, up, closed>>
  BY DEF Forward, Step, wireVars
<1> HIDE DEF q, n
<1>8. \A i \in 1..Len(q) : OwnChunk(c, n, q[i][2])
  BY <1>4, <1>6
<1> QED BY <1>3, <1>n, <1>7, <1>8, OutTrust

LEMMA ClientTrust ==
    ASSUME TypeOK, AskedInv, TrustInv, NEW c \in Clients, Run(c) \/ Prompt(c)
    PROVE  TrustInv'
<1>0. WireTypeOK /\ ServerTypeOK /\ ClientTypeOK /\ cmds \in [Clients -> Nat]
  BY DEF TypeOK, ClientTypeOK
\* Most steps of a client change nothing that TrustInv is about.
<1>1. ASSUME UNCHANGED <<out, cmds, valid, buf, store, starved, up>>, cpc[c] # "gone",
             closed \subseteq closed', \A d \in Clients : again'[d] => again[d],
             \A j \in Conns : tpc'[j] = tpc[j] \/ (tpc[j] = "none" /\ tpc'[j] = "queued")
      PROVE  TrustInv'
  <2>1. \A d \in Clients : cmds'[d] >= cmds[d]
    BY <1>0, <1>1
  <2>2. \A j \in Conns : OwnChunks(j[1], cmds'[j[1]], up'[j])
    BY <1>1 DEF TrustInv
  <2>3. \A d \in Clients : /\ again'[d] => cmds'[d] > 0
                           /\ \A i \in 1..Len(out'[d]) : OwnChunk(d, cmds'[d], out'[d][i][2])
    BY <1>1 DEF TrustInv
  <2>4. cmds' \in [Clients -> Nat]
    BY <1>0, <1>1
  <2> QED BY <1>1, <2>1, <2>2, <2>3, <2>4, OwnStepTrust
<1>2. ASSUME UNCHANGED <<out, cmds, again, serverVars, up>>, cpc[c] # "gone",
             closed \subseteq closed'
      PROVE TrustInv'
  BY <1>1, <1>2 DEF serverVars
<1>3. CASE Dial(c)
  <2>1. cpc[c] = "dial" /\ next[c] \in Servers
    BY <1>0, <1>3 DEF Dial, Advance, Step, ClientTypeOK
  <2>2. tpc[<<c, next[c]>>] = "none"
    <3>1. \A s \in Servers : s >= next[c] => tpc[<<c, s>>] = "none"
      BY <2>1 DEF AskedInv, ClientAsks
    <3>2. next[c] >= next[c]
      BY <2>1 DEF Servers
    <3> QED BY <2>1, <3>1, <3>2
  <2>3. \/ UNCHANGED tpc
        \/ tpc' = [tpc EXCEPT ![<<c, next[c]>>] = "queued"]
    BY <1>3 DEF Dial, Queue, Goto
  <2>4. \A j \in Conns : tpc'[j] = tpc[j] \/ (tpc[j] = "none" /\ tpc'[j] = "queued")
    <3>1. DOMAIN tpc = Conns
      BY <1>0 DEF ServerTypeOK
    <3> QED BY <2>2, <2>3, <3>1
  <2> QED BY <1>1, <1>3, <2>1, <2>4 DEF Dial, wireVars
<1>4. CASE Send(c)
  <2> DEFINE s == Head(out[c])[1]
             ch == Head(out[c])[2]
  <2>1. out[c] \in Seq(Servers \X Chunk) /\ out[c] # <<>>
    BY <1>0, <1>4 DEF Send, ClientTypeOK
  <2>2. /\ Head(out[c]) = out[c][1] /\ Len(out[c]) \in Nat \ {0}
        /\ s \in Servers /\ ch \in Chunk
    BY <2>1, HeadFirst
  <2>3. Len(Tail(out[c])) = Len(out[c]) - 1
        /\ \A i \in 1..Len(Tail(out[c])) : Tail(out[c])[i] = out[c][i + 1]
    BY <2>1, HeadTailProperties
  <2>4. OwnChunk(c, cmds[c], ch)
    BY <2>2 DEF TrustInv
  <2>5. \A d \in Clients : \A i \in 1..Len(out'[d]) : OwnChunk(d, cmds[d], out'[d][i][2])
    <3>1. out' = [out EXCEPT ![c] = Tail(out[c])] /\ DOMAIN out = Clients
      BY <1>0, <1>4 DEF Send, ClientTypeOK
    <3>2. \A i \in 1..Len(Tail(out[c])) : OwnChunk(c, cmds[c], Tail(out[c])[i][2])
      <4>1. \A i \in 1..Len(Tail(out[c])) : i + 1 \in 1..Len(out[c])
        BY <2>2, <2>3
      <4> QED BY <2>3, <4>1 DEF TrustInv
    <3> QED BY <3>1, <3>2 DEF TrustInv
  <2>6. \A k \in Conns : /\ OwnChunks(k[1], cmds[k[1]], up'[k])
                         /\ k[1] # c => up'[k] = up[k]
    <3>1. CASE UNCHANGED up
      BY <3>1 DEF TrustInv
    <3>2. CASE up' = [up EXCEPT ![<<c, s>>] = Append(@, ch)]
      <4>1. <<c, s>> \in Conns /\ up[<<c, s>>] \in Seq(Chunk)
        BY <1>0, <2>2 DEF Conns, WireTypeOK
      <4> DEFINE q == up[<<c, s>>]
      <4>2. /\ Len(Append(q, ch)) = Len(q) + 1 /\ Len(q) \in Nat
            /\ \A i \in 1..Len(q) : Append(q, ch)[i] = q[i]
            /\ Append(q, ch)[Len(q) + 1] = ch
        BY <2>2, <4>1, AppendProperties
      <4>3. OwnChunks(c, cmds[c], q)
        BY <4>1 DEF TrustInv
      <4>4. OwnChunks(c, cmds[c], Append(q, ch))
        <5>1. \A i \in 1..Len(Append(q, ch)) : i \in 1..Len(q) \/ i = Len(q) + 1
          BY <4>2
        <5> HIDE DEF q, ch
        <5> QED BY <2>4, <4>2, <4>3, <5>1 DEF OwnChunks
      <4>5. up' = [up EXCEPT ![<<c, s>>] = Append(q, ch)] /\ DOMAIN up = Conns
        BY <1>0, <3>2 DEF WireTypeOK
      <4> HIDE DEF q, ch, s
      <4> QED BY <4>1, <4>4, <4>5 DEF TrustInv
    <3> QED BY <1>4, <3>1, <3>2 DEF Send
  <2>7. /\ UNCHANGED <<cmds, again, tpc, valid, buf, store, starved, closed>>
        /\ cpc[c] # "gone" /\ cmds' \in [Clients -> Nat]
        /\ \A d \in Clients : cmds'[d] >= cmds[d]
    BY <1>0, <1>4 DEF Send, Step, serverVars
  <2>8. \A d \in Clients : again'[d] => cmds'[d] > 0
    BY <2>7 DEF TrustInv
  <2>9. \A k \in Conns : k[1] \in Clients
    BY ConnServer
  <2> HIDE DEF s, ch
  <2>10. /\ \A k \in Conns : OwnChunks(k[1], cmds'[k[1]], up'[k])
         /\ \A d \in Clients : \A i \in 1..Len(out'[d]) : OwnChunk(d, cmds'[d], out'[d][i][2])
    BY <2>5, <2>6, <2>7
  <2> QED BY <2>6, <2>7, <2>8, <2>10, OwnStepTrust
<1>5. CASE SigPipe(c)
  BY <1>2, <1>5 DEF SigPipe, Step, Leave
<1>6. CASE ReadListing(c)
  BY <1>2, <1>6 DEF ReadListing, Advance, Step
<1>7. CASE OpenFile(c)
  <2>1. PICK x \in Hashes : out' = [out EXCEPT ![c] = PartWrites(c, x)]
    BY <1>7 DEF OpenFile
  <2>2. PartWrites(c, x) \in Seq(Servers \X Chunk)
    BY PartWritesType
  <2>3. \A p : OwnChunk(c, cmds[c], Part(c, p))
    BY DEF OwnChunk, Part
  <2>4. \A i \in 1..Len(PartWrites(c, x)) : \E p : PartWrites(c, x)[i][2] = Part(c, p)
    <3>1. Len(PartWrites(c, x)) = 8
      BY DEF PartWrites
    <3>2. \A s \in Servers : PartWrites(c, x)[2 * s + 1] = <<s, Part(c, FirstPart(x, s))>>
      BY DEF PartWrites, Servers
    <3>3. \A s \in Servers : PartWrites(c, x)[2 * s + 2] = <<s, Part(c, SecondPart(x, s))>>
      BY DEF PartWrites, Servers
    <3>4. \A i \in 1..8 : \E s \in Servers : i = 2 * s + 1 \/ i = 2 * s + 2
      BY DEF Servers
    <3> QED BY <3>1, <3>2, <3>3, <3>4
  <2>5. \A i \in 1..Len(PartWrites(c, x)) : OwnChunk(c, cmds[c], PartWrites(c, x)[i][2])
    BY <2>3, <2>4
  <2>6. UNCHANGED <<cmds, again, serverVars, up, closed>> /\ cpc[c] # "gone"
    BY <1>7 DEF OpenFile, Step, wireVars
  <2>7. cmds' = [cmds EXCEPT ![c] = cmds[c]] /\ cmds[c] \in Nat /\ cmds[c] >= cmds[c]
    BY <1>0, <2>6
  <2> QED BY <2>1, <2>2, <2>5, <2>6, <2>7, OutTrust
<1>8. CASE NoSuchFile(c)
  BY <1>2, <1>8 DEF NoSuchFile, Step, Leave
<1>9. CASE \E f \in Names, op \in {"LIST", "PUT"} : Type(c, op, f)
  <2>1. PICK f \in Names, op \in {"LIST", "PUT"} : Type(c, op, f)
    BY <1>9
  <2>2. Req(op, f) \in Requests /\ Req(op, f) # Blank
    BY DEF Requests, Req, Blank
  <2>3. Forward(c, Req(op, f)) /\ \A d \in Clients : again'[d] => again[d] \/ d = c
    BY <1>0, <2>1 DEF Type, ClientTypeOK
  <2> QED BY <2>2, <2>3, ForwardTrust
<1>10. CASE TypeExit(c)
  BY <1>2, <1>10 DEF TypeExit, Step, Leave
<1>11. CASE Repeat(c)
  BY <1>11, ForwardTrust DEF Repeat
<1>12. CASE Unrecognized(c)
  <2>1. \A d \in Clients : again'[d] => again[d]
    BY <1>0, <1>12 DEF Unrecognized, ClientTypeOK
  <2> QED BY <1>1, <1>12, <2>1 DEF Unrecognized, wireVars, serverVars
<1> QED BY <1>3, <1>4, <1>5, <1>6, <1>7, <1>8, <1>9, <1>10, <1>11, <1>12 DEF Run, Prompt

\* TrustInv is inductive, given the types and AskedInv.
THEOREM TrustAlways == Spec => []TrustInv
<1>1. TypeOK /\ AskedInv /\ TrustInv /\ [Next]_vars => TrustInv'
  <2> SUFFICES ASSUME TypeOK, AskedInv, TrustInv, [Next]_vars PROVE TrustInv'
    OBVIOUS
  <2>1. CASE Next
    BY <2>1, ThreadTrust, StrayTrust, ClientTrust DEF Next
  <2>2. CASE UNCHANGED vars
    BY <2>2 DEF vars, wireVars, serverVars, clientVars, TrustInv, OnlyTrustedStore, PastCred,
                Storers, Admitted, Done, Leftover, NothingLeft
  <2> QED BY <2>1, <2>2
<1> QED BY InitTrust, <1>1, TypeCorrect, AskedAlways, PTL DEF Spec

\* What a server with descriptors stores comes from clients that are entitled, or
\* that repeated a command at a server which had let another in: the first pair
\* that passes botherUser() there is a valid one, however the stream is read.
THEOREM StoreIsTrusted == Spec => []OnlyTrustedStore
<1>1. TrustInv => OnlyTrustedStore
  BY DEF TrustInv
<1> QED BY <1>1, TrustAlways, PTL
=============================================================================
