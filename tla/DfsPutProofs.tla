----------------------------- MODULE DfsPutProofs -----------------------------
(***************************************************************************)
(* FourPartsKept and FirstPartsKept of Dfs, proved under PutPremise for    *)
(* any number of clients, and what follows for the loss of a server.       *)
(***************************************************************************)
EXTENDS DfsProofs

-----------------------------------------------------------------------------
\* The writes of a PUT.

LineAndPair(q, a, b) ==
    /\ Len(q) = 8
    /\ \A s \in Servers : q[s + 1] = <<s, a>> /\ q[s + 5] = <<s, b>>

LEMMA CommandWrites == \A a, b : LineAndPair(ToAll(a) \o ToAll(b), a, b)
<1> TAKE a, b
<1> DEFINE q == ToAll(a) \o ToAll(b)
<1>1. /\ ToAll(a) \in Seq(Servers \X {a}) /\ Len(ToAll(a)) = 4
      /\ ToAll(b) \in Seq(Servers \X {b}) /\ Len(ToAll(b)) = 4
  BY DEF ToAll, Servers
<1>2. \A s \in Servers : ToAll(a)[s + 1] = <<s, a>> /\ ToAll(b)[s + 1] = <<s, b>>
  <2> TAKE s \in Servers
  <2>1. s = 0 \/ s = 1 \/ s = 2 \/ s = 3
    BY DEF Servers
  <2>2. CASE s = 0
    BY <2>2 DEF ToAll
  <2>3. CASE s = 1
    BY <2>3 DEF ToAll
  <2>4. CASE s = 2
    BY <2>4 DEF ToAll
  <2>5. CASE s = 3
    BY <2>5 DEF ToAll
  <2> QED BY <2>1, <2>2, <2>3, <2>4, <2>5
<1>3. /\ Len(q) = 8
      /\ \A i \in 1..8 : q[i] = IF i <= 4 THEN ToAll(a)[i] ELSE ToAll(b)[i - 4]
  <2>1. ToAll(a) \in Seq((Servers \X {a}) \cup (Servers \X {b}))
    BY DEF ToAll, Servers
  <2>2. ToAll(b) \in Seq((Servers \X {a}) \cup (Servers \X {b}))
    BY DEF ToAll, Servers
  <2>3. \A S, u, v : u \in Seq(S) /\ v \in Seq(S) /\ Len(u) = 4 /\ Len(v) = 4 =>
            /\ Len(u \o v) = 8
            /\ \A i \in 1..8 : (u \o v)[i] = IF i <= 4 THEN u[i] ELSE v[i - 4]
    <3> TAKE S, u, v
    <3> HAVE u \in Seq(S) /\ v \in Seq(S) /\ Len(u) = 4 /\ Len(v) = 4
    <3>1. /\ Len(u \o v) = Len(u) + Len(v)
          /\ \A i \in 1..(Len(u) + Len(v)) :
                (u \o v)[i] = IF i <= Len(u) THEN u[i] ELSE v[i - Len(u)]
      BY ConcatProperties
    <3>2. Len(u) + Len(v) = 8
      OBVIOUS
    <3> QED BY <3>1, <3>2
  <2> QED BY <1>1, <2>1, <2>2, <2>3
<1>4. ASSUME NEW s \in Servers PROVE q[s + 1] = <<s, a>> /\ q[s + 5] = <<s, b>>
  <2>1. s \in Int /\ s + 1 \in 1..8 /\ s + 1 <= 4 /\ s + 5 \in 1..8 /\ ~(s + 5 <= 4) /\ (s + 5) - 4 = s + 1
    BY DEF Servers
  <2>2. q[s + 1] = ToAll(a)[s + 1] /\ q[s + 5] = ToAll(b)[(s + 5) - 4]
    BY <1>3, <2>1
  <2> QED BY <1>2, <2>1, <2>2
<1> QED BY <1>3, <1>4 DEF LineAndPair

LEMMA PartWritesAt ==
    ASSUME NEW c, NEW x
    PROVE  /\ Len(PartWrites(c, x)) = 8
           /\ \A s \in Servers :
                 /\ PartWrites(c, x)[2 * s + 1] = <<s, Part(c, FirstPart(x, s))>>
                 /\ PartWrites(c, x)[2 * s + 2] = <<s, Part(c, SecondPart(x, s))>>
<1>1. ASSUME NEW s \in Servers
      PROVE  /\ PartWrites(c, x)[2 * s + 1] = <<s, Part(c, FirstPart(x, s))>>
             /\ PartWrites(c, x)[2 * s + 2] = <<s, Part(c, SecondPart(x, s))>>
  <2>1. CASE s = 0
    BY <2>1 DEF PartWrites
  <2>2. CASE s = 1
    BY <2>2 DEF PartWrites
  <2>3. CASE s = 2
    BY <2>3 DEF PartWrites
  <2>4. CASE s = 3
    BY <2>4 DEF PartWrites
  <2> QED BY <2>1, <2>2, <2>3, <2>4 DEF Servers
<1>2. Len(PartWrites(c, x)) = 8
  BY DEF PartWrites
<1> QED BY <1>1, <1>2

\* The next write, number m + 1, takes the server it goes to one write further and
\* no other server.
LEMMA NextWrite ==
    ASSUME NEW m \in 0..7, NEW s \in Servers
    PROVE  /\ m + 1 = s + 1 => Made(m, s + 1, s + 5) = 0 /\ Made(m + 1, s + 1, s + 5) = 1
           /\ m + 1 = s + 5 => Made(m, s + 1, s + 5) = 1 /\ Made(m + 1, s + 1, s + 5) = 2
           /\ m + 1 \notin {s + 1, s + 5} => Made(m + 1, s + 1, s + 5) = Made(m, s + 1, s + 5)
           /\ m + 1 = 2 * s + 1 => Made(m, 2 * s + 1, 2 * s + 2) = 0 /\ Made(m + 1, 2 * s + 1, 2 * s + 2) = 1
           /\ m + 1 = 2 * s + 2 => Made(m, 2 * s + 1, 2 * s + 2) = 1 /\ Made(m + 1, 2 * s + 1, 2 * s + 2) = 2
           /\ m + 1 \notin {2 * s + 1, 2 * s + 2} =>
                 Made(m + 1, 2 * s + 1, 2 * s + 2) = Made(m, 2 * s + 1, 2 * s + 2)
  BY DEF Made, Servers

\* Which server it goes to.
LEMMA WriteServer ==
    ASSUME NEW m \in 0..7
    PROVE  /\ \E s \in Servers : m + 1 = s + 1 \/ m + 1 = s + 5
           /\ \E s \in Servers : m + 1 = 2 * s + 1 \/ m + 1 = 2 * s + 2
<1>1. m = 0 \/ m = 1 \/ m = 2 \/ m = 3 \/ m = 4 \/ m = 5 \/ m = 6 \/ m = 7
  OBVIOUS
<1>2. 0 \in Servers /\ 1 \in Servers /\ 2 \in Servers /\ 3 \in Servers
  BY DEF Servers
<1> QED BY <1>1, <1>2
-----------------------------------------------------------------------------
\* What a step has to leave alone.

\* c's own variables, and the connections of c.
OwnVars(c) == <<cpc[c], out[c], cmd[c], again[c], cmds[c], asked[c], sock[c]>>
ConnVars(k) == <<tpc[k], up[k], req[k], buf[k], n2[k]>>

LEMMA TalkUntouched ==
    ASSUME NEW c \in Clients, NEW s \in Servers, cmd'[c] = cmd[c],
           ConnVars(<<c, s>>)' = ConnVars(<<c, s>>), store'[s] = store[s],
           NEW x, NEW w, Talk(c, s, x, w)
    PROVE  Talk(c, s, x, w)'
<1>1. ReadBy(<<c, s>>)' = ReadBy(<<c, s>>)
  BY DEF ConnVars, ReadBy
<1>2. PutStream(c, s, x)' = PutStream(c, s, x)
  BY DEF PutStream
<1>3. Storing(c, s, x) => Storing(c, s, x)'
  BY DEF ConnVars, Storing
<1> QED BY <1>1, <1>2, <1>3 DEF ConnVars, Talk

\* The step moves none of c's writes and none of its connections falls behind.
LEMMA PuttingUntouched ==
    ASSUME NEW c \in Clients, alive' \subseteq alive,
           cpc'[c] = cpc[c], out'[c] = out[c], cmd'[c] = cmd[c], sock'[c] = sock[c],
           NEW x, Putting(c, x),
           \A s \in sock[c] \cap alive', w \in 0..4 : Talk(c, s, x, w) => Talk(c, s, x, w)',
           sock[c] \subseteq Servers
    PROVE  Putting(c, x)'
<1>1. /\ cpc'[c] = cpc[c] /\ out'[c] = out[c] /\ cmd'[c] = cmd[c] /\ sock'[c] = sock[c]
  OBVIOUS
<1>2. sock'[c] \cap alive' \subseteq sock[c] \cap alive
  BY <1>1
<1>3. \A m \in 0..7 : \A i, j : Made(m, i, j) \in 0..4 /\ 2 + Made(m, i, j) \in 0..4
  BY DEF Made
<1>4. \A q, m : Sent(c, q, m) => Sent(c, q, m)'
  BY <1>1 DEF Sent
<1>5. CASE cpc[c] = "send" /\ \E m \in 0..7 :
               /\ Sent(c, ToAll(cmd[c]) \o ToAll(Cred(c)), m)
               /\ \A s \in sock[c] \cap alive : Talk(c, s, x, Made(m, s + 1, s + 5))
  <2>1. PICK m \in 0..7 :
               /\ Sent(c, ToAll(cmd[c]) \o ToAll(Cred(c)), m)
               /\ \A s \in sock[c] \cap alive : Talk(c, s, x, Made(m, s + 1, s + 5))
    BY <1>5
  <2>2. \A s \in sock'[c] \cap alive' : Talk(c, s, x, Made(m, s + 1, s + 5))'
    BY <1>1, <1>2, <1>3, <2>1
  <2>3. Sent(c, ToAll(cmd[c]) \o ToAll(Cred(c)), m)'
    BY <1>1, <1>4, <2>1
  <2> QED BY <1>1, <1>5, <2>2, <2>3 DEF Putting
<1>6. CASE cpc[c] = "send" /\ \E m \in 0..7 :
               /\ Sent(c, PartWrites(c, x), m)
               /\ \A s \in sock[c] \cap alive : Talk(c, s, x, 2 + Made(m, 2 * s + 1, 2 * s + 2))
  <2>1. PICK m \in 0..7 :
               /\ Sent(c, PartWrites(c, x), m)
               /\ \A s \in sock[c] \cap alive : Talk(c, s, x, 2 + Made(m, 2 * s + 1, 2 * s + 2))
    BY <1>6
  <2>2. \A s \in sock'[c] \cap alive' : Talk(c, s, x, 2 + Made(m, 2 * s + 1, 2 * s + 2))'
    BY <1>1, <1>2, <1>3, <2>1
  <2>3. Sent(c, PartWrites(c, x), m)'
    BY <1>1, <1>4, <2>1
  <2> QED BY <1>1, <1>6, <2>2, <2>3 DEF Putting
<1>7. CASE cpc[c] = "file" /\ \A s \in sock[c] \cap alive : Talk(c, s, x, 2)
  <2>1. \A s \in sock'[c] \cap alive' : Talk(c, s, x, 2)'
    BY <1>1, <1>2, <1>7
  <2> QED BY <1>1, <1>7, <2>1 DEF Putting
<1>8. CASE cpc[c] = "prompt" /\ \A s \in sock[c] \cap alive : Talk(c, s, x, 4)
  <2>1. \A s \in sock'[c] \cap alive' : Talk(c, s, x, 4)'
    BY <1>1, <1>2, <1>8
  <2> QED BY <1>1, <1>8, <2>1 DEF Putting
<1> QED BY <1>5, <1>6, <1>7, <1>8 DEF Putting

\* A client that types no PUT has no PUT under way.
LEMMA NeverPutting ==
    ASSUME NEW c \in Clients, PutState(c), "PUT" \notin Typed[c], cmds[c] = 1
    PROVE  cmd[c].op # "PUT"
  BY DEF PutState

\* A step of others: c is as it was, and so are the files if c may put.
LEMMA Untouched ==
    ASSUME TypeOK, NEW c \in Clients, PutState(c), OwnVars(c)' = OwnVars(c),
           \A s \in Servers : ConnVars(<<c, s>>)' = ConnVars(<<c, s>>),
           alive' \subseteq alive, closed \subseteq closed',
           store' = store \/ "PUT" \notin Typed[c] \/ cpc[c] = "gone"
    PROVE  PutState(c)'
<1>1. /\ cpc'[c] = cpc[c] /\ out'[c] = out[c] /\ cmd'[c] = cmd[c] /\ again'[c] = again[c]
      /\ cmds'[c] = cmds[c] /\ asked'[c] = asked[c] /\ sock'[c] = sock[c]
  BY DEF OwnVars
<1>2. \A s \in Servers : /\ tpc'[<<c, s>>] = tpc[<<c, s>>] /\ up'[<<c, s>>] = up[<<c, s>>]
                         /\ req'[<<c, s>>] = req[<<c, s>>]
  BY DEF ConnVars
<1>3. sock[c] \subseteq Servers
  BY DEF TypeOK, ClientTypeOK
<1>4. NeverPuts(c) => NeverPuts(c)'
  <2> DEFINE On(k) == /\ \A i \in 1..Len(up[k]) : ~IsPut(up[k][i])
                      /\ tpc[k] \in {"none", "queued", "request", "cred", "list", "done"}
                      /\ tpc[k] = "cred" => ~IsPut(req[k])
  <2>1. \A s \in Servers : On(<<c, s>>) => On(<<c, s>>)'
    BY <1>2
  <2>2. NeverPuts(c) <=> /\ cpc[c] # "file"
                         /\ cmd[c] # NoReq => ~IsPut(cmd[c])
                         /\ \A i \in 1..Len(out[c]) : ~IsPut(out[c][i][2])
                         /\ \A s \in Servers : On(<<c, s>>)
    BY DEF NeverPuts
  <2>3. NeverPuts(c)' <=> /\ cpc'[c] # "file"
                          /\ cmd'[c] # NoReq => ~IsPut(cmd'[c])
                          /\ \A i \in 1..Len(out'[c]) : ~IsPut(out'[c][i][2])
                          /\ \A s \in Servers : On(<<c, s>>)'
    BY DEF NeverPuts
  <2> HIDE DEF On
  <2> QED BY <1>1, <2>1, <2>2, <2>3
<1>5. Fresh(c) => Fresh(c)'
  BY <1>1, <1>2, <1>3 DEF Fresh
<1>6. ASSUME c \in Trusted, cmds[c] = 1, cmd[c].op = "PUT", cpc[c] # "gone"
      PROVE  \E x \in Hashes : Putting(c, x)'
  <2>1. PICK x \in Hashes : Putting(c, x)
    BY <1>6 DEF PutState
  <2>2. store' = store
    BY <1>6, NeverPutting
  <2>3. \A s \in sock[c] \cap alive', w \in 0..4 : Talk(c, s, x, w) => Talk(c, s, x, w)'
    BY <1>1, <1>3, <2>2, TalkUntouched
  <2> QED BY <1>1, <1>3, <2>1, <2>3, PuttingUntouched
<1>7. closed' = {} => closed = {}
  OBVIOUS
<1> QED BY <1>1, <1>4, <1>5, <1>6, <1>7 DEF PutState
-----------------------------------------------------------------------------
\* A step of a server's thread.

\* It changes its own connection, the files of its own server, and no client.
LEMMA ThreadScope ==
    ASSUME TypeOK, NEW k \in Conns, Thread(k)
    PROVE  /\ \A c \in Clients : OwnVars(c)' = OwnVars(c)
           /\ \A j \in Conns : j # k => ConnVars(j)' = ConnVars(j)
           /\ \A s \in Servers : s # k[2] => store'[s] = store[s]
           /\ tpc[k] \notin {"open1", "open2", "close2", "close1"} => store' = store
           /\ alive' \subseteq alive /\ closed' = closed
<1>0. /\ DOMAIN tpc = Conns /\ DOMAIN up = Conns /\ DOMAIN req = Conns
      /\ DOMAIN buf = Conns /\ DOMAIN n2 = Conns /\ DOMAIN store = Servers
  BY DEF TypeOK, WireTypeOK, ServerTypeOK
<1>1. UNCHANGED clientVars
  BY DEF Thread
<1>2. \A c \in Clients : OwnVars(c)' = OwnVars(c)
  BY <1>1 DEF clientVars, OwnVars
<1>3. ASSUME NEW pc, tpc' = [tpc EXCEPT ![k] = pc],
             \/ up' = up
             \/ \E v : up' = [up EXCEPT ![k] = v],
             \/ req' = req
             \/ \E v : req' = [req EXCEPT ![k] = v],
             \/ buf' = buf
             \/ \E v : buf' = [buf EXCEPT ![k] = v],
             \/ n2' = n2
             \/ \E v : n2' = [n2 EXCEPT ![k] = v]
      PROVE  \A j \in Conns : j # k => ConnVars(j)' = ConnVars(j)
  BY <1>0, <1>3 DEF ConnVars
<1>4. CASE RequestExit(k) \/ CredExit(k) \/ OpenFails(k)
  BY <1>2, <1>4 DEF RequestExit, CredExit, OpenFails, Ends, serverVars, ConnVars
<1>8. CASE ListFails(k)
  <2>1. tpc' = tpc \/ tpc' = [tpc EXCEPT ![k] = "done"]
    BY <1>8 DEF ListFails, Goto
  <2>2. /\ up' = up /\ req' = req /\ buf' = buf /\ n2' = n2 /\ store' = store /\ closed' = closed
        /\ alive' \subseteq alive
    BY <1>8 DEF ListFails, Ends
  <2>3. CASE tpc' = tpc
    BY <1>2, <2>2, <2>3 DEF ConnVars
  <2> QED BY <1>2, <1>3, <2>1, <2>2, <2>3
<1>5. CASE ReadRequest(k) \/ ReadCred(k) \/ ReadPart1(k) \/ ReadPart2(k)
  <2>1. \E v : up' = [up EXCEPT ![k] = v]
    BY <1>5 DEF ReadRequest, ReadCred, ReadPart1, ReadPart2, Consume
  <2>2. \E pc : tpc' = [tpc EXCEPT ![k] = pc]
    BY <1>5 DEF ReadRequest, ReadCred, ReadPart1, ReadPart2, Goto
  <2>3. /\ store' = store /\ closed' = closed /\ alive' = alive
        /\ req' = req \/ \E v : req' = [req EXCEPT ![k] = v]
        /\ buf' = buf \/ \E v : buf' = [buf EXCEPT ![k] = v]
        /\ n2' = n2 \/ \E v : n2' = [n2 EXCEPT ![k] = v]
    BY <1>5 DEF ReadRequest, ReadCred, ReadPart1, ReadPart2
  <2> QED BY <1>2, <1>3, <2>1, <2>2, <2>3
<1>6. CASE RequestLeftover(k) \/ SendListing(k) \/ Accept(k)
  <2>1. /\ up' = up /\ buf' = buf /\ n2' = n2 /\ store' = store /\ closed' = closed /\ alive' = alive
        /\ req' = req \/ \E v : req' = [req EXCEPT ![k] = v]
        /\ \E pc : tpc' = [tpc EXCEPT ![k] = pc]
    BY <1>6 DEF RequestLeftover, SendListing, Listed, Accept, Goto, wireVars
  <2> QED BY <1>2, <1>3, <2>1
<1>7. CASE Open1(k) \/ Open2(k) \/ Close2(k) \/ Close1(k)
  <2>1. /\ up' = up /\ req' = req /\ buf' = buf /\ n2' = n2 /\ closed' = closed /\ alive' = alive
        /\ \E pc : tpc' = [tpc EXCEPT ![k] = pc]
        /\ \E f, v : store' = [store EXCEPT ![k[2]][f] = v]
        /\ tpc[k] \in {"open1", "open2", "close2", "close1"}
    BY <1>7 DEF Open1, Open2, Close2, Close1, Truncate, Flush, At, Goto, wireVars
  <2>2. \A s \in Servers : s # k[2] => store'[s] = store[s]
    BY <1>0, <2>1
  <2> QED BY <1>2, <1>3, <2>1, <2>2
<1> QED BY <1>4, <1>5, <1>6, <1>7, <1>8 DEF Thread, ThreadNext

\* While c is there, and every read() returns one write(), c's threads read one
\* chunk at a time, and none of them takes it that c has gone.
LEMMA OneAmount ==
    ASSUME ~Coalesce, NEW k \in Conns, k[1] \notin closed, up[k] \in Seq(Chunk),
           NEW n \in Amounts(k)
    PROVE  n = 1 /\ up[k] # <<>>
  BY EmptySeq DEF Amounts

LEMMA Present == AskedInv => \A c \in Clients : cpc[c] # "gone" => c \notin closed
  BY DEF AskedInv

\* u holds what follows the first n of the first w of q.
Rest(u, q, n, w) == Len(u) = w - n /\ \A i \in 1..w - n : u[i] = q[n + i]

\* What is left of a connection of which one chunk is read.
LEMMA LeftByOne ==
    ASSUME NEW S, NEW q \in Seq(S), q # <<>>
    PROVE  /\ Len(SubSeq(q, 2, Len(q))) = Len(q) - 1
           /\ \A i \in 1..Len(q) - 1 : SubSeq(q, 2, Len(q))[i] = q[1 + i]
<1>1. Len(q) \in Nat \ {0}
  BY HeadFirst
<1>2. 1 \in 0..Len(q) /\ 1 + 1 = 2
  BY <1>1
<1>3. /\ Len(SubSeq(q, 1 + 1, Len(q))) = Len(q) - 1
      /\ \A i \in 1..Len(q) - 1 : SubSeq(q, 1 + 1, Len(q))[i] = q[1 + i]
  BY <1>2, LeftOver
<1> QED BY <1>2, <1>3

LEMMA NextPlace ==
    ASSUME NEW w \in 0..4, NEW n \in 0..3, NEW i \in 1..w - (n + 1)
    PROVE  i \in 1..(w - n) - 1 /\ 1 + i \in 1..w - n /\ n + (1 + i) = (n + 1) + i
  OBVIOUS

\* The thread takes the next chunk of the stream.
LEMMA TalkRead ==
    ASSUME TypeOK, NEW c \in Clients, NEW s \in Servers, NEW x, NEW w \in 0..4,
           Talk(c, s, x, w), NEW k, k = <<c, s>>, NEW q, q = PutStream(c, s, x),
           NEW n \in 0..3, n = ReadBy(k), up[k] # <<>>, Consume(k, 1)
    PROVE  /\ n < w /\ Head(up[k]) = q[n + 1] /\ SubSeq(up[k], 1, 1) = <<q[n + 1]>>
           /\ Rest(up'[k], q, n + 1, w)
<1>1. k \in Conns /\ up[k] \in Seq(Chunk) /\ n \in Nat /\ w \in Nat
  BY DEF Conns, TypeOK, WireTypeOK
<1>2. up'[k] = SubSeq(up[k], 2, Len(up[k]))
  BY <1>1 DEF Consume, TypeOK, WireTypeOK
<1>3. Len(up[k]) = w - n /\ \A i \in 1..w - n : up[k][i] = q[n + i]
  BY DEF Talk
<1> DEFINE u == up[k]
<1>4. u \in Seq(Chunk) /\ u # <<>> /\ Len(u) = w - n /\ \A i \in 1..w - n : u[i] = q[n + i]
  BY <1>1, <1>3
<1> HIDE DEF u
<1>5. Len(u) \in Nat \ {0} /\ Head(u) = u[1]
  BY <1>4, HeadFirst
<1>6. n < w /\ u[1] = q[n + 1]
  BY <1>4, <1>5
<1>7. /\ Len(SubSeq(u, 2, Len(u))) = Len(u) - 1
      /\ \A i \in 1..Len(u) - 1 : SubSeq(u, 2, Len(u))[i] = u[1 + i]
  BY <1>4, LeftByOne
<1>8. ASSUME NEW i \in 1..w - (n + 1) PROVE SubSeq(u, 2, Len(u))[i] = q[(n + 1) + i]
  <2>1. i \in 1..Len(u) - 1 /\ 1 + i \in 1..w - n /\ n + (1 + i) = (n + 1) + i
    <3>1. Len(u) = w - n
      BY <1>4
    <3> QED BY <3>1, NextPlace
  <2>2. SubSeq(u, 2, Len(u))[i] = u[1 + i]
    BY <1>7, <2>1
  <2>3. u[1 + i] = q[n + (1 + i)]
    BY <1>4, <2>1
  <2> QED BY <2>1, <2>2, <2>3
<1>9. SubSeq(u, 1, 1) = <<u[1]>>
  <2>1. 1 \in 0..Len(u)
    BY <1>5
  <2>2. /\ SubSeq(u, 1, 1) \in Seq(Chunk) /\ Len(SubSeq(u, 1, 1)) = 1
        /\ \A i \in 1..1 : SubSeq(u, 1, 1)[i] = u[i]
    BY <1>4, <2>1, FirstOnes
  <2> DEFINE t == SubSeq(u, 1, 1)
  <2>3. t \in Seq(Chunk) /\ Len(t) = 1 /\ t[1] = u[1]
    BY <2>2
  <2> HIDE DEF t
  <2>4. t = <<u[1]>>
    BY <2>3
  <2> QED BY <2>4 DEF t
<1>10. Len(SubSeq(u, 2, Len(u))) = w - (n + 1)
  BY <1>4, <1>5, <1>7
<1>11. up'[k] = SubSeq(u, 2, Len(u))
  BY <1>2 DEF u
<1>12. Head(u) = q[n + 1] /\ SubSeq(u, 1, 1) = <<q[n + 1]>>
  BY <1>5, <1>6, <1>9
<1>13. Head(up[k]) = q[n + 1] /\ SubSeq(up[k], 1, 1) = <<q[n + 1]>>
  BY <1>12 DEF u
<1>14. Rest(up'[k], q, n + 1, w)
  BY <1>8, <1>10, <1>11 DEF Rest
<1> QED BY <1>6, <1>13, <1>14

\* A part over a file that is empty or has that part already.
LEMMA OverPart ==
    ASSUME NEW e, NEW old \in {<<>>, <<e>>}
    PROVE  Over(<<e>>, old) = <<e>>
<1>1. SubSeq(old, 2, Len(old)) = <<>>
  <2>1. CASE old = <<>>
    <3>1. Len(old) = 0
      BY <2>1
    <3> QED BY <3>1
  <2>2. CASE old = <<e>>
    <3>1. Len(old) = 1
      BY <2>2
    <3> QED BY <3>1
  <2> QED BY <2>1, <2>2
<1>2. <<e>> \o <<>> = <<e>>
  <2>1. <<e>> \in Seq({e})
    OBVIOUS
  <2> QED BY <2>1, ConcatEmptySeq
<1>3. Len(<<e>>) + 1 = 2
  OBVIOUS
<1> QED BY <1>1, <1>2, <1>3 DEF Over

\* The reads of c's thread at s.
LEMMA TalkReads ==
    ASSUME TypeOK, AskedInv, ~Coalesce, NEW c \in Trusted, c \in Clients, cpc[c] # "gone",
           cmd[c] # NoReq, cmd[c].op = "PUT",
           NEW s \in Servers, NEW x, NEW w \in 0..4, Talk(c, s, x, w),
           \/ ReadRequest(<<c, s>>) \/ ReadCred(<<c, s>>)
           \/ ReadPart1(<<c, s>>) \/ ReadPart2(<<c, s>>),
           cmd' = cmd
    PROVE  Talk(c, s, x, w)'
<1> DEFINE k == <<c, s>>
           q == PutStream(c, s, x)
           r == ReadBy(k)
<1>0. /\ k \in Conns /\ up[k] \in Seq(Chunk) /\ q' = q
      /\ DOMAIN tpc = Conns /\ DOMAIN req = Conns /\ DOMAIN buf = Conns /\ DOMAIN n2 = Conns
  BY DEF Conns, TypeOK, WireTypeOK, ServerTypeOK, PutStream
<1>1. q[1] = cmd[c] /\ q[2] = Cred(c) /\ q[3] = Part(c, FirstPart(x, s))
  BY DEF PutStream
<1>2. k[1] = c /\ c \notin closed
  BY Present
<1>3. \A n \in Amounts(k) : n = 1 /\ up[k] # <<>>
  BY <1>0, <1>2, OneAmount
<1>4. Len(up[k]) = w - r /\ (r > 0 => req[k] = cmd[c]) /\ (r > 2 => buf[k] = <<Part(c, FirstPart(x, s))>>)
  BY DEF Talk
<1>q. k = <<c, s>> /\ q = PutStream(c, s, x) /\ c \in Clients
  OBVIOUS
<1>5. ASSUME NEW n \in 0..3, r = n, up[k] # <<>>, Consume(k, 1)
      PROVE  /\ n < w /\ Head(up[k]) = q[n + 1] /\ SubSeq(up[k], 1, 1) = <<q[n + 1]>>
             /\ Rest(up'[k], q, n + 1, w)
  <2>1. n = ReadBy(k)
    BY <1>5
  <2> HIDE DEF q, r
  <2>2. k = <<c, s>> /\ q = PutStream(c, s, x) /\ Talk(c, s, x, w) /\ c \in Clients
    BY <1>q
  <2>3. w \in 0..4
    OBVIOUS
  <2> HIDE DEF k
  <2>4. n < w /\ Head(up[k]) = q[n + 1]
    BY <1>5, <2>1, <2>2, <2>3, TalkRead
  <2>5. SubSeq(up[k], 1, 1) = <<q[n + 1]>>
    BY <1>5, <2>1, <2>2, <2>3, TalkRead
  <2>6. Rest(up'[k], q, n + 1, w)
    BY <1>5, <2>1, <2>2, <2>3, TalkRead
  <2> QED BY <2>4, <2>5, <2>6
<1>c. Cred(c).kind = "cred" /\ Cred(c).ok /\ Cred(c).kind # "blank"
  BY DEF Cred
<1>t. ASSUME NEW n \in 1..4, ReadBy(k)' = n, n <= w, Rest(up'[k], q, n, w), req'[k] = cmd[c],
             n > 2 => buf'[k] = <<Part(c, FirstPart(x, s))>>,
             n = 4 => Storing(c, s, x)'
      PROVE  Talk(c, s, x, w)'
  BY <1>0, <1>t DEF Rest, Talk
<1> HIDE DEF q, r
<1>6. CASE ReadRequest(k)
  <2>1. tpc[k] = "request" /\ r = 0
    BY <1>6 DEF ReadRequest, At, ReadBy, r
  <2>2. /\ up[k] # <<>> /\ Consume(k, 1) /\ tpc' = [tpc EXCEPT ![k] = "cred"]
        /\ req' = [req EXCEPT ![k] = Head(up[k])]
    BY <1>3, <1>6 DEF ReadRequest, Goto
  <2>3. tpc'[k] = "cred" /\ req'[k] = Head(up[k])
    BY <1>0, <2>2
  <2>4. ReadBy(k)' = 1
    BY <2>3 DEF ReadBy
  <2>5. /\ 0 < w /\ Head(up[k]) = q[1] /\ Rest(up'[k], q, 1, w)
    BY <1>5, <2>1, <2>2
  <2> QED BY <1>1, <1>t, <2>3, <2>4, <2>5
<1>7. CASE ReadCred(k)
  <2>1. tpc[k] = "cred" /\ r = 1
    BY <1>7 DEF ReadCred, At, ReadBy, r
  <2>2. /\ up[k] # <<>> /\ Consume(k, 1) /\ req' = req
        /\ \/ MayPass(k, 1) /\ Goto(k, IF req[k].op = "LIST" THEN "list" ELSE "part1")
           \/ ~MustPass(k, 1)
    BY <1>3, <1>7 DEF ReadCred
  <2>3. 1 < w /\ Head(up[k]) = q[2] /\ Rest(up'[k], q, 2, w)
    BY <1>5, <2>1, <2>2
  <2>4. MustPass(k, 1)
    <3>1. Head(up[k]) = up[k][1]
      BY <1>0, <2>2, HeadFirst
    <3> QED BY <1>1, <1>c, <2>3, <3>1 DEF MustPass, First, Valid
  <2>5. req[k] = cmd[c] /\ req[k].op # "LIST"
    BY <1>4, <2>1
  <2>6. tpc'[k] = "part1"
    BY <1>0, <2>2, <2>4, <2>5 DEF Goto
  <2>7. ReadBy(k)' = 2
    BY <2>6 DEF ReadBy
  <2>8. req'[k] = cmd[c]
    BY <2>2, <2>5
  <2> QED BY <1>t, <2>3, <2>7, <2>8
<1>8. CASE ReadPart1(k)
  <2>1. tpc[k] = "part1" /\ r = 2
    BY <1>8 DEF ReadPart1, At, ReadBy, r
  <2>2. /\ up[k] # <<>> /\ Consume(k, 1) /\ req' = req /\ tpc' = [tpc EXCEPT ![k] = "part2"]
        /\ buf' = [buf EXCEPT ![k] = SubSeq(up[k], 1, 1)]
    BY <1>3, <1>8 DEF ReadPart1, Goto
  <2>3. tpc'[k] = "part2" /\ buf'[k] = SubSeq(up[k], 1, 1)
    BY <1>0, <2>2
  <2>4. ReadBy(k)' = 3
    BY <2>3 DEF ReadBy
  <2>5. /\ 2 < w /\ SubSeq(up[k], 1, 1) = <<q[3]>> /\ Rest(up'[k], q, 3, w)
    BY <1>5, <2>1, <2>2
  <2>6. req'[k] = cmd[c]
    <3>1. req[k] = cmd[c]
      BY <1>4, <2>1
    <3> QED BY <2>2, <3>1
  <2>7. buf'[k] = <<Part(c, FirstPart(x, s))>>
    BY <1>1, <2>3, <2>5
  <2> QED BY <1>t, <2>4, <2>5, <2>6, <2>7
<1>9. CASE ReadPart2(k)
  <2>1. tpc[k] = "part2" /\ r = 3
    BY <1>9 DEF ReadPart2, At, ReadBy, r
  <2>2. /\ up[k] # <<>> /\ Consume(k, 1) /\ req' = req /\ buf' = buf
        /\ tpc' = [tpc EXCEPT ![k] = "open1"] /\ n2' = [n2 EXCEPT ![k] = 1]
    BY <1>3, <1>9 DEF ReadPart2, Goto
  <2>3. tpc'[k] = "open1" /\ n2'[k] = 1
    BY <1>0, <2>2
  <2>4. ReadBy(k)' = 4
    BY <2>3 DEF ReadBy
  <2>5. /\ 3 < w /\ Rest(up'[k], q, 4, w)
    BY <1>5, <2>1, <2>2
  <2>6. req'[k] = cmd[c] /\ buf'[k] = <<Part(c, FirstPart(x, s))>>
    <3>1. req[k] = cmd[c]
      BY <1>4, <2>1
    <3>2. buf[k] = <<Part(c, FirstPart(x, s))>>
      BY <1>4, <2>1
    <3> QED BY <2>2, <3>1, <3>2
  <2>7. Storing(c, s, x)'
    BY <2>3 DEF Storing
  <2> QED BY <1>t, <2>4, <2>5, <2>6, <2>7
<1> QED BY <1>6, <1>7, <1>8, <1>9

\* The files that c's thread at s writes.
LEMMA TalkStores ==
    ASSUME TypeOK, NEW c \in Clients, cmd[c] # NoReq,
           NEW s \in Servers, NEW x, NEW w \in 0..4, Talk(c, s, x, w),
           Open1(<<c, s>>) \/ Open2(<<c, s>>) \/ Close2(<<c, s>>) \/ Close1(<<c, s>>),
           cmd' = cmd
    PROVE  Talk(c, s, x, w)'
<1> DEFINE k == <<c, s>>
           f == cmd[c].name
           g == Second[cmd[c].name]
           e == Part(c, FirstPart(x, s))
<1>0. /\ k \in Conns /\ k[1] = c /\ k[2] = s /\ DOMAIN tpc = Conns
      /\ f \in Files /\ g \in Files
      /\ DOMAIN store = Servers /\ DOMAIN store[s] = Files
  <2>1. cmd[c] \in Requests
    BY DEF TypeOK, ClientTypeOK
  <2> QED BY <2>1, FileNames DEF Conns, TypeOK, ServerTypeOK
<1>1. /\ tpc[k] \in {"open1", "open2", "close2", "close1"}
      /\ up' = up /\ req' = req /\ buf' = buf /\ n2' = n2
  BY DEF Open1, Open2, Close2, Close1, Truncate, Flush, At, wireVars
<1>2. ReadBy(k) = 4
  BY <1>1 DEF ReadBy
<1>3. /\ 4 <= w /\ req[k] = cmd[c] /\ buf[k] = <<e>> /\ Storing(c, s, x)
      /\ Rest(up[k], PutStream(c, s, x), 4, w)
  BY <1>2 DEF Talk, Rest
<1>4. n2[k] = 1
  BY <1>3 DEF Storing
<1>5. Contents1(k) = <<e>> /\ Contents2(k) = <<e>>
  <2> HIDE DEF e, k
  <2>1. Contents1(k) = <<e>>
    BY <1>3 DEF Contents1
  <2>2. Contents2(k) = [i \in 1..1 |-> IF i <= Len(<<e>>) THEN <<e>>[i] ELSE Zeros]
    BY <1>3, <1>4 DEF Contents2
  <2>3. [i \in 1..1 |-> IF i <= Len(<<e>>) THEN <<e>>[i] ELSE Zeros] = <<e>>
    OBVIOUS
  <2> QED BY <2>1, <2>2, <2>3
<1>6. Over(<<e>>, <<>>) = <<e>> /\ Over(<<e>>, <<e>>) = <<e>>
  BY OverPart
<1>t. ASSUME ReadBy(k)' = 4, Storing(c, s, x)' PROVE Talk(c, s, x, w)'
  BY <1>1, <1>3, <1>t DEF Talk, Rest, PutStream
<1>p. Part(c, FirstPart(x, s)) = e /\ cmd[c].name = f /\ Second[cmd[c].name] = g /\ <<c, s>> = k
  OBVIOUS
<1>q. /\ tpc[k] \in {"open2", "close2"} => store[s][f] = <<>>
      /\ tpc[k] = "close2" => store[s][g] = <<>>
      /\ tpc[k] = "close1" => store[s][f] \in {<<>>, <<e>>} /\ store[s][g] = <<e>>
  BY <1>3 DEF Storing
<1>s. ASSUME tpc'[k] \in {"open2", "close2", "close1", "done"},
             tpc'[k] \in {"open2", "close2"} => store'[s][f] = <<>>,
             tpc'[k] = "close2" => store'[s][g] = <<>>,
             tpc'[k] = "close1" => store'[s][f] \in {<<>>, <<e>>} /\ store'[s][g] = <<e>>,
             tpc'[k] = "done" => store'[s][f] = <<e>> /\ store'[s][g] = <<e>>
      PROVE  Talk(c, s, x, w)'
  <2>1. ReadBy(k)' = 4
    BY <1>s DEF ReadBy
  <2>2. n2'[k] = 1
    BY <1>1, <1>4
  <2>3. Storing(c, s, x)'
    BY <1>s, <2>2 DEF Storing
  <2> QED BY <1>t, <2>1, <2>3
<1> HIDE DEF f, g, e, k
<1>7. CASE Open1(k)
  <2>1. store' = [store EXCEPT ![s][f] = <<>>] /\ tpc' = [tpc EXCEPT ![k] = "open2"]
    BY <1>0, <1>3, <1>7 DEF Open1, Truncate, Goto, f
  <2>2. store'[s][f] = <<>> /\ tpc'[k] = "open2"
    BY <1>0, <2>1
  <2> QED BY <1>s, <2>2
<1>8. CASE Open2(k)
  <2>1. /\ store' = [store EXCEPT ![s][g] = <<>>] /\ tpc' = [tpc EXCEPT ![k] = "close2"]
        /\ tpc[k] = "open2"
    BY <1>0, <1>3, <1>8 DEF Open2, Truncate, Goto, At, g
  <2>2. store'[s][f] = <<>> /\ store'[s][g] = <<>> /\ tpc'[k] = "close2"
    BY <1>0, <1>q, <2>1
  <2> QED BY <1>s, <2>2
<1>9. CASE Close2(k)
  <2>1. /\ store' = [store EXCEPT ![s][g] = Over(<<e>>, @)] /\ tpc' = [tpc EXCEPT ![k] = "close1"]
        /\ tpc[k] = "close2"
    BY <1>0, <1>3, <1>5, <1>9 DEF Close2, Flush, Goto, At, g
  <2>2. store[s][f] = <<>> /\ store[s][g] = <<>>
    BY <1>q, <2>1
  <2>3. store'[s][g] = <<e>> /\ (store'[s][f] = <<>> \/ store'[s][f] = <<e>>) /\ tpc'[k] = "close1"
    BY <1>0, <1>6, <2>1, <2>2
  <2> QED BY <1>s, <2>3
<1>10. CASE Close1(k)
  <2>1. /\ store' = [store EXCEPT ![s][f] = Over(<<e>>, @)] /\ tpc' = [tpc EXCEPT ![k] = "done"]
        /\ tpc[k] = "close1"
    BY <1>0, <1>3, <1>5, <1>10 DEF Close1, Flush, Goto, At, f
  <2>2. (store[s][f] = <<>> \/ store[s][f] = <<e>>) /\ store[s][g] = <<e>>
    BY <1>q, <2>1
  <2>3. store'[s][f] = <<e>> /\ store'[s][g] = <<e>> /\ tpc'[k] = "done"
    BY <1>0, <1>6, <2>1, <2>2
  <2> QED BY <1>s, <2>3
<1>11. Open1(k) \/ Open2(k) \/ Close2(k) \/ Close1(k)
  BY DEF k
<1> QED BY <1>7, <1>8, <1>9, <1>10, <1>11

\* No thread of c does anything else: it lists nothing and takes nothing for a
\* request that is none.
LEMMA TalkStep ==
    ASSUME TypeOK, AskedInv, ~Coalesce, NEW c \in Trusted, c \in Clients, cpc[c] # "gone",
           cmd[c] # NoReq, cmd[c].op = "PUT",
           NEW s \in Servers, NEW x, NEW w \in 0..4, Talk(c, s, x, w),
           NEW k \in Conns, Thread(k), s \in alive', k[1] = c \/ store' = store
    PROVE  Talk(c, s, x, w)'
<1>1. cmd' = cmd
  BY DEF Thread, clientVars
<1>2. CASE k # <<c, s>>
  <2>1. <<c, s>> \in Conns
    BY DEF Conns
  <2>2. ConnVars(<<c, s>>)' = ConnVars(<<c, s>>)
    BY <1>2, <2>1, ThreadScope
  <2>3. store'[s] = store[s]
    <3>1. CASE k[2] # s
      BY <3>1, ThreadScope
    <3>2. CASE k[2] = s
      BY <1>2, <3>2, ConnServer
    <3> QED BY <3>1, <3>2
  <2> QED BY <1>1, <2>2, <2>3, TalkUntouched
<1>3. CASE k = <<c, s>>
  <2>1. CASE ReadRequest(k) \/ ReadCred(k) \/ ReadPart1(k) \/ ReadPart2(k)
    BY <1>1, <1>3, <2>1, TalkReads
  <2>2. CASE Open1(k) \/ Open2(k) \/ Close2(k) \/ Close1(k)
    BY <1>1, <1>3, <2>2, TalkStores
  <2>3. CASE SendListing(k) \/ ListFails(k)
    <3>1. tpc[k] = "list"
      BY <2>3 DEF SendListing, Listed, ListFails, At
    <3>2. ReadBy(k) = 4
      BY <3>1 DEF ReadBy
    <3>3. Storing(c, s, x)
      BY <1>3, <3>2 DEF Talk
    <3> QED BY <1>3, <3>1, <3>3 DEF Storing
  <2>4. CASE RequestExit(k) \/ CredExit(k) \/ OpenFails(k)
    <3>1. alive' = alive \ {k[2]}
      BY <2>4 DEF RequestExit, CredExit, OpenFails, Ends
    <3> QED BY <1>3, <3>1
  <2>5. CASE RequestLeftover(k)
    <3>1. 0 \in Amounts(k)
      BY <2>5 DEF RequestLeftover
    <3>2. c \in closed
      BY <1>3, <3>1 DEF Amounts
    <3> QED BY <3>2, Present
  <2>6. CASE Accept(k)
    <3>1. k \in Conns /\ DOMAIN tpc = Conns
      BY DEF TypeOK, ServerTypeOK
    <3>2. tpc[k] = "queued" /\ tpc'[k] = "request" /\ UNCHANGED <<up, req, buf, n2, store>>
      BY <2>6, <3>1 DEF Accept, At, Goto, wireVars
    <3>3. ReadBy(k) = 0 /\ ReadBy(k)' = 0
      BY <3>2 DEF ReadBy
    <3>4. PutStream(c, s, x)' = PutStream(c, s, x)
      BY <1>1 DEF PutStream
    <3> QED BY <1>3, <3>2, <3>3, <3>4 DEF Talk
  <2> QED BY <2>1, <2>2, <2>3, <2>4, <2>5, <2>6 DEF Thread, ThreadNext
<1> QED BY <1>2, <1>3
-----------------------------------------------------------------------------
\* A step of a thread, for every client.

\* What NeverPuts says of one connection.
Calm(k) == /\ \A i \in 1..Len(up[k]) : ~IsPut(up[k][i])
           /\ tpc[k] \in {"none", "queued", "request", "cred", "list", "done"}
           /\ tpc[k] = "cred" => ~IsPut(req[k])

\* A thread of a client that types no PUT reads no PUT, and writes no file.
LEMMA ThreadCalm ==
    ASSUME TypeOK, NEW k \in Conns, Thread(k), closed = {}, Calm(k)
    PROVE  Calm(k)'
<1>2. /\ up[k] \in Seq(Chunk)
      /\ DOMAIN tpc = Conns /\ DOMAIN req = Conns /\ DOMAIN up = Conns
      /\ tpc[k] \in {"none", "queued", "request", "cred", "list", "done"}
      /\ \A i \in 1..Len(up[k]) : ~IsPut(up[k][i])
      /\ tpc[k] = "cred" => ~IsPut(req[k])
  BY DEF TypeOK, WireTypeOK, ServerTypeOK, Calm
<1>3. ASSUME NEW n \in Amounts(k), Consume(k, n)
      PROVE  \A i \in 1..Len(up'[k]) : ~IsPut(up'[k][i])
  <2>1. n \in 0..Len(up[k]) /\ up'[k] = SubSeq(up[k], n + 1, Len(up[k]))
    BY <1>2, <1>3, AmountsBound DEF Consume
  <2>2. /\ Len(up'[k]) = Len(up[k]) - n
        /\ \A i \in 1..Len(up[k]) - n : up'[k][i] = up[k][n + i]
    BY <1>2, <2>1, LeftOver
  <2> TAKE i \in 1..Len(up'[k])
  <2>3. n + i \in 1..Len(up[k]) /\ i \in 1..Len(up[k]) - n
    BY <1>2, <2>1, <2>2
  <2> QED BY <1>2, <2>2, <2>3
<1>4. CASE ReadRequest(k)
  <2>1. PICK n \in Amounts(k) \ {0} : Consume(k, n) /\ req' = [req EXCEPT ![k] = Head(up[k])]
    BY <1>4 DEF ReadRequest
  <2>2. tpc' = [tpc EXCEPT ![k] = "cred"]
    BY <1>4 DEF ReadRequest, Goto
  <2>3. up[k] # <<>>
    BY <1>2, <2>1, EmptySeq DEF Amounts
  <2>4. Head(up[k]) = up[k][1] /\ 1 \in 1..Len(up[k])
    BY <1>2, <2>3, HeadFirst
  <2>5. ~IsPut(req'[k]) /\ tpc'[k] = "cred"
    BY <1>2, <2>1, <2>2, <2>4
  <2> QED BY <1>3, <2>1, <2>5 DEF Calm
<1>5. CASE ReadCred(k)
  <2>1. PICK n \in Amounts(k) : /\ Consume(k, n)
                                /\ \/ Goto(k, IF req[k].op = "LIST" THEN "list" ELSE "part1")
                                   \/ Goto(k, "done")
    BY <1>5 DEF ReadCred
  <2>2. tpc[k] = "cred" /\ req[k] # NoReq
    BY <1>5 DEF ReadCred, At, TypeOK, ServerTypeOK
  <2>3. req[k] \in Requests
    BY <2>2 DEF TypeOK, ServerTypeOK
  <2>4. req[k].op = "LIST"
    BY <1>2, <2>2, <2>3 DEF IsPut, Requests, Req
  <2>5. tpc'[k] \in {"list", "done"}
    BY <1>2, <2>1, <2>4 DEF Goto
  <2> QED BY <1>3, <2>1, <2>5 DEF Calm
<1>6. CASE RequestLeftover(k)
  BY <1>6 DEF RequestLeftover, Amounts
<1>7. CASE SendListing(k) \/ ListFails(k) \/ Accept(k)
  <2>1. /\ up' = up
        /\ \E pc \in {"done", "request"} : tpc' = tpc \/ tpc' = [tpc EXCEPT ![k] = pc]
        /\ tpc[k] # "cred"
    BY <1>7 DEF SendListing, Listed, ListFails, Accept, At, Goto, wireVars
  <2> QED BY <1>2, <2>1 DEF Calm
<1>8. CASE RequestExit(k) \/ CredExit(k)
  BY <1>2, <1>8 DEF RequestExit, CredExit, serverVars, Calm
<1>9. CASE \/ ReadPart1(k) \/ ReadPart2(k) \/ OpenFails(k)
           \/ Open1(k) \/ Open2(k) \/ Close2(k) \/ Close1(k)
  BY <1>2, <1>9 DEF ReadPart1, ReadPart2, Open1, Open2, OpenFails, Opens, Close2, Close1,
                    Truncate, Flush, At
<1> QED BY <1>4, <1>5, <1>6, <1>7, <1>8, <1>9 DEF Thread, ThreadNext

LEMMA CalmConns ==
    ASSUME NEW c \in Clients
    PROVE  NeverPuts(c) <=> /\ cpc[c] # "file"
                            /\ cmd[c] # NoReq => ~IsPut(cmd[c])
                            /\ \A i \in 1..Len(out[c]) : ~IsPut(out[c][i][2])
                            /\ \A s \in Servers : Calm(<<c, s>>)
  BY DEF NeverPuts, Calm

LEMMA ThreadNever ==
    ASSUME TypeOK, NEW c \in Clients, closed = {}, NeverPuts(c), NEW k \in Conns, k[1] = c, Thread(k)
    PROVE  NeverPuts(c)'
<1>1. cpc' = cpc /\ cmd' = cmd /\ out' = out
  BY DEF Thread, clientVars
<1>3. ASSUME NEW s \in Servers PROVE Calm(<<c, s>>)'
  <2>1. <<c, s>> \in Conns /\ Calm(<<c, s>>)
    BY CalmConns DEF Conns
  <2>2. CASE k = <<c, s>>
    BY <2>1, <2>2, ThreadCalm
  <2>3. CASE k # <<c, s>>
    <3>1. ConnVars(<<c, s>>)' = ConnVars(<<c, s>>)
      BY <2>1, <2>3, ThreadScope
    <3> QED BY <2>1, <3>1 DEF ConnVars, Calm
  <2> QED BY <2>2, <2>3
<1>4. /\ cpc[c] # "file"
      /\ cmd[c] # NoReq => ~IsPut(cmd[c])
      /\ \A i \in 1..Len(out[c]) : ~IsPut(out[c][i][2])
  BY CalmConns
<1> QED BY <1>1, <1>3, <1>4 DEF NeverPuts, Calm

\* Nothing has been sent on a fresh connection: its thread waits.
LEMMA ThreadFresh ==
    ASSUME TypeOK, AskedInv, NEW c \in Clients, Fresh(c), NEW k \in Conns, k[1] = c, Thread(k)
    PROVE  Fresh(c)'
<1>1. cpc' = cpc /\ again' = again /\ asked' = asked /\ sock' = sock
  BY DEF Thread, clientVars
<1>2. SUFFICES ASSUME cpc[c] # "gone", NEW s \in sock[c] \cap alive'
             PROVE  tpc'[<<c, s>>] \in {"queued", "request"}
  BY <1>1 DEF Fresh
<1>3. s \in Servers /\ s \in alive /\ <<c, s>> \in Conns
  BY ThreadScope DEF TypeOK, ClientTypeOK, Conns
<1>4. tpc[<<c, s>>] \in {"queued", "request"} /\ asked[c] = {}
  BY <1>2, <1>3 DEF Fresh
<1>5. CASE k # <<c, s>>
  <2>1. ConnVars(<<c, s>>)' = ConnVars(<<c, s>>)
    BY <1>3, <1>5, ThreadScope
  <2> QED BY <1>4, <2>1 DEF ConnVars
<1>6. CASE k = <<c, s>>
  <2>1. up[k] = <<>> /\ c \notin closed
    BY <1>2, <1>4, <1>6, Present DEF AskedInv, ConnAsked
  <2>2. Amounts(k) = {}
    <3>1. Len(up[k]) = 0
      BY <2>1
    <3> QED BY <2>1, <3>1 DEF Amounts
  <2>3. ~ReadRequest(k) /\ ~RequestExit(k) /\ ~RequestLeftover(k)
    BY <2>1, <2>2 DEF ReadRequest, RequestExit, RequestLeftover, Invalid
  <2>4. Accept(k)
    BY <1>4, <1>6, <2>3 DEF Thread, ThreadNext, ReadCred, CredExit, SendListing, Listed, ListFails,
                            ReadPart1, ReadPart2, Open1, Open2, OpenFails, Opens, Close2, Close1,
                            Truncate, Flush, At
  <2>5. tpc' = [tpc EXCEPT ![k] = "request"] /\ DOMAIN tpc = Conns
    BY <2>4 DEF Accept, Goto, TypeOK, ServerTypeOK
  <2> QED BY <1>6, <2>5
<1> QED BY <1>5, <1>6

\* Once anybody has left, the client that puts is gone, and there is nothing to show.
LEMMA PutterGone ==
    ASSUME AskedInv, PutInv, OneUploader, closed # {}, NEW c \in Clients, "PUT" \in Typed[c],
           closed \subseteq Clients
    PROVE  cpc[c] = "gone" /\ c \in closed
  BY DEF AskedInv, PutInv, OneUploader

LEMMA ThreadPut ==
    ASSUME TypeOK, AskedInv, PutInv, PutPremise, NEW k \in Conns, Thread(k)
    PROVE  PutInv'
<1>a. OneUploader /\ ~Coalesce /\ closed \subseteq Clients /\ closed' = closed
  BY ThreadScope DEF PutPremise, TypeOK, WireTypeOK
<1> SUFFICES ASSUME NEW c \in Clients PROVE PutState(c)'
  BY <1>a DEF PutInv
<1>0. /\ PutState(c) /\ OwnVars(c)' = OwnVars(c) /\ alive' \subseteq alive
      /\ k[1] \in Clients /\ k[2] \in Servers /\ k = <<k[1], k[2]>> /\ PutState(k[1])
  BY ThreadScope, ConnServer DEF PutInv
\* Only the client that puts has a thread that writes files, while it is there.
<1>1. "PUT" \in Typed[c] /\ closed = {} /\ k[1] # c => store' = store
  <2> HAVE "PUT" \in Typed[c] /\ closed = {} /\ k[1] # c
  <2>1. "PUT" \notin Typed[k[1]]
    BY <1>0, <1>a DEF OneUploader
  <2>2. NeverPuts(k[1])
    BY <1>0, <2>1 DEF PutState
  <2>3. tpc[k] \in {"none", "queued", "request", "cred", "list", "done"}
    BY <1>0, <2>2 DEF NeverPuts
  <2> QED BY <2>3, ThreadScope
<1>2. CASE k[1] # c
  <2>1. \A s \in Servers : ConnVars(<<c, s>>)' = ConnVars(<<c, s>>)
    BY <1>2, ThreadScope DEF Conns
  <2>2. closed # {} => "PUT" \notin Typed[c] \/ cpc[c] = "gone"
    BY <1>a, PutterGone
  <2> QED BY <1>0, <1>1, <1>2, <1>a, <2>1, <2>2, Untouched
<1>3. CASE k[1] = c
  <2>1. cmd'[c] = cmd[c] /\ cmds'[c] = cmds[c] /\ cpc'[c] = cpc[c]
    BY <1>0 DEF OwnVars
  <2>2. "PUT" \notin Typed[c] /\ closed = {} => NeverPuts(c)'
    BY <1>0, <1>3, ThreadNever DEF PutState
  <2>3. cmds[c] = 0 => Fresh(c)'
    BY <1>0, <1>3, ThreadFresh DEF PutState
  <2>4. ASSUME c \in Trusted, cmds[c] = 1, cmd[c].op = "PUT", cpc[c] # "gone"
        PROVE  \E x \in Hashes : Putting(c, x)'
    <3>1. PICK x \in Hashes : Putting(c, x)
      BY <1>0, <2>4 DEF PutState
    <3>2. sock[c] \subseteq Servers /\ cmd[c] # NoReq
      BY <1>0, <2>4 DEF TypeOK, ClientTypeOK, PutState
    <3>3. ASSUME NEW s \in sock[c] \cap alive', NEW w \in 0..4, Talk(c, s, x, w)
          PROVE  Talk(c, s, x, w)'
      <4>1. s \in Servers /\ s \in alive'
        BY <3>2
      <4> QED BY <1>3, <1>a, <2>4, <3>2, <3>3, <4>1, TalkStep
    <3>4. out'[c] = out[c] /\ sock'[c] = sock[c]
      BY <1>0 DEF OwnVars
    <3> QED BY <1>0, <2>1, <3>1, <3>2, <3>3, <3>4, PuttingUntouched
  <2>5. /\ sock[c] \subseteq Running /\ (cmds[c] # 0 => cmd[c] # NoReq)
        /\ cmd[c] # NoReq => cmd[c].op \in Typed[c]
    BY <1>0 DEF PutState
  <2>6. sock'[c] = sock[c]
    BY <1>0 DEF OwnVars
  <2> QED BY <1>a, <2>1, <2>2, <2>3, <2>4, <2>5, <2>6 DEF PutState
<1> QED BY <1>2, <1>3

\* Servers with descriptors enough take no step of this kind.
LEMMA StrayPut ==
    ASSUME TypeOK, AskedInv, PutPremise, NEW s \in Servers, Stray(s)
    PROVE  PutInv'
<1>1. s \notin starved /\ ~Crowded(s)
  BY NobodyStarves DEF PutPremise
<1> QED BY <1>1 DEF Stray, StrayNext, AcceptFails, Starves, StrayWrite
-----------------------------------------------------------------------------
\* A step of a client.

\* It changes the client's own variables and connections, and no file.
LEMMA ClientScope ==
    ASSUME TypeOK, NEW b \in Clients, Run(b) \/ Prompt(b)
    PROVE  /\ \A c \in Clients : c # b => OwnVars(c)' = OwnVars(c)
           /\ \A c \in Clients, s \in Servers : c # b => ConnVars(<<c, s>>)' = ConnVars(<<c, s>>)
           /\ store' = store /\ starved' = starved /\ alive' = alive /\ closed \subseteq closed'
<1> DEFINE Kept(v) == \A c \in Clients : c # b => v'[c] = v[c]
<1>0. /\ DOMAIN cpc = Clients /\ DOMAIN out = Clients /\ DOMAIN cmd = Clients
      /\ DOMAIN again = Clients /\ DOMAIN cmds = Clients /\ DOMAIN asked = Clients
      /\ DOMAIN sock = Clients /\ DOMAIN tpc = Conns /\ DOMAIN up = Conns
  BY DEF TypeOK, WireTypeOK, ServerTypeOK, ClientTypeOK
<1>1. /\ cpc' = cpc \/ \E v : cpc' = [cpc EXCEPT ![b] = v]
      /\ out' = out \/ \E v : out' = [out EXCEPT ![b] = v]
      /\ cmd' = cmd \/ \E v : cmd' = [cmd EXCEPT ![b] = v]
      /\ again' = again \/ \E v : again' = [again EXCEPT ![b] = v]
      /\ cmds' = cmds \/ \E v : cmds' = [cmds EXCEPT ![b] = v]
      /\ asked' = asked \/ \E v : asked' = [asked EXCEPT ![b] = v]
      /\ sock' = sock \/ \E v : sock' = [sock EXCEPT ![b] = v]
      /\ tpc' = tpc \/ \E t, v : tpc' = [tpc EXCEPT ![<<b, t>>] = v]
      /\ up' = up \/ \E t, v : up' = [up EXCEPT ![<<b, t>>] = v]
      /\ req' = req /\ buf' = buf /\ n2' = n2
      /\ store' = store /\ starved' = starved /\ alive' = alive /\ closed \subseteq closed'
  <2>1. CASE Dial(b)
    BY <2>1 DEF Dial, Advance, Step, Queue, Goto, wireVars
  <2>2. CASE Send(b)
    BY <2>2 DEF Send, Step, serverVars
  <2>3. CASE SigPipe(b) \/ NoSuchFile(b) \/ TypeExit(b)
    BY <2>3 DEF SigPipe, NoSuchFile, TypeExit, Step, Leave, serverVars
  <2>4. CASE ReadListing(b)
    BY <2>4 DEF ReadListing, Advance, Step, serverVars
  <2>5. CASE OpenFile(b)
    BY <2>5 DEF OpenFile, Step, serverVars, wireVars
  <2>6. CASE \E f \in Names, op \in {"LIST", "PUT"} : Type(b, op, f)
    BY <2>6 DEF Type, Forward, Step, serverVars, wireVars
  <2>7. CASE Repeat(b) \/ Unrecognized(b)
    BY <2>7 DEF Repeat, Unrecognized, Forward, Step, serverVars, wireVars
  <2> QED BY <2>1, <2>2, <2>3, <2>4, <2>5, <2>6, <2>7 DEF Run, Prompt
<1>2. ASSUME NEW c \in Clients, c # b PROVE OwnVars(c)' = OwnVars(c)
  <2>1. cpc'[c] = cpc[c] /\ out'[c] = out[c]
    BY <1>0, <1>1, <1>2
  <2>2. cmd'[c] = cmd[c] /\ again'[c] = again[c] /\ cmds'[c] = cmds[c]
    BY <1>0, <1>1, <1>2
  <2>3. asked'[c] = asked[c] /\ sock'[c] = sock[c]
    BY <1>0, <1>1, <1>2
  <2> QED BY <2>1, <2>2, <2>3 DEF OwnVars
<1>3. ASSUME NEW c \in Clients, NEW s \in Servers, c # b
      PROVE  ConnVars(<<c, s>>)' = ConnVars(<<c, s>>)
  <2>1. <<c, s>> \in Conns /\ \A t : <<b, t>> # <<c, s>>
    BY <1>3 DEF Conns
  <2>2. tpc'[<<c, s>>] = tpc[<<c, s>>] /\ up'[<<c, s>>] = up[<<c, s>>]
    BY <1>0, <1>1, <2>1
  <2> QED BY <1>1, <2>2 DEF ConnVars
<1> QED BY <1>1, <1>2, <1>3

\* What a client writes is a line, the pair or a part.
LEMMA WriteKinds ==
    ASSUME NEW c, NEW line
    PROVE  LET q == ToAll(line) \o ToAll(Cred(c))
           IN  \A i \in 1..Len(q) : q[i][2] = line \/ q[i][2] = Cred(c)
<1> DEFINE q == ToAll(line) \o ToAll(Cred(c))
<1>1. Len(q) = 8 /\ \A s \in Servers : q[s + 1] = <<s, line>> /\ q[s + 5] = <<s, Cred(c)>>
  <2>1. LineAndPair(q, line, Cred(c))
    BY CommandWrites
  <2> QED BY <2>1 DEF LineAndPair
<1> HIDE DEF q
<1>2. ASSUME NEW i \in 1..8 PROVE q[i][2] = line \/ q[i][2] = Cred(c)
  <2>1. i - 1 \in 0..7 /\ (i - 1) + 1 = i
    OBVIOUS
  <2>2. PICK s \in Servers : i = s + 1 \/ i = s + 5
    BY <2>1, WriteServer
  <2> QED BY <1>1, <2>2
<1> QED BY <1>1, <1>2 DEF q

LEMMA PartKinds ==
    ASSUME NEW c, NEW x
    PROVE  \A i \in 1..Len(PartWrites(c, x)) : PartWrites(c, x)[i][2].kind = "part"
<1>1. ASSUME NEW i \in 1..8 PROVE PartWrites(c, x)[i][2].kind = "part"
  <2>1. i - 1 \in 0..7 /\ (i - 1) + 1 = i
    OBVIOUS
  <2>2. PICK s \in Servers : i = 2 * s + 1 \/ i = 2 * s + 2
    BY <2>1, WriteServer
  <2>3. /\ PartWrites(c, x)[2 * s + 1] = <<s, Part(c, FirstPart(x, s))>>
        /\ PartWrites(c, x)[2 * s + 2] = <<s, Part(c, SecondPart(x, s))>>
    BY PartWritesAt
  <2> QED BY <2>2, <2>3 DEF Part
<1> QED BY <1>1, PartWritesAt

\* A write of c is taken off out, and appended to its connection if there is one.
LEMMA SendEffect ==
    ASSUME TypeOK, NEW c \in Clients, Send(c)
    PROVE  LET s == Head(out[c])[1]
               ch == Head(out[c])[2]
           IN  /\ cpc[c] = "send" /\ Len(out[c]) \in Nat \ {0} /\ Head(out[c]) = out[c][1]
               /\ s \in Servers /\ ch \in Chunk
               /\ Len(out'[c]) = Len(out[c]) - 1
               /\ \A i \in 1..Len(out'[c]) : out'[c][i] = out[c][i + 1]
               /\ cpc'[c] = IF Len(out[c]) = 1 THEN AfterSend(c, ch) ELSE "send"
               /\ \A t \in Servers : up'[<<c, t>>] = IF t = s /\ t \in sock[c] \cap alive
                                                     THEN Append(up[<<c, t>>], ch) ELSE up[<<c, t>>]
               /\ tpc' = tpc /\ req' = req /\ buf' = buf /\ n2' = n2 /\ store' = store
               /\ cmd' = cmd /\ cmds' = cmds /\ sock' = sock /\ closed' = closed /\ alive' = alive
<1> DEFINE q == out[c]
           s == Head(out[c])[1]
           ch == Head(out[c])[2]
<1>1. q \in Seq(Servers \X Chunk) /\ q # <<>>
  BY DEF Send, TypeOK, ClientTypeOK
<1>2. Len(q) \in Nat \ {0} /\ Head(q) = q[1] /\ q[1] \in Servers \X Chunk
  BY <1>1, HeadFirst
<1>3. Len(Tail(q)) = Len(q) - 1 /\ \A i \in 1..Len(Tail(q)) : Tail(q)[i] = q[i + 1]
  BY <1>1, HeadTailProperties
<1>4. /\ DOMAIN cpc = Clients /\ DOMAIN out = Clients /\ DOMAIN up = Conns
      /\ \A t \in Servers : <<c, t>> \in Conns
  BY DEF TypeOK, WireTypeOK, ClientTypeOK, Conns
<1>5. s \in Servers /\ ch \in Chunk
  BY <1>2
<1>6. out'[c] = Tail(q)
  BY <1>4 DEF Send
<1>7. cpc[c] = "send" /\ cpc'[c] = IF Len(out[c]) = 1 THEN AfterSend(c, ch) ELSE "send"
  BY <1>4 DEF Send, Step
<1>8. \/ s \notin sock[c] \cap alive /\ up' = up
      \/ s \in sock[c] \cap alive /\ up' = [up EXCEPT ![<<c, s>>] = Append(@, ch)]
  BY DEF Send
<1>9. /\ tpc' = tpc /\ req' = req /\ buf' = buf /\ n2' = n2 /\ store' = store
      /\ cmd' = cmd /\ cmds' = cmds /\ sock' = sock /\ closed' = closed /\ alive' = alive
  BY DEF Send, serverVars
<1> HIDE DEF q, s, ch
<1>10. \A t \in Servers : up'[<<c, t>>] = IF t = s /\ t \in sock[c] \cap alive
                                          THEN Append(up[<<c, t>>], ch) ELSE up[<<c, t>>]
  BY <1>4, <1>8
<1> QED BY <1>2, <1>3, <1>5, <1>6, <1>7, <1>9, <1>10 DEF q, s, ch

\* A client that types no PUT makes none.
LEMMA ClientNever ==
    ASSUME TypeOK, AskedInv, NEW c \in Clients, "PUT" \notin Typed[c], NeverPuts(c),
           Run(c) \/ Prompt(c)
    PROVE  NeverPuts(c)'
<1>0. /\ DOMAIN out = Clients /\ DOMAIN cmd = Clients /\ DOMAIN tpc = Conns /\ DOMAIN cpc = Clients
      /\ \A s \in Servers : <<c, s>> \in Conns
      /\ closed \subseteq closed'
  BY ClientScope DEF TypeOK, WireTypeOK, ServerTypeOK, ClientTypeOK, Conns
<1>a. /\ cpc[c] # "file"
      /\ cmd[c] # NoReq => ~IsPut(cmd[c])
      /\ \A i \in 1..Len(out[c]) : ~IsPut(out[c][i][2])
      /\ \A s \in Servers : Calm(<<c, s>>)
  BY CalmConns
<1>b. ASSUME UNCHANGED <<up, tpc, req>> PROVE \A s \in Servers : Calm(<<c, s>>)'
  BY <1>0, <1>a, <1>b DEF Calm
<1>c. ASSUME cpc'[c] # "file",
             cmd'[c] # NoReq => ~IsPut(cmd'[c]),
             \A i \in 1..Len(out'[c]) : ~IsPut(out'[c][i][2]),
             \A s \in Servers : Calm(<<c, s>>)'
      PROVE  NeverPuts(c)'
  BY <1>c DEF NeverPuts, Calm
<1>d. ASSUME UNCHANGED <<up, tpc, req, cmd, out>>, cpc'[c] # "file" PROVE NeverPuts(c)'
  BY <1>a, <1>b, <1>c, <1>d
\* The writes of a command.
<1>e. ASSUME NEW line, Forward(c, line), ~IsPut(line), cmd'[c] # NoReq => ~IsPut(cmd'[c])
      PROVE  NeverPuts(c)'
  <2>1. /\ out' = [out EXCEPT ![c] = ToAll(line) \o ToAll(Cred(c))] /\ UNCHANGED <<up, tpc, req>>
        /\ cpc'[c] = "send"
    BY <1>0, <1>e DEF Forward, Step, serverVars, wireVars
  <2> DEFINE q == ToAll(line) \o ToAll(Cred(c))
  <2>2. \A i \in 1..Len(q) : q[i][2] = line \/ q[i][2] = Cred(c)
    BY WriteKinds
  <2>3. out'[c] = q
    BY <1>0, <2>1
  <2>4. ~IsPut(Cred(c))
    BY DEF IsPut, Cred
  <2> HIDE DEF q
  <2> QED BY <1>b, <1>c, <1>e, <2>1, <2>2, <2>3, <2>4
<1>1. CASE Dial(c)
  <2>1. /\ up' = up /\ req' = req /\ cmd' = cmd /\ out' = out
        /\ tpc' = tpc \/ \E k : tpc' = [tpc EXCEPT ![k] = "queued"]
        /\ cpc'[c] # "file"
    BY <1>0, <1>1 DEF Dial, Advance, Step, Queue, Goto, wireVars
  <2>2. ASSUME NEW s \in Servers PROVE Calm(<<c, s>>)'
    <3>1. tpc'[<<c, s>>] = tpc[<<c, s>>] \/ tpc'[<<c, s>>] = "queued"
      BY <1>0, <2>1
    <3> QED BY <1>0, <1>a, <2>1, <3>1 DEF Calm
  <2> QED BY <1>a, <1>c, <2>1, <2>2
<1>2. CASE Send(c)
  <2> DEFINE s == Head(out[c])[1]
             ch == Head(out[c])[2]
  <2>1. /\ cpc[c] = "send" /\ Len(out[c]) \in Nat \ {0} /\ Head(out[c]) = out[c][1]
        /\ s \in Servers /\ ch \in Chunk
        /\ Len(out'[c]) = Len(out[c]) - 1
        /\ \A i \in 1..Len(out'[c]) : out'[c][i] = out[c][i + 1]
        /\ \A t \in Servers : up'[<<c, t>>] = IF t = s /\ t \in sock[c] \cap alive
                                              THEN Append(up[<<c, t>>], ch) ELSE up[<<c, t>>]
        /\ tpc' = tpc /\ req' = req /\ cmd' = cmd
        /\ cpc'[c] = IF Len(out[c]) = 1 THEN AfterSend(c, ch) ELSE "send"
    BY <1>2, SendEffect
  <2>2. ~IsPut(ch)
    BY <1>a, <2>1
  <2>3. cpc'[c] # "file"
    <3>1. cmd[c] \in Requests /\ cmd[c] # NoReq
      BY <2>1 DEF TypeOK, ClientTypeOK
    <3>2. cmd[c].op = "LIST"
      BY <1>a, <3>1 DEF IsPut, Requests, Req
    <3> QED BY <2>1, <3>2 DEF AfterSend
  <2> HIDE DEF s, ch
  <2>4. ASSUME NEW t \in Servers PROVE Calm(<<c, t>>)'
    <3> DEFINE u == up[<<c, t>>]
    <3>1. u \in Seq(Chunk)
      BY <1>0 DEF TypeOK, WireTypeOK
    <3>2. Calm(<<c, t>>)
      BY <1>a
    <3>3. \A i \in 1..Len(u) : ~IsPut(u[i])
      BY <3>2 DEF Calm
    <3> HIDE DEF u
    <3>4. \A i \in 1..Len(Append(u, ch)) : ~IsPut(Append(u, ch)[i])
      BY <2>1, <2>2, <3>1, <3>3, AppendProperties
    <3>5. up'[<<c, t>>] = u \/ up'[<<c, t>>] = Append(u, ch)
      BY <2>1 DEF u
    <3>6. \A i \in 1..Len(up'[<<c, t>>]) : ~IsPut(up'[<<c, t>>][i])
      BY <3>3, <3>4, <3>5
    <3> QED BY <2>1, <3>2, <3>3, <3>6 DEF Calm
  <2>5. ASSUME NEW i \in 1..Len(out'[c]) PROVE ~IsPut(out'[c][i][2])
    <3>1. i + 1 \in 1..Len(out[c]) /\ out'[c][i] = out[c][i + 1]
      BY <2>1
    <3> QED BY <1>a, <3>1
  <2> QED BY <1>a, <1>c, <2>1, <2>3, <2>4, <2>5
<1>3. CASE SigPipe(c) \/ NoSuchFile(c) \/ TypeExit(c) \/ ReadListing(c) \/ Unrecognized(c)
  <2>1. cpc'[c] # "file"
    BY <1>0, <1>3, <1>a DEF SigPipe, NoSuchFile, TypeExit, ReadListing, Advance, Unrecognized, Step
  <2> QED BY <1>3, <1>d, <2>1
          DEF SigPipe, NoSuchFile, TypeExit, ReadListing, Unrecognized, serverVars, wireVars
<1>4. CASE OpenFile(c)
  BY <1>4, <1>a DEF OpenFile, Step
<1>5. CASE \E f \in Names, op \in {"LIST", "PUT"} : Type(c, op, f)
  <2>1. PICK f \in Names, op \in {"LIST", "PUT"} : Type(c, op, f)
    BY <1>5
  <2>2. op # "PUT" /\ Forward(c, Req(op, f)) /\ cmd'[c] = Req(op, f)
    BY <1>0, <2>1 DEF Type
  <2>3. ~IsPut(Req(op, f))
    BY <2>2 DEF IsPut, Req
  <2> QED BY <1>e, <2>2, <2>3
<1>6. CASE Repeat(c)
  <2>1. Forward(c, Blank) /\ cmd' = cmd /\ ~IsPut(Blank)
    BY <1>6 DEF Repeat, IsPut, Blank
  <2> QED BY <1>a, <1>e, <2>1
<1> QED BY <1>1, <1>2, <1>3, <1>4, <1>5, <1>6 DEF Run, Prompt

\* Before its first command a client only dials.
LEMMA ClientFresh ==
    ASSUME TypeOK, NEW c \in Clients, cmds[c] = 0 => Fresh(c), Run(c) \/ Prompt(c), cmds'[c] = 0
    PROVE  Fresh(c)'
<1>0. /\ DOMAIN cmds = Clients /\ cmds[c] \in Nat /\ DOMAIN tpc = Conns /\ DOMAIN cpc = Clients
      /\ DOMAIN sock = Clients /\ next[c] \in Servers /\ sock[c] \subseteq Servers
  BY DEF TypeOK, ServerTypeOK, ClientTypeOK
<1>1. ASSUME NEW line, Forward(c, line) PROVE FALSE
  BY <1>0, <1>1 DEF Forward
<1>2. ASSUME UNCHANGED cmds PROVE Fresh(c)
  BY <1>2
<1>3. CASE Dial(c)
  <2>1. Fresh(c) /\ cpc[c] = "dial" /\ asked' = asked /\ again' = again /\ alive' = alive
    BY <1>2, <1>3 DEF Dial, Advance, Step, wireVars
  <2>2. cpc'[c] \in {"dial", "prompt"}
    BY <1>0, <1>3 DEF Dial, Advance, Step
  <2>3. ASSUME NEW s \in sock'[c] \cap alive PROVE tpc'[<<c, s>>] \in {"queued", "request"}
    <3>1. CASE next[c] \in alive
      <4>1. /\ sock'[c] = sock[c] \cup {next[c]}
            /\ tpc' = [tpc EXCEPT ![<<c, next[c]>>] = "queued"]
        BY <1>0, <1>3, <3>1 DEF Dial, Queue, Goto
      <4>2. s \in Servers /\ <<c, s>> \in Conns
        BY <1>0, <2>3, <4>1 DEF Conns
      <4>3. CASE s = next[c]
        BY <1>0, <4>1, <4>2, <4>3
      <4>4. CASE s # next[c]
        <5>1. s \in sock[c] \cap alive /\ <<c, s>> # <<c, next[c]>>
          BY <2>3, <4>1, <4>4
        <5> QED BY <1>0, <2>1, <4>1, <4>2, <5>1 DEF Fresh
      <4> QED BY <4>3, <4>4
    <3>2. CASE next[c] \notin alive
      BY <1>3, <2>1, <2>3, <3>2 DEF Dial, Fresh
    <3> QED BY <3>1, <3>2
  <2> QED BY <2>1, <2>2, <2>3 DEF Fresh
<1>4. CASE TypeExit(c)
  <2>1. Fresh(c) /\ asked' = asked /\ again' = again
    BY <1>2, <1>4 DEF TypeExit
  <2>2. cpc'[c] = "gone"
    BY <1>0, <1>4 DEF TypeExit, Step
  <2> QED BY <2>1, <2>2 DEF Fresh
<1>5. CASE Send(c) \/ SigPipe(c) \/ ReadListing(c) \/ OpenFile(c) \/ NoSuchFile(c) \/ Unrecognized(c)
  <2>1. Fresh(c)
    BY <1>2, <1>5 DEF Send, SigPipe, ReadListing, OpenFile, NoSuchFile, Unrecognized
  <2>2. cpc[c] \in {"dial", "prompt", "gone"} /\ ~again[c]
    BY <2>1 DEF Fresh
  <2> QED BY <1>5, <2>2 DEF Send, SigPipe, ReadListing, Advance, OpenFile, NoSuchFile, Unrecognized, Step
<1>6. CASE Repeat(c) \/ \E f \in Names, op \in {"LIST", "PUT"} : Type(c, op, f)
  BY <1>1, <1>6 DEF Repeat, Type
<1> QED BY <1>3, <1>4, <1>5, <1>6 DEF Run, Prompt
-----------------------------------------------------------------------------
\* The writes of a PUT, one by one.

\* A write to another server leaves the connection alone; a write of the next
\* chunk takes it one further.
LEMMA SendTalk ==
    ASSUME TypeOK, NEW c \in Clients, Send(c), NEW x, NEW s \in sock[c] \cap alive,
           NEW w \in 0..4, Talk(c, s, x, w)
    PROVE  /\ Head(out[c])[1] # s => Talk(c, s, x, w)'
           /\ Head(out[c])[1] = s /\ Head(out[c])[2] = PutStream(c, s, x)[w + 1]
                 => Talk(c, s, x, w + 1)'
<1> DEFINE k == <<c, s>>
           q == PutStream(c, s, x)
           r == ReadBy(k)
           ch == Head(out[c])[2]
           u == up[k]
<1>1. s \in Servers /\ k \in Conns
  BY DEF TypeOK, ClientTypeOK, Conns
<1>2. /\ ch \in Chunk
      /\ up'[k] = IF s = Head(out[c])[1] THEN Append(u, ch) ELSE u
      /\ tpc' = tpc /\ req' = req /\ buf' = buf /\ n2' = n2 /\ store' = store /\ cmd' = cmd
  BY <1>1, SendEffect
<1>3. u \in Seq(Chunk) /\ r \in 0..4 /\ q' = q /\ ReadBy(k)' = r
  BY <1>1, <1>2 DEF TypeOK, WireTypeOK, ReadBy, PutStream
<1>4. CASE Head(out[c])[1] # s
  <2>1. up'[k] = up[k]
    BY <1>2, <1>4
  <2>2. ConnVars(<<c, s>>)' = ConnVars(<<c, s>>)
    BY <1>2, <2>1 DEF ConnVars
  <2> QED BY <1>1, <1>2, <1>4, <2>2, TalkUntouched
<1>5. CASE Head(out[c])[1] = s /\ ch = q[w + 1]
  <2>1. up'[k] = Append(u, ch)
    BY <1>2, <1>5
  <2>2. r <= w /\ Rest(u, q, r, w)
    BY DEF Talk, Rest
  <2>3. /\ Len(u) \in Nat /\ Len(Append(u, ch)) = Len(u) + 1
        /\ \A i \in 1..Len(u) : Append(u, ch)[i] = u[i]
        /\ Append(u, ch)[Len(u) + 1] = ch
    <3> HIDE DEF u, ch
    <3> QED BY <1>2, <1>3, AppendProperties
  <2>4. /\ r > 0 => req'[k] = cmd'[c]
        /\ r > 2 => buf'[k] = <<Part(c, FirstPart(x, s))>>
        /\ r = 4 => Storing(c, s, x)
    BY <1>2 DEF Talk
  <2>5. Storing(c, s, x) => Storing(c, s, x)'
    BY <1>2 DEF Storing
  <2> DEFINE v == w + 1
  <2>6. v \in Nat /\ v = w + 1
    OBVIOUS
  <2>7. ch = q[v]
    BY <1>5
  <2> HIDE DEF v, u, ch, q, r
  <2>8. Len(Append(u, ch)) = v - r /\ Len(u) = w - r
    BY <1>3, <2>2, <2>3, <2>6 DEF Rest
  <2>9. ASSUME NEW i \in 1..v - r PROVE Append(u, ch)[i] = q[r + i]
    <3>1. CASE i \in 1..w - r
      <4>1. u[i] = q[r + i] /\ i \in 1..Len(u)
        BY <2>2, <2>8, <3>1 DEF Rest
      <4> QED BY <2>3, <4>1
    <3>2. CASE i = v - r
      <4>1. i = Len(u) + 1 /\ r + i = v
        BY <1>3, <2>6, <2>8, <3>2
      <4>2. Append(u, ch)[i] = ch /\ q[r + i] = q[v]
        BY <2>3, <4>1, Zenon
      <4> QED BY <2>7, <4>2
    <3>3. i \in 1..w - r \/ i = v - r
      BY <1>3, <2>2, <2>6
    <3> QED BY <3>1, <3>2, <3>3
  <2>10. Rest(up'[k], q, r, v) /\ r <= v
    BY <1>3, <2>1, <2>2, <2>6, <2>8, <2>9 DEF Rest
  <2> DEFINE r1 == ReadBy(k)'
             q1 == PutStream(c, s, x)'
  <2>11. Talk(c, s, x, v)' <=>
            /\ r1 <= v /\ Rest(up'[k], q1, r1, v)
            /\ r1 > 0 => req'[k] = cmd'[c]
            /\ r1 > 2 => buf'[k] = <<Part(c, FirstPart(x, s))>>
            /\ r1 = 4 => Storing(c, s, x)'
    BY DEF Talk, Rest, v
  <2>12. r1 = r /\ q1 = q
    BY <1>3 DEF r, q
  <2> HIDE DEF r1, q1
  <2>13. Talk(c, s, x, v)'
    BY <1>3, <2>4, <2>5, <2>10, <2>11, <2>12
  <2> QED BY <1>5, <2>13 DEF v
<1> QED BY <1>4, <1>5

\* The next write is the one at m + 1.
LEMMA SendNext ==
    ASSUME TypeOK, NEW c \in Clients, Send(c), NEW q, NEW m \in 0..7, Sent(c, q, m)
    PROVE  /\ Head(out[c]) = q[m + 1]
           /\ m < 7 => cpc'[c] = "send" /\ Sent(c, q, m + 1)'
           /\ m = 7 => cpc'[c] = AfterSend(c, q[8][2])
<1>1. /\ Len(out[c]) \in Nat \ {0} /\ Head(out[c]) = out[c][1]
      /\ Len(out'[c]) = Len(out[c]) - 1
      /\ \A i \in 1..Len(out'[c]) : out'[c][i] = out[c][i + 1]
      /\ cpc'[c] = IF Len(out[c]) = 1 THEN AfterSend(c, Head(out[c])[2]) ELSE "send"
  BY SendEffect
<1>2. Len(out[c]) = 8 - m /\ \A i \in 1..8 - m : out[c][i] = q[m + i]
  BY DEF Sent
<1>3. Head(out[c]) = q[m + 1]
  BY <1>1, <1>2
<1>4. ASSUME m < 7 PROVE cpc'[c] = "send" /\ Sent(c, q, m + 1)'
  <2>1. Len(out'[c]) = 8 - (m + 1)
    BY <1>1, <1>2
  <2>2. ASSUME NEW i \in 1..8 - (m + 1) PROVE out'[c][i] = q[(m + 1) + i]
    <3>1. i \in 1..Len(out'[c]) /\ i + 1 \in 1..8 - m /\ m + (i + 1) = (m + 1) + i
      BY <2>1
    <3> QED BY <1>1, <1>2, <3>1
  <2>3. cpc'[c] = "send"
    BY <1>1, <1>2, <1>4
  <2> QED BY <2>1, <2>2, <2>3 DEF Sent
<1>5. ASSUME m = 7 PROVE cpc'[c] = AfterSend(c, q[8][2])
  BY <1>1, <1>2, <1>3, <1>5
<1> QED BY <1>3, <1>4, <1>5

\* One phase of a PUT: the writes at i and j of q are those that go to s.
LEMMA PhaseSend ==
    ASSUME TypeOK, NEW c \in Clients, Send(c), NEW x, NEW q, NEW m \in 0..7, Sent(c, q, m),
           NEW s \in sock[c] \cap alive, NEW i \in 1..8, NEW j \in 1..8, i < j, NEW b \in {0, 2},
           q[i] = <<s, PutStream(c, s, x)[b + 1]>>, q[j] = <<s, PutStream(c, s, x)[b + 2]>>,
           q[m + 1][1] = s => m + 1 = i \/ m + 1 = j,
           Talk(c, s, x, b + Made(m, i, j))
    PROVE  Talk(c, s, x, b + Made(m + 1, i, j))'
<1>1. Head(out[c]) = q[m + 1]
  BY SendNext
<1>2. Made(m, i, j) \in 0..2 /\ b + Made(m, i, j) \in 0..4
  BY DEF Made
<1> DEFINE w == b + Made(m, i, j)
           v == b + Made(m + 1, i, j)
<1>3. CASE m + 1 = i
  <2>1. w = b /\ v = b + 1
    BY <1>3 DEF Made
  <2>2. Head(out[c])[1] = s /\ Head(out[c])[2] = PutStream(c, s, x)[b + 1]
    BY <1>1, <1>3
  <2>3. Talk(c, s, x, b)
    BY <2>1
  <2>4. Talk(c, s, x, b + 1)'
    BY <2>2, <2>3, SendTalk
  <2>5. v' = v
    OBVIOUS
  <2> QED BY <2>1, <2>4
<1>4. CASE m + 1 = j
  <2>1. w = b + 1 /\ v = b + 2 /\ b + 1 \in 0..4 /\ (b + 1) + 1 = b + 2
    BY <1>4 DEF Made
  <2>2. Head(out[c])[1] = s /\ Head(out[c])[2] = PutStream(c, s, x)[b + 2]
    BY <1>1, <1>4
  <2>3. Talk(c, s, x, b + 1)
    BY <2>1
  <2>4. Talk(c, s, x, (b + 1) + 1)'
    BY <2>1, <2>2, <2>3, SendTalk
  <2> QED BY <2>1, <2>4
<1>5. CASE m + 1 # i /\ m + 1 # j
  <2>1. v = w
    BY <1>5 DEF Made
  <2>2. Head(out[c])[1] # s
    BY <1>1, <1>5
  <2>3. Talk(c, s, x, w)'
    BY <1>2, <2>2, SendTalk
  <2> QED BY <2>1, <2>3
<1> QED BY <1>3, <1>4, <1>5

LEMMA SendPut ==
    ASSUME TypeOK, NEW c \in Clients, Send(c), cmd[c].op = "PUT", NEW x, Putting(c, x)
    PROVE  Putting(c, x)'
<1> DEFINE Open == sock[c] \cap alive
           q == ToAll(cmd[c]) \o ToAll(Cred(c))
           p == PartWrites(c, x)
<1>1. /\ cpc[c] = "send" /\ cmd' = cmd /\ sock' = sock /\ alive' = alive /\ Open \subseteq Servers
  BY SendEffect DEF TypeOK, ClientTypeOK
<1>2. \A s \in Servers : q[s + 1] = <<s, cmd[c]>> /\ q[s + 5] = <<s, Cred(c)>>
  <2>1. LineAndPair(q, cmd[c], Cred(c))
    BY CommandWrites
  <2> QED BY <2>1 DEF LineAndPair
<1>3. \A s \in Servers : /\ p[2 * s + 1] = <<s, Part(c, FirstPart(x, s))>>
                         /\ p[2 * s + 2] = <<s, Part(c, SecondPart(x, s))>>
  BY PartWritesAt
<1>4. \A s : /\ PutStream(c, s, x)[0 + 1] = cmd[c] /\ PutStream(c, s, x)[0 + 2] = Cred(c)
             /\ PutStream(c, s, x)[2 + 1] = Part(c, FirstPart(x, s))
             /\ PutStream(c, s, x)[2 + 2] = Part(c, SecondPart(x, s))
  BY DEF PutStream
<1> HIDE DEF q, p
<1>5. CASE \E m \in 0..7 : /\ Sent(c, q, m)
                           /\ \A s \in Open : Talk(c, s, x, Made(m, s + 1, s + 5))
  <2>1. PICK m \in 0..7 : Sent(c, q, m) /\ \A s \in Open : Talk(c, s, x, Made(m, s + 1, s + 5))
    BY <1>5
  <2>2. ASSUME NEW s \in Open PROVE Talk(c, s, x, Made(m + 1, s + 1, s + 5))'
    <3>0. s \in Servers
      BY <1>1
    <3>1. s + 1 \in 1..8 /\ s + 5 \in 1..8 /\ s + 1 < s + 5 /\ 0 \in {0, 2}
      BY <3>0 DEF Servers
    <3>2. q[m + 1][1] = s => m + 1 = s + 1 \/ m + 1 = s + 5
      <4>1. PICK t \in Servers : m + 1 = t + 1 \/ m + 1 = t + 5
        BY WriteServer
      <4> QED BY <1>2, <4>1
    <3>3. 0 + Made(m, s + 1, s + 5) = Made(m, s + 1, s + 5)
          /\ 0 + Made(m + 1, s + 1, s + 5) = Made(m + 1, s + 1, s + 5)
      BY DEF Made
    <3>4. Talk(c, s, x, 0 + Made(m, s + 1, s + 5))
      BY <2>1, <3>3
    <3>5. /\ q[s + 1] = <<s, PutStream(c, s, x)[0 + 1]>>
          /\ q[s + 5] = <<s, PutStream(c, s, x)[0 + 2]>>
      BY <1>2, <1>4, <3>0
    <3>6. Talk(c, s, x, 0 + Made(m + 1, s + 1, s + 5))'
      BY <2>1, <3>1, <3>2, <3>4, <3>5, PhaseSend
    <3> QED BY <3>3, <3>6
  <2>3. CASE m < 7
    <3>1. PICK h : h = q
      OBVIOUS
    <3>2. cpc'[c] = "send" /\ Sent(c, h, m + 1)' /\ m + 1 \in 0..7
      BY <2>1, <2>3, <3>1, SendNext
    <3>3. q' = h
      BY <1>1, <3>1 DEF q
    <3>4. Sent(c, q, m + 1)'
      BY <3>2, <3>3 DEF Sent
    <3> QED BY <1>1, <2>2, <3>2, <3>4 DEF Putting, q
  <2>4. CASE m = 7
    <3>1. cpc'[c] = AfterSend(c, q[8][2])
      BY <2>1, <2>4, SendNext
    <3>2. q[8] = <<3, Cred(c)>>
      BY <1>2 DEF Servers
    <3>3. cpc'[c] = "file"
      BY <3>1, <3>2 DEF AfterSend, Cred
    <3>4. ASSUME NEW s \in Open PROVE Talk(c, s, x, 2)'
      <4>1. Made(m + 1, s + 1, s + 5) = 2
        BY <1>1, <2>4 DEF Made, Servers
      <4> QED BY <2>2, <4>1
    <3> QED BY <1>1, <3>3, <3>4 DEF Putting
  <2> QED BY <2>3, <2>4
<1>6. CASE \E m \in 0..7 : /\ Sent(c, p, m)
                           /\ \A s \in Open : Talk(c, s, x, 2 + Made(m, 2 * s + 1, 2 * s + 2))
  <2>1. PICK m \in 0..7 :
             Sent(c, p, m) /\ \A s \in Open : Talk(c, s, x, 2 + Made(m, 2 * s + 1, 2 * s + 2))
    BY <1>6
  <2>2. ASSUME NEW s \in Open PROVE Talk(c, s, x, 2 + Made(m + 1, 2 * s + 1, 2 * s + 2))'
    <3>0. s \in Servers
      BY <1>1
    <3>1. 2 * s + 1 \in 1..8 /\ 2 * s + 2 \in 1..8 /\ 2 * s + 1 < 2 * s + 2 /\ 2 \in {0, 2}
      BY <3>0 DEF Servers
    <3>2. p[m + 1][1] = s => m + 1 = 2 * s + 1 \/ m + 1 = 2 * s + 2
      <4>1. PICK t \in Servers : m + 1 = 2 * t + 1 \/ m + 1 = 2 * t + 2
        BY WriteServer
      <4> QED BY <1>3, <4>1
    <3>3. Talk(c, s, x, 2 + Made(m, 2 * s + 1, 2 * s + 2))
      BY <2>1
    <3>4. /\ p[2 * s + 1] = <<s, PutStream(c, s, x)[2 + 1]>>
          /\ p[2 * s + 2] = <<s, PutStream(c, s, x)[2 + 2]>>
      BY <1>3, <1>4, <3>0
    <3> QED BY <2>1, <3>1, <3>2, <3>3, <3>4, PhaseSend
  <2>3. CASE m < 7
    <3>1. cpc'[c] = "send" /\ Sent(c, p, m + 1)' /\ m + 1 \in 0..7
      BY <2>1, <2>3, SendNext
    <3> QED BY <1>1, <2>2, <3>1 DEF Putting, p
  <2>4. CASE m = 7
    <3>1. cpc'[c] = AfterSend(c, p[8][2])
      BY <2>1, <2>4, SendNext
    <3>2. p[8] = <<3, Part(c, SecondPart(x, 3))>>
      BY <1>3 DEF Servers
    <3>3. cpc'[c] = "prompt"
      BY <3>1, <3>2 DEF AfterSend, Part
    <3>4. ASSUME NEW s \in Open PROVE Talk(c, s, x, 4)'
      <4>1. 2 + Made(m + 1, 2 * s + 1, 2 * s + 2) = 4
        BY <1>1, <2>4 DEF Made, Servers
      <4> QED BY <2>2, <4>1
    <3> QED BY <1>1, <3>3, <3>4 DEF Putting
  <2> QED BY <2>3, <2>4
<1> QED BY <1>1, <1>5, <1>6 DEF Putting, q, p
-----------------------------------------------------------------------------
\* A step of a client, for every client.

\* The two lines are the same whichever the parts are.
LEMMA TwoLines ==
    ASSUME NEW c \in Clients, NEW s \in Servers, NEW x, NEW y, Talk(c, s, x, 2)
    PROVE  Talk(c, s, y, 2)
<1>1. \A i \in 1..2 : PutStream(c, s, x)[i] = PutStream(c, s, y)[i]
  BY DEF PutStream
<1>2. ReadBy(<<c, s>>) \in 0..2
  BY DEF Talk, ReadBy
<1> DEFINE r == ReadBy(<<c, s>>)
<1>3. r \in 0..2
  BY <1>2
<1>4. Len(up[<<c, s>>]) = 2 - r /\ (r > 0 => req[<<c, s>>] = cmd[c])
  BY DEF Talk
<1>5. \A i \in 1..2 - r : up[<<c, s>>][i] = PutStream(c, s, x)[r + i]
  BY DEF Talk
<1>6. Talk(c, s, y, 2) <=>
          /\ r <= 2 /\ Len(up[<<c, s>>]) = 2 - r
          /\ \A i \in 1..2 - r : up[<<c, s>>][i] = PutStream(c, s, y)[r + i]
          /\ r > 0 => req[<<c, s>>] = cmd[c]
          /\ r > 2 => buf[<<c, s>>] = <<Part(c, FirstPart(y, s))>>
          /\ r = 4 => Storing(c, s, y)
  BY DEF Talk
<1> HIDE DEF r
<1>7. \A i \in 1..2 - r : r + i \in 1..2
  BY <1>3
<1> QED BY <1>1, <1>3, <1>4, <1>5, <1>6, <1>7

\* A PUT under way goes on, and it only starts on fresh connections.
LEMMA ClientPutting ==
    ASSUME TypeOK, AskedInv, NEW c \in Clients, PutState(c), Run(c) \/ Prompt(c),
           c \in Trusted, cmds'[c] = 1, cmd'[c].op = "PUT", cpc'[c] # "gone"
    PROVE  \E x \in Hashes : Putting(c, x)'
<1> DEFINE Open == sock[c] \cap alive
<1>0. /\ DOMAIN cpc = Clients /\ DOMAIN out = Clients /\ DOMAIN cmd = Clients
      /\ DOMAIN cmds = Clients /\ cmds[c] \in Nat /\ Open \subseteq Servers
      /\ \A s \in Servers : <<c, s>> \in Conns
      /\ c \in Clients
  BY DEF TypeOK, ClientTypeOK, Conns
<1>a. ASSUME UNCHANGED <<cmds, cmd>> PROVE \E x \in Hashes : Putting(c, x) /\ cpc[c] \in {"send", "file", "prompt"}
  <2>1. cmds[c] = 1 /\ cmd[c].op = "PUT"
    BY <1>a
  <2>2. cpc[c] # "gone"
    BY DEF Run, Prompt, Dial, Send, SigPipe, ReadListing, OpenFile, NoSuchFile, Advance, Step,
           Type, Forward, TypeExit, Repeat, Unrecognized
  <2>3. PICK x \in Hashes : Putting(c, x)
    BY <2>1, <2>2 DEF PutState
  <2>4. cpc[c] \in {"send", "file", "prompt"}
    BY <2>3 DEF Putting
  <2> QED BY <2>3, <2>4
<1>b. ASSUME NEW line, Forward(c, line) PROVE cmds[c] = 0 /\ Fresh(c) /\ ~again[c]
  <2>1. cmds[c] = 0
    BY <1>0, <1>b DEF Forward
  <2> QED BY <2>1 DEF PutState, Fresh
<1>1. CASE Dial(c)
  <2>1. cpc[c] = "dial" /\ UNCHANGED <<cmds, cmd>>
    BY <1>1 DEF Dial, Advance, Step
  <2> QED BY <1>a, <2>1
<1>2. CASE Send(c)
  <2>1. UNCHANGED <<cmds, cmd>>
    BY <1>2 DEF Send
  <2>2. PICK x \in Hashes : Putting(c, x)
    BY <1>a, <2>1
  <2>3. cmd[c].op = "PUT"
    BY <2>1
  <2> QED BY <1>2, <2>2, <2>3, SendPut
<1>3. CASE SigPipe(c) \/ NoSuchFile(c) \/ TypeExit(c)
  BY <1>0, <1>3 DEF SigPipe, NoSuchFile, TypeExit, Step
<1>4. CASE ReadListing(c)
  <2>1. cpc[c] = "read" /\ UNCHANGED <<cmds, cmd>>
    BY <1>4 DEF ReadListing, Advance, Step
  <2> QED BY <1>a, <2>1
<1>5. CASE OpenFile(c)
  <2>1. PICK y \in Hashes : out' = [out EXCEPT ![c] = PartWrites(c, y)]
    BY <1>5 DEF OpenFile
  <2>2. /\ cpc[c] = "file" /\ cpc'[c] = "send"
        /\ UNCHANGED <<cmds, cmd, sock, alive, up, tpc, req, buf, n2, store>>
    BY <1>0, <1>5 DEF OpenFile, Step, serverVars, wireVars
  <2>3. PICK x \in Hashes : Putting(c, x)
    BY <1>a, <2>2
  <2>4. \A s \in Open : Talk(c, s, x, 2)
    BY <2>2, <2>3 DEF Putting
  <2>5. ASSUME NEW s \in Open PROVE Talk(c, s, y, 2 + Made(0, 2 * s + 1, 2 * s + 2))'
    <3>1. s \in Servers
      BY <1>0
    <3>2. Talk(c, s, y, 2)
      BY <2>4, <3>1, TwoLines
    <3>3. Talk(c, s, y, 2)'
      BY <2>2, <3>1, <3>2, TalkUntouched DEF ConnVars
    <3>4. 2 + Made(0, 2 * s + 1, 2 * s + 2) = 2
      BY <3>1 DEF Made, Servers
    <3> QED BY <3>3, <3>4
  <2>6. Sent(c, PartWrites(c, y), 0)'
    <3>1. out'[c] = PartWrites(c, y)
      BY <1>0, <2>1
    <3> QED BY <3>1, PartWritesAt DEF Sent
  <2> QED BY <2>2, <2>5, <2>6 DEF Putting
<1>6. CASE \E f \in Names, op \in {"LIST", "PUT"} : Type(c, op, f)
  <2>1. PICK f \in Names, op \in {"LIST", "PUT"} : Type(c, op, f)
    BY <1>6
  <2>2. Forward(c, Req(op, f)) /\ cmd'[c] = Req(op, f)
    BY <1>0, <2>1 DEF Type
  <2>3. Fresh(c) /\ cpc[c] = "prompt"
    BY <1>b, <2>2 DEF Forward, Step
  <2>4. /\ cpc'[c] = "send" /\ UNCHANGED <<sock, alive, up, tpc>>
        /\ out'[c] = ToAll(cmd'[c]) \o ToAll(Cred(c))
    BY <1>0, <2>2 DEF Forward, Step, serverVars, wireVars
  <2>5. ASSUME NEW x, NEW s \in Open PROVE Talk(c, s, x, Made(0, s + 1, s + 5))'
    <3>1. tpc'[<<c, s>>] \in {"queued", "request"}
      BY <2>3, <2>4, <2>5 DEF Fresh
    <3>2. up'[<<c, s>>] = <<>>
      BY <1>0, <2>3, <2>4, <2>5 DEF Fresh, AskedInv, ConnAsked
    <3>3. Len(up'[<<c, s>>]) = 0 /\ ReadBy(<<c, s>>)' = 0
      BY <3>1, <3>2 DEF ReadBy
    <3>4. Made(0, s + 1, s + 5) = 0
      BY <1>0 DEF Made, Servers
    <3>5. Talk(c, s, x, 0)'
      BY <3>3 DEF Talk
    <3> QED BY <3>4, <3>5
  <2>6. Sent(c, ToAll(cmd[c]) \o ToAll(Cred(c)), 0)'
    <3>1. Len(ToAll(cmd'[c]) \o ToAll(Cred(c))) = 8
      BY CommandWrites DEF LineAndPair
    <3> QED BY <2>4, <3>1 DEF Sent
  <2>7. Putting(c, 0)'
    BY <2>4, <2>5, <2>6 DEF Putting
  <2> QED BY <2>7 DEF Hashes
<1>7. CASE Repeat(c)
  BY <1>7, <1>b DEF Repeat
<1>8. CASE Unrecognized(c)
  <2>1. /\ UNCHANGED <<cmds, cmd, cpc, out, sock, alive, up, tpc, req, buf, n2, store>>
    BY <1>8 DEF Unrecognized, serverVars, wireVars
  <2>2. PICK x \in Hashes : Putting(c, x)
    BY <1>a, <2>1
  <2>3. ASSUME NEW s \in sock[c] \cap alive', NEW w \in 0..4, Talk(c, s, x, w) PROVE Talk(c, s, x, w)'
    <3>1. s \in Servers
      BY <1>0, <2>1, <2>3
    <3> QED BY <2>1, <2>3, <3>1, TalkUntouched DEF ConnVars
  <2>4. sock[c] \subseteq Servers
    BY DEF TypeOK, ClientTypeOK
  <2> QED BY <2>1, <2>2, <2>3, <2>4, PuttingUntouched
<1> QED BY <1>1, <1>2, <1>3, <1>4, <1>5, <1>6, <1>7, <1>8 DEF Run, Prompt

\* The first to leave is the client that puts: others have neither files to miss
\* nor dead servers to write to, and stay.
LEMMA FirstToLeave ==
    ASSUME TypeOK, AskedInv, PutInv, PutPremise, NEW b \in Clients, Run(b) \/ Prompt(b),
           closed = {}, closed' # {}
    PROVE  b \in closed' /\ "PUT" \in Typed[b]
<1>1. PutState(b)
  BY DEF PutInv
<1>2. CASE SigPipe(b)
  <2>1. out[b] \in Seq(Servers \X Chunk) /\ out[b] # <<>> /\ Head(out[b])[1] \in sock[b] \ alive
    BY <1>2 DEF SigPipe, TypeOK, ClientTypeOK
  <2>2. ExitOnlyAfterSilentClient
    BY EndsAlone DEF PutPremise
  <2>3. Running \subseteq alive
    BY <2>2 DEF ExitOnlyAfterSilentClient, SilentlyLeft
  <2> QED BY <1>1, <2>1, <2>3 DEF PutState
<1>3. CASE NoSuchFile(b)
  <2>1. cpc[b] = "file" /\ b \in closed'
    BY <1>3 DEF NoSuchFile, Step, Leave
  <2> QED BY <1>1, <2>1 DEF PutState, NeverPuts
<1>4. CASE TypeExit(b)
  BY <1>4 DEF TypeExit, Leave, PutPremise, OthersStay
<1>5. CASE Dial(b) \/ Send(b) \/ ReadListing(b) \/ OpenFile(b)
  BY <1>5 DEF Dial, Send, ReadListing, OpenFile, wireVars
<1>6. CASE Unrecognized(b) \/ Repeat(b) \/ \E f \in Names, op \in {"LIST", "PUT"} : Type(b, op, f)
  BY <1>6 DEF Unrecognized, Repeat, Type, Forward, wireVars
<1> QED BY <1>2, <1>3, <1>4, <1>5, <1>6 DEF Run, Prompt

LEMMA ClientPut ==
    ASSUME TypeOK, AskedInv, PutInv, PutPremise, NEW b \in Clients, Run(b) \/ Prompt(b)
    PROVE  PutInv'
<1>a. closed \subseteq closed'
  BY ClientScope
<1>b. closed' # {} => \E c \in closed' : "PUT" \in Typed[c]
  BY <1>a, FirstToLeave DEF PutInv
<1> SUFFICES ASSUME NEW c \in Clients PROVE PutState(c)'
  BY <1>b DEF PutInv
<1>0. PutState(c)
  BY DEF PutInv
<1>1. CASE c # b
  BY <1>0, <1>1, ClientScope, Untouched
<1>2. CASE c = b
  <2>1. "PUT" \notin Typed[c] /\ closed' = {} => NeverPuts(c)'
    BY <1>0, <1>2, <1>a, ClientNever DEF PutState
  <2>2. cmds'[c] = 0 => Fresh(c)'
    BY <1>0, <1>2, ClientFresh DEF PutState
  <2>3. cmds'[c] # 0 => cmd'[c] # NoReq
    <3>1. TypeOK'
      BY ClientType
    <3>2. (cmds'[c] = cmds[c] /\ cmd'[c] = cmd[c]) \/ cpc'[c] = "send"
      <4>1. DOMAIN cpc = Clients
        BY DEF TypeOK, ClientTypeOK
      <4> QED BY <1>2, <4>1 DEF Run, Prompt, Dial, Send, SigPipe, ReadListing, OpenFile, NoSuchFile,
                                Type, Forward, TypeExit, Repeat, Unrecognized, Step
    <3> QED BY <1>0, <3>1, <3>2 DEF PutState, TypeOK, ClientTypeOK
  <2>4. c \in Trusted /\ cmds'[c] = 1 /\ cmd'[c].op = "PUT" /\ cpc'[c] # "gone" =>
            \E x \in Hashes : Putting(c, x)'
    BY <1>0, <1>2, ClientPutting
  <2>5. sock'[c] \subseteq Running
    <3>1. DOMAIN sock = Clients /\ alive \subseteq Running
      BY DEF TypeOK, WireTypeOK, ClientTypeOK
    <3>2. sock' = sock \/ (next[c] \in alive /\ sock' = [sock EXCEPT ![c] = @ \cup {next[c]}])
      BY <1>2 DEF Run, Prompt, Dial, Send, SigPipe, ReadListing, OpenFile, NoSuchFile,
                  Type, Forward, TypeExit, Repeat, Unrecognized
    <3> QED BY <1>0, <3>1, <3>2 DEF PutState
  <2>6. cmd'[c] # NoReq => cmd'[c].op \in Typed[c]
    <3>1. CASE cmd' = cmd
      BY <1>0, <3>1 DEF PutState
    <3>2. CASE \E f \in Names, op \in {"LIST", "PUT"} : Type(c, op, f)
      <4>1. PICK f \in Names, op \in {"LIST", "PUT"} : Type(c, op, f)
        BY <3>2
      <4>2. cmd' = [cmd EXCEPT ![c] = Req(op, f)] /\ op \in Typed[c] /\ DOMAIN cmd = Clients
        BY <4>1 DEF Type, TypeOK, ClientTypeOK
      <4> QED BY <4>2 DEF Req
    <3> QED BY <1>2, <3>1, <3>2 DEF Run, Prompt, Dial, Send, SigPipe, ReadListing, OpenFile,
                                    NoSuchFile, TypeExit, Repeat, Unrecognized
  <2> QED BY <2>1, <2>2, <2>3, <2>4, <2>5, <2>6 DEF PutState
<1> QED BY <1>1, <1>2
-----------------------------------------------------------------------------
\* What a PUT leaves behind.

LEMMA InitPut == Init => PutInv
<1> SUFFICES ASSUME Init, NEW c \in Clients PROVE PutState(c)
  BY DEF PutInv, Init, WireInit
<1>1. /\ cpc[c] = "dial" /\ sock[c] = {} /\ out[c] = <<>> /\ cmd[c] = NoReq
      /\ ~again[c] /\ cmds[c] = 0 /\ asked[c] = {}
  BY DEF Init, ClientInit
<1>2. \A s \in Servers : tpc[<<c, s>>] = "none" /\ up[<<c, s>>] = <<>>
  BY DEF Init, WireInit, ServerInit, Conns
<1>3. Fresh(c)
  BY <1>1 DEF Fresh
<1>4. NeverPuts(c)
  <2>1. \A s \in Servers : \A i \in 1..Len(up[<<c, s>>]) : ~IsPut(up[<<c, s>>][i])
    BY <1>2
  <2>2. \A i \in 1..Len(out[c]) : ~IsPut(out[c][i][2])
    BY <1>1
  <2> QED BY <1>1, <1>2, <2>1, <2>2 DEF NeverPuts
<1> QED BY <1>1, <1>3, <1>4 DEF PutState

\* PutInv is inductive, given the types and what is on the connections, when one
\* client puts, no other leaves, servers have descriptors enough and can create the
\* files, and each read() returns one write().
THEOREM PutAlways ==
    ASSUME PutPremise
    PROVE  Spec => []PutInv
<1>1. TypeOK /\ AskedInv /\ PutInv /\ [Next]_vars => PutInv'
  <2> SUFFICES ASSUME TypeOK, AskedInv, PutInv, [Next]_vars PROVE PutInv'
    OBVIOUS
  <2>1. CASE Next
    BY <2>1, ThreadPut, StrayPut, ClientPut DEF Next
  <2>2. CASE UNCHANGED vars
    <3> SUFFICES ASSUME NEW c \in Clients PROVE PutState(c)'
      BY <2>2 DEF PutInv, vars, wireVars
    <3>1. /\ OwnVars(c)' = OwnVars(c) /\ \A s \in Servers : ConnVars(<<c, s>>)' = ConnVars(<<c, s>>)
          /\ alive' \subseteq alive /\ closed \subseteq closed' /\ store' = store
      BY <2>2 DEF vars, wireVars, serverVars, clientVars, OwnVars, ConnVars
    <3> QED BY <3>1, Untouched DEF PutInv
  <2> QED BY <2>1, <2>2
<1> QED BY InitPut, <1>1, TypeCorrect, AskedAlways, PTL DEF Spec

\* What the four servers hold once they are done with a PUT.
LEMMA PutDone == TypeOK /\ PutInv => FirstPartsKept
<1> SUFFICES ASSUME TypeOK, PutInv, NEW c \in Clients, Uploaded(c)
             PROVE  \E x \in Hashes : \A s \in Servers : \A f \in {cmd[c].name, Second[cmd[c].name]} :
                       store[s][f] = <<Part(c, FirstPart(x, s))>>
  BY DEF FirstPartsKept
<1>1. /\ cpc[c] = "prompt" /\ cmds[c] = 1 /\ cmd[c].op = "PUT" /\ c \in Trusted
      /\ \A s \in Servers : s \in sock[c] \cap alive /\ tpc[<<c, s>>] = "done"
  BY DEF Uploaded
<1>2. PICK x \in Hashes : Putting(c, x)
  BY <1>1 DEF PutInv, PutState
<1>3. ASSUME NEW s \in Servers PROVE Storing(c, s, x)
  <2>1. Talk(c, s, x, 4)
    BY <1>1, <1>2 DEF Putting
  <2>2. ReadBy(<<c, s>>) = 4
    BY <1>1 DEF ReadBy
  <2> QED BY <2>1, <2>2 DEF Talk
<1> QED BY <1>1, <1>3 DEF Storing

\* Whatever the hash, each part is the first one of some server.
LEMMA EveryPartFirst ==
    \A x \in Hashes : \A i \in Parts : \E s \in Servers : FirstPart(x, s) = i
<1> TAKE x \in Hashes
<1> TAKE i \in Parts
<1>1. /\ x = 0 \/ x = 1 \/ x = 2 \/ x = 3
      /\ i = 1 \/ i = 2 \/ i = 3 \/ i = 4
      /\ 0 \in Servers /\ 1 \in Servers /\ 2 \in Servers /\ 3 \in Servers
  BY DEF Hashes, Parts, Servers
<1>2. CASE x = 0
  BY <1>1, <1>2 DEF FirstPart, Placement
<1>3. CASE x = 1
  BY <1>1, <1>3 DEF FirstPart, Placement
<1>4. CASE x = 2
  BY <1>1, <1>4 DEF FirstPart, Placement
<1>5. CASE x = 3
  BY <1>1, <1>5 DEF FirstPart, Placement
<1> QED BY <1>1, <1>2, <1>3, <1>4, <1>5

\* Once the four servers are done with a PUT, both files of each of them are the
\* part it was sent first, at whatever points its thread and the client's writes
\* were interleaved with those of the others.
THEOREM FirstPartsStay ==
    ASSUME PutPremise
    PROVE  Spec => []FirstPartsKept
<1> QED BY PutDone, PutAlways, TypeCorrect, PTL

\* So each of the four parts is on some server by itself.
THEOREM PartsStay ==
    ASSUME PutPremise
    PROVE  Spec => []FourPartsKept
<1>1. FirstPartsKept => FourPartsKept
  <2> SUFFICES ASSUME FirstPartsKept, NEW c \in Clients, Uploaded(c), NEW i \in Parts
               PROVE  \E s \in Servers : store[s][cmd[c].name] = <<Part(c, i)>>
    BY DEF FourPartsKept
  <2>1. PICK x \in Hashes : \A s \in Servers : store[s][cmd[c].name] = <<Part(c, FirstPart(x, s))>>
    BY DEF FirstPartsKept
  <2>2. PICK s \in Servers : FirstPart(x, s) = i
    BY EveryPartFirst
  <2> QED BY <2>1, <2>2
<1> QED BY <1>1, FirstPartsStay, PTL

\* And on no other: what was written from a part's buffer is lost with the one
\* server that has it, although dfc sends every part to two servers.
NoCopyKept ==
    \A c \in Clients : Uploaded(c) =>
        \A i \in Parts : \E s \in Servers : \A t \in Servers \ {s} :
            \A f \in {cmd[c].name, Second[cmd[c].name]} : store[t][f] # <<Part(c, i)>>

LEMMA FirstPartsApart ==
    ASSUME NEW x \in Hashes, NEW s \in Servers, NEW t \in Servers \ {s}
    PROVE  FirstPart(x, t) # FirstPart(x, s)
  BY DEF FirstPart, Placement, Hashes, Servers

\* The second server of a part, that OneServerMayFail counts on, never has it.
THEOREM CopiesLost ==
    ASSUME PutPremise
    PROVE  Spec => []NoCopyKept
<1>1. FirstPartsKept => NoCopyKept
  <2> SUFFICES ASSUME FirstPartsKept, NEW c \in Clients, Uploaded(c), NEW i \in Parts
               PROVE  \E s \in Servers : \A t \in Servers \ {s} :
                         \A f \in {cmd[c].name, Second[cmd[c].name]} : store[t][f] # <<Part(c, i)>>
    BY DEF NoCopyKept
  <2>1. PICK x \in Hashes :
            \A t \in Servers : \A f \in {cmd[c].name, Second[cmd[c].name]} :
                store[t][f] = <<Part(c, FirstPart(x, t))>>
    BY DEF FirstPartsKept
  <2>2. PICK s \in Servers : FirstPart(x, s) = i
    BY EveryPartFirst
  <2>3. \A t \in Servers \ {s} : FirstPart(x, t) # i
    BY <2>2, FirstPartsApart
  <2>4. \A j : <<Part(c, j)>> = <<Part(c, i)>> => j = i
    BY DEF Part
  <2> QED BY <2>1, <2>3, <2>4
<1> QED BY <1>1, FirstPartsStay, PTL
=============================================================================
