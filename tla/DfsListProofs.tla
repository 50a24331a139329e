---------------------------- MODULE DfsListProofs ----------------------------
(***************************************************************************)
(* ListComes of Dfs, proved for any clients, commands and servers started, *)
(* when each read() returns one write().                                   *)
(***************************************************************************)
EXTENDS DfsPutProofs

\* A sequence with one more element, and a sequence of one with one more.
LEMMA Lengthened ==
    ASSUME NEW S, NEW r \in Seq(S), NEW b \in S, NEW t, t = Append(r, b)
    PROVE  /\ t \in Seq(S) /\ Len(t) = Len(r) + 1 /\ t[Len(r) + 1] = b
           /\ \A i \in 1..Len(r) : t[i] = r[i]
  BY AppendProperties

LEMMA OneMore ==
    ASSUME NEW S, NEW r \in Seq(S), NEW b \in S, Len(r) = 1, NEW t, t = Append(r, b)
    PROVE  t \in Seq(S) /\ Len(t) = 2 /\ t[1] = r[1] /\ t[2] = b
<1>1. /\ t \in Seq(S) /\ Len(t) = Len(r) + 1 /\ t[Len(r) + 1] = b
      /\ \A i \in 1..Len(r) : t[i] = r[i]
  BY Lengthened
<1>2. 1 + 1 = 2 /\ 1 \in 1..1
  OBVIOUS
<1> QED BY <1>1, <1>2, Zenon

\* One element cut out of a sequence.
LEMMA Piece ==
    ASSUME NEW S, NEW q \in Seq(S), NEW i \in 1..Len(q), NEW t, t = SubSeq(q, i, i)
    PROVE  t \in Seq(S) /\ Len(t) = 1 /\ t[1] = q[i]
<1>1. /\ SubSeq(q, i, i) \in Seq(S)
      /\ Len(SubSeq(q, i, i)) = IF i <= i THEN i - i + 1 ELSE 0
      /\ \A j \in 1..(i - i + 1) : SubSeq(q, i, i)[j] = q[i + j - 1]
  BY SubSeqProperties
<1>2. i <= i /\ i - i + 1 = 1 /\ i + 1 - 1 = i /\ 1 \in 1..1
  OBVIOUS
<1> QED BY <1>1, <1>2

\* The sequences of one and two elements.
LEMMA Pairs ==
    ASSUME NEW a, NEW b
    PROVE  /\ SubSeq(<<a, b>>, 1, 1) = <<a>> /\ SubSeq(<<a, b>>, 2, 2) = <<b>>
           /\ SubSeq(<<a, b>>, 1, 2) = <<a, b>> /\ Append(<<a>>, b) = <<a, b>>
<1>1. PICK q : q = <<a, b>>
  OBVIOUS
<1>2. PICK S : S = {a, b}
  OBVIOUS
<1>3. q \in Seq(S) /\ Len(q) = 2 /\ q[1] = a /\ q[2] = b
  BY <1>1, <1>2
<1>4. \A t, e : t \in Seq(S) /\ Len(t) = 1 /\ t[1] = e => t = <<e>>
  OBVIOUS
<1>5. \A t : t \in Seq(S) /\ Len(t) = 2 /\ t[1] = a /\ t[2] = b => t = <<a, b>>
  OBVIOUS
<1>6. SubSeq(q, 1, 1) = <<a>>
  <2>1. PICK t : t = SubSeq(q, 1, 1)
    OBVIOUS
  <2>2. t \in Seq(S) /\ Len(t) = 1 /\ t[1] = a
    <3>1. 1 \in 1..Len(q) /\ 2 \in 1..Len(q)
      BY <1>3
    <3> QED BY <1>3, <2>1, <3>1, Piece
  <2> QED BY <1>4, <2>1, <2>2, Zenon
<1>7. SubSeq(q, 2, 2) = <<b>>
  <2>1. PICK t : t = SubSeq(q, 2, 2)
    OBVIOUS
  <2>2. t \in Seq(S) /\ Len(t) = 1 /\ t[1] = b
    <3>1. 1 \in 1..Len(q) /\ 2 \in 1..Len(q)
      BY <1>3
    <3> QED BY <1>3, <2>1, <3>1, Piece
  <2> QED BY <1>4, <2>1, <2>2, Zenon
<1>8. SubSeq(q, 1, 2) = <<a, b>>
  BY <1>1, <1>3, SubSeqFull
<1>9. Append(<<a>>, b) = <<a, b>>
  <2>1. PICK r : r = <<a>>
    OBVIOUS
  <2>2. r \in Seq(S) /\ Len(r) = 1 /\ r[1] = a /\ b \in S
    BY <1>2, <2>1
  <2>3. PICK t : t = Append(r, b)
    OBVIOUS
  <2>4. t \in Seq(S) /\ Len(t) = 2 /\ t[1] = a /\ t[2] = b
    BY <2>2, <2>3, OneMore
  <2> QED BY <1>5, <2>1, <2>3, <2>4, Zenon
<1> QED BY <1>1, <1>6, <1>7, <1>8, <1>9

\* The line and the pair of a LIST, by what of them is written and read.
LEMMA UnreadIs ==
    ASSUME NEW c
    PROVE  /\ Unread(c, 0, 0) = <<>> /\ Unread(c, 1, 1) = <<>>
           /\ Unread(c, 0, 1) = <<cmd[c]>> /\ Unread(c, 1, 2) = <<Cred(c)>>
           /\ Unread(c, 0, 2) = <<cmd[c], Cred(c)>>
<1>1. \A a, b : SubSeq(<<a, b>>, 1, 0) = <<>> /\ SubSeq(<<a, b>>, 2, 1) = <<>>
  OBVIOUS
<1>2. 0 + 1 = 1 /\ 1 + 1 = 2
  OBVIOUS
<1>3. Unread(c, 0, 0) = <<>> /\ Unread(c, 1, 1) = <<>>
  BY <1>1, <1>2 DEF Unread
<1>4. Unread(c, 0, 1) = <<cmd[c]>> /\ Unread(c, 1, 2) = <<Cred(c)>> /\ Unread(c, 0, 2) = <<cmd[c], Cred(c)>>
  BY <1>2, Pairs DEF Unread
<1> QED BY <1>3, <1>4

\* What a write adds.
LEMMA Written ==
    ASSUME NEW c
    PROVE  /\ Append(Unread(c, 0, 0), cmd[c]) = Unread(c, 0, 1)
           /\ Append(Unread(c, 0, 1), Cred(c)) = Unread(c, 0, 2)
           /\ Append(Unread(c, 1, 1), Cred(c)) = Unread(c, 1, 2)
<1>1. \A a : Append(<<>>, a) = <<a>>
  OBVIOUS
<1>2. Append(<<cmd[c]>>, Cred(c)) = <<cmd[c], Cred(c)>>
  BY Pairs
<1> QED BY <1>1, <1>2, UnreadIs

\* What a read() of one write takes.
LEMMA Taken ==
    ASSUME NEW a, NEW b
    PROVE  /\ Head(<<a>>) = a /\ SubSeq(<<a>>, 1 + 1, Len(<<a>>)) = <<>>
           /\ Head(<<a, b>>) = a /\ SubSeq(<<a, b>>, 1 + 1, Len(<<a, b>>)) = <<b>>
<1>1. Head(<<a>>) = a /\ Head(<<a, b>>) = a
  OBVIOUS
<1>3. SubSeq(<<a>>, 2, 1) = <<>>
  OBVIOUS
<1>2. Len(<<a>>) = 1 /\ Len(<<a, b>>) = 2 /\ 1 + 1 = 2
  OBVIOUS
<1>4. SubSeq(<<a>>, 1 + 1, Len(<<a>>)) = <<>>
  BY <1>2, <1>3
<1>5. SubSeq(<<a, b>>, 1 + 1, Len(<<a, b>>)) = <<b>>
  BY <1>2, Pairs
<1> QED BY <1>1, <1>4, <1>5, Zenon

\* A connection on which nothing happens, and whose listing is not taken.
LEMMA AsksUntouched ==
    ASSUME NEW c \in Clients, NEW s \in Servers, cmd'[c] = cmd[c],
           ConnVars(<<c, s>>)' = ConnVars(<<c, s>>), down'[<<c, s>>] = down[<<c, s>>],
           NEW w, Asks(c, s, w)
    PROVE  Asks(c, s, w)'
<1>1. \A n : Unread(c, n, w)' = Unread(c, n, w)
  BY DEF Unread
<1> QED BY <1>1 DEF ConnVars, Asks

\* A step that leaves a client and its connections alone.
LEMMA ListUntouched ==
    ASSUME TypeOK, NEW c \in Clients, ListState(c), OwnVars(c)' = OwnVars(c), next'[c] = next[c],
           alive' \subseteq alive, starved \subseteq starved',
           cmds[c] = 0 => Fresh(c)',
           \A s \in Servers, w \in 0..2 :
              s \in alive' \ starved' /\ Asks(c, s, w) /\ c \in Trusted /\ cmd[c].op = "LIST"
                  /\ cpc[c] \in {"send", "read"} => Asks(c, s, w)'
    PROVE  ListState(c)'
<1>1. /\ cpc'[c] = cpc[c] /\ out'[c] = out[c] /\ cmd'[c] = cmd[c] /\ again'[c] = again[c]
      /\ cmds'[c] = cmds[c] /\ asked'[c] = asked[c] /\ sock'[c] = sock[c]
  BY DEF OwnVars
<1>2. sock[c] \subseteq Servers /\ Serving(c)' \subseteq Serving(c) /\ Serving(c)' \subseteq alive' \ starved'
  BY <1>1 DEF TypeOK, ClientTypeOK, Serving
<1>s. Serving(c) \subseteq Servers
  BY <1>2 DEF Serving
<1>4. ASSUME c \in Trusted, cmds[c] = 1, cmd[c].op = "LIST", cpc[c] = "send"
      PROVE  \E m \in 0..7 :
                 /\ Sent(c, ToAll(cmd[c]) \o ToAll(Cred(c)), m)'
                 /\ \A s \in Serving(c)' : Asks(c, s, Made(m, s + 1, s + 5))'
  <2>1. PICK m \in 0..7 : /\ Sent(c, ToAll(cmd[c]) \o ToAll(Cred(c)), m)
                          /\ \A s \in Serving(c) : Asks(c, s, Made(m, s + 1, s + 5))
    BY <1>4 DEF ListState
  <2>2. Sent(c, ToAll(cmd[c]) \o ToAll(Cred(c)), m)'
    BY <1>1, <2>1 DEF Sent
  <2>3. \A s : Made(m, s + 1, s + 5) \in 0..2
    BY DEF Made
  <2>4. \A s \in Serving(c)' : Asks(c, s, Made(m, s + 1, s + 5))'
    BY <1>1, <1>2, <1>s, <1>4, <2>1, <2>3
  <2> QED BY <2>2, <2>4
<1>5. ASSUME c \in Trusted, cmds[c] = 1, cmd[c].op = "LIST", cpc[c] = "read"
      PROVE  Awaited(c)'
  <2>1. Awaited(c) /\ 2 \in 0..2
    BY <1>5 DEF ListState
  <2> QED BY <1>1, <1>2, <1>s, <1>5, <2>1 DEF Awaited
<1>6. (cpc[c] = "read" => cmd[c].op = "LIST") /\ (cpc[c] = "file" => cmd[c].op # "LIST")
  BY DEF ListState
<1> QED BY <1>1, <1>4, <1>5, <1>6 DEF ListState
-----------------------------------------------------------------------------
\* A step of a server's thread.

\* Listings are only sent by the threads of their own connections.
LEMMA ThreadDown ==
    ASSUME TypeOK, NEW k \in Conns, Thread(k)
    PROVE  \A j \in Conns : j # k \/ ~SendListing(k) => down'[j] = down[j]
<1>1. DOMAIN down = Conns
  BY DEF TypeOK, WireTypeOK
<1>2. CASE SendListing(k)
  BY <1>1, <1>2 DEF SendListing, Listed
<1>3. CASE ReadRequest(k) \/ RequestExit(k) \/ ReadCred(k) \/ ReadPart1(k) \/ ReadPart2(k)
  BY <1>3 DEF ReadRequest, RequestExit, ReadCred, ReadPart1, ReadPart2
<1>4. CASE RequestLeftover(k) \/ Accept(k) \/ Open1(k) \/ Open2(k) \/ Close2(k) \/ Close1(k)
  BY <1>4 DEF RequestLeftover, Accept, Open1, Open2, Close2, Close1, Truncate, Flush, wireVars
<1>5. CASE CredExit(k) \/ ListFails(k) \/ OpenFails(k)
  BY <1>5 DEF CredExit, ListFails, OpenFails
<1> QED BY <1>2, <1>3, <1>4, <1>5 DEF Thread, ThreadNext

\* A server that has lacked a descriptor is not taken for one that has not.
LEMMA StarvedGrows == ASSUME NEW k \in Conns, Thread(k) PROVE starved \subseteq starved'
<1>1. CASE Accept(k) \/ ReadRequest(k) \/ RequestExit(k) \/ RequestLeftover(k) \/ ReadCred(k)
  BY <1>1 DEF Accept, ReadRequest, RequestExit, RequestLeftover, ReadCred, serverVars
<1>2. CASE CredExit(k) \/ ListFails(k) \/ OpenFails(k)
  BY <1>2 DEF CredExit, ListFails, OpenFails, Starves
<1>3. CASE SendListing(k) \/ ReadPart1(k) \/ ReadPart2(k)
  BY <1>3 DEF SendListing, Listed, ReadPart1, ReadPart2
<1>4. CASE Open1(k) \/ Open2(k) \/ Close2(k) \/ Close1(k)
  BY <1>4 DEF Open1, Open2, Close2, Close1, Truncate, Flush
<1> QED BY <1>1, <1>2, <1>3, <1>4 DEF Thread, ThreadNext

\* The thread takes the line, accepts the pair and sends the listing.
LEMMA AsksOn ==
    ASSUME TypeOK, AskedInv, ~Coalesce, NEW c \in Trusted, c \in Clients, cpc[c] # "gone",
           cmd[c] \in Requests, cmd[c].op = "LIST", NEW s \in Servers, NEW w \in 0..2,
           Asks(c, s, w), NEW k, k = <<c, s>>, Thread(k), s \in alive' \ starved'
    PROVE  Asks(c, s, w)'
<1>0. /\ k \in Conns /\ up[k] \in Seq(Chunk) /\ k[1] = c /\ k[2] = s /\ c \notin closed
      /\ DOMAIN tpc = Conns /\ DOMAIN req = Conns /\ DOMAIN up = Conns /\ DOMAIN down = Conns
  BY Present DEF Conns, TypeOK, WireTypeOK, ServerTypeOK
<1>1. cmd' = cmd /\ \A n : Unread(c, n, w)' = Unread(c, n, w)
  BY DEF Thread, clientVars, Unread
<1>2. \A n \in Amounts(k) : n = 1 /\ up[k] # <<>>
  BY <1>0, OneAmount
<1>3. CASE ReadRequest(k)
  <2>1. /\ Consume(k, 1) /\ up[k] # <<>> /\ req' = [req EXCEPT ![k] = Head(up[k])]
        /\ tpc[k] = "request" /\ tpc' = [tpc EXCEPT ![k] = "cred"]
    BY <1>2, <1>3 DEF ReadRequest, At, Goto
  <2>2. up[k] = Unread(c, 0, w)
    BY <2>1 DEF Asks
  <2>3. up'[k] = SubSeq(up[k], 1 + 1, Len(up[k]))
    BY <1>0, <2>1 DEF Consume
  <2>4. w = 1 \/ w = 2
    BY <2>1, <2>2, UnreadIs
  <2>5. Head(up[k]) = cmd[c] /\ up'[k] = Unread(c, 1, w)
    <3>1. CASE w = 1
      <4>1. up[k] = <<cmd[c]>> /\ Unread(c, 1, w) = <<>>
        BY <2>2, <3>1, UnreadIs
      <4> QED BY <2>3, <4>1, Taken
    <3>2. CASE w = 2
      <4>1. up[k] = <<cmd[c], Cred(c)>> /\ Unread(c, 1, w) = <<Cred(c)>>
        BY <2>2, <3>2, UnreadIs
      <4> QED BY <2>3, <4>1, Taken
    <3> QED BY <2>4, <3>1, <3>2
  <2>6. req'[k] = cmd[c] /\ tpc'[k] = "cred"
    BY <1>0, <2>1, <2>5
  <2> QED BY <1>1, <2>4, <2>5, <2>6 DEF Asks
<1>4. CASE ReadCred(k)
  <2>1. /\ up[k] # <<>> /\ tpc[k] = "cred"
        /\ \/ MayPass(k, 1) /\ Goto(k, IF req[k].op = "LIST" THEN "list" ELSE "part1")
           \/ ~MustPass(k, 1)
    BY <1>2, <1>4 DEF ReadCred, At
  <2>2. req[k] = cmd[c] /\ w >= 1 /\ up[k] = Unread(c, 1, w)
    BY <2>1 DEF Asks
  <2>3. w = 2 /\ up[k] = <<Cred(c)>>
    BY <2>1, <2>2, UnreadIs
  <2>4. MustPass(k, 1)
    <3>1. up[k][1] = Cred(c)
      BY <2>3
    <3>2. Cred(c).kind = "cred" /\ Cred(c).ok /\ Cred(c).kind # "blank"
      BY DEF Cred
    <3> QED BY <3>1, <3>2 DEF MustPass, First, Valid
  <2>5. tpc'[k] = "list"
    BY <1>0, <2>1, <2>2, <2>4 DEF Goto
  <2> QED BY <2>3, <2>5 DEF Asks
<1>5. CASE SendListing(k)
  <2>1. tpc[k] = "list" /\ tpc'[k] = "done" /\ \E f : down'[k] = Append(down[k], f)
    BY <1>0, <1>5 DEF SendListing, Listed, At, Goto
  <2>2. w = 2
    BY <2>1 DEF Asks
  <2>3. down'[k] # <<>>
    <3>1. down[k] \in Seq(SUBSET Files) /\ down'[k] \in Seq(SUBSET Files)
      BY <1>0, ThreadType DEF TypeOK, WireTypeOK
    <3>2. PICK f : down'[k] = Append(down[k], f)
      BY <2>1
    <3>3. Len(down'[k]) = Len(down[k]) + 1 /\ Len(down[k]) \in Nat
      BY <3>1, <3>2
    <3> QED BY <3>3
  <2> QED BY <2>1, <2>2, <2>3 DEF Asks
<1>6. CASE RequestExit(k) \/ CredExit(k) \/ ListFails(k) \/ OpenFails(k)
  BY <1>0, <1>6 DEF RequestExit, CredExit, ListFails, OpenFails, Ends, Starves
<1>9. CASE Accept(k)
  <2>1. tpc[k] = "queued" /\ tpc'[k] = "request" /\ up' = up
    BY <1>0, <1>9 DEF Accept, At, Goto, wireVars
  <2> QED BY <1>1, <2>1 DEF Asks
<1>7. CASE RequestLeftover(k)
  BY <1>2, <1>7 DEF RequestLeftover
<1>8. CASE ReadPart1(k) \/ ReadPart2(k) \/ Open1(k) \/ Open2(k) \/ Close2(k) \/ Close1(k)
  <2>1. tpc[k] \in {"part1", "part2", "open1", "open2", "close2", "close1"}
    BY <1>8 DEF ReadPart1, ReadPart2, Open1, Open2, Close2, Close1, Truncate, Flush, At
  <2> QED BY <2>1 DEF Asks
<1> QED BY <1>3, <1>4, <1>5, <1>6, <1>7, <1>8, <1>9 DEF Thread, ThreadNext

LEMMA ThreadList ==
    ASSUME TypeOK, AskedInv, ~Coalesce, ListInv, NEW k \in Conns, Thread(k)
    PROVE  ListInv'
<1> SUFFICES ASSUME NEW c \in Clients PROVE ListState(c)'
  BY DEF ListInv
<1>0. /\ ListState(c) /\ OwnVars(c)' = OwnVars(c) /\ next' = next /\ cmd' = cmd
      /\ alive' \subseteq alive /\ starved \subseteq starved'
  BY ThreadScope, StarvedGrows DEF ListInv, Thread, clientVars
<1>1. ASSUME NEW s \in Servers, <<c, s>> # k
      PROVE  ConnVars(<<c, s>>)' = ConnVars(<<c, s>>) /\ down'[<<c, s>>] = down[<<c, s>>]
  <2>1. <<c, s>> \in Conns
    BY DEF Conns
  <2> QED BY <1>1, <2>1, ThreadScope, ThreadDown
<1>2. ASSUME NEW s \in Servers, NEW w \in 0..2, s \in alive' \ starved', Asks(c, s, w), c \in Trusted,
             cmd[c].op = "LIST", cpc[c] \in {"send", "read"}
      PROVE  Asks(c, s, w)'
  <2>1. CASE <<c, s>> # k
    BY <1>0, <1>1, <1>2, <2>1, AsksUntouched
  <2>2. CASE <<c, s>> = k
    <3>1. cmd[c] \in Requests
      BY <1>2 DEF TypeOK, ClientTypeOK
    <3> QED BY <1>2, <2>2, <3>1, AsksOn
  <2> QED BY <2>1, <2>2
<1>3. cmds[c] = 0 => Fresh(c)'
  <2> HAVE cmds[c] = 0
  <2>1. Fresh(c)
    BY <1>0 DEF ListState
  <2>2. CASE k[1] = c
    BY <2>1, <2>2, ThreadFresh
  <2>3. CASE k[1] # c
    <3>1. \A s \in Servers : tpc'[<<c, s>>] = tpc[<<c, s>>]
      BY <1>1, <2>3 DEF ConnVars
    <3>2. sock[c] \subseteq Servers
      BY DEF TypeOK, ClientTypeOK
    <3> QED BY <1>0, <2>1, <3>1, <3>2 DEF OwnVars, Fresh
  <2> QED BY <2>2, <2>3
<1> QED BY <1>0, <1>2, <1>3, ListUntouched

\* A step of a server beside its threads' takes nothing from a client.
LEMMA StrayList ==
    ASSUME TypeOK, ListInv, NEW r \in Servers, Stray(r)
    PROVE  ListInv'
<1>1. /\ UNCHANGED clientVars /\ UNCHANGED <<tpc, up, req, buf, n2, down>>
      /\ alive' \subseteq alive /\ starved \subseteq starved'
  BY DEF Stray, StrayNext, AcceptFails, StrayWrite, Starves, Ends
<1> SUFFICES ASSUME NEW c \in Clients PROVE ListState(c)'
  BY DEF ListInv
<1>2. /\ OwnVars(c)' = OwnVars(c) /\ next'[c] = next[c] /\ cmd'[c] = cmd[c] /\ ListState(c)
      /\ \A s \in Servers : ConnVars(<<c, s>>)' = ConnVars(<<c, s>>) /\ down'[<<c, s>>] = down[<<c, s>>]
  BY <1>1 DEF clientVars, OwnVars, ConnVars, ListInv
<1>3. \A s \in Servers, w \in 0..2 : Asks(c, s, w) => Asks(c, s, w)'
  BY <1>2, AsksUntouched
<1>4. cmds[c] = 0 => Fresh(c)'
  BY <1>1, <1>2 DEF ListState, Fresh, clientVars
<1> QED BY <1>1, <1>2, <1>3, <1>4, ListUntouched
-----------------------------------------------------------------------------
\* A step of a client.

\* Other clients take none of c's listings.
LEMMA ClientDown ==
    ASSUME TypeOK, NEW b \in Clients, Run(b) \/ Prompt(b)
    PROVE  /\ \A c \in Clients, s \in Servers :
                 c # b \/ ~(ReadListing(b) /\ s = next[b]) => down'[<<c, s>>] = down[<<c, s>>]
           /\ \A c \in Clients : c # b => next'[c] = next[c]
<1>0. DOMAIN down = Conns /\ DOMAIN next = Clients
  BY DEF TypeOK, WireTypeOK, ClientTypeOK
<1>1. CASE ReadListing(b)
  <2>1. /\ down' = down \/ \E v : down' = [down EXCEPT ![<<b, next[b]>>] = v]
        /\ \E v : next' = [next EXCEPT ![b] = v]
    BY <1>1 DEF ReadListing, Advance
  <2>2. ASSUME NEW c \in Clients, NEW s \in Servers, c # b \/ s # next[b]
        PROVE  down'[<<c, s>>] = down[<<c, s>>]
    <3>1. <<c, s>> \in Conns /\ <<c, s>> # <<b, next[b]>>
      BY <2>2 DEF Conns
    <3> QED BY <1>0, <2>1, <3>1
  <2> QED BY <1>0, <1>1, <2>1, <2>2
<1>2. CASE Dial(b)
  BY <1>0, <1>2 DEF Dial, Advance, wireVars
<1>3. CASE Send(b) \/ SigPipe(b) \/ OpenFile(b) \/ NoSuchFile(b) \/ TypeExit(b) \/ Unrecognized(b)
  BY <1>3 DEF Send, SigPipe, OpenFile, NoSuchFile, TypeExit, Unrecognized, wireVars
<1>4. CASE Repeat(b) \/ \E f \in Names, op \in {"LIST", "PUT"} : Type(b, op, f)
  BY <1>4 DEF Repeat, Type, Forward, wireVars
<1> QED BY <1>1, <1>2, <1>3, <1>4 DEF Run, Prompt

\* A write to another server leaves the connection alone; the line and the pair take
\* it one further each.
LEMMA SendAsks ==
    ASSUME TypeOK, NEW c \in Clients, Send(c), NEW s \in sock[c] \cap alive, NEW w \in 0..2,
           Asks(c, s, w)
    PROVE  /\ Head(out[c])[1] # s => Asks(c, s, w)'
           /\ Head(out[c]) = <<s, cmd[c]>> /\ w = 0 => Asks(c, s, 1)'
           /\ Head(out[c]) = <<s, Cred(c)>> /\ w = 1 => Asks(c, s, 2)'
<1> DEFINE k == <<c, s>>
<1>0. s \in Servers /\ k \in Conns
  BY DEF TypeOK, ClientTypeOK, Conns
<1>1. /\ up'[k] = IF s = Head(out[c])[1] THEN Append(up[k], Head(out[c])[2]) ELSE up[k]
      /\ tpc' = tpc /\ req' = req /\ buf' = buf /\ n2' = n2 /\ cmd' = cmd
  BY <1>0, SendEffect
<1>2. down' = down /\ \A n, v : Unread(c, n, v)' = SubSeq(<<cmd[c], Cred(c)>>, n + 1, v)
  BY <1>1 DEF Send, Unread
<1>3. \A n, v : Unread(c, n, v)' = Unread(c, n, v)
  BY <1>2 DEF Unread
<1>4. ASSUME Head(out[c])[1] # s PROVE Asks(c, s, w)'
  BY <1>0, <1>1, <1>2, <1>4, AsksUntouched DEF ConnVars
<1>5. ASSUME Head(out[c]) = <<s, cmd[c]>>, w = 0 PROVE Asks(c, s, 1)'
  <2>1. tpc[k] \in {"queued", "request"} /\ up[k] = Unread(c, 0, 0)
    BY <1>5 DEF Asks
  <2>2. up'[k] = Append(up[k], cmd[c])
    BY <1>1, <1>5
  <2>3. up'[k] = Unread(c, 0, 1)
    BY <2>1, <2>2, Written
  <2> QED BY <1>1, <1>3, <2>1, <2>3 DEF Asks
<1>6. ASSUME Head(out[c]) = <<s, Cred(c)>>, w = 1 PROVE Asks(c, s, 2)'
  <2>1. up'[k] = Append(up[k], Cred(c))
    BY <1>1, <1>6
  <2>2. \/ tpc[k] \in {"queued", "request"} /\ up[k] = Unread(c, 0, 1)
        \/ tpc[k] = "cred" /\ req[k] = cmd[c] /\ up[k] = Unread(c, 1, 1)
    BY <1>6 DEF Asks
  <2>3. \/ tpc[k] \in {"queued", "request"} /\ up'[k] = Unread(c, 0, 2)
        \/ tpc[k] = "cred" /\ req[k] = cmd[c] /\ up'[k] = Unread(c, 1, 2)
    BY <2>1, <2>2, Written
  <2>4. 2 >= 1
    OBVIOUS
  <2> QED BY <1>1, <1>3, <2>3, <2>4 DEF Asks
<1> QED BY <1>4, <1>5, <1>6

LEMMA SendList ==
    ASSUME TypeOK, NEW c \in Clients, ListState(c), Send(c), c \in Trusted, cmds[c] = 1,
           cmd[c].op = "LIST"
    PROVE  ListState(c)'
<1> DEFINE q == ToAll(cmd[c]) \o ToAll(Cred(c))
           Open == Serving(c)
<1>1. /\ cpc[c] = "send" /\ cmd' = cmd /\ cmds' = cmds /\ Serving(c)' = Serving(c)
      /\ Open \subseteq Servers /\ Open \subseteq sock[c] \cap alive
  BY SendEffect, ClientScope DEF Run, TypeOK, ClientTypeOK, Serving
<1>2. \A s \in Servers : q[s + 1] = <<s, cmd[c]>> /\ q[s + 5] = <<s, Cred(c)>>
  <2>1. LineAndPair(q, cmd[c], Cred(c))
    BY CommandWrites
  <2> QED BY <2>1 DEF LineAndPair
<1> HIDE DEF q
<1>3. PICK m \in 0..7 : Sent(c, q, m) /\ \A s \in Open : Asks(c, s, Made(m, s + 1, s + 5))
  BY <1>1 DEF ListState, q
<1>4. Head(out[c]) = q[m + 1]
  BY <1>3, SendNext
<1>5. ASSUME NEW s \in Open PROVE Asks(c, s, Made(m + 1, s + 1, s + 5))'
  <2>0. s \in Servers /\ s \in sock[c] \cap alive /\ Made(m, s + 1, s + 5) \in 0..2 /\ Asks(c, s, Made(m, s + 1, s + 5))
    BY <1>1, <1>3 DEF Made
  <2>1. CASE m + 1 = s + 1
    <3>1. Made(m, s + 1, s + 5) = 0 /\ Made(m + 1, s + 1, s + 5) = 1
      BY <2>0, <2>1, NextWrite
    <3>2. Head(out[c]) = <<s, cmd[c]>>
      BY <1>2, <1>4, <2>0, <2>1
    <3>3. Asks(c, s, 1)'
      BY <2>0, <3>1, <3>2, SendAsks
    <3> QED BY <3>1, <3>3
  <2>2. CASE m + 1 = s + 5
    <3>1. Made(m, s + 1, s + 5) = 1 /\ Made(m + 1, s + 1, s + 5) = 2
      BY <2>0, <2>2, NextWrite
    <3>2. Head(out[c]) = <<s, Cred(c)>>
      BY <1>2, <1>4, <2>0, <2>2
    <3>3. Asks(c, s, 2)'
      BY <2>0, <3>1, <3>2, SendAsks
    <3> QED BY <3>1, <3>3
  <2>3. CASE m + 1 \notin {s + 1, s + 5}
    <3>1. Made(m + 1, s + 1, s + 5) = Made(m, s + 1, s + 5)
      BY <2>0, <2>3, NextWrite
    <3>2. Head(out[c])[1] # s
      <4>1. PICK t \in Servers : m + 1 = t + 1 \/ m + 1 = t + 5
        BY WriteServer
      <4>2. q[m + 1][1] = t
        BY <1>2, <4>1
      <4>3. t # s
        BY <2>3, <4>1
      <4> QED BY <1>4, <4>2, <4>3
    <3>3. Asks(c, s, Made(m, s + 1, s + 5))'
      BY <2>0, <3>2, SendAsks
    <3> QED BY <3>1, <3>3
  <2> QED BY <2>1, <2>2, <2>3
<1>6. CASE m < 7
  <2>1. PICK h : h = q
    OBVIOUS
  <2>2. cpc'[c] = "send" /\ Sent(c, h, m + 1)' /\ m + 1 \in 0..7
    BY <1>3, <1>6, <2>1, SendNext
  <2>3. q' = h
    BY <1>1, <2>1 DEF q
  <2>4. Sent(c, q, m + 1)'
    BY <2>2, <2>3 DEF Sent
  <2> QED BY <1>1, <1>5, <2>2, <2>4 DEF ListState, q
<1>7. CASE m = 7
  <2>1. cpc'[c] = AfterSend(c, q[8][2])
    BY <1>3, <1>7, SendNext
  <2>2. q[8] = <<3, Cred(c)>>
    BY <1>2 DEF Servers
  <2>3. cpc'[c] = "read"
    BY <1>1, <2>1, <2>2 DEF AfterSend, Cred
  <2>4. ASSUME NEW s \in Open PROVE Asks(c, s, 2)'
    <3>1. Made(m + 1, s + 1, s + 5) = 2
      BY <1>1, <1>7 DEF Made, Servers
    <3> QED BY <1>5, <3>1
  <2>5. Awaited(c)'
    BY <1>1, <2>4 DEF Awaited
  <2> QED BY <1>1, <2>3, <2>5 DEF ListState
<1> QED BY <1>6, <1>7

\* The client has read the listing of next[c], or will get none: the others are
\* still to come.
LEMMA NextListing ==
    ASSUME TypeOK, NEW c \in Clients, ReadListing(c), Awaited(c), cpc'[c] = "read"
    PROVE  Awaited(c)'
<1>1. /\ next[c] \in Servers /\ DOMAIN next = Clients /\ DOMAIN cpc = Clients /\ sock[c] \subseteq Servers
  BY DEF TypeOK, ClientTypeOK
<1>2. /\ next' = [next EXCEPT ![c] = (@ + 1) % 4] /\ cpc' = [cpc EXCEPT ![c] = IF next[c] = 3 THEN "prompt" ELSE "read"]
      /\ UNCHANGED <<sock, alive, starved, cmd, tpc, up, req, buf, n2>>
  BY DEF ReadListing, Advance, Step, serverVars
<1>3. next[c] # 3 /\ next'[c] = next[c] + 1
  BY <1>1, <1>2 DEF Servers
<1>4. ASSUME NEW s \in Serving(c), s >= next[c] + 1 PROVE Asks(c, s, 2)'
  <2>1. s \in Servers /\ s # next[c] /\ s >= next[c]
    BY <1>1, <1>4 DEF Servers, Serving
  <2>2. down'[<<c, s>>] = down[<<c, s>>]
    BY <2>1, ClientDown DEF Run
  <2>3. Asks(c, s, 2)
    BY <1>4, <2>1 DEF Awaited
  <2> QED BY <1>2, <2>1, <2>2, <2>3, AsksUntouched DEF ConnVars
<1>5. Serving(c)' = Serving(c)
  BY <1>2 DEF Serving
<1> QED BY <1>3, <1>4, <1>5 DEF Awaited

\* A command that is typed starts on connections on which nothing has been said.
LEMMA TypeList ==
    ASSUME TypeOK, AskedInv, NEW c \in Clients, ListState(c), NEW f \in Names,
           NEW op \in {"LIST", "PUT"}, Type(c, op, f), cmds'[c] = 1
    PROVE  \E m \in 0..7 :
               /\ Sent(c, ToAll(cmd[c]) \o ToAll(Cred(c)), m)'
               /\ \A s \in Serving(c)' : Asks(c, s, Made(m, s + 1, s + 5))'
<1> DEFINE Open == Serving(c)
<1>0. /\ DOMAIN cpc = Clients /\ DOMAIN out = Clients /\ DOMAIN cmd = Clients
      /\ DOMAIN cmds = Clients /\ cmds[c] \in Nat /\ Open \subseteq Servers
      /\ Open \subseteq sock[c] \cap alive
  BY DEF TypeOK, ClientTypeOK, Serving
<1>1. Forward(c, Req(op, f)) /\ cmd'[c] = Req(op, f)
  BY <1>0 DEF Type
<1>2. cmds[c] = 0 /\ cpc[c] = "prompt"
  BY <1>0, <1>1 DEF Forward, Step
<1>3. Fresh(c)
  BY <1>2 DEF ListState
<1>4. /\ cpc'[c] = "send" /\ UNCHANGED <<sock, alive, starved, up, tpc>>
      /\ out'[c] = ToAll(cmd'[c]) \o ToAll(Cred(c))
  BY <1>0, <1>1 DEF Forward, Step, serverVars, wireVars
<1>5. ASSUME NEW s \in Open PROVE Asks(c, s, Made(0, s + 1, s + 5))'
  <2>1. tpc'[<<c, s>>] \in {"queued", "request"} /\ up'[<<c, s>>] = <<>>
    <3>1. <<c, s>> \in Conns /\ s \in Servers
      BY <1>0 DEF Conns
    <3>2. s \in sock[c] \cap alive /\ cpc[c] # "gone"
      BY <1>0, <1>2, <1>5
    <3>3. tpc[<<c, s>>] \in {"queued", "request"} /\ asked[c] = {}
      BY <1>3, <3>2 DEF Fresh
    <3>4. up[<<c, s>>] = <<>>
      BY <3>1, <3>3 DEF AskedInv, ConnAsked
    <3> QED BY <1>4, <3>3, <3>4
  <2>2. Made(0, s + 1, s + 5) = 0
    BY <1>0 DEF Made, Servers
  <2>3. Unread(c, 0, 0)' = <<>>
    <3>1. \A a, b : SubSeq(<<a, b>>, 0 + 1, 0) = <<>>
      OBVIOUS
    <3> QED BY <3>1 DEF Unread
  <2>4. Asks(c, s, 0)'
    BY <2>1, <2>3 DEF Asks
  <2> QED BY <2>2, <2>4
<1>6. Sent(c, ToAll(cmd[c]) \o ToAll(Cred(c)), 0)'
  <2>1. Len(ToAll(cmd'[c]) \o ToAll(Cred(c))) = 8
    BY CommandWrites DEF LineAndPair
  <2> QED BY <1>4, <2>1 DEF Sent
<1>7. Serving(c)' = Serving(c)
  BY <1>4 DEF Serving
<1> QED BY <1>5, <1>6, <1>7

LEMMA ClientList ==
    ASSUME TypeOK, AskedInv, ListInv, NEW b \in Clients, Run(b) \/ Prompt(b)
    PROVE  ListInv'
<1> SUFFICES ASSUME NEW c \in Clients PROVE ListState(c)'
  BY DEF ListInv
<1>0. ListState(c) /\ DOMAIN cpc = Clients /\ DOMAIN cmds = Clients /\ DOMAIN cmd = Clients
  BY DEF ListInv, TypeOK, ClientTypeOK
<1>1. CASE c # b
  <2>1. /\ OwnVars(c)' = OwnVars(c) /\ alive' \subseteq alive /\ next'[c] = next[c] /\ starved' = starved
        /\ \A s \in Servers : ConnVars(<<c, s>>)' = ConnVars(<<c, s>>) /\ down'[<<c, s>>] = down[<<c, s>>]
    BY <1>1, ClientScope, ClientDown
  <2>2. cmd'[c] = cmd[c] /\ \A s \in Servers : tpc'[<<c, s>>] = tpc[<<c, s>>]
    BY <2>1 DEF OwnVars, ConnVars
  <2>3. \A s \in Servers, w \in 0..2 : Asks(c, s, w) => Asks(c, s, w)'
    BY <2>1, <2>2, AsksUntouched
  <2>4. cmds[c] = 0 => Fresh(c)'
    <3>1. sock[c] \subseteq Servers
      BY DEF TypeOK, ClientTypeOK
    <3> QED BY <1>0, <2>1, <2>2, <3>1 DEF ListState, Fresh, OwnVars
  <2> QED BY <1>0, <2>1, <2>3, <2>4, ListUntouched
<1>2. CASE c = b
  <2>1. cmds'[c] = 0 => Fresh(c)'
    BY <1>0, <1>2, ClientFresh DEF ListState
  <2>2. CASE Send(c)
    <3>1. /\ cmd' = cmd /\ cmds' = cmds /\ cpc[c] = "send"
          /\ cpc'[c] \in {"send", AfterSend(c, Head(out[c])[2])}
      BY <2>2, SendEffect
    <3>2. (cpc'[c] = "read" => cmd[c].op = "LIST") /\ (cpc'[c] = "file" => cmd[c].op # "LIST")
      BY <3>1 DEF AfterSend
    <3>3. CASE c \in Trusted /\ cmds[c] = 1 /\ cmd[c].op = "LIST"
      BY <1>0, <2>2, <3>3, SendList
    <3>4. CASE ~(c \in Trusted /\ cmds[c] = 1 /\ cmd[c].op = "LIST")
      BY <2>1, <3>1, <3>2, <3>4, <1>2 DEF ListState
    <3> QED BY <3>3, <3>4
  <2>3. CASE ReadListing(c)
    <3>1. cmd' = cmd /\ cmds' = cmds /\ cpc[c] = "read" /\ cpc'[c] \in {"read", "prompt"}
      BY <1>0, <2>3 DEF ReadListing, Advance, Step
    <3>2. c \in Trusted /\ cmds[c] = 1 /\ cmd[c].op = "LIST" => Awaited(c)
      BY <1>0, <3>1 DEF ListState
    <3>3. c \in Trusted /\ cmds[c] = 1 /\ cmd[c].op = "LIST" /\ cpc'[c] = "read" => Awaited(c)'
      BY <2>3, <3>2, NextListing
    <3> QED BY <1>0, <2>1, <3>1, <3>3 DEF ListState
  <2>4. CASE \E f \in Names, op \in {"LIST", "PUT"} : Type(c, op, f)
    <3>1. PICK f \in Names, op \in {"LIST", "PUT"} : Type(c, op, f)
      BY <2>4
    <3>2. cpc'[c] = "send"
      BY <1>0, <3>1 DEF Type, Forward, Step
    <3>3. cmds'[c] = 1 =>
              \E m \in 0..7 :
                 /\ Sent(c, ToAll(cmd[c]) \o ToAll(Cred(c)), m)'
                 /\ \A s \in Serving(c)' : Asks(c, s, Made(m, s + 1, s + 5))'
      BY <1>0, <3>1, TypeList
    <3> QED BY <2>1, <3>2, <3>3 DEF ListState
  <2>5. CASE Repeat(c)
    <3>1. cpc'[c] = "send" /\ cmds'[c] = cmds[c] + 1
      BY <1>0, <2>5 DEF Repeat, Forward, Step
    <3>2. cmds[c] # 0
      BY <1>0, <2>5 DEF Repeat, ListState, Fresh
    <3>3. cmds[c] \in Nat
      BY DEF TypeOK, ClientTypeOK
    <3>4. cmds'[c] # 1
      BY <3>1, <3>2, <3>3
    <3> QED BY <2>1, <3>1, <3>4 DEF ListState
  <2>6. CASE Dial(c) \/ SigPipe(c) \/ NoSuchFile(c) \/ TypeExit(c) \/ Unrecognized(c)
    <3>1. cpc'[c] \notin {"send", "read", "file"}
      BY <1>0, <2>6 DEF Dial, Advance, SigPipe, NoSuchFile, TypeExit, Unrecognized, Step
    <3> QED BY <2>1, <3>1 DEF ListState
  <2>7. CASE OpenFile(c)
    <3>1. cmd' = cmd /\ cmds' = cmds /\ cpc[c] = "file" /\ cpc'[c] = "send"
      BY <1>0, <2>7 DEF OpenFile, Step
    <3>2. cmd[c].op # "LIST"
      BY <1>0, <3>1 DEF ListState
    <3> QED BY <2>1, <3>1, <3>2 DEF ListState
  <2> QED BY <1>2, <2>2, <2>3, <2>4, <2>5, <2>6, <2>7 DEF Run, Prompt
<1> QED BY <1>1, <1>2
-----------------------------------------------------------------------------
\* Theorems.

LEMMA InitList == Init => ListInv
<1> SUFFICES ASSUME Init, NEW c \in Clients PROVE ListState(c)
  BY DEF ListInv
<1>1. cpc[c] = "dial" /\ sock[c] = {} /\ ~again[c] /\ asked[c] = {}
  BY DEF Init, ClientInit
<1> QED BY <1>1 DEF ListState, Fresh

\* ListInv is inductive, given the types and what is on the connections, when each
\* read() returns one write().
THEOREM ListAlways ==
    ASSUME ~Coalesce
    PROVE  Spec => []ListInv
<1>1. TypeOK /\ AskedInv /\ ListInv /\ [Next]_vars => ListInv'
  <2> SUFFICES ASSUME TypeOK, AskedInv, ListInv, [Next]_vars PROVE ListInv'
    OBVIOUS
  <2>1. CASE Next
    BY <2>1, ThreadList, StrayList, ClientList DEF Next
  <2>2. CASE UNCHANGED vars
    <3> SUFFICES ASSUME NEW c \in Clients PROVE ListState(c)'
      BY DEF ListInv
    <3>1. /\ OwnVars(c)' = OwnVars(c) /\ alive' \subseteq alive /\ next'[c] = next[c] /\ starved' = starved
          /\ \A s \in Servers : ConnVars(<<c, s>>)' = ConnVars(<<c, s>>) /\ down'[<<c, s>>] = down[<<c, s>>]
      BY <2>2 DEF vars, wireVars, serverVars, clientVars, OwnVars, ConnVars
    <3>2. cmd'[c] = cmd[c] /\ ListState(c) /\ sock[c] \subseteq Servers
      BY <3>1 DEF OwnVars, ListInv, TypeOK, ClientTypeOK
    <3>3. \A s \in Servers, w \in 0..2 : Asks(c, s, w) => Asks(c, s, w)'
      BY <3>1, <3>2, AsksUntouched
    <3>4. cmds[c] = 0 => Fresh(c)'
      BY <3>1, <3>2 DEF ListState, Fresh, OwnVars, ConnVars
    <3> QED BY <3>1, <3>2, <3>3, <3>4, ListUntouched
  <2> QED BY <2>1, <2>2
<1> QED BY InitList, <1>1, TypeCorrect, AskedAlways, PTL DEF Spec

\* No client waits for its first LIST in vain, whatever other clients do, whichever
\* servers run and whenever one ends: what the next server has not sent, its thread
\* has before it all that it needs to send, unless the server lacks a descriptor.
THEOREM FirstListComes ==
    ASSUME ~Coalesce
    PROVE  Spec => []ListComes
<1>1. ListInv => ListComes
  BY WireAssumption DEF ListInv, ListState, ListComes
<1> QED BY <1>1, ListAlways, PTL
=============================================================================
