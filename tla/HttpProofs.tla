----------------------------- MODULE HttpProofs -----------------------------
(***************************************************************************)
(* Proofs about Http, for any connections, threads, descriptors and files. *)
(***************************************************************************)
EXTENDS Http, TLAPS

\* What Next is made of.
LEMMA Steps ==
    ASSUME [Next]_vars
    PROVE  \/ UNCHANGED vars
           \/ alive /\ \E c \in Conns : Connect(c) \/ Ask(c) \/ Leave(c)
           \/ alive /\ \E t \in Threads : AcceptFails(t) \/ \E c \in Conns : Accept(c, t)
           \/ alive /\ \E t \in Threads :
                 \/ Start(t) \/ ReadRequest(t) \/ ReadNothing(t) \/ Open(t) \/ OpenFails(t)
                 \/ SendHead(t) \/ SendSmall(t) \/ SendEmpty(t) \/ SendChunk(t)
                 \/ OpenIndex(t) \/ OpenIndexFails(t) \/ SendIndex(t) \/ SigPipe(t) \/ Close(t)
  BY DEF Next, Main, Thread, Browser
-----------------------------------------------------------------------------
\* The table of descriptors.

LEMMA OpensFact ==
    ASSUME TypeOK, NEW d \in Fds, Lowest(d), NEW is \in {"conn", "stream", "origin"},
           NEW c \in Conns \cup {Nobody}, Opens(d, is, c)
    PROVE  /\ TableTypeOK'
           /\ table[d] = Free
           /\ table'[d] = [is |-> is, of |-> c]
           /\ \A e \in Fds \ {d} : table'[e] = table[e]
  BY DEF TypeOK, TableTypeOK, Opens, Entries, Lowest, Unused

LEMMA ClosesFact ==
    ASSUME TypeOK, NEW d, Closes(d)
    PROVE  /\ TableTypeOK'
           /\ d \in Fds => table'[d] = Free
           /\ \A e \in Fds \ {d} : table'[e] = table[e]
  BY DEF TypeOK, TableTypeOK, Closes, Entries, Free

\* The connection a thread has, and that no other thread has it.
LEMMA PeerFact ==
    ASSUME TypeOK, HttpInv, NEW t \in Threads, Busy(t), Has(t)
    PROVE  /\ fd[t] \in Fds /\ Peer(t) \in Conns /\ link[Peer(t)] = "accepted"
           /\ table[fd[t]] = [is |-> "conn", of |-> Peer(t)]
           /\ \A u \in Threads \ {t} : Busy(u) /\ Has(u) =>
                 fd[u] # fd[t] /\ Peer(u) # Peer(t)
<1>1. ASSUME NEW u \in Threads, Busy(u), Has(u)
      PROVE  /\ fd[u] \in Fds /\ Peer(u) \in Conns /\ link[Peer(u)] = "accepted"
             /\ table[fd[u]] = [is |-> "conn", of |-> Peer(u)]
  <2>1. PICK c \in Conns : table[fd[u]] = [is |-> "conn", of |-> c] /\ link[c] = "accepted"
    BY <1>1 DEF HttpInv, OwnConnection
  <2>2. Peer(u) = c
    BY <2>1 DEF Peer
  <2> QED BY <1>1, <2>1, <2>2 DEF Has
<1>2. ASSUME NEW u \in Threads \ {t}, Busy(u), Has(u)
      PROVE  fd[u] # fd[t] /\ Peer(u) # Peer(t)
  <2>1. fd[u] # fd[t]
    BY <1>2 DEF HttpInv, OwnConnection
  <2>2. /\ table[fd[u]] = [is |-> "conn", of |-> Peer(u)]
        /\ table[fd[t]] = [is |-> "conn", of |-> Peer(t)]
        /\ fd[u] \in Fds /\ fd[t] \in Fds
    BY <1>1, <1>2
  <2> QED BY <2>1, <2>2 DEF HttpInv, OneDescriptor
<1> QED BY <1>1, <1>2

\* Whom a thread opens a stream for.
LEMMA ForWhom ==
    ASSUME TypeOK, HttpInv, NEW t \in Threads, Busy(t)
    PROVE  (IF Has(t) THEN Peer(t) ELSE Nobody) \in Conns \cup {Nobody}
  BY PeerFact

\* The stream a thread has open.
LEMMA StreamFact ==
    ASSUME TypeOK, HttpInv, NEW t \in Threads, Holds(t)
    PROVE  /\ fp[t] \in Fds /\ Busy(t)
           /\ table[fp[t]].is = "stream"
           /\ \A u \in Threads : Busy(u) /\ Has(u) => fd[u] # fp[t]
<1>1. fp[t] \in Fds /\ Busy(t) /\ table[fp[t]].is = "stream"
  <2>1. /\ fp[t] \in Fds
        /\ table[fp[t]] = [is |-> "stream", of |-> IF Has(t) THEN Peer(t) ELSE Nobody]
    BY DEF HttpInv, OwnStream
  <2>2. table[fp[t]].is = "stream"
    BY <2>1
  <2> QED BY <2>1, <2>2 DEF Holds, Busy
<1>2. ASSUME NEW u \in Threads, Busy(u), Has(u)
      PROVE  table[fd[u]].is = "conn"
  <2>1. table[fd[u]] = [is |-> "conn", of |-> Peer(u)]
    BY <1>2, PeerFact
  <2> QED BY <2>1
<1> QED BY <1>1, <1>2

LEMMA LengthType == Length \in [Paths -> Nat] /\ \A p \in Paths : Sent(p) \in Nat
  BY HttpAssumption DEF Length, Sent

\* What a write() changes: the client of the thread that writes, if it is there.
LEMMA WritesFact ==
    ASSUME TypeOK, HttpInv, NEW t \in Threads, Busy(t),
           NEW h \in Nat \cup {NoHead}, NEW n \in Nat, Writes(t, h, n)
    PROVE  /\ head' \in [Conns -> Nat \cup {NoHead}] /\ body' \in [Conns -> Nat]
           /\ Has(t) /\ Peer(t) \notin gone =>
                 head'[Peer(t)] = h /\ body'[Peer(t)] = body[Peer(t)] + n
           /\ \A c \in Conns : c \in gone \/ ~Has(t) \/ c # Peer(t) =>
                 head'[c] = head[c] /\ body'[c] = body[c]
<1>1. CASE Has(t) /\ ~PeerGone(t)
  <2>1. /\ head' = [head EXCEPT ![Peer(t)] = h]
        /\ body' = [body EXCEPT ![Peer(t)] = body[Peer(t)] + n]
    BY <1>1 DEF Writes
  <2>2. Peer(t) \in Conns
    BY <1>1, PeerFact
  <2>3. head \in [Conns -> Nat \cup {NoHead}] /\ body \in [Conns -> Nat]
    BY DEF TypeOK
  <2> QED BY <1>1, <2>1, <2>2, <2>3 DEF PeerGone
<1>2. CASE ~(Has(t) /\ ~PeerGone(t))
  BY <1>2 DEF Writes, replies, TypeOK, PeerGone
<1> QED BY <1>1, <1>2

\* The same for a write() after the header.
LEMMA MoreFact ==
    ASSUME TypeOK, HttpInv, NEW t \in Threads, Busy(t), NEW n \in Nat, WritesMore(t, n)
    PROVE  /\ head' \in [Conns -> Nat \cup {NoHead}] /\ body' \in [Conns -> Nat]
           /\ Has(t) /\ Peer(t) \notin gone => body'[Peer(t)] = body[Peer(t)] + n
           /\ \A c \in Conns : head'[c] = head[c]
           /\ \A c \in Conns : c \in gone \/ ~Has(t) \/ c # Peer(t) => body'[c] = body[c]
<1>1. CASE Has(t)
  <2>1. head[Peer(t)] \in Nat \cup {NoHead} /\ Peer(t) \in Conns
    BY <1>1, PeerFact DEF TypeOK
  <2>2. Writes(t, head[Peer(t)], n)
    BY DEF WritesMore
  <2> QED BY <1>1, <2>1, <2>2, WritesFact
<1>2. CASE ~Has(t)
  BY <1>2 DEF WritesMore, Writes, replies, TypeOK
<1> QED BY <1>1, <1>2

\* What the next write() announces, and how many bytes it has.
LEMMA SizesFact ==
    ASSUME TypeOK, HttpInv, NEW t \in Threads, Busy(t)
    PROVE  /\ Has(t) => head[Peer(t)] \in Nat \cup {NoHead}
           /\ path[t] \in Paths => /\ Length[path[t]] \in Nat /\ Text[path[t]] \in Nat
                                    /\ Size[path[t]] \in Nat
           /\ Size[Index] \in Nat /\ Text[Index] \in Nat
           /\ Chunk(t) \in Nat /\ left[t] - Chunk(t) \in Nat
<1>1. Has(t) => head[Peer(t)] \in Nat \cup {NoHead}
  BY PeerFact DEF TypeOK
<1>2. left[t] \in Nat
  BY DEF TypeOK
<1>3. Chunk(t) \in Nat /\ left[t] - Chunk(t) \in Nat
  BY <1>2 DEF Chunk, MAXBUF
<1> QED BY <1>1, <1>3, LengthType, HttpAssumption
-----------------------------------------------------------------------------
\* Types.

LEMMA TypeInit == Init => TypeOK
  BY HttpAssumption, DescriptorAssumption DEF Init, TypeOK, TableInit, TableTypeOK, Free, Entries

LEMMA TypeStep == TypeOK /\ HttpInv /\ [Next]_vars => TypeOK'
<1> SUFFICES ASSUME TypeOK, HttpInv, [Next]_vars
             PROVE  TypeOK'
  OBVIOUS
<1> USE DEF browser, replies, stack, At, Goto
<1>1. CASE UNCHANGED vars
  BY <1>1 DEF vars, TypeOK, TableTypeOK
<1>2. ASSUME NEW c \in Conns, Connect(c) \/ Ask(c) \/ Leave(c)
      PROVE  TypeOK'
  BY <1>2 DEF Connect, Ask, Leave, TypeOK, TableTypeOK
<1>3. ASSUME NEW t \in Threads, AcceptFails(t)
      PROVE  TypeOK'
  BY <1>3 DEF AcceptFails, Hand, TypeOK, TableTypeOK
<1>4. ASSUME NEW t \in Threads, NEW c \in Conns, Accept(c, t)
      PROVE  TypeOK'
  <2>1. PICK d \in Fds : Lowest(d) /\ Opens(d, "conn", c) /\ Hand(t, d)
    BY <1>4 DEF Accept
  <2>2. TableTypeOK'
    BY <2>1, OpensFact
  <2> QED BY <1>4, <2>1, <2>2 DEF Accept, Hand, TypeOK
<1>5. ASSUME NEW t \in Threads, Start(t) \/ SendEmpty(t)
      PROVE  TypeOK'
  BY <1>5 DEF Start, SendEmpty, TypeOK, TableTypeOK
<1>6. ASSUME NEW t \in Threads, ReadRequest(t) \/ ReadNothing(t)
      PROVE  TypeOK'
  <2>1. PICK p \in Paths : Parsed(t, p)
    <3>1. CASE ReadRequest(t)
      <4>1. Peer(t) \in Conns
        BY <3>1, PeerFact DEF ReadRequest, Busy
      <4> QED BY <3>1, <4>1 DEF ReadRequest, TypeOK
    <3>2. CASE ReadNothing(t)
      BY <3>2, HttpAssumption DEF ReadNothing, TypeOK
    <3> QED BY <1>6, <3>1, <3>2
  <2> QED BY <2>1 DEF Parsed, TypeOK, TableTypeOK
<1>7. ASSUME NEW t \in Threads, Open(t)
      PROVE  TypeOK'
  <2>1. Busy(t) /\ path[t] \in Paths
    BY <1>7 DEF Open, Busy, TypeOK
  <2>2. PICK d \in Fds : /\ Lowest(d)
                         /\ Opens(d, "stream", IF Has(t) THEN Peer(t) ELSE Nobody)
                         /\ fp' = [fp EXCEPT ![t] = d]
    BY <1>7 DEF Open
  <2>3. TableTypeOK'
    BY <2>1, <2>2, OpensFact, ForWhom
  <2> QED BY <1>7, <2>1, <2>2, <2>3, HttpAssumption DEF Open, TypeOK
<1>8. ASSUME NEW t \in Threads, OpenFails(t) \/ OpenIndexFails(t) \/ SigPipe(t)
      PROVE  TypeOK'
  BY <1>8 DEF OpenFails, OpenIndexFails, SigPipe, Exit, TypeOK, TableTypeOK
<1>9. ASSUME NEW t \in Threads, SendHead(t)
      PROVE  TypeOK'
  <2>1. Busy(t) /\ path[t] \in Paths
    BY <1>9 DEF SendHead, Busy, TypeOK
  <2>2. head' \in [Conns -> Nat \cup {NoHead}] /\ body' \in [Conns -> Nat]
    BY <1>9, <2>1, WritesFact, SizesFact DEF SendHead
  <2> QED BY <1>9, <2>1, <2>2 DEF SendHead, TypeOK, TableTypeOK
<1>10. ASSUME NEW t \in Threads, SendSmall(t)
       PROVE  TypeOK'
  <2>1. Busy(t) /\ path[t] \in Paths
    BY <1>10 DEF SendSmall, Busy, TypeOK
  <2>2. head' \in [Conns -> Nat \cup {NoHead}] /\ body' \in [Conns -> Nat]
    BY <1>10, <2>1, MoreFact, SizesFact DEF SendSmall
  <2>3. TableTypeOK'
    BY <1>10, ClosesFact DEF SendSmall
  <2> QED BY <1>10, <2>1, <2>2, <2>3 DEF SendSmall, TypeOK
<1>11. ASSUME NEW t \in Threads, SendChunk(t)
       PROVE  TypeOK'
  <2>1. Busy(t) /\ path[t] \in Paths
    BY <1>11 DEF SendChunk, Busy, TypeOK
  <2>2. head' \in [Conns -> Nat \cup {NoHead}] /\ body' \in [Conns -> Nat]
    BY <1>11, <2>1, MoreFact, SizesFact DEF SendChunk
  <2>3. left' \in [Threads -> Nat]
    BY <1>11, <2>1, SizesFact DEF SendChunk, TypeOK
  <2> QED BY <1>11, <2>1, <2>2, <2>3 DEF SendChunk, TypeOK, TableTypeOK
<1>12. ASSUME NEW t \in Threads, OpenIndex(t)
       PROVE  TypeOK'
  <2>1. Busy(t) /\ path[t] \in Paths
    BY <1>12 DEF OpenIndex, Busy, TypeOK
  <2>2. PICK d \in Fds : /\ Lowest(d)
                         /\ Opens(d, "stream", IF Has(t) THEN Peer(t) ELSE Nobody)
                         /\ fp' = [fp EXCEPT ![t] = d]
    BY <1>12 DEF OpenIndex
  <2>3. TableTypeOK'
    BY <2>1, <2>2, OpensFact, ForWhom
  <2> QED BY <1>12, <2>1, <2>2, <2>3 DEF OpenIndex, TypeOK
<1>13. ASSUME NEW t \in Threads, SendIndex(t)
       PROVE  TypeOK'
  <2>1. Busy(t) /\ path[t] \in Paths
    BY <1>13 DEF SendIndex, Busy, TypeOK
  <2>2. head' \in [Conns -> Nat \cup {NoHead}] /\ body' \in [Conns -> Nat]
    BY <1>13, <2>1, WritesFact, SizesFact DEF SendIndex
  <2>3. TableTypeOK'
    BY <1>13, ClosesFact DEF SendIndex
  <2> QED BY <1>13, <2>1, <2>2, <2>3 DEF SendIndex, TypeOK
<1>14. ASSUME NEW t \in Threads, Close(t)
       PROVE  TypeOK'
  <2>1. TableTypeOK'
    BY <1>14, ClosesFact DEF Close
  <2> QED BY <1>14, <2>1 DEF Close, TypeOK
<1> QED
  BY <1>1, <1>2, <1>3, <1>4, <1>5, <1>6, <1>7, <1>8, <1>9, <1>10, <1>11, <1>12, <1>13, <1>14, Steps
-----------------------------------------------------------------------------
\* The inductive invariant, lemma by lemma: what each kind of step does to it.

LEMMA InvInit == Init => HttpInv
  BY DEF Init, TableInit, Free, HttpInv, OwnConnection, OneDescriptor, OwnStream, Answers,
         Busy, Holds, Remaining

\* A step that leaves the table alone.
LEMMA TableKept ==
    ASSUME TypeOK, HttpInv, table' = table, link' = link, fd' = fd, fp' = fp,
           \A u \in Threads : (Busy(u)' <=> Busy(u)) /\ (Holds(u)' => Holds(u))
    PROVE  (OwnConnection /\ OneDescriptor /\ OwnStream)'
<1>1. OwnConnection /\ OneDescriptor /\ OwnStream
  BY DEF HttpInv
<1>2. \A u \in Threads : (Has(u)' <=> Has(u)) /\ Peer(u)' = Peer(u)
  BY DEF Has, Peer
<1>3. OwnConnection'
  BY <1>1, <1>2 DEF OwnConnection
<1>4. OneDescriptor'
  BY <1>1, <1>2 DEF OneDescriptor
<1>5. OwnStream'
  BY <1>1, <1>2 DEF OwnStream
<1> QED BY <1>3, <1>4, <1>5

\* A thread opens a stream.
LEMMA StreamOpened ==
    ASSUME TypeOK, HttpInv, NEW t \in Threads, Busy(t), NEW d \in Fds, Lowest(d),
           Opens(d, "stream", IF Has(t) THEN Peer(t) ELSE Nobody),
           fp' = [fp EXCEPT ![t] = d], fd' = fd, link' = link,
           \A u \in Threads : (Busy(u)' <=> Busy(u)) /\ (u # t => (Holds(u)' <=> Holds(u)))
    PROVE  /\ (OwnConnection /\ OneDescriptor /\ OwnStream)'
           /\ \A u \in Threads : Busy(u) /\ Has(u) => table'[fd[u]] = table[fd[u]]
<1>1. /\ table[d] = Free
      /\ table'[d] = [is |-> "stream", of |-> IF Has(t) THEN Peer(t) ELSE Nobody]
      /\ \A e \in Fds \ {d} : table'[e] = table[e]
  BY OpensFact, ForWhom
<1>2. table[d].is = "free" /\ table'[d].is = "stream"
  BY <1>1 DEF Free
<1>3. ASSUME NEW u \in Threads, Busy(u), Has(u)
      PROVE  fd[u] # d /\ table'[fd[u]] = table[fd[u]] /\ Peer(u)' = Peer(u)
  <2>1. fd[u] \in Fds /\ table[fd[u]] = [is |-> "conn", of |-> Peer(u)]
    BY <1>3, PeerFact
  <2>2. fd[u] # d
    BY <1>2, <2>1
  <2> QED BY <1>1, <2>1, <2>2 DEF Peer
<1>4. \A u \in Threads : Has(u)' <=> Has(u)
  BY DEF Has
<1>5. OwnConnection'
  BY <1>3, <1>4 DEF HttpInv, OwnConnection
<1>6. OneDescriptor'
  <2>1. \A e \in Fds : table'[e].is = "conn" => e # d /\ table'[e] = table[e]
    BY <1>1, <1>2
  <2>2. \A e \in Fds : table'[e].is \in {"free", "conn", "stream"}
    BY <1>1, <1>2 DEF HttpInv, OneDescriptor
  <2> QED BY <2>1, <2>2 DEF HttpInv, OneDescriptor
<1>7. OwnStream'
  <2>1. ASSUME NEW u \in Threads \ {t}, Holds(u)
        PROVE  /\ fp'[u] = fp[u] /\ fp[u] # d /\ fp[u] \in Fds
               /\ table'[fp[u]] = [is |-> "stream", of |-> IF Has(u) THEN Peer(u)' ELSE Nobody]
    <3>1. fp[u] \in Fds /\ Busy(u) /\ table[fp[u]].is = "stream"
      BY <2>1, StreamFact
    <3>2. fp'[u] = fp[u] /\ fp[u] # d
      BY <1>2, <3>1 DEF TypeOK
    <3> QED BY <1>1, <1>3, <2>1, <3>1, <3>2 DEF HttpInv, OwnStream
  <2>2. fp'[t] = d
    BY DEF TypeOK
  <2>3. table'[d] = [is |-> "stream", of |-> IF Has(t) THEN Peer(t)' ELSE Nobody]
    BY <1>1, <1>3
  <2>4. ASSUME NEW u \in Threads \ {t}, Holds(u), NEW v \in Threads \ {t, u}, Holds(v)
        PROVE  fp[v] # fp[u]
    BY <2>4 DEF HttpInv, OwnStream
  <2>5. ASSUME NEW u \in Threads, Holds(u)'
        PROVE  /\ fp'[u] \in Fds
               /\ table'[fp'[u]] = [is |-> "stream", of |-> IF Has(u)' THEN Peer(u)' ELSE Nobody]
    <3>1. CASE u = t
      BY <1>4, <2>2, <2>3, <3>1
    <3>2. CASE u # t
      <4>1. Holds(u)
        BY <2>5, <3>2
      <4> QED BY <1>4, <2>1, <3>2, <4>1
    <3> QED BY <3>1, <3>2
  <2>6. ASSUME NEW u \in Threads, Holds(u)', NEW v \in Threads \ {u}, Holds(v)'
        PROVE  fp'[v] # fp'[u]
    <3>1. CASE u = t
      BY <2>1, <2>2, <2>6, <3>1
    <3>2. CASE v = t
      BY <2>1, <2>2, <2>6, <3>2
    <3>3. CASE u # t /\ v # t
      <4>1. Holds(u) /\ Holds(v)
        BY <2>6, <3>3
      <4> QED BY <2>1, <2>4, <2>6, <3>3, <4>1
    <3> QED BY <3>1, <3>2, <3>3
  <2> QED BY <2>5, <2>6 DEF OwnStream
<1> QED BY <1>3, <1>5, <1>6, <1>7

\* A thread closes its stream.
LEMMA StreamClosed ==
    ASSUME TypeOK, HttpInv, NEW t \in Threads, Holds(t), Closes(fp[t]),
           fp' = fp, fd' = fd, link' = link, ~Holds(t)', Busy(t)',
           \A u \in Threads \ {t} : (Busy(u)' <=> Busy(u)) /\ (Holds(u)' <=> Holds(u))
    PROVE  /\ (OwnConnection /\ OneDescriptor /\ OwnStream)'
           /\ \A u \in Threads : Busy(u) /\ Has(u) => table'[fd[u]] = table[fd[u]]
<1>1. /\ fp[t] \in Fds /\ Busy(t) /\ table[fp[t]].is = "stream"
      /\ \A u \in Threads : Busy(u) /\ Has(u) => fd[u] # fp[t]
  BY StreamFact
<1>2. table'[fp[t]] = Free /\ \A e \in Fds \ {fp[t]} : table'[e] = table[e]
  BY <1>1, ClosesFact
<1>3. table'[fp[t]].is = "free"
  BY <1>2 DEF Free
<1>4. ASSUME NEW u \in Threads, Busy(u), Has(u)
      PROVE  table'[fd[u]] = table[fd[u]] /\ Peer(u)' = Peer(u)
  <2>1. fd[u] \in Fds /\ fd[u] # fp[t]
    BY <1>1, <1>4, PeerFact
  <2> QED BY <1>2, <2>1 DEF Peer
<1>5. \A u \in Threads : (Has(u)' <=> Has(u)) /\ (Busy(u)' <=> Busy(u))
  BY <1>1 DEF Has
<1>6. OwnConnection'
  BY <1>4, <1>5 DEF HttpInv, OwnConnection
<1>7. OneDescriptor'
  <2>1. \A e \in Fds : table'[e].is = "conn" => e # fp[t] /\ table'[e] = table[e]
    BY <1>2, <1>3
  <2>2. \A e \in Fds : table'[e].is \in {"free", "conn", "stream"}
    BY <1>2, <1>3 DEF HttpInv, OneDescriptor
  <2> QED BY <1>5, <2>1, <2>2 DEF HttpInv, OneDescriptor
<1>8. OwnStream'
  <2>1. ASSUME NEW u \in Threads \ {t}, Holds(u)
        PROVE  /\ fp[u] \in Fds /\ fp[u] # fp[t]
               /\ table'[fp[u]] = [is |-> "stream", of |-> IF Has(u) THEN Peer(u)' ELSE Nobody]
    <3>1. fp[u] \in Fds /\ Busy(u) /\ fp[u] # fp[t]
      BY <2>1, StreamFact DEF HttpInv, OwnStream
    <3> QED BY <1>2, <1>4, <2>1, <3>1 DEF HttpInv, OwnStream
  <2>2. ASSUME NEW u \in Threads \ {t}, Holds(u), NEW v \in Threads \ {t, u}, Holds(v)
        PROVE  fp[v] # fp[u]
    BY <2>2 DEF HttpInv, OwnStream
  <2> QED BY <1>5, <2>1, <2>2 DEF OwnStream
<1> QED BY <1>4, <1>6, <1>7, <1>8

\* A thread closes its connection, if it has one.
LEMMA ConnClosed ==
    ASSUME TypeOK, HttpInv, NEW t \in Threads, Close(t)
    PROVE  /\ (OwnConnection /\ OneDescriptor /\ OwnStream)'
           /\ \A u \in Threads \ {t} : Busy(u) /\ Has(u) => table'[fd[u]] = table[fd[u]]
<1>1. /\ Busy(t) /\ ~Holds(t) /\ ~Busy(t)' /\ ~Holds(t)'
      /\ \A u \in Threads \ {t} : (Busy(u)' <=> Busy(u)) /\ (Holds(u)' <=> Holds(u))
      /\ fd' = fd /\ fp' = fp
  BY DEF Close, At, Goto, Busy, Holds, TypeOK, stack
<1>2. /\ fd[t] \in Fds => table'[fd[t]] = Free
      /\ \A e \in Fds \ {fd[t]} : table'[e] = table[e]
  BY ClosesFact DEF Close
<1>3. Free.is = "free"
  BY DEF Free
<1>4. ASSUME NEW u \in Threads \ {t}, Busy(u), Has(u)
      PROVE  /\ fd[u] \in Fds /\ fd[u] # fd[t] /\ table'[fd[u]] = table[fd[u]]
             /\ Peer(u)' = Peer(u) /\ link'[Peer(u)] = link[Peer(u)]
  <2>1. fd[u] \in Fds /\ fd[u] # fd[t]
    BY <1>1, <1>4, PeerFact DEF HttpInv, OwnConnection
  <2>2. table'[fd[u]] = table[fd[u]] /\ Peer(u)' = Peer(u)
    BY <1>1, <1>2, <2>1 DEF Peer
  <2>3. CASE Has(t)
    <3>1. Peer(u) # Peer(t) /\ Peer(t) \in Conns /\ Peer(u) \in Conns
      BY <1>1, <1>4, <2>3, PeerFact
    <3>2. link' = [link EXCEPT ![Peer(t)] = "ended"]
      BY <2>3 DEF Close
    <3>3. link'[Peer(u)] = link[Peer(u)]
      BY <3>1, <3>2 DEF TypeOK
    <3> QED BY <2>1, <2>2, <3>3
  <2>4. CASE ~Has(t)
    BY <2>1, <2>2, <2>4 DEF Close
  <2> QED BY <2>3, <2>4
<1>5. \A u \in Threads : Has(u)' <=> Has(u)
  BY <1>1 DEF Has
<1>6. OwnConnection'
  <2>1. ASSUME NEW u \in Threads, Busy(u)', Has(u)'
        PROVE  /\ u # t /\ Busy(u) /\ Has(u)
               /\ \E c \in Conns : table'[fd[u]] = [is |-> "conn", of |-> c] /\ link'[c] = "accepted"
    <3>1. u # t /\ Busy(u) /\ Has(u)
      BY <1>1, <1>5, <2>1
    <3>2. /\ Peer(u) \in Conns /\ link[Peer(u)] = "accepted"
          /\ table[fd[u]] = [is |-> "conn", of |-> Peer(u)]
      BY <3>1, PeerFact
    <3> QED BY <1>4, <3>1, <3>2
  <2>2. ASSUME NEW u \in Threads \ {t}, Busy(u), Has(u), NEW v \in Threads \ {t, u}, Busy(v)
        PROVE  fd[v] # fd[u]
    BY <2>2 DEF HttpInv, OwnConnection
  <2> QED BY <1>1, <2>1, <2>2 DEF OwnConnection
<1>7. OneDescriptor'
  <2>1. ASSUME NEW e \in Fds, table'[e].is = "conn"
        PROVE  /\ e # fd[t] /\ table'[e] = table[e] /\ table[e].of \in Conns
               /\ \E u \in Threads : Busy(u)' /\ fd[u] = e
    <3>1. e # fd[t] /\ table'[e] = table[e]
      BY <1>2, <1>3, <2>1
    <3>2. table[e].of \in Conns /\ \E u \in Threads : Busy(u) /\ fd[u] = e
      BY <2>1, <3>1 DEF HttpInv, OneDescriptor
    <3> QED BY <1>1, <3>1, <3>2
  <2>2. \A e \in Fds : table'[e].is \in {"free", "conn", "stream"}
    BY <1>2, <1>3 DEF HttpInv, OneDescriptor
  <2>3. \A d, e \in Fds : table'[d].is = "conn" /\ table'[d] = table'[e] => d = e
    BY <2>1 DEF HttpInv, OneDescriptor
  <2> QED BY <1>1, <2>1, <2>2, <2>3 DEF OneDescriptor
<1>8. OwnStream'
  <2>1. ASSUME NEW u \in Threads \ {t}, Holds(u)
        PROVE  /\ fp[u] \in Fds
               /\ table'[fp[u]] = [is |-> "stream", of |-> IF Has(u) THEN Peer(u)' ELSE Nobody]
    <3>1. fp[u] \in Fds /\ Busy(u) /\ table'[fp[u]] = table[fp[u]]
      <4>1. fp[u] \in Fds /\ Busy(u) /\ (Has(t) => fd[t] # fp[u])
        BY <1>1, <2>1, StreamFact
      <4> QED BY <1>2, <4>1 DEF Has
    <3> QED BY <1>4, <2>1, <3>1 DEF HttpInv, OwnStream
  <2>2. ASSUME NEW u \in Threads \ {t}, Holds(u), NEW v \in Threads \ {t, u}, Holds(v)
        PROVE  fp[v] # fp[u]
    BY <2>2 DEF HttpInv, OwnStream
  <2> QED BY <1>1, <1>5, <2>1, <2>2 DEF OwnStream
<1> QED BY <1>4, <1>6, <1>7, <1>8

\* main() gives an idle thread a new connection.
LEMMA ConnOpened ==
    ASSUME TypeOK, HttpInv, NEW t \in Threads, NEW c \in Conns, Accept(c, t)
    PROVE  /\ (OwnConnection /\ OneDescriptor /\ OwnStream)'
           /\ Has(t)' /\ Peer(t)' = c
           /\ \A u \in Threads \ {t} : Busy(u) /\ Has(u) => table'[fd[u]] = table[fd[u]]
<1>1. /\ ~Busy(t) /\ ~Holds(t) /\ Busy(t)' /\ ~Holds(t)'
      /\ \A u \in Threads \ {t} : (Busy(u)' <=> Busy(u)) /\ (Holds(u)' <=> Holds(u))
      /\ fp' = fp /\ link[c] = "queued" /\ link' = [link EXCEPT ![c] = "accepted"]
  BY DEF Accept, Busy, Holds, TypeOK, stack
<1>2. PICK d \in Fds : Lowest(d) /\ Opens(d, "conn", c) /\ Hand(t, d)
  BY DEF Accept
<1>3. /\ table[d] = Free /\ table'[d] = [is |-> "conn", of |-> c]
      /\ \A e \in Fds \ {d} : table'[e] = table[e]
  BY <1>2, OpensFact
<1>4. table[d].is = "free" /\ table'[d].is = "conn" /\ table'[d].of = c
  BY <1>3 DEF Free
<1>5. fd'[t] = d /\ \A u \in Threads \ {t} : fd'[u] = fd[u]
  BY <1>2 DEF Hand, TypeOK
<1>6. link'[c] = "accepted" /\ \A k \in Conns \ {c} : link'[k] = link[k]
  BY <1>1 DEF TypeOK
<1>7. ASSUME NEW u \in Threads \ {t}, Busy(u), Has(u)
      PROVE  /\ fd[u] \in Fds /\ fd[u] # d /\ table'[fd[u]] = table[fd[u]]
             /\ Peer(u)' = Peer(u) /\ Peer(u) \in Conns /\ Peer(u) # c
             /\ table[fd[u]] = [is |-> "conn", of |-> Peer(u)] /\ link[Peer(u)] = "accepted"
  <2>1. /\ fd[u] \in Fds /\ Peer(u) \in Conns /\ link[Peer(u)] = "accepted"
        /\ table[fd[u]] = [is |-> "conn", of |-> Peer(u)]
    BY <1>7, PeerFact
  <2>2. fd[u] # d /\ Peer(u) # c
    BY <1>1, <1>4, <2>1
  <2> QED BY <1>3, <1>5, <2>1, <2>2 DEF Peer
<1>8. /\ \A u \in Threads \ {t} : Has(u)' <=> Has(u)
      /\ Has(t)' /\ Peer(t)' = c
  BY <1>4, <1>5 DEF Has, Peer
<1>9. OwnConnection'
  <2>1. ASSUME NEW u \in Threads \ {t}, Busy(u)', Has(u)'
        PROVE  /\ \E k \in Conns : table'[fd'[u]] = [is |-> "conn", of |-> k] /\ link'[k] = "accepted"
               /\ \A v \in Threads \ {u} : Busy(v)' => fd'[v] # fd'[u]
    <3>1. Busy(u) /\ Has(u)
      BY <1>1, <1>8, <2>1
    <3>2. \A v \in Threads \ {u} : Busy(v) => fd[v] # fd[u]
      BY <3>1 DEF HttpInv, OwnConnection
    <3>3. fd'[u] = fd[u] /\ Peer(u) \in Conns \ {c}
          /\ table'[fd'[u]] = [is |-> "conn", of |-> Peer(u)]
      BY <1>5, <1>7, <3>1
    <3>4. link'[Peer(u)] = "accepted"
      BY <1>6, <1>7, <3>1, <3>3
    <3>5. ASSUME NEW v \in Threads \ {u}, Busy(v)'
          PROVE  fd'[v] # fd'[u]
      <4>1. CASE v = t
        BY <1>5, <1>7, <3>1, <3>3, <4>1
      <4>2. CASE v # t
        BY <1>1, <1>5, <3>2, <3>3, <3>5, <4>2
      <4> QED BY <4>1, <4>2
    <3> QED BY <3>3, <3>4, <3>5
  <2>2. \A v \in Threads \ {t} : Busy(v)' => fd'[v] # d
    <3> SUFFICES ASSUME NEW v \in Threads \ {t}, Busy(v)'
                 PROVE  fd'[v] # d
      OBVIOUS
    <3>1. Busy(v) /\ fd'[v] = fd[v]
      BY <1>1, <1>5
    <3>2. CASE Has(v)
      BY <1>7, <3>1, <3>2
    <3>3. CASE ~Has(v)
      BY <3>1, <3>3 DEF Has
    <3> QED BY <3>2, <3>3
  <2> QED BY <1>3, <1>5, <1>6, <2>1, <2>2 DEF OwnConnection
<1>10. OneDescriptor'
  <2>1. ASSUME NEW e \in Fds, e # d, table'[e].is = "conn"
        PROVE  /\ table'[e] = table[e] /\ table[e].of \in Conns /\ table[e].of # c
               /\ \E u \in Threads : Busy(u)' /\ fd'[u] = e
    <3>1. table'[e] = table[e] /\ table[e].is = "conn"
      BY <1>3, <2>1
    <3>2. PICK u \in Threads : Busy(u) /\ fd[u] = e
      BY <3>1 DEF HttpInv, OneDescriptor
    <3>3. u # t /\ Has(u)
      BY <1>1, <3>2 DEF Has
    <3>4. table[e].of = Peer(u)
      BY <3>2 DEF Peer
    <3> QED BY <1>1, <1>5, <1>7, <3>1, <3>2, <3>3, <3>4
  <2>2. \A e \in Fds : table'[e].is \in {"free", "conn", "stream"}
    BY <1>3, <1>4 DEF HttpInv, OneDescriptor
  <2>3. \A e, g \in Fds : table'[e].is = "conn" /\ table'[e] = table'[g] => e = g
    <3> SUFFICES ASSUME NEW e \in Fds, NEW g \in Fds, table'[e].is = "conn", table'[e] = table'[g]
                 PROVE  e = g
      OBVIOUS
    <3>1. CASE e # d /\ g # d
      BY <2>1, <3>1 DEF HttpInv, OneDescriptor
    <3>2. CASE e = d /\ g # d
      BY <1>4, <2>1, <3>2
    <3>3. CASE e # d /\ g = d
      BY <1>4, <2>1, <3>3
    <3> QED BY <3>1, <3>2, <3>3
  <2> QED BY <1>1, <1>4, <1>5, <2>1, <2>2, <2>3 DEF OneDescriptor
<1>11. OwnStream'
  <2>1. ASSUME NEW u \in Threads \ {t}, Holds(u)
        PROVE  /\ fp[u] \in Fds
               /\ table'[fp[u]] = [is |-> "stream", of |-> IF Has(u) THEN Peer(u)' ELSE Nobody]
    <3>1. fp[u] \in Fds /\ Busy(u) /\ table[fp[u]].is = "stream"
      BY <2>1, StreamFact
    <3>2. table'[fp[u]] = table[fp[u]]
      BY <1>3, <1>4, <3>1
    <3> QED BY <1>7, <2>1, <3>1, <3>2 DEF HttpInv, OwnStream
  <2>2. ASSUME NEW u \in Threads \ {t}, Holds(u), NEW v \in Threads \ {t, u}, Holds(v)
        PROVE  fp[v] # fp[u]
    BY <2>2 DEF HttpInv, OwnStream
  <2> QED BY <1>1, <1>8, <2>1, <2>2 DEF OwnStream
<1> QED BY <1>7, <1>8, <1>9, <1>10, <1>11

\* An idle thread is given the -1 of a failed accept().
LEMMA ConnMissed ==
    ASSUME TypeOK, HttpInv, NEW t \in Threads, AcceptFails(t)
    PROVE  (OwnConnection /\ OneDescriptor /\ OwnStream)' /\ ~Has(t)'
<1>1. /\ ~Busy(t) /\ ~Holds(t) /\ Busy(t)' /\ ~Holds(t)'
      /\ \A u \in Threads \ {t} : (Busy(u)' <=> Busy(u)) /\ (Holds(u)' <=> Holds(u))
      /\ fp' = fp /\ link' = link /\ table' = table
      /\ fd'[t] = NoFd /\ \A u \in Threads \ {t} : fd'[u] = fd[u]
  BY DEF AcceptFails, Hand, Busy, Holds, TypeOK, stack
<1>2. ~Has(t)' /\ \A u \in Threads \ {t} : (Has(u)' <=> Has(u)) /\ Peer(u)' = Peer(u)
  BY <1>1, DescriptorAssumption DEF Has, Peer
<1>3. OwnConnection'
  BY <1>1, <1>2, DescriptorAssumption DEF HttpInv, OwnConnection, Has
<1>4. OneDescriptor'
  BY <1>1 DEF HttpInv, OneDescriptor
<1>5. OwnStream'
  BY <1>1, <1>2 DEF HttpInv, OwnStream
<1> QED BY <1>2, <1>3, <1>4, <1>5
-----------------------------------------------------------------------------
\* What clients have been sent.

\* A step of t leaves the other threads and what their clients were sent as it was.
LEMMA OthersKept ==
    ASSUME TypeOK, HttpInv, NEW t \in Threads,
           \A u \in Threads \ {t} :
               /\ tpc'[u] = tpc[u] /\ fd'[u] = fd[u] /\ path'[u] = path[u] /\ left'[u] = left[u]
               /\ Busy(u) /\ Has(u) => table'[fd[u]] = table[fd[u]]
               /\ Busy(u) /\ Has(u) /\ Peer(u) \notin gone =>
                     head'[Peer(u)] = head[Peer(u)] /\ body'[Peer(u)] = body[Peer(u)],
           asked' = asked, gone' = gone
    PROVE  \A u \in Threads \ {t} :
               Remaining(u)' /\ ((Busy(u) /\ Has(u) /\ Peer(u) \notin gone)' => Sending(u)')
<1> TAKE u \in Threads \ {t}
<1>1. Remaining(u)'
  BY DEF HttpInv, Answers, Remaining
<1>2. ASSUME (Busy(u) /\ Has(u) /\ Peer(u) \notin gone)'
      PROVE  Sending(u)'
  <2>1. Busy(u) /\ Has(u)
    BY <1>2 DEF Busy, Has
  <2>2. Peer(u)' = Peer(u) /\ Peer(u) \notin gone
    BY <1>2, <2>1 DEF Peer
  <2>3. Sending(u)
    BY <2>1, <2>2 DEF HttpInv, Answers
  <2>4. /\ tpc'[u] = tpc[u] /\ path'[u] = path[u] /\ left'[u] = left[u]
        /\ head'[Peer(u)] = head[Peer(u)] /\ body'[Peer(u)] = body[Peer(u)]
    BY <2>1, <2>2
  <2> QED BY <2>2, <2>3, <2>4 DEF Sending
<1> QED BY <1>1, <1>2

\* Hence a step of t keeps Answers if it is right about t and ends no connection.
LEMMA AnswersKept ==
    ASSUME TypeOK, HttpInv, NEW t \in Threads, Busy(t),
           \A u \in Threads \ {t} :
               /\ tpc'[u] = tpc[u] /\ fd'[u] = fd[u] /\ path'[u] = path[u] /\ left'[u] = left[u]
               /\ Busy(u) /\ Has(u) => table'[fd[u]] = table[fd[u]],
           \A c \in Conns : c \in gone \/ ~Has(t) \/ c # Peer(t) =>
               head'[c] = head[c] /\ body'[c] = body[c],
           asked' = asked, gone' = gone, link' = link,
           Remaining(t)', (Busy(t) /\ Has(t) /\ Peer(t) \notin gone)' => Sending(t)'
    PROVE  Answers'
<1>1. ASSUME NEW u \in Threads \ {t}, Busy(u), Has(u), Peer(u) \notin gone
      PROVE  head'[Peer(u)] = head[Peer(u)] /\ body'[Peer(u)] = body[Peer(u)]
  <2>1. Peer(u) \in Conns /\ (Has(t) => Peer(u) # Peer(t))
    BY <1>1, PeerFact
  <2> QED BY <2>1
<1>2. \A u \in Threads \ {t} :
          Remaining(u)' /\ ((Busy(u) /\ Has(u) /\ Peer(u) \notin gone)' => Sending(u)')
  BY <1>1, OthersKept
<1>3. ASSUME NEW c \in Conns, link[c] # "accepted"
      PROVE  head'[c] = head[c] /\ body'[c] = body[c]
  <2>1. Has(t) => c # Peer(t)
    BY <1>3, PeerFact
  <2> QED BY <2>1
<1>4. \A c \in Conns : link'[c] \in {"new", "queued"} => head'[c] = NoHead /\ body'[c] = 0
  BY <1>3 DEF HttpInv, Answers
<1>5. \A c \in Conns \ gone' : link'[c] = "ended" =>
          asked'[c] # NoPath /\ head'[c] = Length[asked'[c]] /\ body'[c] = Sent(asked'[c])
  BY <1>3 DEF HttpInv, Answers
<1> QED BY <1>2, <1>4, <1>5 DEF Answers

\* What is known of a thread's client when the thread writes to it.
LEMMA SendingFact ==
    ASSUME TypeOK, HttpInv, NEW t \in Threads, Busy(t)
    PROVE  /\ Remaining(t)
           /\ Has(t) /\ Peer(t) \notin gone => Sending(t) /\ Peer(t) \in Conns
  BY PeerFact DEF HttpInv, Answers
-----------------------------------------------------------------------------
LEMMA InvStep == TypeOK /\ TypeOK' /\ HttpInv /\ [Next]_vars => HttpInv'
<1> SUFFICES ASSUME TypeOK, TypeOK', HttpInv, [Next]_vars
             PROVE  HttpInv'
  OBVIOUS
<1>1. CASE UNCHANGED vars
  BY <1>1, TableKept DEF vars, browser, replies, stack, HttpInv, OwnConnection, OneDescriptor, OwnStream,
     Answers, Busy, Holds, Has, Peer, Remaining, Sending
<1>2. ASSUME NEW c \in Conns, Connect(c) \/ Ask(c) \/ Leave(c)
      PROVE  HttpInv'
  <2>1. /\ table' = table /\ tpc' = tpc /\ fd' = fd /\ fp' = fp /\ path' = path /\ left' = left
        /\ head' = head /\ body' = body /\ gone \subseteq gone'
    BY <1>2 DEF Connect, Ask, Leave, browser, replies, stack
  <2>2. \A k \in Conns : /\ link'[k] = link[k] \/ (link[k] = "new" /\ link'[k] = "queued")
                         /\ asked'[k] = asked[k] \/ (asked[k] = NoPath /\ link[k] \in {"queued", "accepted"})
    BY <1>2 DEF Connect, Ask, Leave, browser, TypeOK
  <2>3. OwnConnection'
    BY <2>1, <2>2 DEF HttpInv, OwnConnection, Busy, Has
  <2>4. OneDescriptor'
    BY <2>1 DEF HttpInv, OneDescriptor, Busy
  <2>5. OwnStream'
    BY <2>1 DEF HttpInv, OwnStream, Holds, Has, Peer
  <2>6. ASSUME NEW t \in Threads, (Busy(t) /\ Has(t) /\ Peer(t) \notin gone)'
        PROVE  Sending(t)'
    <3>1. Busy(t) /\ Has(t) /\ Peer(t) \notin gone /\ Peer(t)' = Peer(t)
      BY <2>1, <2>6 DEF Busy, Has, Peer
    <3>2. Sending(t) /\ Peer(t) \in Conns
      BY <3>1, SendingFact
    <3>3. tpc[t] \notin {"start", "read"} => asked'[Peer(t)] = asked[Peer(t)]
      BY <2>2, <3>1, <3>2, HttpAssumption DEF Sending, TypeOK, Busy
    <3> QED BY <2>1, <3>1, <3>2, <3>3 DEF Sending
  <2>7. \A t \in Threads : Remaining(t)'
    BY <2>1 DEF HttpInv, Answers, Remaining
  <2>8. \A k \in Conns : link'[k] \in {"new", "queued"} => head'[k] = NoHead /\ body'[k] = 0
    BY <2>1, <2>2 DEF HttpInv, Answers
  <2>9. \A k \in Conns \ gone' : link'[k] = "ended" =>
            asked'[k] # NoPath /\ head'[k] = Length[asked'[k]] /\ body'[k] = Sent(asked'[k])
    BY <2>1, <2>2 DEF HttpInv, Answers
  <2> QED BY <2>3, <2>4, <2>5, <2>6, <2>7, <2>8, <2>9 DEF HttpInv, Answers
<1>3. ASSUME NEW t \in Threads, AcceptFails(t)
      PROVE  HttpInv'
  <2>1. /\ asked' = asked /\ gone' = gone /\ head' = head /\ body' = body /\ link' = link /\ table' = table
        /\ tpc'[t] = "start"
        /\ \A u \in Threads \ {t} : /\ tpc'[u] = tpc[u] /\ fd'[u] = fd[u]
                                   /\ path'[u] = path[u] /\ left'[u] = left[u]
    BY <1>3 DEF AcceptFails, Hand, browser, replies, stack, TypeOK
  <2>2. \A u \in Threads \ {t} :
            Remaining(u)' /\ ((Busy(u) /\ Has(u) /\ Peer(u) \notin gone)' => Sending(u)')
    BY <2>1, OthersKept
  <2>3. Remaining(t)' /\ ~Has(t)'
    BY <1>3, <2>1, ConnMissed DEF Remaining
  <2> QED BY <1>3, <2>1, <2>2, <2>3, ConnMissed DEF HttpInv, Answers
<1>4. ASSUME NEW t \in Threads, NEW c \in Conns, Accept(c, t)
      PROVE  HttpInv'
  <2>1. /\ asked' = asked /\ gone' = gone /\ head' = head /\ body' = body
        /\ link[c] = "queued" /\ link'[c] = "accepted" /\ tpc'[t] = "start"
        /\ \A k \in Conns \ {c} : link'[k] = link[k]
        /\ \A u \in Threads \ {t} : /\ tpc'[u] = tpc[u] /\ fd'[u] = fd[u]
                                   /\ path'[u] = path[u] /\ left'[u] = left[u]
    BY <1>4 DEF Accept, Hand, browser, replies, stack, TypeOK
  <2>2. \A u \in Threads \ {t} :
            Remaining(u)' /\ ((Busy(u) /\ Has(u) /\ Peer(u) \notin gone)' => Sending(u)')
    BY <1>4, <2>1, OthersKept, ConnOpened
  <2>3. Remaining(t)'
    BY <2>1 DEF Remaining
  <2>4. Sending(t)'
    <3>1. Peer(t)' = c /\ head[c] = NoHead /\ body[c] = 0
      BY <1>4, <2>1, ConnOpened DEF HttpInv, Answers
    <3> QED BY <2>1, <3>1 DEF Sending
  <2>5. \A k \in Conns : link'[k] \in {"new", "queued"} => head'[k] = NoHead /\ body'[k] = 0
    BY <2>1 DEF HttpInv, Answers
  <2>6. \A k \in Conns \ gone' : link'[k] = "ended" =>
            asked'[k] # NoPath /\ head'[k] = Length[asked'[k]] /\ body'[k] = Sent(asked'[k])
    BY <2>1 DEF HttpInv, Answers
  <2> QED BY <1>4, <2>2, <2>3, <2>4, <2>5, <2>6, ConnOpened DEF HttpInv, Answers
<1>5. ASSUME NEW t \in Threads, Start(t) \/ SendEmpty(t)
      PROVE  HttpInv'
  <2>1. /\ Busy(t) /\ asked' = asked /\ gone' = gone /\ link' = link /\ table' = table
        /\ fd' = fd /\ fp' = fp
        /\ \A u \in Threads : (Busy(u)' <=> Busy(u)) /\ (Holds(u)' => Holds(u))
        /\ \A u \in Threads \ {t} : tpc'[u] = tpc[u] /\ path'[u] = path[u] /\ left'[u] = left[u]
    BY <1>5 DEF Start, SendEmpty, At, Goto, Busy, Holds, TypeOK, browser, stack
  <2>2. (OwnConnection /\ OneDescriptor /\ OwnStream)' /\ Peer(t)' = Peer(t) /\ (Has(t)' <=> Has(t))
    BY <2>1, TableKept DEF Peer, Has
  <2>3. Remaining(t)'
    BY <1>5 DEF Start, SendEmpty, At, Goto, Remaining, TypeOK
  <2>4. (Busy(t) /\ Has(t) /\ Peer(t) \notin gone)' => Sending(t)'
    <3> SUFFICES ASSUME Has(t), Peer(t) \notin gone
                 PROVE  Sending(t)'
      BY <2>1, <2>2
    <3>1. Sending(t) /\ Remaining(t)
      BY <2>1, SendingFact
    <3>2. CASE Start(t)
      BY <2>1, <2>2, <3>1, <3>2 DEF Start, At, Goto, Sending, TypeOK, replies, stack
    <3>3. CASE SendEmpty(t)
      <4>1. path[t] \in Paths /\ Kind[path[t]] = "typed" /\ Size[path[t]] = 0
        BY <3>1, <3>3 DEF SendEmpty, At, Remaining, TypeOK
      <4>2. Sent(path[t]) = 0
        BY <4>1, HttpAssumption DEF Sent, MAXBUF
      <4> QED BY <2>1, <2>2, <3>1, <3>3, <4>2 DEF SendEmpty, At, Goto, Sending, TypeOK, replies, stack
    <3> QED BY <1>5, <3>2, <3>3
  <2>5. \A c \in Conns : head'[c] = head[c] /\ body'[c] = body[c]
    BY <1>5 DEF Start, SendEmpty, replies
  <2> QED BY <2>1, <2>2, <2>3, <2>4, <2>5, AnswersKept DEF HttpInv
<1>6. ASSUME NEW t \in Threads, ReadRequest(t) \/ ReadNothing(t)
      PROVE  HttpInv'
  <2>1. /\ Busy(t) /\ asked' = asked /\ gone' = gone /\ link' = link /\ table' = table
        /\ fd' = fd /\ fp' = fp
        /\ \A u \in Threads : (Busy(u)' <=> Busy(u)) /\ (Holds(u)' => Holds(u))
        /\ \A u \in Threads \ {t} : tpc'[u] = tpc[u] /\ path'[u] = path[u] /\ left'[u] = left[u]
    BY <1>6 DEF ReadRequest, ReadNothing, Parsed, At, Goto, Busy, Holds, TypeOK, browser, stack
  <2>2. (OwnConnection /\ OneDescriptor /\ OwnStream)' /\ Peer(t)' = Peer(t) /\ (Has(t)' <=> Has(t))
    BY <2>1, TableKept DEF Peer, Has
  <2>3. Remaining(t)'
    BY <1>6 DEF ReadRequest, ReadNothing, Parsed, At, Goto, Remaining, TypeOK
  <2>4. (Busy(t) /\ Has(t) /\ Peer(t) \notin gone)' => Sending(t)'
    <3> SUFFICES ASSUME Has(t), Peer(t) \notin gone
                 PROVE  Sending(t)'
      BY <2>1, <2>2
    <3>1. Sending(t) /\ ReadRequest(t)
      BY <1>6, <2>1, SendingFact DEF ReadNothing, PeerGone
    <3> QED BY <2>1, <2>2, <3>1 DEF ReadRequest, Parsed, At, Goto, Sending, TypeOK, replies
  <2>5. \A c \in Conns : head'[c] = head[c] /\ body'[c] = body[c]
    BY <1>6 DEF ReadRequest, ReadNothing, Parsed, replies
  <2> QED BY <2>1, <2>2, <2>3, <2>4, <2>5, AnswersKept DEF HttpInv
<1>7. ASSUME NEW t \in Threads, Open(t)
      PROVE  HttpInv'
  <2>1. /\ Busy(t) /\ asked' = asked /\ gone' = gone /\ link' = link /\ fd' = fd /\ path' = path
        /\ head' = head /\ body' = body
        /\ \A u \in Threads : (Busy(u)' <=> Busy(u)) /\ (u # t => (Holds(u)' <=> Holds(u)))
        /\ \A u \in Threads \ {t} : tpc'[u] = tpc[u] /\ left'[u] = left[u]
    BY <1>7 DEF Open, At, Goto, Busy, Holds, TypeOK, browser, replies
  <2>2. PICK d \in Fds : /\ Lowest(d)
                         /\ Opens(d, "stream", IF Has(t) THEN Peer(t) ELSE Nobody)
                         /\ fp' = [fp EXCEPT ![t] = d]
    BY <1>7 DEF Open
  <2>3. /\ (OwnConnection /\ OneDescriptor /\ OwnStream)'
        /\ \A u \in Threads : Busy(u) /\ Has(u) => table'[fd[u]] = table[fd[u]]
    BY <2>1, <2>2, StreamOpened
  <2>4. Remaining(t)'
    <3>1. Kind[path[t]] = "typed" \/ Kind[path[t]] = "other"
      BY <1>7, HttpAssumption DEF Open, At, TypeOK
    <3> QED BY <1>7, <2>1, <3>1 DEF Open, At, Goto, Remaining, TypeOK
  <2>5. (Busy(t) /\ Has(t) /\ Peer(t) \notin gone)' => Sending(t)'
    <3> SUFFICES ASSUME Has(t), Peer(t)' \notin gone
                 PROVE  Sending(t)'
      BY <2>1 DEF Has
    <3>1. Peer(t)' = Peer(t)
      BY <2>1, <2>3 DEF Peer
    <3>2. Sending(t)
      BY <2>1, <3>1, SendingFact
    <3> QED BY <1>7, <2>1, <3>1, <3>2 DEF Open, At, Goto, Sending, TypeOK
  <2> QED BY <2>1, <2>3, <2>4, <2>5, AnswersKept DEF HttpInv
<1>8. ASSUME NEW t \in Threads, OpenIndex(t)
      PROVE  HttpInv'
  <2>1. /\ Busy(t) /\ asked' = asked /\ gone' = gone /\ link' = link /\ fd' = fd /\ path' = path
        /\ head' = head /\ body' = body
        /\ \A u \in Threads : (Busy(u)' <=> Busy(u)) /\ (u # t => (Holds(u)' <=> Holds(u)))
        /\ \A u \in Threads \ {t} : tpc'[u] = tpc[u] /\ left'[u] = left[u]
    BY <1>8 DEF OpenIndex, At, Goto, Busy, Holds, TypeOK, browser, replies
  <2>2. PICK d \in Fds : /\ Lowest(d)
                         /\ Opens(d, "stream", IF Has(t) THEN Peer(t) ELSE Nobody)
                         /\ fp' = [fp EXCEPT ![t] = d]
    BY <1>8 DEF OpenIndex
  <2>3. /\ (OwnConnection /\ OneDescriptor /\ OwnStream)'
        /\ \A u \in Threads : Busy(u) /\ Has(u) => table'[fd[u]] = table[fd[u]]
    BY <2>1, <2>2, StreamOpened
  <2>4. Remaining(t)'
    BY <1>8, <2>1, SendingFact DEF OpenIndex, At, Goto, Remaining, TypeOK
  <2>5. (Busy(t) /\ Has(t) /\ Peer(t) \notin gone)' => Sending(t)'
    <3> SUFFICES ASSUME Has(t), Peer(t)' \notin gone
                 PROVE  Sending(t)'
      BY <2>1 DEF Has
    <3>1. Peer(t)' = Peer(t)
      BY <2>1, <2>3 DEF Peer
    <3>2. Sending(t)
      BY <2>1, <3>1, SendingFact
    <3> QED BY <1>8, <2>1, <3>1, <3>2 DEF OpenIndex, At, Goto, Sending, TypeOK
  <2> QED BY <2>1, <2>3, <2>4, <2>5, AnswersKept DEF HttpInv
<1>9. ASSUME NEW t \in Threads, OpenFails(t) \/ OpenIndexFails(t) \/ SigPipe(t)
      PROVE  HttpInv'
  BY <1>9 DEF OpenFails, OpenIndexFails, SigPipe, Exit, browser, replies, stack, HttpInv, OwnConnection,
     OneDescriptor, OwnStream, Answers, Busy, Holds, Has, Peer, Remaining, Sending
<1>10. ASSUME NEW t \in Threads, SendHead(t)
      PROVE  HttpInv'
  <2>1. /\ Busy(t) /\ asked' = asked /\ gone' = gone /\ link' = link /\ table' = table
        /\ fd' = fd /\ fp' = fp
        /\ \A u \in Threads : (Busy(u)' <=> Busy(u)) /\ (Holds(u)' => Holds(u))
        /\ \A u \in Threads \ {t} : tpc'[u] = tpc[u] /\ path'[u] = path[u] /\ left'[u] = left[u]
    BY <1>10 DEF SendHead, At, Goto, Busy, Holds, TypeOK, browser, stack
  <2>2. (OwnConnection /\ OneDescriptor /\ OwnStream)' /\ Peer(t)' = Peer(t) /\ (Has(t)' <=> Has(t))
    BY <2>1, TableKept DEF Peer, Has
  <2>3. Remaining(t)'
    <3>1. left[t] = Size[path[t]] /\ Kind[path[t]] = "typed" /\ path[t] \in Paths /\ Size[path[t]] \in Nat
      BY <1>10, <2>1, SendingFact, HttpAssumption DEF SendHead, At, Remaining, TypeOK
    <3>2. /\ path' = path /\ left' = left
          /\ left[t] < MAXBUF => tpc'[t] = "small"
          /\ ~(left[t] < MAXBUF) => tpc'[t] = "chunk"
      BY <1>10 DEF SendHead, Goto, TypeOK, stack
    <3> QED BY <3>1, <3>2 DEF Remaining, MAXBUF
  <2>4. (Busy(t) /\ Has(t) /\ Peer(t) \notin gone)' => Sending(t)'
    <3> SUFFICES ASSUME Has(t), Peer(t) \notin gone
                 PROVE  Sending(t)'
      BY <2>1, <2>2
    <3>1. Sending(t) /\ Peer(t) \in Conns /\ tpc[t] = "head" /\ path[t] \in Paths
          /\ left[t] = Size[path[t]] /\ Size[path[t]] \in Nat
      BY <1>10, <2>1, SendingFact, HttpAssumption DEF SendHead, At, Remaining, TypeOK
    <3>2. head'[Peer(t)] = Length[path[t]] /\ body'[Peer(t)] = body[Peer(t)] + 0
      BY <1>10, <2>1, <3>1, LengthType, WritesFact DEF SendHead
    <3>3. /\ path' = path /\ left' = left /\ tpc'[t] \in {"small", "chunk"}
      BY <1>10 DEF SendHead, Goto, TypeOK, stack
    <3>4. body'[Peer(t)] = 0 /\ path[t] = asked[Peer(t)]
      BY <3>1, <3>2 DEF Sending
    <3> QED BY <2>1, <2>2, <3>1, <3>2, <3>3, <3>4 DEF Sending
  <2>5. \A c \in Conns : c \in gone \/ ~Has(t) \/ c # Peer(t) =>
            head'[c] = head[c] /\ body'[c] = body[c]
    <3>1. path[t] \in Paths
      BY <1>10 DEF SendHead, At, TypeOK
    <3> QED BY <1>10, <2>1, <3>1, LengthType, WritesFact DEF SendHead
  <2> QED BY <2>1, <2>2, <2>3, <2>4, <2>5, AnswersKept DEF HttpInv
<1>11. ASSUME NEW t \in Threads, SendChunk(t)
      PROVE  HttpInv'
  <2>1. /\ Busy(t) /\ asked' = asked /\ gone' = gone /\ link' = link /\ table' = table
        /\ fd' = fd /\ fp' = fp
        /\ \A u \in Threads : (Busy(u)' <=> Busy(u)) /\ (Holds(u)' => Holds(u))
        /\ \A u \in Threads \ {t} : tpc'[u] = tpc[u] /\ path'[u] = path[u] /\ left'[u] = left[u]
    BY <1>11 DEF SendChunk, At, Goto, Busy, Holds, TypeOK, browser, stack
  <2>2. (OwnConnection /\ OneDescriptor /\ OwnStream)' /\ Peer(t)' = Peer(t) /\ (Has(t)' <=> Has(t))
    BY <2>1, TableKept DEF Peer, Has
  <2>3. Remaining(t)'
    <3>1. Remaining(t) /\ tpc[t] = "chunk" /\ path[t] \in Paths /\ Size[path[t]] \in Nat /\ left[t] \in Nat
      BY <1>11, <2>1, SendingFact, HttpAssumption DEF SendChunk, At, TypeOK
    <3>2. /\ path' = path /\ left'[t] = left[t] - Chunk(t)
          /\ left[t] = Chunk(t) => tpc'[t] = "close"
          /\ left[t] # Chunk(t) => tpc'[t] = "chunk"
      BY <1>11 DEF SendChunk, Goto, TypeOK
    <3>3. left[t] # Chunk(t) => left[t] - Chunk(t) \in 1..left[t]
      BY <3>1 DEF Chunk, MAXBUF, Remaining
    <3> QED BY <3>1, <3>2, <3>3 DEF Remaining, MAXBUF
  <2>4. (Busy(t) /\ Has(t) /\ Peer(t) \notin gone)' => Sending(t)'
    <3> SUFFICES ASSUME Has(t), Peer(t) \notin gone
                 PROVE  Sending(t)'
      BY <2>1, <2>2
    <3>1. Sending(t) /\ Remaining(t) /\ Peer(t) \in Conns /\ tpc[t] = "chunk" /\ path[t] \in Paths
          /\ Size[path[t]] \in Nat /\ left[t] \in Nat /\ Chunk(t) \in Nat
      BY <1>11, <2>1, SendingFact, SizesFact, HttpAssumption DEF SendChunk, At, TypeOK
    <3>2. /\ body'[Peer(t)] = body[Peer(t)] + Chunk(t) /\ head'[Peer(t)] = head[Peer(t)]
      BY <1>11, <2>1, <3>1, MoreFact DEF SendChunk
    <3>3. /\ path' = path /\ left'[t] = left[t] - Chunk(t)
          /\ left[t] = Chunk(t) => tpc'[t] = "close"
          /\ left[t] # Chunk(t) => tpc'[t] = "chunk"
      BY <1>11 DEF SendChunk, Goto, TypeOK
    <3>4. body[Peer(t)] = Size[path[t]] - left[t] /\ head[Peer(t)] = Length[path[t]] /\ path[t] = asked[Peer(t)]
      BY <3>1 DEF Sending
    <3>5. Sent(path[t]) = Size[path[t]]
      BY <3>1 DEF Remaining, Sent, MAXBUF
    <3>6. body'[Peer(t)] = Size[path[t]] - left'[t]
      BY <3>1, <3>2, <3>3, <3>4
    <3>7. left[t] = Chunk(t) => body'[Peer(t)] = Sent(path[t])
      BY <3>1, <3>3, <3>5, <3>6
    <3> QED BY <2>1, <2>2, <3>2, <3>3, <3>4, <3>6, <3>7 DEF Sending
  <2>5. \A c \in Conns : c \in gone \/ ~Has(t) \/ c # Peer(t) =>
            head'[c] = head[c] /\ body'[c] = body[c]
    BY <1>11, <2>1, SizesFact, MoreFact DEF SendChunk
  <2> QED BY <2>1, <2>2, <2>3, <2>4, <2>5, AnswersKept DEF HttpInv
<1>12. ASSUME NEW t \in Threads, SendSmall(t)
      PROVE  HttpInv'
  <2>1. /\ Busy(t) /\ Holds(t) /\ Busy(t)' /\ ~Holds(t)' /\ tpc'[t] = "close" /\ tpc[t] = "small"
        /\ asked' = asked /\ gone' = gone /\ link' = link /\ fd' = fd /\ fp' = fp /\ path' = path
        /\ \A u \in Threads \ {t} : /\ tpc'[u] = tpc[u] /\ left'[u] = left[u]
                                   /\ (Busy(u)' <=> Busy(u)) /\ (Holds(u)' <=> Holds(u))
    BY <1>12 DEF SendSmall, At, Goto, Busy, Holds, TypeOK, browser, stack
  <2>2. Closes(fp[t])
    BY <1>12 DEF SendSmall
  <2>3. /\ (OwnConnection /\ OneDescriptor /\ OwnStream)'
        /\ \A u \in Threads : Busy(u) /\ Has(u) => table'[fd[u]] = table[fd[u]]
    BY <2>1, <2>2, StreamClosed
  <2>4. Remaining(t)' /\ path[t] \in Paths /\ Remaining(t)
    BY <2>1, SendingFact DEF Remaining, TypeOK
  <2>5. (Busy(t) /\ Has(t) /\ Peer(t) \notin gone)' => Sending(t)'
    <3> SUFFICES ASSUME Has(t), Peer(t)' \notin gone
                 PROVE  Sending(t)'
      BY <2>1 DEF Has
    <3>1. Peer(t)' = Peer(t)
      BY <2>1, <2>3 DEF Peer
    <3>2. Sending(t) /\ Peer(t) \in Conns
      BY <2>1, <3>1, SendingFact
    <3>3. body'[Peer(t)] = body[Peer(t)] + Text[path[t]] /\ head'[Peer(t)] = head[Peer(t)]
      BY <1>12, <2>1, <2>4, <3>1, <3>2, SizesFact, MoreFact DEF SendSmall
    <3>4. Sent(path[t]) = Text[path[t]] /\ Text[path[t]] \in Nat
      BY <2>1, <2>4, HttpAssumption DEF Remaining, Sent
    <3> QED BY <2>1, <3>1, <3>2, <3>3, <3>4 DEF Sending
  <2>6. \A c \in Conns : c \in gone \/ ~Has(t) \/ c # Peer(t) =>
            head'[c] = head[c] /\ body'[c] = body[c]
    BY <1>12, <2>1, <2>4, SizesFact, MoreFact DEF SendSmall
  <2> QED BY <2>1, <2>3, <2>4, <2>5, <2>6, AnswersKept DEF HttpInv
<1>13. ASSUME NEW t \in Threads, SendIndex(t)
      PROVE  HttpInv'
  <2>1. /\ Busy(t) /\ Holds(t) /\ Busy(t)' /\ ~Holds(t)' /\ tpc'[t] = "close" /\ tpc[t] = "page"
        /\ asked' = asked /\ gone' = gone /\ link' = link /\ fd' = fd /\ fp' = fp /\ path' = path
        /\ \A u \in Threads \ {t} : /\ tpc'[u] = tpc[u] /\ left'[u] = left[u]
                                   /\ (Busy(u)' <=> Busy(u)) /\ (Holds(u)' <=> Holds(u))
    BY <1>13 DEF SendIndex, At, Goto, Busy, Holds, TypeOK, browser, stack
  <2>2. Closes(fp[t])
    BY <1>13 DEF SendIndex
  <2>3. /\ (OwnConnection /\ OneDescriptor /\ OwnStream)'
        /\ \A u \in Threads : Busy(u) /\ Has(u) => table'[fd[u]] = table[fd[u]]
    BY <2>1, <2>2, StreamClosed
  <2>4. Remaining(t)' /\ path[t] \in Paths /\ Remaining(t)
    BY <2>1, SendingFact DEF Remaining, TypeOK
  <2>5. (Busy(t) /\ Has(t) /\ Peer(t) \notin gone)' => Sending(t)'
    <3> SUFFICES ASSUME Has(t), Peer(t)' \notin gone
                 PROVE  Sending(t)'
      BY <2>1 DEF Has
    <3>1. Peer(t)' = Peer(t)
      BY <2>1, <2>3 DEF Peer
    <3>2. Sending(t) /\ Peer(t) \in Conns
      BY <2>1, <3>1, SendingFact
    <3>3. body'[Peer(t)] = body[Peer(t)] + Text[Index] /\ head'[Peer(t)] = Size[Index]
      BY <1>13, <2>1, <3>1, <3>2, SizesFact, WritesFact DEF SendIndex
    <3>4. Sent(path[t]) = Text[Index] /\ Text[Index] \in Nat /\ Length[path[t]] = Size[Index]
      BY <2>1, <2>4, HttpAssumption DEF Remaining, Sent, Length
    <3> QED BY <2>1, <3>1, <3>2, <3>3, <3>4 DEF Sending
  <2>6. \A c \in Conns : c \in gone \/ ~Has(t) \/ c # Peer(t) =>
            head'[c] = head[c] /\ body'[c] = body[c]
    BY <1>13, <2>1, SizesFact, WritesFact DEF SendIndex
  <2> QED BY <2>1, <2>3, <2>4, <2>5, <2>6, AnswersKept DEF HttpInv
<1>14. ASSUME NEW t \in Threads, Close(t)
       PROVE  HttpInv'
  <2>1. /\ asked' = asked /\ gone' = gone /\ head' = head /\ body' = body /\ fd' = fd
        /\ Busy(t) /\ tpc[t] = "close" /\ tpc'[t] = "idle"
        /\ \A u \in Threads \ {t} : /\ tpc'[u] = tpc[u] /\ path'[u] = path[u] /\ left'[u] = left[u]
    BY <1>14 DEF Close, At, Goto, Busy, TypeOK, browser, replies, stack
  <2>2. \A u \in Threads \ {t} :
            Remaining(u)' /\ ((Busy(u) /\ Has(u) /\ Peer(u) \notin gone)' => Sending(u)')
    BY <1>14, <2>1, OthersKept, ConnClosed
  <2>3. Remaining(t)' /\ ~Busy(t)'
    BY <2>1 DEF Remaining, Busy
  <2>4. \A c \in Conns : link'[c] = link[c] \/ (Has(t) /\ c = Peer(t) /\ link'[c] = "ended")
    BY <1>14 DEF Close, TypeOK
  <2>5. \A c \in Conns : link'[c] \in {"new", "queued"} => head'[c] = NoHead /\ body'[c] = 0
    BY <2>1, <2>4 DEF HttpInv, Answers
  <2>6. ASSUME NEW c \in Conns \ gone, link'[c] = "ended"
        PROVE  asked[c] # NoPath /\ head[c] = Length[asked[c]] /\ body[c] = Sent(asked[c])
    <3>1. CASE link[c] = "ended"
      BY <3>1 DEF HttpInv, Answers
    <3>2. CASE Has(t) /\ c = Peer(t)
      <4>1. Sending(t) /\ path[t] \in Paths
        BY <2>1, <3>2, SendingFact DEF TypeOK
      <4> QED BY <2>1, <3>2, <4>1, HttpAssumption DEF Sending
    <3> QED BY <2>4, <2>6, <3>1, <3>2
  <2> QED BY <1>14, <2>1, <2>2, <2>3, <2>5, <2>6, ConnClosed DEF HttpInv, Answers
<1> QED
  BY <1>1, <1>2, <1>3, <1>4, <1>5, <1>6, <1>7, <1>8, <1>9, <1>10, <1>11, <1>12, <1>13, <1>14, Steps
-----------------------------------------------------------------------------
\* Streams.

\* Only the thread of a connection holds its streams.
LEMMA Holder ==
    ASSUME TypeOK, HttpInv, NEW u \in Threads, Holds(u), NEW c \in Conns, fp[u] \in StreamsOf(c)
    PROVE  Busy(u) /\ Has(u) /\ Peer(u) = c
<1>1. table[fp[u]] = [is |-> "stream", of |-> c] /\ Busy(u)
  BY DEF StreamsOf, Busy, Holds
<1>2. table[fp[u]] = [is |-> "stream", of |-> IF Has(u) THEN Peer(u) ELSE Nobody]
  BY DEF HttpInv, OwnStream
<1> QED BY <1>1, <1>2, DescriptorAssumption

\* A connection of which no more is left behind.
LEMMA NoMoreBehind ==
    ASSUME NEW c \in Conns, Streams(c), StreamsOf(c)' \subseteq StreamsOf(c),
           Behind(c)' \subseteq Behind(c),
           link'[c] \in {"new", "queued"} => link[c] \in {"new", "queued"},
           gone \subseteq gone', asked'[c] = asked[c] \/ asked[c] = NoPath,
           \A u \in Threads : (Busy(u) /\ Has(u) /\ Peer(u) = c)' =>
               /\ tpc'[u] \in {"start", "read", "open"} => StreamsOf(c)' = {}
               /\ tpc'[u] \in {"head", "small", "chunk", "index"} => StreamsOf(c)' = {fp'[u]}
    PROVE  Streams(c)'
<1>1. ASSUME NEW d \in Behind(c)'
      PROVE  (c \in gone \/ Leaky(asked[c]))' /\ Behind(c)' = {d}
  <2>1. (c \in gone \/ Leaky(asked[c])) /\ Behind(c) = {d}
    BY <1>1 DEF Streams
  <2>2. Leaky(asked[c]) => asked'[c] = asked[c]
    BY DEF Leaky
  <2>3. Leaky(asked[c]) => Leaky(asked'[c])
    BY <2>2
  <2>4. Leaky(asked'[c]) => Leaky(asked[c])'
    BY DEF Leaky
  <2> QED BY <1>1, <2>1, <2>3, <2>4
<1> QED BY <1>1 DEF Streams

\* A step of t and the streams of a connection that is not the one of t.
LEMMA OtherStreams ==
    ASSUME TypeOK, HttpInv, NEW t \in Threads, NEW c \in Conns, Streams(c),
           StreamsOf(c)' = StreamsOf(c),
           ~(Busy(t) /\ Has(t) /\ Peer(t) = c), ~(Busy(t) /\ Has(t) /\ Peer(t) = c)',
           link'[c] = link[c], gone' = gone, asked' = asked,
           \A u \in Threads \ {t} :
               /\ tpc'[u] = tpc[u] /\ fd'[u] = fd[u] /\ fp'[u] = fp[u]
               /\ Busy(u) /\ Has(u) => table'[fd[u]] = table[fd[u]]
    PROVE  Streams(c)'
<1>1. ASSUME NEW u \in Threads, (Busy(u) /\ Has(u) /\ Peer(u) = c)'
      PROVE  Busy(u) /\ Has(u) /\ Peer(u) = c /\ tpc'[u] = tpc[u] /\ fp'[u] = fp[u]
  BY <1>1 DEF Busy, Has, Peer
<1>2. \A u \in Threads : (Busy(u) /\ Has(u) /\ Peer(u) = c)' =>
          /\ tpc'[u] \in {"start", "read", "open"} => StreamsOf(c)' = {}
          /\ tpc'[u] \in {"head", "small", "chunk", "index"} => StreamsOf(c)' = {fp'[u]}
  BY <1>1 DEF Streams
<1>3. ASSUME NEW u \in Threads, Holds(u), fp[u] \in StreamsOf(c)
      PROVE  Holds(u)' /\ fp'[u] = fp[u]
  <2>1. Busy(u) /\ Has(u) /\ Peer(u) = c
    BY <1>3, Holder
  <2> QED BY <1>3, <2>1 DEF Holds
<1>4. Behind(c)' \subseteq Behind(c)
  BY <1>3 DEF Behind
<1> QED BY <1>2, <1>4, NoMoreBehind

\* What opening and closing a descriptor does to the streams of c.
LEMMA StreamsOpen ==
    ASSUME TypeOK, HttpInv, NEW c \in Conns, NEW d \in Fds, Lowest(d),
           NEW is \in {"conn", "stream"}, NEW x \in Conns \cup {Nobody}, Opens(d, is, x)
    PROVE  StreamsOf(c)' = IF is = "stream" /\ x = c THEN StreamsOf(c) \cup {d} ELSE StreamsOf(c)
<1>1. /\ table[d] = Free /\ table'[d] = [is |-> is, of |-> x]
      /\ \A e \in Fds \ {d} : table'[e] = table[e]
  BY OpensFact
<1>2. table[d].is = "free"
  BY <1>1 DEF Free
<1>3. table[d] # [is |-> "stream", of |-> c]
  BY <1>2
<1> QED BY <1>1, <1>3 DEF StreamsOf

LEMMA StreamsClose ==
    ASSUME TypeOK, HttpInv, NEW c \in Conns, NEW d, Closes(d)
    PROVE  StreamsOf(c)' = StreamsOf(c) \ {d}
<1>1. /\ d \in Fds => table'[d] = Free
      /\ \A e \in Fds \ {d} : table'[e] = table[e]
  BY ClosesFact
<1>2. Free # [is |-> "stream", of |-> c]
  BY DEF Free
<1> QED BY <1>1, <1>2 DEF StreamsOf

\* What the descriptor of a thread is open on.
LEMMA ConnFact ==
    ASSUME TypeOK, HttpInv, NEW u \in Threads, Busy(u), Has(u)
    PROVE  fd[u] \in Fds /\ table[fd[u]].is = "conn"
<1>1. fd[u] \in Fds /\ table[fd[u]] = [is |-> "conn", of |-> Peer(u)]
  BY PeerFact
<1> QED BY <1>1

\* No action closes the stream of another thread's request by closing its own.
LEMMA OwnClosed ==
    ASSUME TypeOK, HttpInv, NEW c \in Conns, NEW t \in Threads, Holds(t), Closes(fp[t]),
           ~(Has(t) /\ Peer(t) = c)
    PROVE  StreamsOf(c)' = StreamsOf(c)
  BY Holder, StreamsClose

LEMMA ConnLeavesStreams ==
    ASSUME TypeOK, HttpInv, NEW c \in Conns, NEW t \in Threads, Busy(t), Closes(fd[t])
    PROVE  StreamsOf(c)' = StreamsOf(c)
<1>1. fd[t] \in Fds => table[fd[t]] = [is |-> "conn", of |-> Peer(t)]
  BY PeerFact DEF Has
<1>2. fd[t] \in Fds => table[fd[t]].is = "conn"
  BY <1>1
<1>3. fd[t] \notin StreamsOf(c)
  BY <1>2 DEF StreamsOf
<1> QED BY <1>3, StreamsClose

LEMMA StreamInit == Init => StreamInv
<1> SUFFICES ASSUME Init, NEW c \in Conns
             PROVE  Streams(c)
  BY DEF StreamInv
<1>1. Free # [is |-> "stream", of |-> c]
  BY DEF Free
<1>2. StreamsOf(c) = {} /\ Behind(c) = {}
  BY <1>1 DEF Init, TableInit, StreamsOf, Behind
<1> QED BY <1>2 DEF Init, Busy, Streams

LEMMA StreamStep == TypeOK /\ TypeOK' /\ HttpInv /\ HttpInv' /\ StreamInv /\ [Next]_vars => StreamInv'
<1> SUFFICES ASSUME TypeOK, TypeOK', HttpInv, HttpInv', StreamInv, [Next]_vars, NEW c \in Conns
             PROVE  Streams(c)'
  BY DEF StreamInv
<1>0. Streams(c)
  BY DEF StreamInv
<1>1. CASE UNCHANGED <<table, link, browser, tpc, fd, fp>>
  <2>1. Behind(c)' = Behind(c) /\ StreamsOf(c)' = StreamsOf(c)
    BY <1>1 DEF Behind, StreamsOf, Holds
  <2> QED BY <1>0, <1>1, <2>1, NoMoreBehind DEF browser, Streams, Busy, Has, Peer
<1>2. ASSUME NEW k \in Conns, Connect(k) \/ Ask(k) \/ Leave(k)
      PROVE  Streams(c)'
  <2>1. /\ table' = table /\ tpc' = tpc /\ fd' = fd /\ fp' = fp /\ gone \subseteq gone'
        /\ asked'[c] = asked[c] \/ asked[c] = NoPath
        /\ link'[c] \in {"new", "queued"} => link[c] \in {"new", "queued"}
    BY <1>2 DEF Connect, Ask, Leave, browser, stack, TypeOK
  <2>2. Behind(c)' = Behind(c) /\ StreamsOf(c)' = StreamsOf(c)
    BY <2>1 DEF Behind, StreamsOf, Holds
  <2> QED BY <1>0, <2>1, <2>2, NoMoreBehind DEF Streams, Busy, Has, Peer
<1>3. ASSUME NEW t \in Threads, AcceptFails(t)
      PROVE  Streams(c)'
  <2>1. /\ table' = table /\ link' = link /\ gone' = gone /\ asked' = asked
        /\ ~Busy(t) /\ ~Has(t)'
        /\ \A u \in Threads \ {t} : tpc'[u] = tpc[u] /\ fd'[u] = fd[u] /\ fp'[u] = fp[u]
    BY <1>3, DescriptorAssumption DEF AcceptFails, Hand, browser, stack, TypeOK, Busy, Has
  <2>2. StreamsOf(c)' = StreamsOf(c)
    BY <2>1 DEF StreamsOf
  <2> QED BY <1>0, <2>1, <2>2, OtherStreams
<1>4. ASSUME NEW t \in Threads, NEW k \in Conns, Accept(k, t)
      PROVE  Streams(c)'
  <2>1. PICK d \in Fds : Lowest(d) /\ Opens(d, "conn", k) /\ Hand(t, d)
    BY <1>4 DEF Accept
  <2>2. StreamsOf(c)' = StreamsOf(c)
    BY <2>1, StreamsOpen
  <2>3. /\ gone' = gone /\ asked' = asked /\ ~Busy(t) /\ link[k] = "queued" /\ fp' = fp
        /\ \A u \in Threads \ {t} : tpc'[u] = tpc[u] /\ fd'[u] = fd[u]
        /\ tpc'[t] = "start" /\ fd'[t] = d
        /\ link'[k] = "accepted" /\ (c # k => link'[c] = link[c])
    BY <1>4, <2>1 DEF Accept, Hand, browser, stack, TypeOK, Busy
  <2>4. table'[d].of = k /\ table[d].is = "free" /\ \A e \in Fds \ {d} : table'[e] = table[e]
    <3>1. /\ table[d] = Free /\ table'[d] = [is |-> "conn", of |-> k]
          /\ \A e \in Fds \ {d} : table'[e] = table[e]
      BY <2>1, OpensFact
    <3> QED BY <3>1 DEF Free
  <2>5. \A u \in Threads : Busy(u) /\ Has(u) => table'[fd[u]] = table[fd[u]]
    <3>1. \A u \in Threads : Busy(u) /\ Has(u) => fd[u] \in Fds /\ table[fd[u]].is = "conn"
      BY ConnFact
    <3> QED BY <2>4, <3>1
  <2>6. CASE c = k
    <3>1. StreamsOf(c) = {}
      BY <1>0, <2>3, <2>6 DEF Streams
    <3>2. StreamsOf(c)' = {} /\ Behind(c)' = {}
      BY <2>2, <3>1 DEF Behind
    <3>3. ASSUME NEW u \in Threads, (Busy(u) /\ Has(u) /\ Peer(u) = c)'
          PROVE  tpc'[u] = "start"
      <4>1. u # t => Busy(u) /\ Has(u) /\ Peer(u) = c
        BY <2>3, <2>5, <3>3 DEF Busy, Has, Peer
      <4>2. ~(Busy(u) /\ Has(u) /\ Peer(u) = c)
        BY <2>3, <2>6, PeerFact
      <4> QED BY <2>3, <4>1, <4>2
    <3> QED BY <2>3, <2>6, <3>2, <3>3 DEF Streams
  <2>7. CASE c # k
    <3>1. ~(Busy(t) /\ Has(t) /\ Peer(t) = c)'
      BY <2>3, <2>4, <2>7 DEF Peer
    <3> QED BY <1>0, <2>2, <2>3, <2>5, <2>7, <3>1, OtherStreams
  <2> QED BY <2>6, <2>7
<1>5. ASSUME NEW t \in Threads, Start(t) \/ ReadRequest(t) \/ ReadNothing(t) \/ SendHead(t)
      PROVE  Streams(c)'
  <2>1. /\ table' = table /\ link' = link /\ gone' = gone /\ asked' = asked /\ fd' = fd /\ fp' = fp
        /\ \A u \in Threads \ {t} : tpc'[u] = tpc[u]
        /\ Busy(t) /\ (Holds(t)' <=> Holds(t))
        /\ tpc'[t] \in {"start", "read", "open"} => tpc[t] \in {"start", "read", "open"}
        /\ tpc'[t] \in {"head", "small", "chunk", "index"} => tpc[t] = "head"
    BY <1>5 DEF Start, ReadRequest, ReadNothing, Parsed, SendHead, At, Goto, Busy, Holds, browser,
                stack, TypeOK
  <2>2. Behind(c)' = Behind(c) /\ StreamsOf(c)' = StreamsOf(c)
    BY <2>1 DEF Behind, StreamsOf, Holds
  <2>3. ASSUME NEW u \in Threads, (Busy(u) /\ Has(u) /\ Peer(u) = c)'
        PROVE  Busy(u) /\ Has(u) /\ Peer(u) = c
    BY <2>1, <2>3 DEF Busy, Has, Peer
  <2> QED BY <1>0, <2>1, <2>2, <2>3, NoMoreBehind DEF Streams
<1>6. ASSUME NEW t \in Threads, SendEmpty(t) \/ SendChunk(t)
      PROVE  Streams(c)'
  <2>1. /\ table' = table /\ link' = link /\ gone' = gone /\ asked' = asked /\ fd' = fd /\ fp' = fp
        /\ \A u \in Threads \ {t} : tpc'[u] = tpc[u]
        /\ tpc[t] \in {"small", "chunk"} /\ Busy(t) /\ Holds(t)
        /\ tpc'[t] \in {"close", "chunk"} /\ (tpc'[t] = "chunk" => tpc[t] = "chunk")
    BY <1>6 DEF SendEmpty, SendChunk, At, Goto, Busy, Holds, browser, stack, TypeOK
  <2>2. StreamsOf(c)' = StreamsOf(c)
    BY <2>1 DEF StreamsOf
  <2>3. CASE Has(t) /\ Peer(t) = c /\ tpc'[t] = "close"
    <3>1. StreamsOf(c) = {fp[t]}
      BY <1>0, <2>1, <2>3 DEF Streams
    <3>2. c \in gone \/ Leaky(asked[c])
      <4>1. SUFFICES ASSUME c \notin gone PROVE Leaky(asked[c])
        OBVIOUS
      <4>2. path[t] = asked[c] /\ path[t] \in Paths /\ Remaining(t)
        BY <2>1, <2>3, <4>1, SendingFact DEF Sending, TypeOK
      <4>3. CASE SendEmpty(t)
        BY <4>2, <4>3, HttpAssumption DEF SendEmpty, At, Remaining, Leaky
      <4>4. CASE SendChunk(t)
        BY <4>2, <4>4, HttpAssumption DEF SendChunk, At, Remaining, Leaky
      <4> QED BY <1>6, <4>3, <4>4
    <3>3. \A u \in Threads \ {t} : ~(Busy(u) /\ Has(u) /\ Peer(u) = c)'
      <4>1. \A u \in Threads \ {t} : ~(Busy(u) /\ Has(u) /\ Peer(u) = c)
        BY <2>1, <2>3, PeerFact
      <4> QED BY <2>1, <4>1 DEF Busy, Has, Peer
    <3>4. Behind(c)' \subseteq {fp[t]}
      BY <2>2, <3>1 DEF Behind
    <3>5. link'[c] = "accepted"
      BY <2>1, <2>3, PeerFact
    <3>6. \A d \in Behind(c)' : (c \in gone \/ Leaky(asked[c]))' /\ Behind(c)' = {d}
      BY <2>1, <3>2, <3>4 DEF Leaky
    <3> QED BY <2>3, <3>3, <3>5, <3>6 DEF Streams
  <2>4. CASE Has(t) /\ Peer(t) = c /\ tpc'[t] = "chunk"
    <3>1. tpc' = tpc
      BY <2>1, <2>4 DEF TypeOK
    <3>2. Behind(c)' = Behind(c)
      BY <2>1, <2>2, <3>1 DEF Behind, Holds
    <3> QED BY <1>0, <2>1, <2>2, <3>1, <3>2, NoMoreBehind DEF Streams, Busy, Has, Peer
  <2>5. CASE ~(Has(t) /\ Peer(t) = c)
    <3>1. ~(Has(t) /\ Peer(t) = c)'
      BY <2>1, <2>5 DEF Has, Peer
    <3> QED BY <1>0, <2>1, <2>2, <2>5, <3>1, OtherStreams
  <2> QED BY <2>1, <2>3, <2>4, <2>5
<1>7. ASSUME NEW t \in Threads, Open(t) \/ OpenIndex(t)
      PROVE  Streams(c)'
  <2>1. PICK d \in Fds : /\ Lowest(d) /\ Opens(d, "stream", IF Has(t) THEN Peer(t) ELSE Nobody)
                         /\ fp' = [fp EXCEPT ![t] = d]
    BY <1>7 DEF Open, OpenIndex
  <2>2. /\ link' = link /\ gone' = gone /\ asked' = asked /\ fd' = fd /\ fp'[t] = d
        /\ \A u \in Threads \ {t} : tpc'[u] = tpc[u] /\ fp'[u] = fp[u]
        /\ tpc[t] \in {"open", "index"} /\ Busy(t) /\ Busy(t)' /\ Holds(t)'
        /\ tpc[t] = "open" => tpc'[t] \in {"head", "index"}
        /\ tpc[t] = "index" => tpc'[t] = "page"
    BY <1>7, <2>1 DEF Open, OpenIndex, At, Goto, Busy, Holds, browser, TypeOK
  <2>3. (IF Has(t) THEN Peer(t) ELSE Nobody) \in Conns \cup {Nobody}
    BY <2>2, ForWhom
  <2>4. StreamsOf(c)' = IF (IF Has(t) THEN Peer(t) ELSE Nobody) = c
                        THEN StreamsOf(c) \cup {d} ELSE StreamsOf(c)
    BY <2>1, <2>3, StreamsOpen
  <2>5. \A u \in Threads : Busy(u) /\ Has(u) => table'[fd[u]] = table[fd[u]] /\ Peer(u)' = Peer(u)
    <3>0. table[d] = Free /\ \A e \in Fds \ {d} : table'[e] = table[e]
      BY <2>1, <2>3, OpensFact
    <3>1. table[d].is = "free" /\ \A e \in Fds \ {d} : table'[e] = table[e]
      BY <3>0 DEF Free
    <3>2. \A u \in Threads : Busy(u) /\ Has(u) => fd[u] \in Fds /\ table[fd[u]].is = "conn"
      BY ConnFact
    <3> QED BY <2>2, <3>1, <3>2 DEF Peer
  <2>6. CASE Has(t) /\ Peer(t) = c
    <3>1. \A u \in Threads \ {t} : ~(Busy(u) /\ Has(u) /\ Peer(u) = c)'
      <4>1. \A u \in Threads \ {t} : ~(Busy(u) /\ Has(u) /\ Peer(u) = c)
        BY <2>2, <2>6, PeerFact
      <4> QED BY <2>2, <2>5, <4>1 DEF Busy, Has
    <3>2. link'[c] = "accepted"
      BY <2>2, <2>6, PeerFact
    <3>3. CASE tpc[t] = "open"
      <4>1. StreamsOf(c)' = {fp'[t]}
        BY <1>0, <2>2, <2>4, <2>6, <3>3 DEF Streams
      <4>2. Behind(c)' = {}
        BY <2>2, <4>1 DEF Behind
      <4> QED BY <2>2, <3>1, <3>2, <3>3, <4>1, <4>2 DEF Streams
    <3>4. CASE tpc[t] = "index"
      <4>1. StreamsOf(c)' = {fp[t], fp'[t]}
        BY <1>0, <2>2, <2>4, <2>6, <3>4 DEF Streams
      <4>2. Behind(c)' \subseteq {fp[t]}
        BY <2>2, <4>1 DEF Behind
      <4>3. c \in gone \/ Leaky(asked[c])
        <5>1. SUFFICES ASSUME c \notin gone PROVE Leaky(asked[c])
          OBVIOUS
        <5> QED BY <2>2, <2>6, <3>4, <5>1, SendingFact, HttpAssumption DEF Sending, Remaining, Leaky, TypeOK
      <4>4. \A e \in Behind(c)' : (c \in gone \/ Leaky(asked[c]))' /\ Behind(c)' = {e}
        BY <2>2, <4>2, <4>3 DEF Leaky
      <4> QED BY <2>2, <3>1, <3>2, <3>4, <4>4 DEF Streams
    <3> QED BY <2>2, <3>3, <3>4
  <2>7. CASE ~(Has(t) /\ Peer(t) = c)
    <3>1. StreamsOf(c)' = StreamsOf(c)
      BY <2>4, <2>7, DescriptorAssumption
    <3>2. ~(Has(t) /\ Peer(t) = c)'
      BY <2>2, <2>5, <2>7 DEF Has
    <3> QED BY <1>0, <2>2, <2>5, <2>7, <3>1, <3>2, OtherStreams
  <2> QED BY <2>6, <2>7
<1>8. ASSUME NEW t \in Threads, SendSmall(t) \/ SendIndex(t)
      PROVE  Streams(c)'
  <2>1. /\ link' = link /\ gone' = gone /\ asked' = asked /\ fd' = fd /\ fp' = fp
        /\ \A u \in Threads \ {t} : tpc'[u] = tpc[u]
        /\ Busy(t) /\ Holds(t) /\ tpc'[t] = "close" /\ Closes(fp[t])
    BY <1>8 DEF SendSmall, SendIndex, At, Goto, Busy, Holds, browser, stack, TypeOK
  <2>2. \A u \in Threads : Busy(u) /\ Has(u) => table'[fd[u]] = table[fd[u]] /\ Peer(u)' = Peer(u)
    <3>1. /\ \A u \in Threads : Busy(u) /\ Has(u) => fd[u] # fp[t] /\ fd[u] \in Fds
          /\ \A e \in Fds \ {fp[t]} : table'[e] = table[e]
      BY <2>1, StreamFact, ClosesFact, PeerFact
    <3> QED BY <2>1, <3>1 DEF Peer
  <2>3. CASE Has(t) /\ Peer(t) = c
    <3>1. StreamsOf(c)' = StreamsOf(c) \ {fp[t]}
      BY <2>1, StreamsClose
    <3>2. \A u \in Threads \ {t} : ~(Busy(u) /\ Has(u) /\ Peer(u) = c)
      BY <2>1, <2>3, PeerFact
    <3>3. \A u \in Threads \ {t} : ~(Busy(u) /\ Has(u) /\ Peer(u) = c)'
      BY <2>1, <2>2, <3>2 DEF Busy, Has
    <3>4. \A u \in Threads \ {t} : Holds(u) => fp[u] \notin StreamsOf(c)
      BY <3>2, Holder
    <3>5. Behind(c)' \subseteq Behind(c)
      BY <3>1, <3>4 DEF Behind
    <3> QED BY <1>0, <2>1, <3>1, <3>3, <3>5, NoMoreBehind
  <2>4. CASE ~(Has(t) /\ Peer(t) = c)
    <3>1. StreamsOf(c)' = StreamsOf(c)
      BY <2>1, <2>4, OwnClosed
    <3>2. ~(Has(t) /\ Peer(t) = c)'
      BY <2>1, <2>2, <2>4 DEF Has
    <3> QED BY <1>0, <2>1, <2>2, <2>4, <3>1, <3>2, OtherStreams
  <2> QED BY <2>3, <2>4
<1>9. ASSUME NEW t \in Threads, Close(t)
      PROVE  Streams(c)'
  <2>1. /\ gone' = gone /\ asked' = asked /\ fd' = fd /\ fp' = fp
        /\ \A u \in Threads \ {t} : tpc'[u] = tpc[u]
        /\ Busy(t) /\ ~Holds(t) /\ tpc'[t] = "idle" /\ Closes(fd[t])
        /\ link'[c] \in {link[c], "ended"}
    BY <1>9 DEF Close, At, Goto, Busy, Holds, browser, stack, TypeOK
  <2>2. StreamsOf(c)' = StreamsOf(c)
    BY <2>1, ConnLeavesStreams
  <2>3. Behind(c)' = Behind(c)
    BY <2>1, <2>2 DEF Behind, Holds
  <2>4. ASSUME NEW u \in Threads, (Busy(u) /\ Has(u) /\ Peer(u) = c)'
        PROVE  Busy(u) /\ Has(u) /\ Peer(u) = c /\ tpc'[u] = tpc[u]
    <3>1. u # t /\ Busy(u) /\ Has(u)
      BY <2>1, <2>4 DEF Busy, Has
    <3>2. fd[u] \in Fds /\ fd[u] # fd[t]
      BY <2>1, <3>1, PeerFact DEF HttpInv, OwnConnection, Has
    <3>3. table'[fd[u]] = table[fd[u]]
      BY <2>1, <3>2, ClosesFact
    <3> QED BY <2>1, <2>4, <3>1, <3>3 DEF Peer
  <2> QED BY <1>0, <2>1, <2>2, <2>3, <2>4, NoMoreBehind DEF Streams
<1>10. ASSUME NEW t \in Threads, OpenFails(t) \/ OpenIndexFails(t) \/ SigPipe(t)
       PROVE  Streams(c)'
  BY <1>1, <1>10 DEF OpenFails, OpenIndexFails, SigPipe, Exit, stack
<1>11. UNCHANGED vars => Streams(c)'
  BY <1>1 DEF vars, stack
<1> QED BY <1>2, <1>3, <1>4, <1>5, <1>6, <1>7, <1>8, <1>9, <1>10, <1>11, Steps
-----------------------------------------------------------------------------
\* Theorems.

HttpAll == TypeOK /\ HttpInv /\ StreamInv

LEMMA AllAlways == Spec => []HttpAll
<1>1. Init => HttpAll
  BY TypeInit, InvInit, StreamInit DEF HttpAll
<1>2. HttpAll /\ [Next]_vars => HttpAll'
  BY TypeStep, InvStep, StreamStep DEF HttpAll
<1> QED BY <1>1, <1>2, PTL DEF Spec

\* The variables stay in their sets, however many connections and threads.
THEOREM TypeCorrect == Spec => []TypeOK
<1>1. HttpAll => TypeOK
  BY DEF HttpAll
<1> QED BY <1>1, AllAlways, PTL

\* No two threads ever share a connection or a stream, although accept() and
\* fopen() give descriptors again, and what a client has been sent is exactly what
\* its thread has done so far of the file that this client asked for.
THEOREM AnswersRight == Spec => []HttpInv
<1>1. HttpAll => HttpInv
  BY DEF HttpAll
<1> QED BY <1>1, AllAlways, PTL

\* No connection is left open by a thread that is done, and a request leaves at
\* most one stream open, whatever its file and whatever else is served meanwhile.
THEOREM LeaksAreBounded == Spec => []LeaksBounded
<1>1. HttpAll => LeaksBounded
  BY DEF HttpAll, HttpInv, OneDescriptor, StreamInv, Streams, LeaksBounded
<1> QED BY <1>1, AllAlways, PTL

\* A step that ends the process has one of the causes, which its state shows.
LEMMA EndCause ==
    ASSUME HttpAll, NEW t \in Threads, OpenFails(t) \/ OpenIndexFails(t) \/ SigPipe(t)
    PROVE  EndsOnlyFor'
<1>1. UNCHANGED <<table, tpc, fd, asked, gone>> /\ Busy(t)
  BY DEF OpenFails, OpenIndexFails, SigPipe, Exit, At, Busy, browser
<1>2. CASE OpenFails(t)
  <2>1. At(t, "open") /\ (Kind[path[t]] = "missing" \/ Unused = {}) /\ path[t] \in Paths
    BY <1>2 DEF OpenFails, At, HttpAll, TypeOK
  <2>2. CASE Unused = {}
    BY <1>1, <2>2 DEF EndsOnlyFor, Unused
  <2>3. CASE ~Has(t)
    <3>1. fd[t] = NoFd
      BY <2>3 DEF HttpAll, TypeOK, Has
    <3> QED BY <1>1, <3>1 DEF EndsOnlyFor, Busy
  <2>4. CASE Has(t) /\ Kind[path[t]] = "missing"
    <3>1. CASE Peer(t) \in gone
      BY <1>1, <3>1 DEF EndsOnlyFor
    <3>2. CASE Peer(t) \notin gone
      <4>1. Sending(t) /\ Peer(t) \in Conns
        BY <1>1, <2>4, <3>2, SendingFact DEF HttpAll
      <4>2. asked[Peer(t)] = path[t]
        BY <2>1, <4>1 DEF Sending, At
      <4> QED BY <1>1, <2>1, <2>4, <4>1, <4>2, HttpAssumption DEF EndsOnlyFor
    <3> QED BY <3>1, <3>2
  <2> QED BY <2>1, <2>2, <2>3, <2>4
<1>3. CASE OpenIndexFails(t)
  BY <1>1, <1>3 DEF OpenIndexFails, EndsOnlyFor, Unused
<1>4. CASE SigPipe(t)
  BY <1>1, <1>4 DEF SigPipe, PeerGone, EndsOnlyFor
<1> QED BY <1>2, <1>3, <1>4

\* The server of all clients ends only for a client that left, a file that is not
\* there or a full table of descriptors: no interleaving of requests ends it.
THEOREM EndsOnly == Spec => []EndsOnlyFor
<1>1. Init => EndsOnlyFor
  BY DEF Init, EndsOnlyFor
<1>2. HttpAll /\ EndsOnlyFor /\ [Next]_vars => EndsOnlyFor'
  <2> SUFFICES ASSUME HttpAll, EndsOnlyFor, [Next]_vars, ~alive'
               PROVE  EndsOnlyFor'
    BY DEF EndsOnlyFor
  <2>1. CASE UNCHANGED vars
    BY <2>1 DEF vars, browser, EndsOnlyFor, Unused, Busy
  <2>2. CASE ~UNCHANGED vars
    <3>1. alive
      BY <2>2, Steps
    <3>2. \E t \in Threads : OpenFails(t) \/ OpenIndexFails(t) \/ SigPipe(t)
      BY <2>2, <3>1, Steps DEF Connect, Ask, Leave, Accept, AcceptFails, Start, ReadRequest,
         ReadNothing, Parsed, Open, SendHead, SendSmall, SendEmpty, SendChunk, OpenIndex,
         SendIndex, Close
    <3> QED BY <3>2, EndCause
  <2> QED BY <2>1, <2>2
<1> QED BY <1>1, <1>2, AllAlways, PTL DEF Spec
-----------------------------------------------------------------------------
\* The refinement.

\* A write() is the service's header, or more of the body, for the thread's client.
LEMMA ToService ==
    ASSUME HttpAll, [Next]_vars, SmallFilesAreText
    PROVE  [Service!Next]_(Service!service)
<1> DEFINE ended == {c \in Conns : link[c] = "ended"}
<1>0. TypeOK /\ HttpInv
  BY DEF HttpAll
<1>1. CASE UNCHANGED <<link, browser, replies, alive>>
  BY <1>1 DEF Service!service, browser, replies
<1>2. ASSUME alive, NEW c \in Conns, Connect(c) \/ Ask(c) \/ Leave(c)
      PROVE  [Service!Next]_(Service!service)
  <2>1. CASE Connect(c)
    <3>1. \A k \in Conns : link'[k] = "ended" <=> link[k] = "ended"
      BY <1>0, <2>1 DEF Connect, TypeOK
    <3> QED BY <2>1, <3>1 DEF Connect, Service!service, browser, replies
  <2>2. CASE Ask(c)
    BY <1>2, <2>2 DEF Ask, Service!Next, Service!Ask, replies
  <2>3. CASE Leave(c)
    BY <1>2, <2>3 DEF Leave, Service!Next, Service!Leave, replies
  <2> QED BY <1>2, <2>1, <2>2, <2>3
<1>3. ASSUME NEW t \in Threads, NEW c \in Conns, Accept(c, t)
      PROVE  [Service!Next]_(Service!service)
  <2>1. \A k \in Conns : link'[k] = "ended" <=> link[k] = "ended"
    BY <1>0, <1>3 DEF Accept, TypeOK
  <2> QED BY <1>3, <2>1 DEF Accept, Service!service, browser, replies
<1>4. ASSUME NEW t \in Threads, Exit
      PROVE  [Service!Next]_(Service!service)
  BY <1>4 DEF Exit, Service!Next, Service!Stop, browser, replies
<1>5. ASSUME alive, NEW t \in Threads, SendHead(t) \/ SendSmall(t) \/ SendChunk(t) \/ SendIndex(t)
      PROVE  [Service!Next]_(Service!service)
  <2>1. /\ Busy(t) /\ link' = link /\ asked' = asked /\ gone' = gone /\ alive' = alive
        /\ tpc[t] \in {"head", "small", "chunk", "page"}
    BY <1>5 DEF SendHead, SendSmall, SendChunk, SendIndex, At, Busy, browser, stack
  <2>2. CASE ~(Has(t) /\ Peer(t) \notin gone)
    <3>1. replies' = replies
      BY <1>5, <2>2 DEF SendHead, SendSmall, SendChunk, SendIndex, WritesMore, Writes, PeerGone
    <3> QED BY <2>1, <3>1 DEF Service!service, replies
  <2>3. CASE Has(t) /\ Peer(t) \notin gone
    <3>1. /\ Peer(t) \in Conns /\ link[Peer(t)] = "accepted" /\ Sending(t) /\ Remaining(t)
          /\ path[t] \in Paths /\ asked[Peer(t)] = path[t]
      BY <1>0, <2>1, <2>3, PeerFact, SendingFact DEF Sending, TypeOK
    <3>2. /\ head \in [Conns -> Nat \cup {NoHead}] /\ body \in [Conns -> Nat] /\ left[t] \in Nat
          /\ Length[path[t]] \in Nat /\ path[t] # NoPath /\ NoHead \notin Nat
      BY <1>0, <3>1, LengthType, HttpAssumption DEF TypeOK
    <3>3. CASE SendHead(t)
      <4>1. Writes(t, Length[path[t]], 0) /\ head[Peer(t)] = NoHead /\ body[Peer(t)] = 0
        BY <3>1, <3>3 DEF SendHead, At, Sending
      <4>2. /\ head' = [head EXCEPT ![Peer(t)] = Length[asked[Peer(t)]]]
            /\ body' = [body EXCEPT ![Peer(t)] = 0]
        BY <2>3, <3>1, <4>1 DEF Writes, PeerGone
      <4>3. 0 \in 0..Length[asked[Peer(t)]]
        BY <3>1, <3>2
      <4>4. Service!Announce(Peer(t))
        BY <2>1, <3>1, <3>2, <4>1, <4>2, <4>3 DEF Service!Announce
      <4> QED BY <1>5, <3>1, <4>4 DEF Service!Next
    <3>4. CASE SendIndex(t)
      <4>1. /\ Writes(t, Size[Index], Text[Index]) /\ head[Peer(t)] = NoHead /\ body[Peer(t)] = 0
            /\ Length[asked[Peer(t)]] = Size[Index]
        BY <3>1, <3>4 DEF SendIndex, At, Sending, Remaining, Length
      <4>2. /\ head' = [head EXCEPT ![Peer(t)] = Length[asked[Peer(t)]]]
            /\ body' = [body EXCEPT ![Peer(t)] = Text[Index]]
        BY <2>3, <3>1, <4>1, HttpAssumption DEF Writes, PeerGone
      <4>3. Text[Index] \in 0..Length[asked[Peer(t)]]
        BY <3>1, <3>2, <4>1, HttpAssumption
      <4>4. Service!Announce(Peer(t))
        BY <2>1, <3>1, <3>2, <4>1, <4>2, <4>3 DEF Service!Announce
      <4> QED BY <1>5, <3>1, <4>4 DEF Service!Next
    <3>5. CASE SendSmall(t) \/ SendChunk(t)
      <4>1. PICK n \in Nat : WritesMore(t, n) /\ body[Peer(t)] + n <= Length[path[t]]
        <5>1. CASE SendSmall(t)
          <6>1. /\ WritesMore(t, Text[path[t]]) /\ body[Peer(t)] = 0
                /\ Kind[path[t]] = "typed"
            BY <3>1, <5>1 DEF SendSmall, At, Sending, Remaining
          <6>2. Length[path[t]] = Size[path[t]]
            BY <3>1, <6>1 DEF Length
          <6> QED BY <3>1, <6>1, <6>2, HttpAssumption
        <5>2. CASE SendChunk(t)
          <6>1. /\ WritesMore(t, Chunk(t)) /\ body[Peer(t)] = Size[path[t]] - left[t]
                /\ Kind[path[t]] = "typed"
            BY <3>1, <5>2 DEF SendChunk, At, Sending, Remaining
          <6>2. Length[path[t]] = Size[path[t]]
            BY <3>1, <6>1 DEF Length
          <6>3. Chunk(t) \in Nat /\ Chunk(t) <= left[t]
            BY <3>2 DEF Chunk, MAXBUF
          <6> QED BY <3>1, <3>2, <6>1, <6>2, <6>3, HttpAssumption
        <5> QED BY <3>5, <5>1, <5>2
      <4>2. head[Peer(t)] = Length[path[t]]
        BY <3>1, <3>5 DEF SendSmall, SendChunk, At, Sending
      <4>3. head' = head /\ body' = [body EXCEPT ![Peer(t)] = body[Peer(t)] + n]
        BY <2>3, <3>1, <3>2, <4>1 DEF WritesMore, Writes, PeerGone
      <4>4. body[Peer(t)] + n \in body[Peer(t)]..head[Peer(t)]
        BY <3>1, <3>2, <4>1, <4>2
      <4>5. Service!Deliver(Peer(t))
        BY <2>1, <3>1, <3>2, <4>2, <4>3, <4>4 DEF Service!Deliver
      <4> QED BY <1>5, <3>1, <4>5 DEF Service!Next
    <3> QED BY <1>5, <3>3, <3>4, <3>5
  <2> QED BY <2>2, <2>3
<1>6. ASSUME alive, NEW t \in Threads, Close(t)
      PROVE  [Service!Next]_(Service!service)
  <2>1. /\ asked' = asked /\ gone' = gone /\ head' = head /\ body' = body /\ alive' = alive
        /\ tpc[t] = "close" /\ Busy(t)
        /\ link' = IF Has(t) THEN [link EXCEPT ![Peer(t)] = "ended"] ELSE link
    BY <1>6 DEF Close, At, Busy, browser, replies, stack
  <2>2. CASE ~Has(t)
    BY <2>1, <2>2 DEF Service!service
  <2>3. CASE Has(t)
    <3>1. Peer(t) \in Conns /\ link[Peer(t)] = "accepted" /\ path[t] \in Paths
      BY <1>0, <2>1, <2>3, PeerFact DEF TypeOK
    <3>2. ended' = ended \cup {Peer(t)} /\ Peer(t) \in Conns \ ended
      BY <1>0, <2>1, <2>3, <3>1 DEF TypeOK
    <3>3. CASE Peer(t) \in gone
      BY <1>6, <2>1, <3>2, <3>3 DEF Service!Next, Service!End
    <3>4. CASE Peer(t) \notin gone
      <4>1. head[Peer(t)] = Length[path[t]] /\ body[Peer(t)] = Sent(path[t])
        BY <1>0, <2>1, <2>3, <3>4, SendingFact DEF Sending
      <4>2. Sent(path[t]) = Length[path[t]] /\ Length[path[t]] # NoHead
        BY <3>1, HttpAssumption DEF SmallFilesAreText, Sent, Length
      <4> QED BY <1>6, <2>1, <3>2, <4>1, <4>2 DEF Service!Next, Service!End
    <3> QED BY <3>3, <3>4
  <2> QED BY <2>2, <2>3
<1>7. ASSUME NEW t \in Threads,
             AcceptFails(t) \/ Start(t) \/ ReadRequest(t) \/ ReadNothing(t) \/ Open(t)
                 \/ SendEmpty(t) \/ OpenIndex(t)
      PROVE  [Service!Next]_(Service!service)
  BY <1>1, <1>7 DEF AcceptFails, Start, ReadRequest, ReadNothing, Parsed, Open, SendEmpty, OpenIndex
<1>8. ASSUME NEW t \in Threads, OpenFails(t) \/ OpenIndexFails(t) \/ SigPipe(t)
      PROVE  [Service!Next]_(Service!service)
  BY <1>4, <1>8 DEF OpenFails, OpenIndexFails, SigPipe
<1>9. UNCHANGED vars => [Service!Next]_(Service!service)
  BY <1>1 DEF vars
<1> QED BY <1>2, <1>3, <1>5, <1>6, <1>7, <1>8, <1>9, Steps

\* The server of threads implements the service, as long as the small files it
\* serves have no zero byte: each client gets the length of the file it asked for,
\* never more bytes than that, and the end of the connection after the last one.
THEOREM Implements == SmallFilesAreText => (Spec => ServiceSpec)
<1> SUFFICES ASSUME SmallFilesAreText
             PROVE  Spec => ServiceSpec
  OBVIOUS
<1>1. Init => Service!Init
  BY DEF Init, Service!Init
<1>2. HttpAll /\ [Next]_vars => [Service!Next]_(Service!service)
  BY ToService
<1> QED BY <1>1, <1>2, AllAlways, PTL DEF Spec, ServiceSpec, Service!Spec
-----------------------------------------------------------------------------
\* That nobody is forgotten, and that threads come closer to the end.

\* A thread at work that a step leaves its point and its descriptor keeps its
\* connection, since nothing but its own close() takes the descriptor.
LEMMA KeptByOthers ==
    ASSUME TypeOK, HttpInv, NEW u \in Threads, Busy(u), Has(u), [Next]_vars, ~Close(u)
    PROVE  Busy(u)' /\ Has(u)' /\ Peer(u)' = Peer(u)
<1>0. /\ fd[u] \in Fds /\ table[fd[u]].is = "conn" /\ Peer(u) \in Conns
      /\ DOMAIN tpc = Threads /\ DOMAIN fd = Threads
  <2>1. table[fd[u]] = [is |-> "conn", of |-> Peer(u)] /\ fd[u] \in Fds /\ Peer(u) \in Conns
    BY PeerFact
  <2> QED BY <2>1 DEF TypeOK
<1>1. ASSUME Busy(u)', fd'[u] = fd[u], table'[fd[u]] = table[fd[u]]
      PROVE  Busy(u)' /\ Has(u)' /\ Peer(u)' = Peer(u)
  BY <1>0, <1>1 DEF Has, Peer
<1>2. CASE UNCHANGED <<table, tpc, fd>>
  BY <1>1, <1>2 DEF Busy
<1>3. ASSUME NEW t \in Threads, AcceptFails(t) \/ \E c \in Conns : Accept(c, t)
      PROVE  Busy(u)' /\ Has(u)' /\ Peer(u)' = Peer(u)
  <2>1. tpc[t] = "idle" /\ tpc' = [tpc EXCEPT ![t] = "start"] /\ \E d : fd' = [fd EXCEPT ![t] = d]
    BY <1>3 DEF AcceptFails, Accept, Hand
  <2>2. u # t /\ Busy(u)' /\ fd'[u] = fd[u]
    BY <1>0, <2>1 DEF Busy
  <2>3. CASE table' = table
    BY <1>1, <2>2, <2>3
  <2>4. CASE \E c \in Conns : Accept(c, t)
    <3>1. PICK c \in Conns, d \in Fds : Lowest(d) /\ Opens(d, "conn", c)
      BY <2>4 DEF Accept
    <3>2. table[d] = Free /\ \A e \in Fds \ {d} : table'[e] = table[e]
      BY <3>1, OpensFact
    <3>3. table'[fd[u]] = table[fd[u]]
      BY <1>0, <3>2 DEF Free
    <3> QED BY <1>1, <2>2, <3>3
  <2> QED BY <1>3, <2>3, <2>4 DEF AcceptFails
<1>4. ASSUME NEW t \in Threads, Open(t) \/ OpenIndex(t)
      PROVE  Busy(u)' /\ Has(u)' /\ Peer(u)' = Peer(u)
  <2>1. fd' = fd /\ \E pc \in {"head", "index", "page"} : tpc' = [tpc EXCEPT ![t] = pc]
    BY <1>4 DEF Open, OpenIndex, Goto
  <2>2. Busy(u)' /\ fd'[u] = fd[u]
    BY <1>0, <2>1 DEF Busy
  <2>3. PICK d \in Fds, x \in Conns \cup {Nobody} : Lowest(d) /\ Opens(d, "stream", x)
    <3>1. PICK d \in Fds : Lowest(d) /\ Opens(d, "stream", IF Has(t) THEN Peer(t) ELSE Nobody)
      BY <1>4 DEF Open, OpenIndex
    <3>2. Busy(t)
      BY <1>4 DEF Open, OpenIndex, At, Busy
    <3>3. Has(t) => Peer(t) \in Conns
      BY <3>2, PeerFact
    <3> QED BY <3>1, <3>3
  <2>4. table[d] = Free /\ \A e \in Fds \ {d} : table'[e] = table[e]
    BY <2>3, OpensFact
  <2>5. table'[fd[u]] = table[fd[u]]
    BY <1>0, <2>4 DEF Free
  <2> QED BY <1>1, <2>2, <2>5
<1>5. ASSUME NEW t \in Threads, SendSmall(t) \/ SendIndex(t)
      PROVE  Busy(u)' /\ Has(u)' /\ Peer(u)' = Peer(u)
  <2>1. fd' = fd /\ tpc' = [tpc EXCEPT ![t] = "close"] /\ Closes(fp[t]) /\ Holds(t)
    BY <1>5 DEF SendSmall, SendIndex, Goto, At, Holds, stack
  <2>2. Busy(u)' /\ fd'[u] = fd[u]
    BY <1>0, <2>1 DEF Busy
  <2>3. fd[u] # fp[t]
    BY <2>1, StreamFact
  <2>4. table'[fd[u]] = table[fd[u]]
    BY <1>0, <2>1, <2>3, ClosesFact
  <2> QED BY <1>1, <2>2, <2>4
<1>6. ASSUME NEW t \in Threads, Close(t)
      PROVE  Busy(u)' /\ Has(u)' /\ Peer(u)' = Peer(u)
  <2>1. u # t /\ fd' = fd /\ tpc' = [tpc EXCEPT ![t] = "idle"] /\ Closes(fd[t]) /\ Busy(t)
    BY <1>6 DEF Close, Goto, At, Busy, stack
  <2>2. Busy(u)' /\ fd'[u] = fd[u]
    BY <1>0, <2>1 DEF Busy
  <2>3. fd[u] # fd[t]
    BY <2>1 DEF HttpInv, OwnConnection
  <2>4. table'[fd[u]] = table[fd[u]]
    BY <1>0, <2>1, <2>3, ClosesFact
  <2> QED BY <1>1, <2>2, <2>4
<1>7. ASSUME NEW t \in Threads,
             Start(t) \/ ReadRequest(t) \/ ReadNothing(t) \/ SendHead(t) \/ SendEmpty(t) \/ SendChunk(t)
      PROVE  Busy(u)' /\ Has(u)' /\ Peer(u)' = Peer(u)
  <2>1. UNCHANGED <<table, fd>> /\ \E pc : tpc' = [tpc EXCEPT ![t] = pc] /\ pc # "idle"
    BY <1>7 DEF Start, ReadRequest, ReadNothing, Parsed, SendHead, SendEmpty, SendChunk, Goto
  <2>2. Busy(u)'
    BY <1>0, <2>1 DEF Busy
  <2> QED BY <1>1, <2>1, <2>2
<1>8. ASSUME NEW t \in Threads, OpenFails(t) \/ OpenIndexFails(t) \/ SigPipe(t)
      PROVE  UNCHANGED <<table, tpc, fd>>
  BY <1>8 DEF OpenFails, OpenIndexFails, SigPipe, Exit
<1>9. ASSUME NEW c \in Conns, Connect(c) \/ Ask(c) \/ Leave(c)
      PROVE  UNCHANGED <<table, tpc, fd>>
  BY <1>9 DEF Connect, Ask, Leave
<1>10. UNCHANGED vars => UNCHANGED <<table, tpc, fd>>
  BY DEF vars
<1> QED BY <1>2, <1>3, <1>4, <1>5, <1>6, <1>7, <1>8, <1>9, <1>10, Steps

LEMMA AttendedStep == HttpAll /\ Attended /\ [Next]_vars => Attended'
<1> SUFFICES ASSUME HttpAll, Attended, [Next]_vars, NEW c \in Conns, link'[c] = "accepted"
             PROVE  \E t \in Threads : Busy(t)' /\ Has(t)' /\ Peer(t)' = c
  BY DEF Attended
<1>0. TypeOK /\ HttpInv /\ DOMAIN link = Conns /\ DOMAIN tpc = Threads /\ DOMAIN fd = Threads
  BY DEF HttpAll, TypeOK
<1>1. CASE link[c] = "accepted"
  <2>1. PICK t \in Threads : Busy(t) /\ Has(t) /\ Peer(t) = c
    BY <1>1 DEF Attended
  <2>2. ~Close(t)
    <3>1. Close(t) => link'[c] = "ended"
      BY <1>0, <2>1 DEF Close
    <3> QED BY <3>1
  <2> QED BY <1>0, <2>1, <2>2, KeptByOthers
<1>2. CASE link[c] # "accepted"
  <2>1. PICK t \in Threads : Accept(c, t)
    <3>1. ASSUME NEW b \in Conns, NEW t \in Threads, Accept(b, t), b # c
          PROVE  link'[c] = link[c]
      BY <1>0, <3>1 DEF Accept
    <3>2. ASSUME NEW b \in Conns, Connect(b)
          PROVE  link'[c] # "accepted"
      BY <1>0, <1>2, <3>2 DEF Connect
    <3>3. ASSUME NEW t \in Threads, Close(t)
          PROVE  link'[c] # "accepted"
      BY <1>0, <1>2, <3>3 DEF Close
    <3>4. ASSUME UNCHANGED link
          PROVE  FALSE
      BY <1>2, <3>4
    <3>5. ASSUME NEW b \in Conns, Ask(b) \/ Leave(b)
          PROVE  UNCHANGED link
      BY <3>5 DEF Ask, Leave
    <3>6. ASSUME NEW t \in Threads,
                 \/ AcceptFails(t) \/ Start(t) \/ ReadRequest(t) \/ ReadNothing(t) \/ Open(t)
                 \/ OpenFails(t) \/ SendHead(t) \/ SendSmall(t) \/ SendEmpty(t) \/ SendChunk(t)
                 \/ OpenIndex(t) \/ OpenIndexFails(t) \/ SendIndex(t) \/ SigPipe(t)
          PROVE  UNCHANGED link
      BY <3>6 DEF AcceptFails, Start, ReadRequest, ReadNothing, Parsed, Open, OpenFails, SendHead,
         SendSmall, SendEmpty, SendChunk, OpenIndex, OpenIndexFails, SendIndex, SigPipe, Exit
    <3>7. UNCHANGED vars => UNCHANGED link
      BY DEF vars
    <3> QED BY <1>2, <3>1, <3>2, <3>3, <3>4, <3>5, <3>6, <3>7, Steps
  <2>2. PICK d \in Fds : Lowest(d) /\ Opens(d, "conn", c) /\ fd' = [fd EXCEPT ![t] = d]
    BY <2>1 DEF Accept, Hand
  <2>3. table'[d] = [is |-> "conn", of |-> c] /\ fd'[t] = d
    BY <1>0, <2>2, OpensFact
  <2>4. tpc'[t] = "start"
    BY <1>0, <2>1 DEF Accept
  <2> QED BY <2>3, <2>4 DEF Busy, Has, Peer
<1> QED BY <1>1, <1>2

\* No accepted connection is ever left without a thread, by no interleaving and
\* however often its descriptor was another's before.
THEOREM NobodyForgotten == Spec => []Attended
<1>1. Init => Attended
  BY DEF Init, Attended
<1>2. HttpAll /\ Attended /\ [Next]_vars => Attended'
  BY AttendedStep
<1> QED BY <1>1, <1>2, AllAlways, PTL DEF Spec

\* A step of t itself: a later point, or fewer bytes left of the file.
LEMMA OwnStep ==
    ASSUME HttpAll, NEW t \in Threads, Thread(t), alive'
    PROVE  Closer(t)
<1>0. /\ DOMAIN tpc = Threads /\ DOMAIN left = Threads /\ left[t] \in Nat /\ Remaining(t)
      /\ DOMAIN Todo = {"idle", "close", "small", "chunk", "page", "head", "index", "open", "read", "start"}
  BY DEF HttpAll, TypeOK, HttpInv, Answers, Todo
<1>1. CASE Start(t) \/ ReadRequest(t) \/ ReadNothing(t)
  <2>1. \/ tpc[t] = "start" /\ tpc'[t] = "read"
        \/ tpc[t] = "read" /\ tpc'[t] = "open"
    BY <1>0, <1>1 DEF Start, ReadRequest, ReadNothing, Parsed, At, Goto
  <2> QED BY <2>1 DEF Closer, Todo
<1>2. CASE Open(t)
  BY <1>0, <1>2 DEF Open, At, Goto, Closer, Todo
<1>3. CASE SendHead(t)
  BY <1>0, <1>3 DEF SendHead, At, Goto, Closer, Todo
<1>4. CASE SendSmall(t) \/ SendEmpty(t) \/ SendIndex(t) \/ Close(t)
  <2>1. \/ tpc[t] \in {"small", "page"} /\ tpc'[t] = "close"
        \/ tpc[t] = "close" /\ tpc'[t] = "idle"
    BY <1>0, <1>4 DEF SendSmall, SendEmpty, SendIndex, Close, At, Goto
  <2> QED BY <2>1 DEF Closer, Todo
<1>5. CASE OpenIndex(t)
  BY <1>0, <1>5 DEF OpenIndex, At, Goto, Closer, Todo
<1>6. CASE SendChunk(t)
  <2>1. /\ tpc[t] = "chunk" /\ left'[t] = left[t] - Chunk(t)
        /\ tpc'[t] = IF left[t] = Chunk(t) THEN "close" ELSE "chunk"
    BY <1>0, <1>6 DEF SendChunk, At, Goto
  <2>2. left[t] > 0
    BY <1>0, <2>1 DEF Remaining
  <2>3. Chunk(t) \in Nat /\ Chunk(t) > 0
    BY <1>0, <2>2 DEF Chunk, MAXBUF
  <2>4. left'[t] < left[t]
    BY <1>0, <2>1, <2>3
  <2> QED BY <2>1, <2>4 DEF Closer, Todo
<1>7. CASE OpenFails(t) \/ OpenIndexFails(t) \/ SigPipe(t)
  BY <1>7 DEF OpenFails, OpenIndexFails, SigPipe, Exit
<1> QED BY <1>1, <1>2, <1>3, <1>4, <1>5, <1>6, <1>7 DEF Thread

\* A step of anybody else leaves t where it is.
LEMMA OthersStep ==
    ASSUME HttpAll, NEW u \in Threads, Busy(u), [Next]_vars, ~Thread(u)
    PROVE  tpc'[u] = tpc[u] /\ left'[u] = left[u]
<1>0. DOMAIN tpc = Threads /\ DOMAIN left = Threads
  BY DEF HttpAll, TypeOK
<1>1. ASSUME NEW t \in Threads, Thread(t)
      PROVE  tpc'[u] = tpc[u] /\ left'[u] = left[u]
  <2>1. t # u
    BY <1>1
  <2>2. CASE Start(t) \/ ReadRequest(t) \/ ReadNothing(t) \/ Open(t) \/ OpenIndex(t)
    BY <1>0, <2>1, <2>2 DEF Start, ReadRequest, ReadNothing, Parsed, Open, OpenIndex, Goto, stack
  <2>3. CASE SendHead(t) \/ SendSmall(t) \/ SendEmpty(t) \/ SendIndex(t) \/ Close(t)
    BY <1>0, <2>1, <2>3 DEF SendHead, SendSmall, SendEmpty, SendIndex, Close, Goto, stack
  <2>4. CASE SendChunk(t)
    BY <1>0, <2>1, <2>4 DEF SendChunk, Goto
  <2>5. CASE OpenFails(t) \/ OpenIndexFails(t) \/ SigPipe(t)
    BY <2>5 DEF OpenFails, OpenIndexFails, SigPipe, Exit, stack
  <2> QED BY <1>1, <2>2, <2>3, <2>4, <2>5 DEF Thread
<1>2. ASSUME NEW t \in Threads, AcceptFails(t) \/ \E c \in Conns : Accept(c, t)
      PROVE  tpc'[u] = tpc[u] /\ left'[u] = left[u]
  <2>1. tpc[t] = "idle" /\ tpc' = [tpc EXCEPT ![t] = "start"] /\ left' = left
    BY <1>2 DEF AcceptFails, Accept, stack
  <2> QED BY <1>0, <2>1 DEF Busy
<1>3. ASSUME NEW c \in Conns, Connect(c) \/ Ask(c) \/ Leave(c)
      PROVE  tpc'[u] = tpc[u] /\ left'[u] = left[u]
  BY <1>3 DEF Connect, Ask, Leave, stack
<1>4. UNCHANGED vars => tpc'[u] = tpc[u] /\ left'[u] = left[u]
  BY DEF vars, stack
<1> QED BY <1>1, <1>2, <1>3, <1>4 DEF Next, Main, Browser

\* A request is done after a number of its own thread's steps that nothing another
\* thread, a browser or main() does can raise: what Answered needs besides fairness.
THEOREM RequestsProgress == Spec => Progress
<1>1. HttpAll /\ [Next]_vars => [\A t \in Threads : Busy(t) => StepsOn(t)]_vars
  <2> SUFFICES ASSUME HttpAll, [Next]_vars, NEW t \in Threads, Busy(t)
               PROVE  StepsOn(t)
    OBVIOUS
  <2>1. CASE Thread(t) /\ alive'
    BY <2>1, OwnStep DEF StepsOn
  <2>2. CASE Thread(t) /\ ~alive'
    <3>1. OpenFails(t) \/ OpenIndexFails(t) \/ SigPipe(t)
      BY <2>2 DEF Thread, Start, ReadRequest, ReadNothing, Parsed, Open, SendHead, SendSmall,
         SendEmpty, SendChunk, OpenIndex, SendIndex, Close
    <3>2. UNCHANGED <<tpc, left>>
      BY <3>1 DEF OpenFails, OpenIndexFails, SigPipe, Exit, stack
    <3> QED BY <2>2, <3>2 DEF StepsOn
  <2>3. CASE ~Thread(t)
    BY <2>3, OthersStep DEF StepsOn
  <2> QED BY <2>1, <2>2, <2>3
<1> QED BY <1>1, AllAlways, PTL DEF Spec, Progress
=============================================================================
