---------------------------- MODULE ProxyProofs ----------------------------
(***************************************************************************)
(* Proofs about Proxy, for any clients, threads, descriptors and hosts.    *)
(***************************************************************************)
EXTENDS Proxy, TLAPS

\* What Next is made of.
LEMMA Steps ==
    ASSUME [Next]_vars
    PROVE  \/ UNCHANGED vars
           \/ alive /\ \E c \in Conns : Connect(c) \/ Ask(c) \/ Leave(c)
           \/ alive /\ \E t \in Threads : AcceptFails(t) \/ \E c \in Conns : Accept(c, t)
           \/ alive /\ \E t \in Threads :
                 \/ ReadRequest(t) \/ ReadNothing(t) \/ Lookup(t) \/ LookupFails(t)
                 \/ OpenList(t) \/ OpenListFails(t) \/ Block(t) \/ Reject(t)
                 \/ Socket(t) \/ SocketFails(t) \/ Resolve(t) \/ Copy(t) \/ CopyFails(t)
                 \/ Forward(t) \/ ForwardFails(t) \/ Relay(t) \/ SigPipe(t) \/ CloseList(t)
  BY DEF Next, Main, Thread, Client
-----------------------------------------------------------------------------
\* The table of descriptors.

LEMMA OpensFact ==
    ASSUME TypeOK, NEW d \in Fds, Lowest(d), NEW is \in {"conn", "stream", "origin"},
           NEW x \in Conns \cup {Nobody}, Opens(d, is, x)
    PROVE  /\ TableTypeOK'
           /\ table[d] = Free
           /\ table'[d] = [is |-> is, of |-> x]
           /\ \A e \in Fds \ {d} : table'[e] = table[e]
  BY DEF TypeOK, TableTypeOK, Opens, Entries, Lowest, Unused

LEMMA ClosesFact ==
    ASSUME TypeOK, NEW d, Closes(d)
    PROVE  /\ TableTypeOK'
           /\ d \in Fds => table'[d] = Free
           /\ \A e \in Fds \ {d} : table'[e] = table[e]
  BY DEF TypeOK, TableTypeOK, Closes, Entries, Free

\* What they do to the descriptors of a connection, and to the streams.
LEMMA HeldOpen ==
    ASSUME TypeOK, NEW c \in Conns, NEW d \in Fds, Lowest(d),
           NEW is \in {"conn", "stream", "origin"}, NEW x \in Conns \cup {Nobody}, Opens(d, is, x)
    PROVE  /\ Ends(c)' = IF is = "conn" /\ x = c THEN Ends(c) \cup {d} ELSE Ends(c)
           /\ Origins(c)' = IF is = "origin" /\ x = c THEN Origins(c) \cup {d} ELSE Origins(c)
<1>1. /\ table[d] = Free /\ table'[d] = [is |-> is, of |-> x]
      /\ \A e \in Fds \ {d} : table'[e] = table[e]
  BY OpensFact
<1>2. table[d].is = "free"
  BY <1>1 DEF Free
<1>3. table[d] # [is |-> "conn", of |-> c] /\ table[d] # [is |-> "origin", of |-> c]
  BY <1>2
<1>4. /\ table'[d] = [is |-> "conn", of |-> c] <=> is = "conn" /\ x = c
      /\ table'[d] = [is |-> "origin", of |-> c] <=> is = "origin" /\ x = c
  BY <1>1
<1> QED BY <1>1, <1>3, <1>4 DEF Ends, Origins

LEMMA HeldClose ==
    ASSUME TypeOK, NEW c \in Conns, NEW d, Closes(d)
    PROVE  Ends(c)' = Ends(c) \ {d} /\ Origins(c)' = Origins(c) \ {d}
<1>1. /\ d \in Fds => table'[d] = Free
      /\ \A e \in Fds \ {d} : table'[e] = table[e]
  BY ClosesFact
<1>2. Free # [is |-> "conn", of |-> c] /\ Free # [is |-> "origin", of |-> c]
  BY DEF Free
<1> QED BY <1>1, <1>2 DEF Ends, Origins

LEMMA StreamsOpen ==
    ASSUME TypeOK, NEW d \in Fds, Lowest(d), NEW is \in {"conn", "stream", "origin"},
           NEW x \in Conns \cup {Nobody}, Opens(d, is, x)
    PROVE  /\ table[d].is = "free" /\ table'[d].is = is /\ table'[d].of = x
           /\ \A e \in Fds \ {d} : table'[e] = table[e]
<1>1. /\ table[d] = Free /\ table'[d] = [is |-> is, of |-> x]
      /\ \A e \in Fds \ {d} : table'[e] = table[e]
  BY OpensFact
<1> QED BY <1>1 DEF Free

LEMMA StreamsClose ==
    ASSUME TypeOK, NEW d, Closes(d)
    PROVE  /\ d \in Fds => table'[d].is = "free"
           /\ \A e \in Fds \ {d} : table'[e] = table[e]
<1>1. /\ d \in Fds => table'[d] = Free
      /\ \A e \in Fds \ {d} : table'[e] = table[e]
  BY ClosesFact
<1> QED BY <1>1 DEF Free
-----------------------------------------------------------------------------
\* The connection a thread serves, and that no other thread serves it.
LEMMA PeerFact ==
    ASSUME TypeOK, ProxyInv, NEW t \in Threads, Serves(t), Has(t)
    PROVE  /\ fd[t] \in Fds /\ Peer(t) \in Conns /\ link[Peer(t)] = "accepted"
           /\ table[fd[t]].is = "conn" /\ Ends(Peer(t)) = {fd[t]}
           /\ Serving(t, Peer(t)) /\ Fit(Peer(t)) /\ Leaks(Peer(t))
           /\ \A u \in Threads \ {t} : Serves(u) /\ Has(u) =>
                 fd[u] # fd[t] /\ Peer(u) # Peer(t)
<1>1. ASSUME NEW u \in Threads, Serves(u), Has(u)
      PROVE  fd[u] \in Fds /\ Peer(u) \in Conns /\ table[fd[u]].is = "conn" /\ fd[u] \in Ends(Peer(u))
  <2>1. fd[u] \in Fds /\ Peer(u) \in Conns /\ table[fd[u]].is = "conn"
    BY <1>1 DEF ProxyInv, OwnConnection, Has
  <2>2. table[fd[u]] \in Entries
    BY <2>1 DEF TypeOK, TableTypeOK
  <2>3. table[fd[u]] = [is |-> "conn", of |-> Peer(u)]
    BY <2>1, <2>2 DEF Entries, Peer
  <2> QED BY <2>1, <2>3 DEF Ends
<1>2. ConnInv(Peer(t))
  BY <1>1 DEF ProxyInv
<1>3. Fit(Peer(t)) /\ Leaks(Peer(t)) /\ Serving(t, Peer(t))
  BY <1>2 DEF ConnInv
<1>4. Ends(Peer(t)) = {fd[t]}
  BY <1>1, <1>3 DEF Leaks
<1>5. link[Peer(t)] = "accepted"
  <2>1. link[Peer(t)] \in {"new", "queued", "accepted", "ended"}
    BY <1>1 DEF TypeOK
  <2> QED BY <1>2, <1>4, <2>1 DEF ConnInv
<1>6. \A u \in Threads \ {t} : Serves(u) /\ Has(u) => fd[u] # fd[t]
  BY DEF ProxyInv, OwnConnection
<1>7. \A u \in Threads \ {t} : Serves(u) /\ Has(u) => Peer(u) # Peer(t)
  BY <1>1, <1>4, <1>6
<1> QED BY <1>1, <1>3, <1>4, <1>5, <1>6, <1>7

\* What a step of t does not touch of the others.
Apart(t) ==
    \A u \in Threads \ {t} :
        /\ tpc'[u] = tpc[u] /\ fd'[u] = fd[u] /\ list'[u] = list[u]
        /\ get'[u] = get[u] /\ name'[u] = name[u] /\ addr'[u] = addr[u]
        /\ Serves(u) /\ Has(u) => table'[fd[u]] = table[fd[u]]

LEMMA OthersServe ==
    ASSUME NEW t \in Threads, Apart(t), NEW u \in Threads \ {t}, NEW c,
           (Serves(u) /\ Has(u) /\ Peer(u) = c)'
    PROVE  Serves(u) /\ Has(u) /\ Peer(u) = c
<1>1. Serves(u) /\ Has(u)
  BY DEF Apart, Serves, Has
<1>2. Peer(u)' = Peer(u)
  BY <1>1 DEF Apart, Peer
<1> QED BY <1>1, <1>2

\* A step of t and a connection that t does not serve.
LEMMA OtherConn ==
    ASSUME TypeOK, ProxyInv, NEW t \in Threads, Apart(t), NEW c \in Conns,
           ~(Serves(t) /\ Has(t) /\ Peer(t) = c), ~(Serves(t) /\ Has(t) /\ Peer(t) = c)',
           asked' = asked, gone' = gone, alive' => alive,
           link'[c] = link[c], sent'[c] = sent[c], reply'[c] = reply[c],
           Ends(c)' = Ends(c), Origins(c)' = Origins(c)
    PROVE  ConnInv(c)'
<1>0. ConnInv(c)
  BY DEF ProxyInv
<1>1. Fit(c)'
  BY <1>0 DEF ConnInv, Fit, LetThrough, Asked
<1>2. Leaks(c)'
  <2>1. ASSUME NEW d \in Ends(c)
        PROVE  Ends(c) = {d} /\ (LetThrough(c) \/ \E u \in Threads : Serves(u)' /\ fd'[u] = d)
    <3>1. Ends(c) = {d} /\ (LetThrough(c) \/ \E u \in Threads : Serves(u) /\ fd[u] = d)
      BY <1>0, <2>1 DEF ConnInv, Leaks
    <3>2. CASE LetThrough(c)
      BY <3>1, <3>2
    <3>3. ASSUME NEW u \in Threads, Serves(u), fd[u] = d
          PROVE  Serves(u)' /\ fd'[u] = d
      <4>1. d \in Fds /\ table[d] = [is |-> "conn", of |-> c]
        BY <2>1 DEF Ends
      <4>2. Has(u) /\ Peer(u) = c
        BY <3>3, <4>1 DEF Has, Peer
      <4>3. u # t
        BY <3>3, <4>2
      <4> QED BY <3>3, <4>3 DEF Apart, Serves
    <3> QED BY <3>1, <3>2, <3>3
  <2>2. \A d \in Origins(c) : Origins(c) = {d} /\ LetThrough(c)
    BY <1>0 DEF ConnInv, Leaks
  <2>3. LetThrough(c)' <=> LetThrough(c)
    BY DEF LetThrough, Asked
  <2> QED BY <2>1, <2>2, <2>3 DEF Leaks
<1>3. ASSUME NEW u \in Threads, (Serves(u) /\ Has(u) /\ Peer(u) = c)'
      PROVE  Serving(u, c)'
  <2>1. u # t
    BY <1>3
  <2>2. Serves(u) /\ Has(u) /\ Peer(u) = c
    BY <1>3, <2>1, OthersServe
  <2>3. Serving(u, c)
    BY <1>0, <2>2 DEF ConnInv
  <2>4. tpc'[u] = tpc[u] /\ get'[u] = get[u] /\ name'[u] = name[u] /\ addr'[u] = addr[u]
    BY <2>1 DEF Apart
  <2> QED BY <2>3, <2>4 DEF Serving, Forwards, Listed, Knows, Asked
<1>4. link'[c] \in {"new", "queued"} =>
          sent'[c] = NoAddress /\ reply'[c] = NoAddress /\ Ends(c)' = {} /\ Origins(c)' = {}
  BY <1>0 DEF ConnInv
<1>5. link'[c] = "ended" => Ends(c)' = {}
  BY <1>0 DEF ConnInv
<1> QED BY <1>1, <1>2, <1>3, <1>4, <1>5 DEF ConnInv

\* A step of t and the connection that it serves.
LEMMA MyConn ==
    ASSUME TypeOK, ProxyInv, NEW t \in Threads, Apart(t), Serves(t), Has(t),
           link'[Peer(t)] \in {"accepted", "ended"},
           NEW c \in Conns, c = Peer(t), Fit(c)', Leaks(c)',
           link'[c] = "ended" => Ends(c)' = {},
           (Serves(t) /\ Has(t) /\ Peer(t) = c)' => Serving(t, c)'
    PROVE  ConnInv(c)'
<1>1. ASSUME NEW u \in Threads \ {t}, (Serves(u) /\ Has(u) /\ Peer(u) = c)'
      PROVE  FALSE
  <2>1. Serves(u) /\ Has(u) /\ Peer(u) = c
    BY <1>1, OthersServe
  <2> QED BY <2>1, PeerFact
<1> QED BY <1>1 DEF ConnInv
-----------------------------------------------------------------------------
\* Types.

LEMMA TypeInit == Init => TypeOK
  BY ProxyAssumption DEF Init, TypeOK, TableInit, TableTypeOK, Entries, Free

LEMMA AnswerType ==
    ASSUME TypeOK, ProxyInv, NEW t \in Threads, Serves(t),
           NEW whom \in Hosts \cup {Itself}, Answer(t, whom)
    PROVE  /\ reply' \in [Conns -> Hosts \cup {NoAddress, Itself}]
           /\ Has(t) /\ Peer(t) \notin gone => reply'[Peer(t)] = whom
           /\ \A c \in Conns : ~(Has(t) /\ c = Peer(t) /\ c \notin gone) => reply'[c] = reply[c]
<1>1. reply \in [Conns -> Hosts \cup {NoAddress, Itself}]
  BY DEF TypeOK
<1>2. CASE Has(t) /\ Peer(t) \notin gone
  <2>1. reply' = [reply EXCEPT ![Peer(t)] = whom] /\ Peer(t) \in Conns
    BY <1>2, PeerFact DEF Answer, PeerGone
  <2> QED BY <1>1, <1>2, <2>1
<1>3. CASE ~(Has(t) /\ Peer(t) \notin gone)
  BY <1>1, <1>3 DEF Answer, PeerGone
<1> QED BY <1>2, <1>3

LEMMA CloseType ==
    ASSUME TypeOK, ProxyInv, NEW t \in Threads, Serves(t), CloseConn(t)
    PROVE  /\ TableTypeOK' /\ link' \in [Conns -> {"new", "queued", "accepted", "ended"}]
           /\ Has(t) => link'[Peer(t)] = "ended"
           /\ \A c \in Conns : ~(Has(t) /\ c = Peer(t)) => link'[c] = link[c]
<1>1. TableTypeOK'
  BY ClosesFact DEF CloseConn
<1>2. link \in [Conns -> {"new", "queued", "accepted", "ended"}]
  BY DEF TypeOK
<1>3. CASE Has(t)
  BY <1>1, <1>2, <1>3, PeerFact DEF CloseConn
<1>4. CASE ~Has(t)
  BY <1>1, <1>2, <1>4 DEF CloseConn
<1> QED BY <1>3, <1>4

\* What is found of the shared result is an address.
LEMMA FoundType ==
    ASSUME TypeOK, NEW t \in Threads, At(t, "copy")
    PROVE  Found(t) \subseteq Hosts
  BY DEF TypeOK, Found, Addresses, Hosts, At

LEMMA TypeStep == TypeOK /\ ProxyInv /\ [Next]_vars => TypeOK'
<1> SUFFICES ASSUME TypeOK, ProxyInv, [Next]_vars
             PROVE  TypeOK'
  OBVIOUS
<1>1. CASE UNCHANGED vars
  BY <1>1 DEF TypeOK, TableTypeOK, vars, clients, results, stack
<1>2. ASSUME NEW c \in Conns, Connect(c) \/ Ask(c) \/ Leave(c)
      PROVE  TypeOK'
  BY <1>2 DEF TypeOK, TableTypeOK, Connect, Ask, Leave, clients, results, stack
<1>3. ASSUME NEW t \in Threads, AcceptFails(t)
      PROVE  TypeOK'
  BY <1>3 DEF TypeOK, TableTypeOK, AcceptFails, clients, results, stack
<1>4. ASSUME NEW t \in Threads, NEW c \in Conns, Accept(c, t)
      PROVE  TypeOK'
  <2>1. TableTypeOK' /\ fd' \in [Threads -> Fds \cup {NoFd}]
    <3>1. PICK d \in Fds : Lowest(d) /\ Opens(d, "conn", c) /\ fd' = [fd EXCEPT ![t] = d]
      BY <1>4 DEF Accept
    <3> QED BY <3>1, OpensFact DEF TypeOK
  <2> QED BY <1>4, <2>1 DEF TypeOK, Accept, clients, results, stack
<1>5. ASSUME NEW t \in Threads, ReadRequest(t) \/ ReadNothing(t)
      PROVE  TypeOK'
  <2>1. PICK isGet \in BOOLEAN, found \in Names \cup {NoName} : Parsed(t, isGet, found)
    <3>1. CASE ReadRequest(t)
      <4>1. Serves(t) /\ Has(t) /\ asked[Peer(t)] # NoRequest
            /\ Parsed(t, asked[Peer(t)].get, asked[Peer(t)].name)
        BY <3>1 DEF ReadRequest, Serves, At
      <4>2. asked[Peer(t)] \in Requests
        BY <4>1, PeerFact DEF TypeOK
      <4>3. asked[Peer(t)].get \in BOOLEAN /\ asked[Peer(t)].name \in Names \cup {NoName}
        BY <4>2, ProxyAssumption
      <4> QED BY <4>1, <4>3
    <3>2. CASE ReadNothing(t)
      BY <3>2 DEF ReadNothing
    <3> QED BY <1>5, <3>1, <3>2
  <2>2. name[t] \in Names \cup {NoName} /\ Junk \subseteq Names
    BY ProxyAssumption DEF TypeOK
  <2>3. PICK n \in Names : name' = [name EXCEPT ![t] = n]
    BY <2>1, <2>2 DEF Parsed
  <2>4. name' \in [Threads -> Names \cup {NoName}]
    BY <2>3 DEF TypeOK
  <2>5. /\ tpc' = [tpc EXCEPT ![t] = "lookup"] /\ get' = [get EXCEPT ![t] = isGet]
        /\ UNCHANGED <<table, link, asked, gone, sent, reply, resolved, fd, list, addr, alive>>
    BY <2>1 DEF Parsed, Goto, clients, results
  <2>6. \A u \in Threads \ {t} : name'[u] = name[u] /\ tpc'[u] = tpc[u]
    BY <2>3, <2>5 DEF TypeOK
  <2>7. name'[t] = n /\ tpc'[t] = "lookup"
    BY <2>3, <2>5 DEF TypeOK
  <2>8. \A u \in Threads :
          /\ tpc'[u] \notin {"idle", "read"} => name'[u] \in Names
          /\ tpc'[u] \in {"list", "check", "resolve", "copy", "send", "relay"} => name'[u] \in Known
          /\ tpc'[u] = "copy" => resolved \in Addresses
          /\ tpc'[u] \in {"send", "relay"} => addr[u] \in Hosts
    BY <2>6, <2>7 DEF TypeOK
  <2> QED BY <2>4, <2>5, <2>8 DEF TypeOK, TableTypeOK
<1>6. ASSUME NEW t \in Threads, Lookup(t) \/ Resolve(t)
      PROVE  TypeOK'
  <2>1. name[t] \in Known
    BY <1>6 DEF Lookup, Resolve, At, TypeOK
  <2>2. Address[name[t]] \in Addresses
    BY <2>1 DEF Addresses
  <2> QED BY <1>6, <2>1, <2>2 DEF TypeOK, TableTypeOK, Lookup, Resolve, At, Goto, clients, results, stack
<1>7. ASSUME NEW t \in Threads, LookupFails(t)
      PROVE  TypeOK'
  <2>1. reply' \in [Conns -> Hosts \cup {NoAddress, Itself}]
    BY <1>7, AnswerType DEF LookupFails, At, Serves
  <2> QED BY <1>7, <2>1 DEF TypeOK, TableTypeOK, LookupFails, Exits, clients, stack
<1>8. ASSUME NEW t \in Threads, OpenListFails(t) \/ CopyFails(t) \/ ForwardFails(t) \/ SigPipe(t)
      PROVE  TypeOK'
  BY <1>8 DEF TypeOK, TableTypeOK, OpenListFails, CopyFails, ForwardFails, SigPipe, Exit, Exits,
              clients, stack
<1>9. ASSUME NEW t \in Threads, OpenList(t)
      PROVE  TypeOK'
  <2>1. TableTypeOK' /\ list' \in [Threads -> Fds \cup {NoFd}]
    <3>1. PICK d \in Fds : Lowest(d) /\ Opens(d, "stream", Nobody) /\ list' = [list EXCEPT ![t] = d]
      BY <1>9 DEF OpenList
    <3> QED BY <3>1, OpensFact DEF TypeOK
  <2> QED BY <1>9, <2>1 DEF TypeOK, OpenList, At, Goto, clients, results
<1>10. ASSUME NEW t \in Threads, Block(t)
       PROVE  TypeOK'
  <2>1. TableTypeOK' /\ link' \in [Conns -> {"new", "queued", "accepted", "ended"}]
    BY <1>10, CloseType DEF Block, At, Serves
  <2> QED BY <1>10, <2>1 DEF TypeOK, Block, At, Goto, clients, results, stack
<1>11. ASSUME NEW t \in Threads, Reject(t)
       PROVE  TypeOK'
  <2>1. TableTypeOK' /\ link' \in [Conns -> {"new", "queued", "accepted", "ended"}]
    BY <1>11, CloseType DEF Reject, At, Serves
  <2>2. reply' \in [Conns -> Hosts \cup {NoAddress, Itself}]
    BY <1>11, AnswerType DEF Reject, At, Serves
  <2> QED BY <1>11, <2>1, <2>2 DEF TypeOK, Reject, At, Goto, clients, stack
<1>12. ASSUME NEW t \in Threads, Socket(t)
       PROVE  TypeOK'
  <2>1. Serves(t) /\ Has(t)
    <3>1. Serves(t) /\ get[t]
      BY <1>12 DEF Socket, At, Serves
    <3> QED BY <1>12, <3>1 DEF ProxyInv, OwnConnection, Socket, At
  <2>2. TableTypeOK'
    BY <1>12, <2>1, PeerFact, OpensFact DEF Socket
  <2> QED BY <1>12, <2>2 DEF TypeOK, Socket, At, Goto, clients, results, stack
<1>13. ASSUME NEW t \in Threads, SocketFails(t)
       PROVE  TypeOK'
  BY <1>13 DEF TypeOK, TableTypeOK, SocketFails, At, Goto, clients, results, stack
<1>14. ASSUME NEW t \in Threads, Copy(t)
       PROVE  TypeOK'
  <2>1. PICK a \in Hosts : addr' = [addr EXCEPT ![t] = a]
    BY <1>14, FoundType DEF Copy
  <2> QED BY <1>14, <2>1 DEF TypeOK, TableTypeOK, Copy, At, Goto, clients, results
<1>15. ASSUME NEW t \in Threads, Forward(t)
       PROVE  TypeOK'
  <2>1. addr[t] \in Hosts
    BY <1>15 DEF Forward, At, TypeOK
  <2>2. sent' \in [Conns -> Hosts \cup {NoAddress}]
    BY <1>15, <2>1 DEF Forward, TypeOK
  <2> QED BY <1>15, <2>2 DEF TypeOK, TableTypeOK, Forward, At, Goto, clients, stack
<1>16. ASSUME NEW t \in Threads, Relay(t)
       PROVE  TypeOK'
  <2>1. addr[t] \in Hosts
    BY <1>16 DEF Relay, At, TypeOK
  <2>2. reply' \in [Conns -> Hosts \cup {NoAddress, Itself}]
    BY <1>16, <2>1, AnswerType DEF Relay, At, Serves
  <2> QED BY <1>16, <2>2 DEF TypeOK, TableTypeOK, Relay, At, Goto, clients, stack
<1>17. ASSUME NEW t \in Threads, CloseList(t)
       PROVE  TypeOK'
  <2>1. TableTypeOK'
    BY <1>17, ClosesFact DEF CloseList
  <2> QED BY <1>17, <2>1 DEF TypeOK, CloseList, At, Goto, clients, results, stack
<1> QED
  BY <1>1, <1>2, <1>3, <1>4, <1>5, <1>6, <1>7, <1>8, <1>9, <1>10, <1>11, <1>12, <1>13, <1>14,
     <1>15, <1>16, <1>17, Steps
-----------------------------------------------------------------------------
\* The descriptors of threads.

\* A step that leaves the table alone.
LEMMA TableKept ==
    ASSUME TypeOK, ProxyInv, table' = table, fd' = fd, list' = list,
           \A u \in Threads : /\ Serves(u)' => Serves(u)
                              /\ HasList(u)' <=> HasList(u)
                              /\ Forwards(u)' => Forwards(u) \/ (tpc[u] # "read" /\ get[u] /\ Serves(u))
                              /\ Serves(u)' /\ tpc'[u] # "read" /\ get'[u] =>
                                    (tpc[u] # "read" /\ get[u] /\ Serves(u)) \/ Has(u)
    PROVE  (OwnConnection /\ OwnList)'
<1>1. OwnConnection /\ OwnList
  BY DEF ProxyInv
<1>2. \A u \in Threads : (Has(u)' <=> Has(u)) /\ Peer(u)' = Peer(u)
  BY DEF Has, Peer
<1>3. OwnConnection'
  BY <1>1, <1>2 DEF OwnConnection
<1>4. OwnList'
  BY <1>1 DEF OwnList
<1> QED BY <1>3, <1>4

\* A thread opens its blacklist, or its socket.
LEMMA Opened ==
    ASSUME TypeOK, ProxyInv, NEW t \in Threads, Serves(t), Serves(t)', tpc[t] # "read",
           NEW d \in Fds, Lowest(d), NEW is \in {"stream", "origin"},
           NEW x \in Conns \cup {Nobody}, Opens(d, is, x), fd' = fd, get' = get,
           IF is = "stream" THEN ~HasList(t) /\ HasList(t)' /\ list' = [list EXCEPT ![t] = d] /\ ~Forwards(t)'
                            ELSE (HasList(t)' <=> HasList(t)) /\ list' = list /\ get[t],
           \A u \in Threads \ {t} : tpc'[u] = tpc[u]
    PROVE  /\ (OwnConnection /\ OwnList)'
           /\ \A u \in Threads : Serves(u) /\ Has(u) =>
                 table'[fd[u]] = table[fd[u]] /\ Peer(u)' = Peer(u)
<1>1. /\ table[d].is = "free" /\ table'[d].is = is
      /\ \A e \in Fds \ {d} : table'[e] = table[e]
  BY StreamsOpen
<1>2. ASSUME NEW u \in Threads, Serves(u), Has(u)
      PROVE  fd[u] # d /\ table'[fd[u]] = table[fd[u]] /\ Peer(u)' = Peer(u)
  <2>1. fd[u] \in Fds /\ table[fd[u]].is = "conn"
    BY <1>2, PeerFact
  <2>2. fd[u] # d
    BY <1>1, <2>1
  <2> QED BY <1>1, <2>1, <2>2 DEF Peer
<1>3. \A u \in Threads : (Has(u)' <=> Has(u)) /\ (Serves(u)' <=> Serves(u))
  BY DEF Has, Serves
<1>4. OwnConnection'
  <2>1. ASSUME NEW u \in Threads, Serves(u), Has(u)
        PROVE  /\ table'[fd[u]].is = "conn" /\ Peer(u)' \in Conns
               /\ \A v \in Threads \ {u} : Serves(v) => fd[v] # fd[u]
    BY <1>2, <2>1, PeerFact DEF ProxyInv, OwnConnection
  <2>2. \A u \in Threads :
            (Forwards(u) \/ (Serves(u) /\ tpc[u] # "read" /\ get[u]))' => Has(u)'
    BY <1>3 DEF ProxyInv, OwnConnection, Forwards, Serves
  <2> QED BY <1>3, <2>1, <2>2 DEF OwnConnection
<1>5. ASSUME NEW u \in Threads, HasList(u)
      PROVE  list[u] \in Fds /\ list[u] # d /\ table'[list[u]] = table[list[u]]
  <2>1. list[u] \in Fds /\ table[list[u]].is = "stream"
    BY <1>5 DEF ProxyInv, OwnList
  <2> QED BY <1>1, <2>1
<1>6. CASE is = "stream"
  <2>1. /\ list'[t] = d /\ \A u \in Threads \ {t} : list'[u] = list[u] /\ (HasList(u)' <=> HasList(u))
        /\ HasList(t)' /\ ~HasList(t)
    BY <1>6 DEF TypeOK, HasList
  <2>2. ASSUME NEW u \in Threads, HasList(u)'
        PROVE  /\ list'[u] \in Fds /\ table'[list'[u]].is = "stream"
               /\ \A v \in Threads \ {u} : HasList(v)' => list'[v] # list'[u]
    <3>1. CASE u = t
      BY <1>1, <1>5, <1>6, <2>1, <3>1
    <3>2. CASE u # t
      <4>1. HasList(u) /\ list'[u] = list[u]
        BY <2>1, <2>2, <3>2
      <4>2. list[u] \in Fds /\ table'[list[u]].is = "stream" /\ list[u] # d
        BY <1>5, <4>1 DEF ProxyInv, OwnList
      <4>3. \A v \in Threads \ {u} : HasList(v)' => list'[v] # list[u]
        BY <2>1, <4>1, <4>2 DEF ProxyInv, OwnList
      <4> QED BY <4>1, <4>2, <4>3
    <3> QED BY <3>1, <3>2
  <2>3. ASSUME NEW e \in Fds, table'[e].is = "stream"
        PROVE  \E u \in Threads : HasList(u)' /\ list'[u] = e
    <3>1. CASE e = d
      BY <2>1, <3>1
    <3>2. CASE e # d
      <4>1. PICK u \in Threads : HasList(u) /\ list[u] = e
        BY <1>1, <2>3, <3>2 DEF ProxyInv, OwnList
      <4> QED BY <2>1, <4>1
    <3> QED BY <3>1, <3>2
  <2> QED BY <1>2, <1>4, <2>2, <2>3 DEF OwnList
<1>7. CASE is = "origin"
  <2>1. list' = list /\ \A u \in Threads : HasList(u)' <=> HasList(u)
    BY <1>7 DEF HasList
  <2>2. \A e \in Fds : table'[e].is = "stream" => table[e].is = "stream"
    BY <1>1, <1>7
  <2> QED BY <1>2, <1>4, <1>5, <2>1, <2>2 DEF ProxyInv, OwnList
<1> QED BY <1>6, <1>7

\* A thread closes its connection, or its blacklist.
LEMMA ConnClosed ==
    ASSUME TypeOK, ProxyInv, NEW t \in Threads, Serves(t), HasList(t), tpc'[t] = "done",
           Closes(fd[t]), fd' = fd, list' = list, get' = get,
           \A u \in Threads \ {t} : tpc'[u] = tpc[u]
    PROVE  /\ (OwnConnection /\ OwnList)'
           /\ \A u \in Threads \ {t} : Serves(u) /\ Has(u) => table'[fd[u]] = table[fd[u]]
<1>1. /\ fd[t] \in Fds => table'[fd[t]].is = "free"
      /\ \A e \in Fds \ {fd[t]} : table'[e] = table[e]
  BY StreamsClose
<1>2. ASSUME NEW u \in Threads \ {t}, Serves(u), Has(u)
      PROVE  table'[fd[u]] = table[fd[u]] /\ Peer(u)' = Peer(u)
  <2>1. fd[u] \in Fds
    BY <1>2 DEF Has
  <2>2. fd[u] # fd[t]
    BY <1>2 DEF ProxyInv, OwnConnection
  <2> QED BY <1>1, <2>1, <2>2 DEF Peer
<1>3. /\ \A u \in Threads : (Has(u)' <=> Has(u)) /\ (HasList(u)' <=> HasList(u))
      /\ \A u \in Threads \ {t} : (Serves(u)' <=> Serves(u)) /\ (Forwards(u)' <=> Forwards(u))
      /\ ~Serves(t)' /\ ~Forwards(t)'
  BY DEF Has, HasList, Serves, Forwards
<1>4. OwnConnection'
  BY <1>2, <1>3 DEF ProxyInv, OwnConnection
<1>5. ASSUME NEW e \in Fds, table[e].is = "stream"
      PROVE  e # fd[t] /\ table'[e] = table[e]
  <2>1. fd[t] \in Fds => table[fd[t]].is = "conn"
    BY PeerFact DEF Has
  <2> QED BY <1>1, <1>5, <2>1
<1>6. \A e \in Fds : table'[e].is = "stream" => table[e].is = "stream"
  BY <1>1
<1>7. OwnList'
  BY <1>3, <1>5, <1>6 DEF ProxyInv, OwnList
<1> QED BY <1>2, <1>4, <1>7

LEMMA ListClosed ==
    ASSUME TypeOK, ProxyInv, NEW t \in Threads, tpc[t] = "done", tpc'[t] = "idle",
           Closes(list[t]), fd' = fd, list' = list, get' = get,
           \A u \in Threads \ {t} : tpc'[u] = tpc[u]
    PROVE  /\ (OwnConnection /\ OwnList)'
           /\ \A u \in Threads \ {t} : Serves(u) /\ Has(u) => table'[fd[u]] = table[fd[u]]
           /\ \A c \in Conns : Ends(c)' = Ends(c) /\ Origins(c)' = Origins(c)
<1>1. HasList(t) /\ ~HasList(t)' /\ ~Serves(t) /\ ~Serves(t)' /\ ~Forwards(t)'
  BY DEF HasList, Serves, Forwards
<1>2. list[t] \in Fds /\ table[list[t]].is = "stream"
  BY <1>1 DEF ProxyInv, OwnList
<1>3. table'[list[t]].is = "free" /\ \A e \in Fds \ {list[t]} : table'[e] = table[e]
  BY <1>2, StreamsClose
<1>4. ASSUME NEW u \in Threads, Serves(u), Has(u)
      PROVE  table'[fd[u]] = table[fd[u]] /\ Peer(u)' = Peer(u)
  <2>1. fd[u] \in Fds /\ table[fd[u]].is = "conn"
    BY <1>4, PeerFact
  <2> QED BY <1>2, <1>3, <2>1 DEF Peer
<1>5. /\ \A u \in Threads : (Has(u)' <=> Has(u)) /\ (Serves(u)' <=> Serves(u)) /\ (Forwards(u)' => Forwards(u))
      /\ \A u \in Threads \ {t} : HasList(u)' <=> HasList(u)
  BY <1>1 DEF Has, HasList, Serves, Forwards
<1>6. OwnConnection'
  BY <1>1, <1>4, <1>5 DEF ProxyInv, OwnConnection
<1>7. OwnList'
  <2>1. ASSUME NEW u \in Threads, HasList(u)'
        PROVE  /\ list[u] \in Fds /\ table'[list[u]].is = "stream"
               /\ \A v \in Threads \ {u} : HasList(v)' => list[v] # list[u]
    <3>1. u # t /\ HasList(u)
      BY <1>1, <1>5, <2>1
    <3>2. list[u] # list[t] /\ list[u] \in Fds /\ table[list[u]].is = "stream"
      BY <1>1, <3>1 DEF ProxyInv, OwnList
    <3>3. \A v \in Threads \ {u} : HasList(v)' => list[v] # list[u]
      BY <1>1, <1>5, <3>1 DEF ProxyInv, OwnList
    <3> QED BY <1>3, <3>2, <3>3
  <2>2. ASSUME NEW e \in Fds, table'[e].is = "stream"
        PROVE  \E u \in Threads : HasList(u)' /\ list[u] = e
    <3>1. e # list[t] /\ table[e].is = "stream"
      BY <1>3, <2>2
    <3>2. PICK u \in Threads : HasList(u) /\ list[u] = e
      BY <3>1 DEF ProxyInv, OwnList
    <3> QED BY <1>5, <3>1, <3>2
  <2> QED BY <2>1, <2>2 DEF OwnList
<1>8. \A c \in Conns : Ends(c)' = Ends(c) /\ Origins(c)' = Origins(c)
  <2>1. ASSUME NEW c \in Conns
        PROVE  list[t] \notin Ends(c) /\ list[t] \notin Origins(c)
    <3>1. /\ table[list[t]] # [is |-> "conn", of |-> c]
          /\ table[list[t]] # [is |-> "origin", of |-> c]
      BY <1>2
    <3> QED BY <3>1 DEF Ends, Origins
  <2>2. \A c \in Conns : Ends(c)' = Ends(c) \ {list[t]} /\ Origins(c)' = Origins(c) \ {list[t]}
    BY HeldClose
  <2> QED BY <2>1, <2>2
<1> QED BY <1>4, <1>6, <1>7, <1>8

\* main() accepts a connection, or fails to.
LEMMA ConnOpened ==
    ASSUME TypeOK, ProxyInv, NEW t \in Threads, NEW k \in Conns, Accept(k, t)
    PROVE  /\ (OwnConnection /\ OwnList)' /\ Apart(t)
           /\ Has(t)' /\ Peer(t)' = k /\ tpc'[t] = "read" /\ Serves(t)' /\ ~Serves(t)
           /\ \A c \in Conns : /\ Origins(c)' = Origins(c)
                               /\ Ends(c)' = IF c = k THEN Ends(c) \cup {fd'[t]} ELSE Ends(c)
<1>1. PICK d \in Fds : Lowest(d) /\ Opens(d, "conn", k) /\ fd' = [fd EXCEPT ![t] = d]
  BY DEF Accept
<1>2. /\ table[d].is = "free" /\ table'[d].is = "conn" /\ table'[d].of = k
      /\ \A e \in Fds \ {d} : table'[e] = table[e]
  BY <1>1, StreamsOpen
<1>3. /\ fd'[t] = d /\ tpc'[t] = "read" /\ tpc[t] = "idle"
      /\ \A u \in Threads \ {t} : fd'[u] = fd[u] /\ tpc'[u] = tpc[u]
      /\ UNCHANGED <<list, get, name, addr>>
  BY <1>1 DEF Accept, TypeOK, stack
<1>4. ASSUME NEW u \in Threads, Serves(u), Has(u)
      PROVE  u # t /\ fd[u] # d /\ table'[fd[u]] = table[fd[u]] /\ Peer(u)' = Peer(u)
  <2>1. fd[u] \in Fds /\ table[fd[u]].is = "conn"
    BY <1>4, PeerFact
  <2>2. u # t
    BY <1>3, <1>4 DEF Serves
  <2> QED BY <1>2, <1>3, <2>1, <2>2 DEF Peer
<1>5. /\ \A u \in Threads : HasList(u)' <=> HasList(u)
      /\ \A u \in Threads \ {t} : (Has(u)' <=> Has(u)) /\ (Serves(u)' <=> Serves(u)) /\ (Forwards(u)' <=> Forwards(u))
      /\ ~Forwards(t)' /\ ~Serves(t) /\ Serves(t)' /\ Has(t)' /\ Peer(t)' = k
  BY <1>2, <1>3 DEF HasList, Has, Serves, Forwards, Peer
<1>6. OwnConnection'
  <2>1. ASSUME NEW u \in Threads \ {t}, Serves(u), Has(u)
        PROVE  /\ table'[fd[u]].is = "conn" /\ Peer(u)' \in Conns /\ fd[u] # d
               /\ \A v \in Threads \ {u} : Serves(v) => fd[v] # fd[u]
    BY <1>4, <2>1, PeerFact DEF ProxyInv, OwnConnection
  <2>2. \A v \in Threads \ {t} : Serves(v) => fd[v] # d
    BY <1>4 DEF Has
  <2>3. \A u \in Threads :
            (Forwards(u) \/ (Serves(u) /\ tpc[u] # "read" /\ get[u]))' => Has(u)'
    BY <1>3, <1>5 DEF ProxyInv, OwnConnection
  <2>4. \A u \in Threads : (Serves(u) /\ Has(u))' =>
            /\ table'[fd'[u]].is = "conn" /\ Peer(u)' \in Conns
            /\ \A v \in Threads \ {u} : Serves(v)' => fd'[v] # fd'[u]
    BY <1>2, <1>3, <1>5, <2>1, <2>2
  <2> QED BY <2>3, <2>4 DEF OwnConnection
<1>7. OwnList'
  <2>1. \A e \in Fds : table'[e].is = "stream" <=> table[e].is = "stream"
    BY <1>2
  <2> QED BY <1>3, <1>5, <2>1 DEF ProxyInv, OwnList
<1>8. \A c \in Conns : /\ Origins(c)' = Origins(c)
                       /\ Ends(c)' = IF c = k THEN Ends(c) \cup {fd'[t]} ELSE Ends(c)
  BY <1>1, <1>3, HeldOpen
<1>9. Apart(t)
  BY <1>3, <1>4 DEF Apart
<1> QED BY <1>3, <1>5, <1>6, <1>7, <1>8, <1>9

LEMMA ConnMissed ==
    ASSUME TypeOK, ProxyInv, NEW t \in Threads, AcceptFails(t)
    PROVE  (OwnConnection /\ OwnList)' /\ Apart(t) /\ ~Serves(t) /\ ~Has(t)'
<1>1. /\ fd'[t] = NoFd /\ tpc'[t] = "read" /\ tpc[t] = "idle" /\ table' = table
      /\ \A u \in Threads \ {t} : fd'[u] = fd[u] /\ tpc'[u] = tpc[u]
      /\ UNCHANGED <<list, get, name, addr>>
  BY DEF AcceptFails, TypeOK, stack
<1>2. /\ \A u \in Threads : HasList(u)' <=> HasList(u)
      /\ \A u \in Threads \ {t} : /\ Has(u)' <=> Has(u)
                                  /\ Serves(u)' <=> Serves(u)
                                  /\ Forwards(u)' <=> Forwards(u)
                                  /\ Peer(u)' = Peer(u)
      /\ ~Forwards(t)' /\ ~Serves(t) /\ ~Has(t)'
  BY <1>1, DescriptorAssumption DEF HasList, Has, Serves, Forwards, Peer
<1>3. OwnConnection'
  <2>1. \A u \in Threads : (Serves(u) /\ Has(u))' =>
            /\ table'[fd'[u]].is = "conn" /\ Peer(u)' \in Conns
            /\ \A v \in Threads \ {u} : Serves(v)' => fd'[v] # fd'[u]
    <3> TAKE u \in Threads
    <3> HAVE (Serves(u) /\ Has(u))'
    <3>1. u # t /\ Serves(u) /\ Has(u) /\ fd[u] \in Fds
      BY <1>2 DEF Has
    <3>2. fd[u] # NoFd
      BY <3>1, DescriptorAssumption
    <3> QED BY <1>1, <1>2, <3>1, <3>2 DEF ProxyInv, OwnConnection
  <2>2. \A u \in Threads :
            (Forwards(u) \/ (Serves(u) /\ tpc[u] # "read" /\ get[u]))' => Has(u)'
    BY <1>1, <1>2 DEF ProxyInv, OwnConnection
  <2> QED BY <2>1, <2>2 DEF OwnConnection
<1>4. OwnList'
  BY <1>1, <1>2 DEF ProxyInv, OwnList
<1>5. Apart(t)
  BY <1>1 DEF Apart
<1> QED BY <1>2, <1>3, <1>4, <1>5
-----------------------------------------------------------------------------
\* What a thread that has parsed a request knows of it.
LEMMA KnownRequest ==
    ASSUME TypeOK, ProxyInv, NEW t \in Threads, Serves(t), Has(t), tpc[t] # "read"
    PROVE  /\ get[t] \/ Peer(t) \notin gone => Knows(t, Peer(t))
           /\ get[t] /\ ~Listed(t) => LetThrough(Peer(t))
           /\ Peer(t) \notin gone /\ Listed(t) => asked[Peer(t)].name \notin Known \ Blacklist
           /\ Peer(t) \notin gone /\ name[t] \notin Known => asked[Peer(t)].name \notin Known
<1>1. Serving(t, Peer(t))
  BY PeerFact
<1>2. get[t] \/ Peer(t) \notin gone => Knows(t, Peer(t))
  BY <1>1 DEF Serving
<1>3. get[t] /\ ~Listed(t) => LetThrough(Peer(t))
  BY <1>2, ProxyAssumption DEF Knows, LetThrough, Asked, Listed
<1>4. Peer(t) \notin gone /\ Listed(t) => asked[Peer(t)].name \notin Known \ Blacklist
  BY <1>2, ProxyAssumption DEF Knows, Listed
<1>5. Peer(t) \notin gone /\ name[t] \notin Known => asked[Peer(t)].name \notin Known
  BY <1>2, ProxyAssumption DEF Knows
<1> QED BY <1>2, <1>3, <1>4, <1>5

\* Parts of Fit and Leaks that a step of the thread of c leaves alone.
LEMMA FitSame ==
    ASSUME NEW c \in Conns, Fit(c), link'[c] = link[c], asked' = asked, gone' = gone,
           sent'[c] = sent[c], reply'[c] = reply[c]
    PROVE  Fit(c)'
  BY DEF Fit, LetThrough, Asked

LEMMA LeaksSame ==
    ASSUME NEW c \in Conns, NEW t \in Threads, Leaks(c), Ends(c) = {fd[t]}, asked' = asked,
           Ends(c)' = Ends(c), fd'[t] = fd[t], Serves(t)' \/ LetThrough(c),
           \A d \in Origins(c)' : Origins(c)' = {d} /\ LetThrough(c)
    PROVE  Leaks(c)'
<1>1. LetThrough(c)' <=> LetThrough(c)
  BY DEF LetThrough, Asked
<1>2. \A d \in Ends(c) :
          Ends(c) = {d} /\ (LetThrough(c) \/ \E u \in Threads : Serves(u)' /\ fd'[u] = d)
  OBVIOUS
<1> QED BY <1>1, <1>2 DEF Leaks

LEMMA InvInit == Init => ProxyInv
<1> SUFFICES ASSUME Init PROVE ProxyInv
  OBVIOUS
<1>1. \A d \in Fds : table[d] = Free
  BY DEF Init, TableInit
<1>2. \A d \in Fds : table[d].is = "free"
  BY <1>1 DEF Free
<1>3. \A c \in Conns : Ends(c) = {} /\ Origins(c) = {}
  BY <1>2 DEF Ends, Origins
<1>4. OwnConnection /\ OwnList
  BY <1>2 DEF Init, OwnConnection, OwnList, Serves, Forwards, HasList
<1>5. \A c \in Conns : ConnInv(c)
  BY <1>3, ProxyAssumption DEF Init, ConnInv, Fit, Leaks, Serves
<1> QED BY <1>4, <1>5 DEF ProxyInv

\* A step in which the thread t goes on and no connection or socket comes or goes.
LEMMA QuietStep ==
    ASSUME TypeOK, ProxyInv, NEW t \in Threads, Serves(t), Serves(t)', Apart(t),
           UNCHANGED <<link, asked, gone, fd>>, alive' => alive,
           \A c \in Conns : Ends(c)' = Ends(c) /\ Origins(c)' = Origins(c),
           Has(t) => Peer(t)' = Peer(t),
           \A c \in Conns : ~(Has(t) /\ c = Peer(t)) => sent'[c] = sent[c] /\ reply'[c] = reply[c],
           Has(t) => Fit(Peer(t))' /\ Serving(t, Peer(t))'
    PROVE  \A c \in Conns : ConnInv(c)'
<1> TAKE c \in Conns
<1>1. Has(t)' <=> Has(t)
  BY DEF Has
<1>2. Ends(c)' = Ends(c) /\ Origins(c)' = Origins(c)
  OBVIOUS
<1>3. CASE Has(t) /\ c = Peer(t)
  <2>1. /\ Leaks(c) /\ Ends(c) = {fd[t]} /\ link[c] = "accepted" /\ Serving(t, c)
    BY <1>3, PeerFact
  <2>2. Leaks(c)'
    <3>1. \A d \in Origins(c)' : Origins(c)' = {d} /\ LetThrough(c)
      BY <1>2, <2>1 DEF Leaks
    <3> QED BY <1>2, <2>1, <3>1, LeaksSame
  <2>3. Peer(t)' = c
    BY <1>3
  <2>4. Fit(c)' /\ Serving(t, c)'
    BY <1>3, <2>3 DEF Fit, Serving, LetThrough, Asked, Knows, Origins
  <2> QED BY <1>3, <2>1, <2>2, <2>4, MyConn
<1>4. CASE ~(Has(t) /\ c = Peer(t))
  BY <1>1, <1>2, <1>4, OtherConn
<1> QED BY <1>3, <1>4

LEMMA TableSame ==
    ASSUME table' = table, fd' = fd
    PROVE  /\ \A t \in Threads : Peer(t)' = Peer(t)
           /\ \A c \in Conns : Ends(c)' = Ends(c) /\ Origins(c)' = Origins(c)
  BY DEF Peer, Ends, Origins
-----------------------------------------------------------------------------
LEMMA InvStep == TypeOK /\ TypeOK' /\ ProxyInv /\ [Next]_vars => ProxyInv'
<1> SUFFICES ASSUME TypeOK, TypeOK', ProxyInv, [Next]_vars
             PROVE  ProxyInv'
  OBVIOUS
<1>0. \A c \in Conns : ConnInv(c) /\ Fit(c)
  BY DEF ProxyInv, ConnInv
<1>1. CASE UNCHANGED <<table, link, clients, results, tpc, fd, stack>> /\ (alive' => alive)
  <2>1. (OwnConnection /\ OwnList)'
    BY <1>1, TableKept DEF Serves, HasList, Forwards, stack
  <2>2. ASSUME NEW c \in Conns
        PROVE  ConnInv(c)'
    <3>1. /\ Ends(c)' = Ends(c) /\ Origins(c)' = Origins(c) /\ link' = link
          /\ sent' = sent /\ reply' = reply /\ asked' = asked /\ gone' = gone
      BY <1>1 DEF Ends, Origins, clients, results
    <3>2. Fit(c)'
      BY <1>0, <3>1 DEF Fit, LetThrough, Asked
    <3>3. Leaks(c)'
      BY <1>0, <1>1, <3>1 DEF ConnInv, Leaks, LetThrough, Asked, Serves
    <3>4. ASSUME NEW t \in Threads, (Serves(t) /\ Has(t) /\ Peer(t) = c)'
          PROVE  Serving(t, c)'
      <4>1. Serving(t, c)
        BY <1>0, <1>1, <3>4 DEF ConnInv, Serves, Has, Peer
      <4> QED BY <1>1, <3>1, <4>1 DEF Serving, Knows, Asked, Forwards, Listed, stack
    <3> QED BY <1>0, <3>1, <3>2, <3>3, <3>4 DEF ConnInv
  <2> QED BY <2>1, <2>2 DEF ProxyInv
<1>2. ASSUME NEW k \in Conns, Connect(k) \/ Ask(k) \/ Leave(k)
      PROVE  ProxyInv'
  <2>1. /\ UNCHANGED <<table, tpc, fd, list, get, name, addr, sent, reply, alive>>
        /\ gone \subseteq gone'
        /\ \A c \in Conns : /\ link'[c] = link[c] \/ (link[c] = "new" /\ link'[c] = "queued")
                            /\ asked'[c] = asked[c] \/ (asked[c] = NoRequest /\ c \notin gone
                                                        /\ link[c] \in {"queued", "accepted"})
    BY <1>2 DEF Connect, Ask, Leave, clients, results, stack, TypeOK
  <2>2. (OwnConnection /\ OwnList)'
    BY <2>1, TableKept DEF Serves, HasList, Forwards
  <2>3. ASSUME NEW c \in Conns
        PROVE  ConnInv(c)'
    <3>1. Ends(c)' = Ends(c) /\ Origins(c)' = Origins(c)
      BY <2>1 DEF Ends, Origins
    <3>2. Asked(c) => asked'[c] = asked[c]
      BY <2>1 DEF Asked
    <3>3. (Asked(c) => Asked(c)') /\ (LetThrough(c) => LetThrough(c)')
      BY <3>2 DEF Asked, LetThrough
    <3>4. Fit(c)'
      BY <1>0, <2>1, <3>2, <3>3 DEF Fit
    <3>5. Leaks(c)'
      BY <1>0, <2>1, <3>1, <3>3 DEF ConnInv, Leaks, Serves
    <3>6. ASSUME NEW t \in Threads, (Serves(t) /\ Has(t) /\ Peer(t) = c)'
          PROVE  Serving(t, c)'
      <4>1. Serving(t, c)
        BY <1>0, <2>1, <3>6 DEF ConnInv, Serves, Has, Peer
      <4>2. Knows(t, c) => Knows(t, c)'
        BY <2>1, <3>2, <3>3 DEF Knows
      <4> QED BY <2>1, <3>1, <4>1, <4>2 DEF Serving, Forwards, Listed
    <3>7. link'[c] \in {"new", "queued"} => link[c] \in {"new", "queued"}
      BY <2>1
    <3>8. link'[c] = "ended" => link[c] = "ended"
      BY <2>1
    <3> QED BY <1>0, <2>1, <3>1, <3>4, <3>5, <3>6, <3>7, <3>8 DEF ConnInv
  <2> QED BY <2>2, <2>3 DEF ProxyInv
<1>3. ASSUME NEW t \in Threads, AcceptFails(t)
      PROVE  ProxyInv'
  <2>1. (OwnConnection /\ OwnList)' /\ Apart(t) /\ ~Serves(t) /\ ~Has(t)'
    BY <1>3, ConnMissed
  <2>2. UNCHANGED <<table, link, asked, gone, sent, reply, alive>>
    BY <1>3 DEF AcceptFails, clients, results
  <2>3. \A c \in Conns : Ends(c)' = Ends(c) /\ Origins(c)' = Origins(c)
    BY <2>2 DEF Ends, Origins
  <2>4. \A c \in Conns : ConnInv(c)'
    BY <2>1, <2>2, <2>3, OtherConn
  <2> QED BY <2>1, <2>4 DEF ProxyInv
<1>4. ASSUME NEW t \in Threads, NEW k \in Conns, Accept(k, t)
      PROVE  ProxyInv'
  <2>1. /\ (OwnConnection /\ OwnList)' /\ Apart(t)
        /\ Has(t)' /\ Peer(t)' = k /\ tpc'[t] = "read" /\ Serves(t)' /\ ~Serves(t)
        /\ \A c \in Conns : /\ Origins(c)' = Origins(c)
                            /\ Ends(c)' = IF c = k THEN Ends(c) \cup {fd'[t]} ELSE Ends(c)
    BY <1>4, ConnOpened
  <2>2. /\ UNCHANGED <<asked, gone, sent, reply, alive>>
        /\ link[k] = "queued" /\ link'[k] = "accepted" /\ \A c \in Conns \ {k} : link'[c] = link[c]
    BY <1>4 DEF Accept, clients, results, TypeOK
  <2>3. ASSUME NEW c \in Conns
        PROVE  ConnInv(c)'
    <3>1. CASE c # k
      BY <2>1, <2>2, <3>1, OtherConn
    <3>2. CASE c = k
      <4>1. /\ sent[c] = NoAddress /\ reply[c] = NoAddress /\ Ends(c) = {} /\ Origins(c) = {}
            /\ Fit(c)
        BY <1>0, <2>2, <3>2 DEF ConnInv
      <4>2. Ends(c)' = {fd'[t]} /\ Origins(c)' = {}
        BY <2>1, <3>2, <4>1
      <4>3. Leaks(c)'
        BY <2>1, <4>2 DEF Leaks
      <4>4. Fit(c)'
        BY <2>2, <3>2, <4>1 DEF Fit, LetThrough, Asked
      <4>5. \A u \in Threads \ {t} : ~(Serves(u) /\ Has(u) /\ Peer(u) = c)'
        <5>1. \A u \in Threads \ {t} : ~(Serves(u) /\ Has(u) /\ Peer(u) = c)
          BY <2>2, <3>2, PeerFact
        <5> QED BY <2>1, <5>1, OthersServe
      <4>6. Serving(t, c)'
        BY <2>1, <2>2, <4>1, <4>2 DEF Serving, Forwards
      <4> QED BY <2>2, <3>2, <4>3, <4>4, <4>5, <4>6 DEF ConnInv
    <3> QED BY <3>1, <3>2
  <2> QED BY <2>1, <2>3 DEF ProxyInv
<1>5. ASSUME NEW t \in Threads, ReadRequest(t) \/ ReadNothing(t)
      PROVE  ProxyInv'
  <2>1. PICK isGet, found : Parsed(t, isGet, found)
    BY <1>5 DEF ReadRequest, ReadNothing
  <2>2. /\ UNCHANGED <<table, link, asked, gone, sent, reply, fd, list, addr, alive>>
        /\ tpc[t] = "read" /\ tpc'[t] = "lookup"
        /\ \A u \in Threads \ {t} : tpc'[u] = tpc[u] /\ get'[u] = get[u] /\ name'[u] = name[u]
    BY <1>5, <2>1 DEF Parsed, Goto, At, ReadRequest, ReadNothing, clients, results, TypeOK
  <2>3. Serves(t) /\ Serves(t)' /\ Apart(t) /\ ~Forwards(t)' /\ ~Forwards(t)
    BY <2>2 DEF Serves, Apart, Forwards
  <2>4. /\ get'[t] => Has(t) /\ asked[Peer(t)] # NoRequest
        /\ Has(t) /\ (Peer(t) \notin gone \/ get'[t]) => Knows(t, Peer(t))'
    <3>1. CASE ReadRequest(t)
      <4>1. /\ Has(t) /\ asked[Peer(t)] # NoRequest
            /\ Parsed(t, asked[Peer(t)].get, asked[Peer(t)].name)
        BY <3>1 DEF ReadRequest
      <4>2. get'[t] = asked[Peer(t)].get
        BY <4>1 DEF Parsed, TypeOK
      <4>3. asked[Peer(t)].name # NoName => name' = [name EXCEPT ![t] = asked[Peer(t)].name]
        BY <4>1 DEF Parsed
      <4>4. asked[Peer(t)].name # NoName => name'[t] = asked[Peer(t)].name
        BY <4>3 DEF TypeOK
      <4>5. Peer(t)' = Peer(t)
        BY <2>2 DEF Peer
      <4> QED BY <2>2, <4>1, <4>2, <4>4, <4>5 DEF Knows, Asked
    <3>2. CASE ReadNothing(t)
      <4>1. (~Has(t) \/ Peer(t) \in gone) /\ Parsed(t, FALSE, NoName)
        BY <3>2 DEF ReadNothing, PeerGone
      <4>2. ~get'[t]
        BY <4>1 DEF Parsed, TypeOK
      <4> QED BY <4>1, <4>2
    <3> QED BY <1>5, <3>1, <3>2
  <2>5. ASSUME Has(t)
        PROVE  Fit(Peer(t))' /\ Serving(t, Peer(t))'
    <3>1. Peer(t)' = Peer(t) /\ Origins(Peer(t))' = Origins(Peer(t))
      BY <2>2 DEF Peer, Origins
    <3>2. Serving(t, Peer(t)) /\ Fit(Peer(t)) /\ Peer(t) \in Conns
      BY <2>3, <2>5, PeerFact
    <3>3. Fit(Peer(t))'
      BY <2>2, <3>1, <3>2 DEF Fit, LetThrough, Asked
    <3>4. Serving(t, Peer(t))'
      BY <2>2, <2>3, <2>4, <2>5, <3>1, <3>2 DEF Serving
    <3> QED BY <3>3, <3>4
  <2>6. \A c \in Conns : ConnInv(c)'
    BY <2>2, <2>3, <2>5, TableSame, QuietStep
  <2>7. (OwnConnection /\ OwnList)'
    <3>1. \A u \in Threads : /\ (Serves(u)' <=> Serves(u)) /\ (HasList(u)' <=> HasList(u))
                             /\ Forwards(u)' => Forwards(u)
                             /\ Serves(u)' /\ tpc'[u] # "read" /\ get'[u] =>
                                   (tpc[u] # "read" /\ get[u] /\ Serves(u)) \/ Has(u)
      BY <2>2, <2>3, <2>4 DEF Serves, HasList, Forwards
    <3> QED BY <2>2, <3>1, TableKept
  <2> QED BY <2>6, <2>7 DEF ProxyInv
<1>6. ASSUME alive, NEW t \in Threads, Lookup(t) \/ Resolve(t) \/ Copy(t) \/ Forward(t)
      PROVE  ProxyInv'
  <2>1. /\ UNCHANGED <<table, link, asked, gone, reply, fd, list, get, name, alive>>
        /\ \A u \in Threads \ {t} : tpc'[u] = tpc[u] /\ addr'[u] = addr[u]
        /\ \/ tpc[t] = "lookup" /\ tpc'[t] = "list"
           \/ tpc[t] = "resolve" /\ tpc'[t] = "copy"
           \/ tpc[t] = "copy" /\ tpc'[t] = "send"
           \/ tpc[t] = "send" /\ tpc'[t] = "relay"
    <3>1. DOMAIN tpc = Threads /\ DOMAIN addr = Threads
      BY DEF TypeOK
    <3>2. CASE Lookup(t) \/ Resolve(t)
      BY <3>1, <3>2 DEF Lookup, Resolve, At, Goto, clients, results, stack
    <3>3. CASE Copy(t)
      BY <3>1, <3>3 DEF Copy, At, Goto, clients, results
    <3>4. CASE Forward(t)
      BY <3>1, <3>4 DEF Forward, At, Goto, clients, stack
    <3> QED BY <1>6, <3>2, <3>3, <3>4
  <2>2. /\ Serves(t) /\ Serves(t)' /\ Apart(t) /\ (Forwards(t)' <=> Forwards(t))
        /\ (HasList(t)' <=> HasList(t)) /\ tpc[t] # "read"
    BY <2>1 DEF Serves, Apart, Forwards, HasList
  <2>3. /\ tpc'[t] # "relay" => sent' = sent
        /\ tpc'[t] = "relay" => /\ sent' = [sent EXCEPT ![Peer(t)] = addr[t]]
                                /\ addr' = addr /\ Has(t)
    <3>1. tpc'[t] # "relay" => sent' = sent
      BY <1>6, <2>1 DEF Lookup, Resolve, Copy, Forward, At, Goto, results, TypeOK
    <3>2. tpc'[t] = "relay" => Forward(t)
      BY <1>6, <2>1 DEF Lookup, Resolve, Copy, At
    <3>3. Forward(t) => Has(t)
      BY DEF Forward, At, Forwards, ProxyInv, OwnConnection
    <3> QED BY <3>1, <3>2, <3>3 DEF Forward, stack
  <2>4. \A c \in Conns : ~(Has(t) /\ c = Peer(t)) => sent'[c] = sent[c]
    BY <2>1, <2>2, <2>3, PeerFact DEF TypeOK
  <2>5. ASSUME Has(t)
        PROVE  Fit(Peer(t))' /\ Serving(t, Peer(t))'
    <3>1. Peer(t)' = Peer(t) /\ Origins(Peer(t))' = Origins(Peer(t))
      BY <2>1 DEF Peer, Origins
    <3>2. Serving(t, Peer(t)) /\ Fit(Peer(t)) /\ Peer(t) \in Conns /\ link[Peer(t)] = "accepted"
      BY <2>2, <2>5, PeerFact
    <3>3. Forwards(t) => LetThrough(Peer(t))
      BY <2>2, <2>5, <3>2, KnownRequest DEF Serving
    <3>4. alive => reply[Peer(t)] = NoAddress
      BY <3>2 DEF Serving
    <3>5. sent'[Peer(t)] = IF tpc'[t] = "relay" THEN addr'[t] ELSE NoAddress
      BY <2>1, <2>3, <3>2 DEF Serving, TypeOK
    <3>6. Serving(t, Peer(t))'
      BY <2>1, <2>2, <3>1, <3>2, <3>5 DEF Serving, Knows, Asked, Listed
    <3>7. Fit(Peer(t))'
      <4>1. sent'[Peer(t)] # NoAddress => LetThrough(Peer(t))
        BY <2>1, <2>2, <3>3, <3>5 DEF Forwards
      <4> QED BY <2>1, <3>1, <3>2, <1>6, <3>4, <4>1, ProxyAssumption DEF Fit, LetThrough, Asked
    <3> QED BY <3>6, <3>7
  <2>6. \A c \in Conns : ConnInv(c)'
    BY <2>1, <2>2, <2>4, <2>5, TableSame, QuietStep
  <2>7. (OwnConnection /\ OwnList)'
    <3>1. \A u \in Threads : /\ (Serves(u)' <=> Serves(u)) /\ (HasList(u)' <=> HasList(u))
                             /\ Forwards(u)' => Forwards(u)
                             /\ Serves(u)' /\ tpc'[u] # "read" /\ get'[u] =>
                                   (tpc[u] # "read" /\ get[u] /\ Serves(u))
      BY <2>1, <2>2 DEF Serves, HasList, Forwards
    <3> QED BY <2>1, <3>1, TableKept
  <2> QED BY <2>6, <2>7 DEF ProxyInv
<1>7. ASSUME alive, NEW t \in Threads, LookupFails(t)
      PROVE  ProxyInv'
  <2>1. /\ UNCHANGED <<table, link, asked, gone, sent, tpc, fd, list, get, name, addr>> /\ ~alive'
        /\ Serves(t) /\ Serves(t)' /\ Apart(t) /\ tpc[t] = "lookup" /\ name[t] \notin Known
        /\ Answer(t, Itself)
    BY <1>7 DEF LookupFails, Exits, At, clients, stack, Serves, Apart
  <2>2. /\ Has(t) /\ Peer(t) \notin gone => reply'[Peer(t)] = Itself
        /\ \A c \in Conns : ~(Has(t) /\ c = Peer(t) /\ c \notin gone) => reply'[c] = reply[c]
    BY <2>1, AnswerType
  <2>3. ASSUME Has(t)
        PROVE  Fit(Peer(t))' /\ Serving(t, Peer(t))'
    <3>1. Peer(t)' = Peer(t) /\ Origins(Peer(t))' = Origins(Peer(t))
      BY <2>1 DEF Peer, Origins
    <3>2. Serving(t, Peer(t)) /\ Fit(Peer(t)) /\ Peer(t) \in Conns
      BY <2>1, <2>3, PeerFact
    <3>3. Peer(t) \notin gone => Asked(Peer(t)) /\ asked[Peer(t)].name \notin Known
      BY <2>1, <2>3, KnownRequest DEF Knows
    <3>4. Serving(t, Peer(t))'
      BY <2>1, <3>1, <3>2 DEF Serving, Knows, Asked, Listed, Forwards
    <3>5. Fit(Peer(t))'
      BY <2>1, <2>2, <2>3, <3>1, <3>2, <3>3, ProxyAssumption DEF Fit, LetThrough, Asked
    <3> QED BY <3>4, <3>5
  <2>4. \A c \in Conns : ConnInv(c)'
    BY <2>1, <2>2, <2>3, TableSame, QuietStep
  <2>5. (OwnConnection /\ OwnList)'
    BY <2>1, TableKept DEF Serves, HasList, Forwards
  <2> QED BY <2>4, <2>5 DEF ProxyInv
<1>8. ASSUME NEW t \in Threads, OpenList(t)
      PROVE  ProxyInv'
  <2>1. PICK d \in Fds : Lowest(d) /\ Opens(d, "stream", Nobody) /\ list' = [list EXCEPT ![t] = d]
    BY <1>8 DEF OpenList
  <2>2. /\ UNCHANGED <<link, asked, gone, sent, reply, fd, get, name, addr, alive>>
        /\ tpc[t] = "list" /\ tpc'[t] = "check"
        /\ \A u \in Threads \ {t} : tpc'[u] = tpc[u] /\ list'[u] = list[u]
    BY <1>8, <2>1 DEF OpenList, At, Goto, clients, results, TypeOK
  <2>3. /\ Serves(t) /\ Serves(t)' /\ ~HasList(t) /\ HasList(t)' /\ ~Forwards(t)' /\ ~Forwards(t)
    BY <2>2 DEF Serves, HasList, Forwards
  <2>4. /\ (OwnConnection /\ OwnList)'
        /\ \A u \in Threads : Serves(u) /\ Has(u) => table'[fd[u]] = table[fd[u]] /\ Peer(u)' = Peer(u)
    BY <2>1, <2>2, <2>3, Opened
  <2>5. \A c \in Conns : Ends(c)' = Ends(c) /\ Origins(c)' = Origins(c)
    BY <2>1, HeldOpen
  <2>6. Apart(t)
    BY <2>2, <2>4 DEF Apart
  <2>7. ASSUME Has(t)
        PROVE  Fit(Peer(t))' /\ Serving(t, Peer(t))'
    <3>1. Serving(t, Peer(t)) /\ Fit(Peer(t)) /\ Peer(t) \in Conns /\ Peer(t)' = Peer(t)
      BY <2>3, <2>4, <2>7, PeerFact
    <3>2. Fit(Peer(t))'
      BY <2>2, <3>1 DEF Fit, LetThrough, Asked
    <3>3. Origins(Peer(t))' = Origins(Peer(t))
      BY <2>5, <3>1
    <3>4. Serving(t, Peer(t))'
      BY <2>2, <2>3, <3>1, <3>3 DEF Serving, Knows, Asked
    <3> QED BY <3>2, <3>4
  <2>8. \A c \in Conns : ConnInv(c)'
    BY <2>2, <2>3, <2>4, <2>5, <2>6, <2>7, QuietStep
  <2> QED BY <2>4, <2>8 DEF ProxyInv
<1>9. ASSUME NEW t \in Threads, Block(t) \/ Reject(t)
      PROVE  ProxyInv'
  <2>1. /\ UNCHANGED <<asked, gone, sent, fd, list, get, name, addr, alive>>
        /\ tpc[t] = "check" /\ tpc'[t] = "done" /\ CloseConn(t) /\ Closes(fd[t])
        /\ \A u \in Threads \ {t} : tpc'[u] = tpc[u]
        /\ Listed(t) \/ ~get[t]
    BY <1>9 DEF Block, Reject, CloseConn, At, Goto, clients, results, stack, TypeOK
  <2>2. Serves(t) /\ ~Serves(t)' /\ HasList(t) /\ ~Forwards(t)
    BY <2>1 DEF Serves, HasList, Forwards
  <2>3. /\ (OwnConnection /\ OwnList)' /\ Apart(t)
    BY <2>1, <2>2, ConnClosed DEF Apart
  <2>4. /\ Has(t) => link'[Peer(t)] = "ended"
        /\ \A c \in Conns : ~(Has(t) /\ c = Peer(t)) => link'[c] = link[c]
    BY <2>1, <2>2, CloseType
  <2>5. /\ Has(t) => reply'[Peer(t)] = reply[Peer(t)] \/ (reply'[Peer(t)] = Itself /\ ~get[t] /\ Peer(t) \notin gone)
        /\ \A c \in Conns : ~(Has(t) /\ c = Peer(t)) => reply'[c] = reply[c]
    <3>1. CASE Block(t)
      BY <3>1 DEF Block, results
    <3>2. CASE Reject(t)
      <4>1. Answer(t, Itself) /\ ~get[t]
        BY <3>2 DEF Reject
      <4> QED BY <2>2, <4>1, AnswerType, PeerFact
    <3> QED BY <1>9, <3>1, <3>2
  <2>6. ASSUME NEW c \in Conns
        PROVE  ConnInv(c)'
    <3>1. Ends(c)' = Ends(c) \ {fd[t]} /\ Origins(c)' = Origins(c) \ {fd[t]}
      BY <2>1, HeldClose
    <3>2. CASE Has(t) /\ c = Peer(t)
      <4>1. /\ Serving(t, c) /\ Fit(c) /\ Ends(c) = {fd[t]}
            /\ get[t] \/ c \notin gone => Knows(t, c)
            /\ c \notin gone /\ Listed(t) => asked[c].name \notin Known \ Blacklist
        BY <2>1, <2>2, <3>2, PeerFact, KnownRequest
      <4>2. Ends(c)' = {} /\ Origins(c)' = {}
        BY <2>2, <3>1, <4>1 DEF Serving
      <4>3. Leaks(c)'
        BY <4>2 DEF Leaks
      <4>4. c \notin gone => Asked(c) /\ get[t] = asked[c].get
        BY <4>1 DEF Knows
      <4>5. Fit(c)'
        BY <2>1, <2>5, <3>2, <4>1, <4>4, ProxyAssumption DEF Fit, LetThrough, Asked
      <4> QED BY <2>2, <2>3, <2>4, <3>2, <4>2, <4>3, <4>5, MyConn
    <3>3. CASE ~(Has(t) /\ c = Peer(t))
      <4>1. fd[t] \notin Ends(c) /\ fd[t] \notin Origins(c)
        <5>1. fd[t] \in Fds => table[fd[t]].of # c
          BY <3>3 DEF Has, Peer
        <5>2. \A d \in Ends(c) \cup Origins(c) : d \in Fds /\ table[d].of = c
          BY DEF Ends, Origins
        <5> QED BY <5>1, <5>2
      <4> QED BY <2>1, <2>2, <2>3, <2>4, <2>5, <3>1, <3>3, <4>1, OtherConn
    <3> QED BY <3>2, <3>3
  <2> QED BY <2>3, <2>6 DEF ProxyInv
<1>10. ASSUME NEW t \in Threads, Socket(t)
       PROVE  ProxyInv'
  <2>1. PICK d \in Fds : Lowest(d) /\ Opens(d, "origin", Peer(t))
    BY <1>10 DEF Socket
  <2>2. /\ UNCHANGED <<link, asked, gone, sent, reply, fd, list, get, name, addr, alive>>
        /\ tpc[t] = "check" /\ tpc'[t] = "resolve" /\ get[t] /\ ~Listed(t)
        /\ \A u \in Threads \ {t} : tpc'[u] = tpc[u]
    BY <1>10 DEF Socket, At, Goto, clients, results, stack, TypeOK
  <2>3. /\ Serves(t) /\ Serves(t)' /\ (HasList(t)' <=> HasList(t)) /\ Forwards(t)' /\ ~Forwards(t)
    BY <2>2 DEF Serves, HasList, Forwards
  <2>4. Has(t)
    BY <2>2, <2>3 DEF ProxyInv, OwnConnection
  <2>5. Peer(t) \in Conns /\ Ends(Peer(t)) = {fd[t]} /\ Serving(t, Peer(t)) /\ Fit(Peer(t))
        /\ Leaks(Peer(t)) /\ link[Peer(t)] = "accepted" /\ LetThrough(Peer(t))
    BY <2>2, <2>3, <2>4, PeerFact, KnownRequest
  <2>6. /\ (OwnConnection /\ OwnList)'
        /\ \A u \in Threads : Serves(u) /\ Has(u) => table'[fd[u]] = table[fd[u]] /\ Peer(u)' = Peer(u)
    BY <2>1, <2>2, <2>3, <2>5, Opened
  <2>7. Apart(t) /\ Peer(t)' = Peer(t)
    BY <2>2, <2>3, <2>4, <2>6 DEF Apart
  <2>8. ASSUME NEW c \in Conns
        PROVE  ConnInv(c)'
    <3>1. /\ Ends(c)' = Ends(c)
          /\ Origins(c)' = IF Peer(t) = c THEN Origins(c) \cup {d} ELSE Origins(c)
      BY <2>1, <2>5, HeldOpen
    <3>2. CASE c = Peer(t)
      <4>1. Origins(c)' = {d}
        BY <2>3, <2>5, <3>1, <3>2 DEF Serving
      <4>2. Leaks(c)'
        BY <2>2, <2>3, <2>5, <3>1, <3>2, <4>1, LeaksSame
      <4>3. Fit(c)'
        BY <2>2, <2>5, <3>2, FitSame
      <4>4. Serving(t, c)'
        BY <2>2, <2>3, <2>5, <3>2 DEF Serving, Knows, Asked, Listed
      <4> QED BY <2>2, <2>3, <2>4, <2>5, <2>7, <3>2, <4>2, <4>3, <4>4, MyConn
    <3>3. CASE c # Peer(t)
      BY <2>2, <2>7, <3>1, <3>3, OtherConn
    <3> QED BY <3>2, <3>3
  <2> QED BY <2>6, <2>8 DEF ProxyInv
<1>11. ASSUME alive, NEW t \in Threads, SocketFails(t) \/ Relay(t)
       PROVE  ProxyInv'
  <2>1. /\ UNCHANGED <<table, link, asked, gone, sent, fd, list, get, name, addr, alive>>
        /\ \/ SocketFails(t) /\ tpc[t] = "check" /\ get[t] /\ ~Listed(t) /\ reply' = reply
           \/ Relay(t) /\ tpc[t] = "relay" /\ Answer(t, addr[t])
        /\ tpc'[t] = "done"
        /\ \A u \in Threads \ {t} : tpc'[u] = tpc[u]
    BY <1>11 DEF SocketFails, Relay, At, Goto, clients, results, stack, TypeOK
  <2>2. /\ Serves(t) /\ ~Serves(t)' /\ HasList(t) /\ HasList(t)' /\ ~Forwards(t)' /\ tpc[t] # "read"
        /\ Apart(t)
    BY <2>1 DEF Serves, HasList, Forwards, Apart
  <2>3. Has(t)
    BY <2>1, <2>2 DEF ProxyInv, OwnConnection, Forwards
  <2>4. Peer(t) \in Conns /\ Ends(Peer(t)) = {fd[t]} /\ Serving(t, Peer(t)) /\ Fit(Peer(t))
        /\ Leaks(Peer(t)) /\ link[Peer(t)] = "accepted"
    BY <2>2, <2>3, PeerFact
  <2>5. LetThrough(Peer(t))
    <3>1. get[t] /\ ~Listed(t)
      BY <2>1, <2>4 DEF Serving, Forwards
    <3> QED BY <2>2, <2>3, <3>1, KnownRequest
  <2>6. (OwnConnection /\ OwnList)'
    <3>1. \A u \in Threads : /\ (Serves(u)' => Serves(u)) /\ (HasList(u)' <=> HasList(u))
                             /\ Forwards(u)' => Forwards(u)
                             /\ Serves(u)' /\ tpc'[u] # "read" /\ get'[u] =>
                                   (tpc[u] # "read" /\ get[u] /\ Serves(u))
      BY <2>1, <2>2 DEF Serves, HasList, Forwards
    <3> QED BY <2>1, <3>1, TableKept
  <2>7. /\ reply'[Peer(t)] = reply[Peer(t)] \/ (tpc[t] = "relay" /\ reply'[Peer(t)] = addr[t])
        /\ \A c \in Conns : c # Peer(t) => reply'[c] = reply[c]
    <3>1. CASE reply' = reply
      BY <3>1
    <3>2. CASE tpc[t] = "relay" /\ Answer(t, addr[t])
      <4>1. addr[t] \in Hosts
        BY <3>2 DEF TypeOK
      <4> QED BY <2>2, <2>4, <3>2, <4>1, AnswerType
    <3> QED BY <2>1, <3>1, <3>2
  <2>8. ASSUME NEW c \in Conns
        PROVE  ConnInv(c)'
    <3>1. Ends(c)' = Ends(c) /\ Origins(c)' = Origins(c)
      BY <2>1 DEF Ends, Origins
    <3>2. CASE c = Peer(t)
      <4>1. \A d \in Origins(c)' : Origins(c)' = {d} /\ LetThrough(c)
        BY <2>4, <3>1, <3>2 DEF Leaks
      <4>2. Leaks(c)'
        BY <2>1, <2>4, <2>5, <3>1, <3>2, <4>1, LeaksSame
      <4>3. /\ tpc[t] = "relay" => sent[c] = addr[t] /\ addr[t] \in Hosts
            /\ reply[c] = NoAddress
        BY <1>11, <2>4, <3>2 DEF Serving, TypeOK
      <4>4. Fit(c)'
        BY <2>1, <2>4, <2>5, <2>7, <3>2, <4>3, ProxyAssumption DEF Fit, LetThrough, Asked
      <4> QED BY <2>1, <2>2, <2>3, <2>4, <3>2, <4>2, <4>4, MyConn
    <3>3. CASE c # Peer(t)
      BY <2>1, <2>2, <2>7, <3>1, <3>3, OtherConn
    <3> QED BY <3>2, <3>3
  <2> QED BY <2>6, <2>8 DEF ProxyInv
<1>12. ASSUME NEW t \in Threads, CloseList(t)
       PROVE  ProxyInv'
  <2>1. /\ UNCHANGED <<link, asked, gone, sent, reply, fd, list, get, name, addr, alive>>
        /\ tpc[t] = "done" /\ tpc'[t] = "idle" /\ Closes(list[t])
        /\ \A u \in Threads \ {t} : tpc'[u] = tpc[u]
    BY <1>12 DEF CloseList, At, Goto, clients, results, stack, TypeOK
  <2>2. /\ (OwnConnection /\ OwnList)' /\ Apart(t)
        /\ \A c \in Conns : Ends(c)' = Ends(c) /\ Origins(c)' = Origins(c)
    BY <2>1, ListClosed DEF Apart
  <2>3. ~Serves(t) /\ ~Serves(t)'
    BY <2>1 DEF Serves
  <2>4. \A c \in Conns : ConnInv(c)'
    BY <2>1, <2>2, <2>3, OtherConn
  <2> QED BY <2>2, <2>4 DEF ProxyInv
<1>13. ASSUME NEW t \in Threads, OpenListFails(t) \/ CopyFails(t) \/ ForwardFails(t) \/ SigPipe(t)
       PROVE  ProxyInv'
  <2>1. UNCHANGED <<table, link, clients, results, tpc, fd, stack>> /\ ~alive'
    BY <1>13 DEF OpenListFails, CopyFails, ForwardFails, SigPipe, Exit, Exits, results
  <2> QED BY <1>1, <2>1
<1>14. UNCHANGED vars => ProxyInv'
  BY <1>1 DEF vars
<1> QED
  BY <1>2, <1>3, <1>4, <1>5, <1>6, <1>7, <1>8, <1>9, <1>10, <1>11, <1>12, <1>13, <1>14, Steps
-----------------------------------------------------------------------------
\* The hosts that are kept.

LEMMA KeptStep == TypeOK /\ ProxyInv /\ KeptHosts /\ [Next]_vars => KeptHosts'
<1> SUFFICES ASSUME TypeOK, ProxyInv, KeptHosts, [Next]_vars
             PROVE  KeptHosts'
  OBVIOUS
<1>0. /\ \A c \in Conns : Asked(c) => asked'[c] = asked[c]
      /\ \A a : Wanted(a) => Wanted(a)'
  <2>1. \A c \in Conns : Asked(c) => asked'[c] = asked[c]
    BY Steps DEF vars, clients, Asked, Connect, Ask, Leave, AcceptFails, Accept, ReadRequest,
       ReadNothing, Parsed, Lookup, LookupFails, OpenList, OpenListFails, Block, Reject, Socket,
       SocketFails, Resolve, Copy, CopyFails, Forward, ForwardFails, Relay, SigPipe, CloseList,
       Exit, Exits, TypeOK
  <2>2. \A c \in Conns : Asked(c) => Asked(c)'
    BY <2>1 DEF Asked
  <2> QED BY <2>1, <2>2 DEF Wanted
<1>1. CASE UNCHANGED <<resolved, addr, name>>
  BY <1>0, <1>1 DEF KeptHosts
<1>2. ASSUME NEW t \in Threads, ReadRequest(t) \/ ReadNothing(t)
      PROVE  KeptHosts'
  <2>1. PICK isGet, found : Parsed(t, isGet, found)
                            /\ (found # NoName => Serves(t) /\ Has(t) /\ Asked(Peer(t)) /\ found = asked[Peer(t)].name)
    BY <1>2 DEF ReadRequest, ReadNothing, Asked, At, Serves
  <2>2. PICK n : /\ name' = [name EXCEPT ![t] = n]
                 /\ n \in IF found # NoName THEN {found} ELSE Junk \cup ({name[t]} \ {NoName})
    BY <2>1 DEF Parsed
  <2>3. UNCHANGED <<resolved, addr>>
    BY <2>1 DEF Parsed
  <2>4. n \in Known => Wanted(Address[n])
    <3>1. CASE found # NoName
      BY <2>1, <2>2, <3>1, PeerFact DEF Wanted
    <3>2. CASE found = NoName
      BY <2>2, <3>2 DEF Wanted, KeptHosts
    <3> QED BY <3>1, <3>2
  <2>5. \A u \in Threads : name'[u] = name[u] \/ name'[u] = n
    BY <2>2 DEF TypeOK
  <2> QED BY <1>0, <2>3, <2>4, <2>5 DEF KeptHosts
<1>3. ASSUME NEW t \in Threads, Lookup(t) \/ Resolve(t)
      PROVE  KeptHosts'
  <2>1. /\ name[t] \in Known /\ resolved' = Address[name[t]]
        /\ UNCHANGED <<addr, name>>
    BY <1>3 DEF Lookup, Resolve, At, TypeOK, stack
  <2> QED BY <1>0, <2>1 DEF KeptHosts
<1>4. ASSUME NEW t \in Threads, Copy(t)
      PROVE  KeptHosts'
  <2>1. PICK a \in Found(t) : addr' = [addr EXCEPT ![t] = a]
    BY <1>4 DEF Copy
  <2>2. UNCHANGED <<resolved, name>>
    BY <1>4 DEF Copy
  <2>3. a \in Torn \/ Wanted(a)
    <3>1. resolved \in Addresses
      BY <1>4 DEF Copy, At, TypeOK
    <3>2. \/ a = resolved \/ a \in Torn
          \/ \E u \in Threads : name[u] \in Known /\ a = Address[name[u]]
      BY <2>1 DEF Found, Others
    <3> QED BY <3>1, <3>2, ProxyAssumption DEF KeptHosts, Hosts
  <2>4. \A u \in Threads : addr'[u] = addr[u] \/ addr'[u] = a
    BY <2>1 DEF TypeOK
  <2> QED BY <1>0, <2>2, <2>3, <2>4 DEF KeptHosts
<1>5. ASSUME ~UNCHANGED <<resolved, addr, name>>
      PROVE  \E t \in Threads : ReadRequest(t) \/ ReadNothing(t) \/ Lookup(t) \/ Resolve(t) \/ Copy(t)
  <2>1. ASSUME NEW c \in Conns, Connect(c) \/ Ask(c) \/ Leave(c)
        PROVE  FALSE
    BY <1>5, <2>1 DEF Connect, Ask, Leave, stack
  <2>2. ASSUME NEW t \in Threads, AcceptFails(t) \/ \E c \in Conns : Accept(c, t)
        PROVE  FALSE
    BY <1>5, <2>2 DEF AcceptFails, Accept, stack
  <2>3. ASSUME NEW t \in Threads,
               \/ LookupFails(t) \/ OpenList(t) \/ OpenListFails(t) \/ Block(t) \/ Reject(t)
               \/ Socket(t) \/ SocketFails(t) \/ CopyFails(t) \/ Forward(t)
               \/ ForwardFails(t) \/ Relay(t) \/ SigPipe(t) \/ CloseList(t)
        PROVE  FALSE
    BY <1>5, <2>3 DEF LookupFails, OpenList, OpenListFails, Block, Reject, Socket, SocketFails,
       CopyFails, Forward, ForwardFails, Relay, SigPipe, CloseList, Exit, Exits, stack
  <2>4. ~UNCHANGED vars
    BY <1>5 DEF vars, stack
  <2> QED BY <2>1, <2>2, <2>3, <2>4, Steps
<1> QED BY <1>1, <1>2, <1>3, <1>4, <1>5
-----------------------------------------------------------------------------
\* Theorems.

ProxyAll == TypeOK /\ ProxyInv /\ KeptHosts

LEMMA AllAlways == Spec => []ProxyAll
<1>1. Init => ProxyAll
  <2>1. Init => KeptHosts
    BY ProxyAssumption DEF Init, KeptHosts
  <2> QED BY <2>1, TypeInit, InvInit DEF ProxyAll
<1>2. ProxyAll /\ [Next]_vars => ProxyAll'
  BY TypeStep, InvStep, KeptStep DEF ProxyAll
<1> QED BY <1>1, <1>2, PTL DEF Spec

\* The variables stay in their sets; in particular no thread goes on with a host
\* that was not found.
THEOREM TypeCorrect == Spec => []TypeOK
<1>1. ProxyAll => TypeOK
  BY DEF ProxyAll
<1> QED BY <1>1, AllAlways, PTL

\* Whatever threads overtake each other and whatever descriptors are used again, no
\* request that names a listed host and nothing but a GET leaves the proxy, and a client is
\* sent the response of the host that its own request was sent to.
THEOREM AnswersAreFit == Spec => []AnswersFit
<1>1. ProxyAll => AnswersFit
  BY DEF ProxyAll, ProxyInv, ConnInv, AnswersFit
<1> QED BY <1>1, AllAlways, PTL

\* The blacklist is always closed, and only a GET that was let through leaves
\* descriptors open: its connection and at most one socket.
THEOREM LeaksAreBounded == Spec => []LeaksBounded
<1>1. ProxyAll => LeaksBounded
  BY DEF ProxyAll, ProxyInv, OwnList, ConnInv, LeaksBounded
<1> QED BY <1>1, AllAlways, PTL

\* A step that ends the process has one of the causes, which its state shows.
LEMMA EndCause ==
    ASSUME ProxyAll, NEW t \in Threads,
           LookupFails(t) \/ OpenListFails(t) \/ CopyFails(t) \/ ForwardFails(t) \/ SigPipe(t)
    PROVE  EndsOnlyFor'
<1>0. UNCHANGED <<table, tpc, fd, asked, gone, name>> /\ TypeOK
  BY DEF LookupFails, OpenListFails, CopyFails, ForwardFails, SigPipe, Exit, Exits, clients,
         stack, ProxyAll
<1>1. CASE LookupFails(t)
  <2>1. Serves(t) /\ tpc[t] = "lookup" /\ name[t] \notin Known
    BY <1>1 DEF LookupFails, At, Serves
  <2>2. CASE ~Has(t)
    <3>1. fd[t] = NoFd
      BY <1>0, <2>2 DEF TypeOK, Has
    <3> QED BY <1>0, <2>1, <3>1 DEF EndsOnlyFor, Serves
  <2>3. CASE Has(t) /\ Peer(t) \in gone
    BY <1>0, <2>3 DEF EndsOnlyFor
  <2>4. CASE Has(t) /\ Peer(t) \notin gone
    <3>1. Peer(t) \in Conns /\ Asked(Peer(t)) /\ asked[Peer(t)].name \notin Known
      BY <2>1, <2>4, PeerFact, KnownRequest DEF ProxyAll, Knows
    <3> QED BY <1>0, <3>1 DEF EndsOnlyFor, Asked
  <2> QED BY <2>2, <2>3, <2>4
<1>2. CASE OpenListFails(t)
  BY <1>0, <1>2 DEF OpenListFails, EndsOnlyFor, Unused
<1>3. CASE CopyFails(t)
  BY <1>0, <1>3 DEF CopyFails, EndsOnlyFor, At, Others
<1>4. CASE ForwardFails(t)
  <2>1. addr[t] \in Hosts \ Up /\ addr' = addr /\ At(t, "send")
    BY <1>0, <1>4 DEF ForwardFails, Exit, Exits, stack, At, TypeOK
  <2>2. CASE addr[t] \in Torn
    BY <1>0, <2>1, <2>2 DEF EndsOnlyFor, At
  <2>3. CASE addr[t] \notin Torn
    <3>1. addr[t] \in Addresses \ Up /\ Wanted(addr[t])
      BY <2>1, <2>3, ProxyAssumption DEF ProxyAll, KeptHosts, Hosts
    <3>2. \E a \in Addresses \ Up : Wanted(a)'
      BY <1>0, <3>1 DEF Wanted, Asked
    <3> QED BY <3>2 DEF EndsOnlyFor
  <2> QED BY <2>2, <2>3
<1>5. CASE SigPipe(t)
  BY <1>0, <1>5 DEF SigPipe, PeerGone, EndsOnlyFor
<1> QED BY <1>1, <1>2, <1>3, <1>4, <1>5

\* The proxy of all clients ends only for a client that left, a host that is not
\* found or does not accept, a full table of descriptors, or a result that is read
\* while it is written.
THEOREM EndsOnly == Spec => []EndsOnlyFor
<1>1. Init => EndsOnlyFor
  BY DEF Init, EndsOnlyFor
<1>2. ProxyAll /\ EndsOnlyFor /\ [Next]_vars => EndsOnlyFor'
  <2> SUFFICES ASSUME ProxyAll, EndsOnlyFor, [Next]_vars, ~alive'
               PROVE  EndsOnlyFor'
    BY DEF EndsOnlyFor
  <2>1. CASE UNCHANGED vars
    BY <2>1 DEF vars, clients, stack, EndsOnlyFor, Unused, Serves, Asked, Wanted, At, Others
  <2>2. CASE ~UNCHANGED vars
    <3>1. alive
      BY <2>2, Steps
    <3>2. \E t \in Threads : LookupFails(t) \/ OpenListFails(t) \/ CopyFails(t) \/ ForwardFails(t) \/ SigPipe(t)
      BY <2>2, <3>1, Steps DEF Connect, Ask, Leave, Accept, AcceptFails, ReadRequest, ReadNothing,
         Parsed, Lookup, OpenList, Block, Reject, Socket, SocketFails, Resolve, Copy, Forward,
         Relay, CloseList
    <3> QED BY <3>2, EndCause
  <2> QED BY <2>1, <2>2
<1> QED BY <1>1, <1>2, AllAlways, PTL DEF Spec
-----------------------------------------------------------------------------
\* Whose host a request goes to.

LEMMA AddressStep == ProxyAll /\ NoOverlap /\ OwnAddress /\ [Next]_vars => OwnAddress'
<1> SUFFICES ASSUME ProxyAll, NoOverlap, OwnAddress, [Next]_vars PROVE OwnAddress'
  OBVIOUS
<1> DEFINE Mine(t) == /\ At(t, "copy") => resolved = Address[name[t]]
                      /\ tpc[t] \in {"send", "relay"} => addr[t] = Address[name[t]]
<1>0. /\ TypeOK /\ ProxyInv /\ OwnHost /\ \A t \in Threads : Mine(t)
      /\ DOMAIN tpc = Threads /\ DOMAIN name = Threads /\ DOMAIN addr = Threads /\ DOMAIN sent = Conns
      /\ DOMAIN asked = Conns
  BY DEF ProxyAll, OwnAddress, TypeOK
<1>t. ASSUME \A t \in Threads : Mine(t)', OwnHost' PROVE OwnAddress'
  BY <1>t DEF OwnAddress
\* Requests and hosts that stay as they are.
<1>h. ASSUME UNCHANGED <<asked, sent>> PROVE OwnHost'
  BY <1>0, <1>h DEF OwnHost
<1>m. ASSUME UNCHANGED <<tpc, resolved, name, addr>> PROVE \A t \in Threads : Mine(t)'
  BY <1>0, <1>m DEF At
\* A thread moves on, and what was found stays.
<1>g. ASSUME NEW t \in Threads, UNCHANGED <<resolved, addr>>,
             NEW pc, pc \notin {"copy", "send", "relay"}, tpc' = [tpc EXCEPT ![t] = pc],
             name' = name \/ \E n : name' = [name EXCEPT ![t] = n]
      PROVE  \A u \in Threads : Mine(u)'
  <2> TAKE u \in Threads
  <2>1. CASE u = t
    BY <1>0, <1>g, <2>1 DEF At
  <2>2. CASE u # t
    <3>1. tpc'[u] = tpc[u] /\ name'[u] = name[u]
      BY <1>0, <1>g, <2>2
    <3> QED BY <1>0, <1>g, <3>1 DEF At
  <2> QED BY <2>1, <2>2
\* gethostbyname(): no other thread is reading its result.
<1>r. ASSUME NEW t \in Threads, tpc[t] \in {"lookup", "resolve"}, NEW pc \in {"list", "copy"},
             tpc' = [tpc EXCEPT ![t] = pc], UNCHANGED <<addr, name>>,
             resolved' = Address[name[t]]
      PROVE  \A u \in Threads : Mine(u)'
  <2> TAKE u \in Threads
  <2>1. CASE u = t
    BY <1>0, <1>r, <2>1 DEF At
  <2>2. CASE u # t
    <3>1. ~At(u, "copy")
      BY <1>r, <2>2 DEF NoOverlap, Others, At
    <3>2. tpc'[u] = tpc[u]
      BY <1>0, <1>r, <2>2
    <3> QED BY <1>0, <1>r, <3>1, <3>2 DEF At
  <2> QED BY <2>1, <2>2
<1>1. CASE UNCHANGED vars
  <2>1. UNCHANGED <<asked, sent, tpc, resolved, name, addr>>
    BY <1>1 DEF vars, clients, results, stack
  <2> QED BY <1>h, <1>m, <1>t, <2>1
<1>2. ASSUME NEW c \in Conns, Connect(c) \/ Leave(c) PROVE OwnAddress'
  <2>1. UNCHANGED <<asked, sent, tpc, resolved, name, addr>>
    BY <1>2 DEF Connect, Leave, clients, results, stack
  <2> QED BY <1>h, <1>m, <1>t, <2>1
<1>3. ASSUME NEW c \in Conns, Ask(c) PROVE OwnAddress'
  <2>1. /\ UNCHANGED <<sent, tpc, resolved, name, addr>> /\ asked[c] = NoRequest
        /\ \E r : asked' = [asked EXCEPT ![c] = r]
    BY <1>3 DEF Ask, results, stack
  <2>2. sent[c] = NoAddress
    BY <1>0, <2>1 DEF ProxyInv, ConnInv, Fit, LetThrough, Asked
  <2>3. \A d \in Conns \ {c} : asked'[d] = asked[d]
    BY <1>0, <2>1
  <2>4. OwnHost'
    BY <1>0, <2>1, <2>2, <2>3 DEF OwnHost
  <2> QED BY <1>m, <1>t, <2>1, <2>4
<1>4. ASSUME NEW t \in Threads, AcceptFails(t) \/ \E c \in Conns : Accept(c, t) PROVE OwnAddress'
  <2>1. /\ UNCHANGED <<asked, sent, resolved, name, addr>> /\ tpc' = [tpc EXCEPT ![t] = "read"]
    BY <1>4 DEF AcceptFails, Accept, clients, results, stack
  <2> QED BY <1>g, <1>h, <1>t, <2>1
<1>5. ASSUME NEW t \in Threads, ReadRequest(t) \/ ReadNothing(t) PROVE OwnAddress'
  <2>1. /\ UNCHANGED <<asked, sent, resolved, addr>> /\ tpc' = [tpc EXCEPT ![t] = "lookup"]
        /\ \E n : name' = [name EXCEPT ![t] = n]
    BY <1>5 DEF ReadRequest, ReadNothing, Parsed, Goto, clients, results
  <2> QED BY <1>g, <1>h, <1>t, <2>1
<1>6. ASSUME NEW t \in Threads, Lookup(t) \/ Resolve(t) PROVE OwnAddress'
  <2>1. /\ UNCHANGED <<asked, sent, name, addr>> /\ resolved' = Address[name[t]]
        /\ tpc[t] \in {"lookup", "resolve"}
        /\ \E pc \in {"list", "copy"} : tpc' = [tpc EXCEPT ![t] = pc]
    BY <1>6 DEF Lookup, Resolve, At, Goto, clients, results, stack
  <2> QED BY <1>h, <1>r, <1>t, <2>1
<1>7. ASSUME NEW t \in Threads, Copy(t) PROVE OwnAddress'
  <2>1. /\ UNCHANGED <<asked, sent, resolved, name>> /\ At(t, "copy")
        /\ tpc' = [tpc EXCEPT ![t] = "send"]
        /\ \E a \in Found(t) : addr' = [addr EXCEPT ![t] = a]
    BY <1>7 DEF Copy, Goto, clients, results
  <2>2. Found(t) = {resolved} /\ resolved = Address[name[t]]
    <3>1. Others(t) = {}
      BY <1>0, <2>1 DEF NoOverlap
    <3> QED BY <1>0, <2>1, <3>1 DEF Found
  <2>3. addr' = [addr EXCEPT ![t] = Address[name[t]]]
    BY <2>1, <2>2
  <2>4. ASSUME NEW u \in Threads PROVE Mine(u)'
    <3>1. CASE u = t
      BY <1>0, <2>1, <2>3, <3>1 DEF At
    <3>2. CASE u # t
      <4>1. tpc'[u] = tpc[u] /\ addr'[u] = addr[u]
        BY <1>0, <2>1, <2>3, <3>2
      <4> QED BY <1>0, <2>1, <4>1 DEF At
    <3> QED BY <3>1, <3>2
  <2> QED BY <1>h, <1>t, <2>1, <2>4
<1>8. ASSUME NEW t \in Threads, Forward(t) PROVE OwnAddress'
  <2>1. /\ UNCHANGED <<asked, resolved, name, addr>> /\ At(t, "send")
        /\ tpc' = [tpc EXCEPT ![t] = "relay"]
        /\ sent' = [sent EXCEPT ![Peer(t)] = addr[t]]
    BY <1>8 DEF Forward, Goto, clients, stack
  <2>2. addr[t] = Address[name[t]] /\ Forwards(t) /\ Serves(t)
    BY <1>0, <2>1 DEF At, Forwards, Serves
  <2>3. ASSUME NEW u \in Threads PROVE Mine(u)'
    <3>1. CASE u = t
      BY <1>0, <2>1, <2>2, <3>1 DEF At
    <3>2. CASE u # t
      <4>1. tpc'[u] = tpc[u]
        BY <1>0, <2>1, <3>2
      <4> QED BY <1>0, <2>1, <4>1 DEF At
    <3> QED BY <3>1, <3>2
  <2>4. Has(t)
    BY <1>0, <2>2 DEF ProxyInv, OwnConnection
  <2>5. asked[Peer(t)].name # NoName => name[t] = asked[Peer(t)].name
    BY <1>0, <2>1, <2>2, <2>4, PeerFact DEF Serving, Knows, At
  <2>6. NoName \notin Known
    BY ProxyAssumption
  <2>7. OwnHost'
    BY <1>0, <2>1, <2>2, <2>5, <2>6 DEF OwnHost
  <2> QED BY <1>t, <2>3, <2>7
<1>9. ASSUME NEW t \in Threads,
             LookupFails(t) \/ OpenListFails(t) \/ CopyFails(t) \/ ForwardFails(t) \/ SigPipe(t)
      PROVE  OwnAddress'
  <2>1. UNCHANGED <<asked, sent, tpc, resolved, name, addr>>
    BY <1>9 DEF LookupFails, OpenListFails, CopyFails, ForwardFails, SigPipe, Exit, Exits, clients, stack
  <2> QED BY <1>h, <1>m, <1>t, <2>1
<1>10. ASSUME NEW t \in Threads,
              \/ OpenList(t) \/ Block(t) \/ Reject(t) \/ Socket(t) \/ SocketFails(t)
              \/ Relay(t) \/ CloseList(t)
       PROVE  OwnAddress'
  <2>1. /\ UNCHANGED <<asked, sent, resolved, name, addr>>
        /\ \E pc \in {"check", "done", "resolve", "idle"} : tpc' = [tpc EXCEPT ![t] = pc]
    BY <1>10 DEF OpenList, Block, Reject, Socket, SocketFails, Relay, CloseList, Goto, clients,
       results, stack
  <2> QED BY <1>g, <1>h, <1>t, <2>1
<1> QED BY <1>1, <1>2, <1>3, <1>4, <1>5, <1>6, <1>7, <1>8, <1>9, <1>10, Steps

\* The one way for a request to go to a host that its client did not name is two
\* threads in gethostbyname() and its result at the same time: as long as none is in
\* it while another reads the result, every request goes to its own host, however
\* many clients there are and whatever else the threads do at the same time.
THEOREM HostsAlone == Spec => OwnHostAlone
<1>1. Init => OwnAddress
  BY DEF Init, OwnAddress, OwnHost, At
<1>2. OwnAddress => OwnHost
  BY DEF OwnAddress
<1>3. OwnHostAlone <=> ([]NoOverlap => []OwnHost)
  BY DEF OwnHostAlone
<1> QED BY <1>1, <1>2, <1>3, AddressStep, AllAlways, PTL DEF Spec

\* So a proxy that serves one request at a time never mixes hosts up.
THEOREM OneThreadHosts == (\A t, u \in Threads : t = u) => (Spec => []OwnHost)
<1> SUFFICES ASSUME \A t, u \in Threads : t = u PROVE Spec => []OwnHost
  OBVIOUS
<1>1. NoOverlap
  BY DEF NoOverlap, Others
<1>2. OwnHostAlone <=> ([]NoOverlap => []OwnHost)
  BY DEF OwnHostAlone
<1> QED BY <1>1, <1>2, HostsAlone, PTL
-----------------------------------------------------------------------------
\* The refinement.

LEMMA WantedTarget ==
    ASSUME NEW a, Wanted(a)
    PROVE  a \in Service!Targets
<1>1. CASE \E c \in Conns : Asked(c) /\ asked[c].name \in Known /\ a = Address[asked[c].name]
  <2>1. PICK c \in Conns : Asked(c) /\ asked[c].name \in Known /\ a = Address[asked[c].name]
    BY <1>1
  <2>2. asked[c].name \in {asked[b].name : b \in {b \in Conns : asked[b] # NoRequest}}
    BY <2>1 DEF Asked
  <2> QED BY <2>1, <2>2 DEF Service!Targets
<1>2. CASE \E n \in Junk \cap Known : a = Address[n]
  BY <1>2 DEF Service!Targets
<1> QED BY <1>1, <1>2 DEF Wanted

\* A thread serves a connection that is not closed, which has been sent nothing yet.
LEMMA ServedOpen ==
    ASSUME TypeOK, ProxyInv, alive, NEW t \in Threads, Serves(t), Has(t)
    PROVE  /\ Peer(t) \in Conns \ {c \in Conns : link[c] = "ended"}
           /\ reply[Peer(t)] = NoAddress
           /\ tpc[t] # "relay" => sent[Peer(t)] = NoAddress
           /\ tpc[t] = "relay" => sent[Peer(t)] = addr[t]
<1>1. Peer(t) \in Conns /\ link[Peer(t)] = "accepted" /\ Serving(t, Peer(t))
  BY PeerFact
<1> QED BY <1>1 DEF Serving

\* The proxy's own response, and what refuses a request.
LEMMA AnswersItself ==
    ASSUME TypeOK, ProxyInv, alive, NEW t \in Threads, Serves(t), tpc[t] \in {"lookup", "check"},
           ~get[t] \/ name[t] \notin Known, Answer(t, Itself)
    PROVE  \/ reply' = reply /\ ~(Has(t) /\ Peer(t) \notin gone)
           \/ /\ Has(t) /\ Peer(t) \notin gone /\ asked[Peer(t)] # NoRequest
              /\ ~asked[Peer(t)].get \/ asked[Peer(t)].name \notin Known
              /\ sent[Peer(t)] = NoAddress /\ reply[Peer(t)] = NoAddress
              /\ reply' = [reply EXCEPT ![Peer(t)] = Itself]
<1>1. CASE ~(Has(t) /\ Peer(t) \notin gone)
  BY <1>1 DEF Answer, PeerGone
<1>2. CASE Has(t) /\ Peer(t) \notin gone
  <2>1. reply' = [reply EXCEPT ![Peer(t)] = Itself]
    BY <1>2 DEF Answer, PeerGone
  <2>2. Knows(t, Peer(t)) /\ (name[t] \notin Known => asked[Peer(t)].name \notin Known)
    BY <1>2, KnownRequest
  <2>3. sent[Peer(t)] = NoAddress /\ reply[Peer(t)] = NoAddress
    BY <1>2, ServedOpen
  <2> QED BY <1>2, <2>1, <2>2, <2>3 DEF Knows, Asked
<1> QED BY <1>1, <1>2

LEMMA ServiceStep ==
    ASSUME alive, NEW c \in Conns \ {b \in Conns : link[b] = "ended"},
           Service!Forward(c) \/ Service!Answer(c) \/ Service!Refuse(c) \/ Service!End(c)
    PROVE  Service!Next
  BY DEF Service!Next

\* Each step is one of the service's, or nothing that it speaks of.
LEMMA ToService ==
    ASSUME ProxyAll, [Next]_vars
    PROVE  [Service!Next]_(Service!service)
<1> DEFINE ended == {c \in Conns : link[c] = "ended"}
<1>0. TypeOK /\ ProxyInv /\ KeptHosts
  BY DEF ProxyAll
<1>1. CASE UNCHANGED <<link, asked, gone, sent, reply, alive>>
  BY <1>1 DEF Service!service
<1>2. ASSUME alive, NEW c \in Conns, Connect(c) \/ Ask(c) \/ Leave(c)
      PROVE  [Service!Next]_(Service!service)
  <2>1. CASE Connect(c)
    <3>1. \A k \in Conns : link'[k] = "ended" <=> link[k] = "ended"
      BY <1>0, <2>1 DEF Connect, TypeOK
    <3> QED BY <2>1, <3>1 DEF Connect, Service!service, clients, results
  <2>2. CASE Ask(c)
    BY <1>2, <2>2 DEF Ask, Service!Next, Service!Ask, results
  <2>3. CASE Leave(c)
    BY <1>2, <2>3 DEF Leave, Service!Next, Service!Leave, results
  <2> QED BY <1>2, <2>1, <2>2, <2>3
<1>3. ASSUME NEW t \in Threads, NEW c \in Conns, Accept(c, t)
      PROVE  [Service!Next]_(Service!service)
  <2>1. \A k \in Conns : link'[k] = "ended" <=> link[k] = "ended"
    BY <1>0, <1>3 DEF Accept, TypeOK
  <2> QED BY <1>3, <2>1 DEF Accept, Service!service, clients, results
<1>4. ASSUME alive, Exit
      PROVE  [Service!Next]_(Service!service)
  BY <1>4 DEF Exit, Exits, Service!Next, Service!Stop, clients
<1>5. ASSUME alive, NEW t \in Threads, LookupFails(t)
      PROVE  [Service!Next]_(Service!service)
  <2>1. /\ Serves(t) /\ tpc[t] = "lookup" /\ name[t] \notin Known /\ Answer(t, Itself)
        /\ UNCHANGED <<link, asked, gone, sent>> /\ alive' = FALSE
    BY <1>5 DEF LookupFails, At, Serves, Exits, clients
  <2>2. CASE reply' = reply
    BY <1>5, <2>1, <2>2 DEF Service!Next, Service!Stop
  <2>3. CASE reply' # reply
    <3>1. /\ Has(t) /\ Peer(t) \notin gone /\ asked[Peer(t)] # NoRequest
          /\ ~asked[Peer(t)].get \/ asked[Peer(t)].name \notin Known
          /\ sent[Peer(t)] = NoAddress /\ reply[Peer(t)] = NoAddress
          /\ reply' = [reply EXCEPT ![Peer(t)] = Itself]
      BY <1>0, <1>5, <2>1, <2>3, AnswersItself
    <3>2. Peer(t) \in Conns \ ended
      BY <1>0, <1>5, <2>1, <3>1, ServedOpen
    <3>3. PICK c \in Conns \ ended : c = Peer(t)
      BY <3>2
    <3>4. Service!Refuse(c)
      BY <2>1, <3>1, <3>3 DEF Service!Refuse
    <3> QED BY <1>5, <3>4, ServiceStep
  <2> QED BY <2>2, <2>3
<1>6. ASSUME alive, NEW t \in Threads, Block(t)
      PROVE  [Service!Next]_(Service!service)
  <2>1. /\ UNCHANGED <<asked, gone, sent, reply, alive>> /\ Serves(t) /\ tpc[t] = "check" /\ Listed(t)
        /\ link' = IF Has(t) THEN [link EXCEPT ![Peer(t)] = "ended"] ELSE link
    BY <1>6 DEF Block, CloseConn, At, Serves, clients, results
  <2>2. CASE ~Has(t)
    BY <2>1, <2>2, <1>1
  <2>3. CASE Has(t)
    <3>1. Peer(t) \in Conns \ ended /\ sent[Peer(t)] = NoAddress
      BY <1>0, <1>6, <2>1, <2>3, ServedOpen
    <3>2. ended' = ended \cup {Peer(t)}
      BY <1>0, <2>1, <2>3, <3>1 DEF TypeOK
    <3>3. Peer(t) \notin gone => Asked(Peer(t)) /\ asked[Peer(t)].name \notin Known \ Blacklist
      BY <1>0, <2>1, <2>3, KnownRequest DEF Knows
    <3>4. PICK c \in Conns \ ended : c = Peer(t)
      BY <3>1
    <3>5. Service!End(c)
      BY <2>1, <3>1, <3>2, <3>3, <3>4 DEF Service!End, Asked
    <3> QED BY <1>6, <3>5, ServiceStep
  <2> QED BY <2>2, <2>3
<1>7. ASSUME alive, NEW t \in Threads, Reject(t)
      PROVE  [Service!Next]_(Service!service)
  <2>1. /\ UNCHANGED <<asked, gone, sent, alive>> /\ Serves(t) /\ tpc[t] = "check" /\ ~get[t]
        /\ Answer(t, Itself)
        /\ link' = IF Has(t) THEN [link EXCEPT ![Peer(t)] = "ended"] ELSE link
    BY <1>7 DEF Reject, CloseConn, At, Serves, clients
  <2>2. CASE ~Has(t)
    <3>1. reply' = reply
      BY <2>1, <2>2 DEF Answer
    <3> QED BY <2>1, <2>2, <3>1, <1>1
  <2>3. CASE Has(t)
    <3>1. Peer(t) \in Conns \ ended
      BY <1>0, <1>7, <2>1, <2>3, ServedOpen
    <3>2. PICK c \in Conns \ ended : c = Peer(t)
      BY <3>1
    <3>3. ended' = ended \cup {c}
      BY <1>0, <2>1, <2>3, <3>2 DEF TypeOK
    <3>4. CASE Peer(t) \in gone
      <4>1. reply' = reply
        BY <2>1, <2>3, <3>4 DEF Answer, PeerGone
      <4>2. Service!End(c)
        BY <2>1, <3>2, <3>3, <3>4, <4>1 DEF Service!End
      <4> QED BY <1>7, <4>2, ServiceStep
    <3>5. CASE Peer(t) \notin gone
      <4>1. /\ asked[Peer(t)] # NoRequest
            /\ ~asked[Peer(t)].get \/ asked[Peer(t)].name \notin Known
            /\ sent[Peer(t)] = NoAddress /\ reply[Peer(t)] = NoAddress
            /\ reply' = [reply EXCEPT ![Peer(t)] = Itself]
        BY <1>0, <1>7, <2>1, <2>3, <3>5, AnswersItself
      <4>2. Service!Refuse(c)
        BY <2>1, <3>2, <3>3, <3>5, <4>1 DEF Service!Refuse
      <4> QED BY <1>7, <4>2, ServiceStep
    <3> QED BY <3>4, <3>5
  <2> QED BY <2>2, <2>3
<1>8. ASSUME alive, NEW t \in Threads, Forward(t)
      PROVE  [Service!Next]_(Service!service)
  <2>1. /\ UNCHANGED <<link, asked, gone, reply, alive>> /\ Serves(t) /\ Forwards(t) /\ tpc[t] = "send"
        /\ sent' = [sent EXCEPT ![Peer(t)] = addr[t]]
    BY <1>8 DEF Forward, At, Serves, Forwards, clients
  <2>2. Has(t)
    BY <1>0, <2>1 DEF ProxyInv, OwnConnection
  <2>3. Peer(t) \in Conns \ ended /\ sent[Peer(t)] = NoAddress /\ reply[Peer(t)] = NoAddress
    BY <1>0, <1>8, <2>1, <2>2, ServedOpen
  <2>4. LetThrough(Peer(t))
    <3>1. get[t] /\ ~Listed(t)
      BY <1>0, <2>1, <2>2, PeerFact DEF Serving
    <3> QED BY <1>0, <2>1, <2>2, <3>1, KnownRequest
  <2>5. addr[t] \in Service!Targets \cup Torn
    <3>1. addr[t] \in Hosts
      BY <1>0, <2>1 DEF TypeOK
    <3>2. addr[t] \in Torn \/ Wanted(addr[t])
      BY <1>0, <2>1, <3>1, ProxyAssumption DEF KeptHosts
    <3> QED BY <3>2, WantedTarget
  <2>6. Service!Forward(Peer(t))
    BY <2>1, <2>3, <2>4, <2>5 DEF Service!Forward, LetThrough, Asked
  <2> QED BY <1>8, <2>3, <2>6, ServiceStep
<1>9. ASSUME alive, NEW t \in Threads, Relay(t)
      PROVE  [Service!Next]_(Service!service)
  <2>1. /\ UNCHANGED <<link, asked, gone, sent, alive>> /\ Serves(t) /\ Forwards(t) /\ tpc[t] = "relay"
        /\ Answer(t, addr[t])
    BY <1>9 DEF Relay, At, Serves, Forwards, clients
  <2>2. Has(t)
    BY <1>0, <2>1 DEF ProxyInv, OwnConnection
  <2>3. Peer(t) \in Conns \ ended /\ sent[Peer(t)] = addr[t] /\ reply[Peer(t)] = NoAddress
    BY <1>0, <1>9, <2>1, <2>2, ServedOpen
  <2>4. CASE Peer(t) \in gone
    <3>1. reply' = reply
      BY <2>1, <2>4 DEF Answer, PeerGone
    <3> QED BY <1>1, <2>1, <3>1
  <2>5. CASE Peer(t) \notin gone
    <3>1. reply' = [reply EXCEPT ![Peer(t)] = sent[Peer(t)]]
      BY <2>1, <2>2, <2>3, <2>5 DEF Answer, PeerGone
    <3>2. sent[Peer(t)] # NoAddress
      BY <1>0, <2>1, <2>3, ProxyAssumption DEF TypeOK
    <3>3. Service!Answer(Peer(t))
      BY <2>1, <2>3, <2>5, <3>1, <3>2 DEF Service!Answer
    <3> QED BY <1>9, <2>3, <3>3, ServiceStep
  <2> QED BY <2>4, <2>5
<1>10. ASSUME NEW t \in Threads,
              \/ AcceptFails(t) \/ ReadRequest(t) \/ ReadNothing(t) \/ Lookup(t) \/ OpenList(t)
              \/ Socket(t) \/ SocketFails(t) \/ Resolve(t) \/ Copy(t) \/ CloseList(t)
       PROVE  [Service!Next]_(Service!service)
  <2>1. UNCHANGED <<link, asked, gone, sent, reply, alive>>
    BY <1>10 DEF AcceptFails, ReadRequest, ReadNothing, Parsed, Lookup, OpenList, Socket, SocketFails,
       Resolve, Copy, CloseList, clients, results
  <2> QED BY <1>1, <2>1
<1>11. ASSUME alive, NEW t \in Threads,
              OpenListFails(t) \/ CopyFails(t) \/ ForwardFails(t) \/ SigPipe(t)
       PROVE  [Service!Next]_(Service!service)
  BY <1>4, <1>11 DEF OpenListFails, CopyFails, ForwardFails, SigPipe
<1>12. UNCHANGED vars => [Service!Next]_(Service!service)
  BY <1>1 DEF vars, clients, results
<1> QED
  BY <1>2, <1>3, <1>5, <1>6, <1>7, <1>8, <1>9, <1>10, <1>11, <1>12, Steps

\* The proxy of threads implements the service, although its threads share the table
\* of descriptors and the result of a lookup: each request goes out at most once, none
\* that names a listed host, and its client gets at most one response, that of the host
\* it went to, which is one that was asked for or none that was meant (Torn).
THEOREM Implements == Spec => ServiceSpec
<1>1. Init => Service!Init
  BY DEF Init, Service!Init
<1>2. ProxyAll /\ [Next]_vars => [Service!Next]_(Service!service)
  BY ToService
<1> QED BY <1>1, <1>2, AllAlways, PTL DEF Spec, ServiceSpec, Service!Spec
-----------------------------------------------------------------------------
\* Nobody is forgotten.

\* A thread goes on serving its connection, unless it blocks or rejects its request,
\* gets no socket for it or has passed the response on.
LEMMA KeptByOthers ==
    ASSUME TypeOK, ProxyInv, NEW u \in Threads, Serves(u), Has(u), [Next]_vars,
           ~Block(u), ~Reject(u), ~SocketFails(u), ~Relay(u)
    PROVE  Serves(u)' /\ Has(u)' /\ Peer(u)' = Peer(u)
<1>0. /\ fd[u] \in Fds /\ table[fd[u]].is = "conn" /\ Peer(u) \in Conns
      /\ DOMAIN tpc = Threads /\ DOMAIN fd = Threads
  BY PeerFact DEF TypeOK
<1>1. ASSUME Serves(u)', fd'[u] = fd[u], table'[fd[u]] = table[fd[u]]
      PROVE  Serves(u)' /\ Has(u)' /\ Peer(u)' = Peer(u)
  BY <1>0, <1>1 DEF Has, Peer
<1>2. CASE UNCHANGED <<table, tpc, fd>>
  BY <1>1, <1>2 DEF Serves
<1>3. ASSUME NEW t \in Threads, AcceptFails(t) \/ \E c \in Conns : Accept(c, t)
      PROVE  Serves(u)' /\ Has(u)' /\ Peer(u)' = Peer(u)
  <2>1. tpc[t] = "idle" /\ tpc' = [tpc EXCEPT ![t] = "read"] /\ \E d : fd' = [fd EXCEPT ![t] = d]
    BY <1>3 DEF AcceptFails, Accept
  <2>2. u # t /\ Serves(u)' /\ fd'[u] = fd[u]
    BY <1>0, <2>1 DEF Serves
  <2>3. CASE AcceptFails(t)
    BY <1>1, <2>2, <2>3 DEF AcceptFails
  <2>4. ASSUME NEW c \in Conns, Accept(c, t)
        PROVE  table'[fd[u]] = table[fd[u]]
    <3>1. PICK d \in Fds : Lowest(d) /\ Opens(d, "conn", c)
      BY <2>4 DEF Accept
    <3> QED BY <1>0, <3>1, StreamsOpen
  <2> QED BY <1>1, <1>3, <2>2, <2>3, <2>4
<1>4. ASSUME NEW t \in Threads, OpenList(t) \/ Socket(t)
      PROVE  Serves(u)' /\ Has(u)' /\ Peer(u)' = Peer(u)
  <2>1. fd' = fd /\ \E pc \in {"check", "resolve"} : tpc' = [tpc EXCEPT ![t] = pc]
    BY <1>4 DEF OpenList, Socket, Goto, stack
  <2>2. Serves(u)' /\ fd'[u] = fd[u]
    BY <1>0, <2>1 DEF Serves
  <2>3. table'[fd[u]] = table[fd[u]]
    <3>1. CASE OpenList(t)
      <4>1. PICK d \in Fds : Lowest(d) /\ Opens(d, "stream", Nobody)
        BY <3>1 DEF OpenList
      <4> QED BY <1>0, <4>1, StreamsOpen
    <3>2. CASE Socket(t)
      <4>1. Serves(t) /\ Has(t)
        BY <3>2 DEF Socket, At, Serves, ProxyInv, OwnConnection
      <4>2. Peer(t) \in Conns
        BY <4>1, PeerFact
      <4>3. PICK d \in Fds : Lowest(d) /\ Opens(d, "origin", Peer(t))
        BY <3>2 DEF Socket
      <4> QED BY <1>0, <4>2, <4>3, StreamsOpen
    <3> QED BY <1>4, <3>1, <3>2
  <2> QED BY <1>1, <2>2, <2>3
<1>5. ASSUME NEW t \in Threads, Block(t) \/ Reject(t)
      PROVE  Serves(u)' /\ Has(u)' /\ Peer(u)' = Peer(u)
  <2>1. t # u
    BY <1>5
  <2>2. /\ fd' = fd /\ tpc' = [tpc EXCEPT ![t] = "done"] /\ Closes(fd[t]) /\ Serves(t)
    BY <1>5 DEF Block, Reject, CloseConn, At, Goto, Serves, stack
  <2>3. fd[u] # fd[t]
    BY <2>1, <2>2 DEF ProxyInv, OwnConnection
  <2>4. table'[fd[u]] = table[fd[u]]
    BY <1>0, <2>2, <2>3, StreamsClose
  <2>5. Serves(u)' /\ fd'[u] = fd[u]
    BY <1>0, <2>1, <2>2 DEF Serves
  <2> QED BY <1>1, <2>4, <2>5
<1>6. ASSUME NEW t \in Threads, CloseList(t)
      PROVE  Serves(u)' /\ Has(u)' /\ Peer(u)' = Peer(u)
  <2>1. /\ fd' = fd /\ tpc' = [tpc EXCEPT ![t] = "idle"] /\ Closes(list[t]) /\ tpc[t] = "done"
    BY <1>6 DEF CloseList, At, Goto, stack
  <2>2. t # u /\ HasList(t)
    BY <2>1 DEF Serves, HasList
  <2>3. list[t] \in Fds /\ table[list[t]].is = "stream"
    BY <2>2 DEF ProxyInv, OwnList
  <2>4. table'[fd[u]] = table[fd[u]]
    BY <1>0, <2>1, <2>3, StreamsClose
  <2>5. Serves(u)' /\ fd'[u] = fd[u]
    BY <1>0, <2>1, <2>2 DEF Serves
  <2> QED BY <1>1, <2>4, <2>5
<1>7. ASSUME NEW t \in Threads,
             \/ ReadRequest(t) \/ ReadNothing(t) \/ Lookup(t) \/ Resolve(t) \/ Copy(t) \/ Forward(t)
      PROVE  Serves(u)' /\ Has(u)' /\ Peer(u)' = Peer(u)
  <2>1. UNCHANGED <<table, fd>>
        /\ \E pc \in {"lookup", "list", "copy", "send", "relay"} : tpc' = [tpc EXCEPT ![t] = pc]
    BY <1>7 DEF ReadRequest, ReadNothing, Parsed, Lookup, Resolve, Copy, Forward, Goto
  <2>2. Serves(u)'
    BY <1>0, <2>1 DEF Serves
  <2> QED BY <1>1, <2>1, <2>2
<1>8. ASSUME NEW t \in Threads, SocketFails(t) \/ Relay(t)
      PROVE  Serves(u)' /\ Has(u)' /\ Peer(u)' = Peer(u)
  <2>1. t # u /\ UNCHANGED <<table, fd>> /\ tpc' = [tpc EXCEPT ![t] = "done"]
    BY <1>8 DEF SocketFails, Relay, Goto
  <2>2. Serves(u)'
    BY <1>0, <2>1 DEF Serves
  <2> QED BY <1>1, <2>1, <2>2
<1>9. ASSUME NEW t \in Threads,
             LookupFails(t) \/ OpenListFails(t) \/ CopyFails(t) \/ ForwardFails(t) \/ SigPipe(t)
      PROVE  UNCHANGED <<table, tpc, fd>>
  BY <1>9 DEF LookupFails, OpenListFails, CopyFails, ForwardFails, SigPipe, Exit, Exits
<1>10. ASSUME NEW c \in Conns, Connect(c) \/ Ask(c) \/ Leave(c)
       PROVE  UNCHANGED <<table, tpc, fd>>
  BY <1>10 DEF Connect, Ask, Leave
<1>11. UNCHANGED vars => UNCHANGED <<table, tpc, fd>>
  BY DEF vars
<1> QED
  BY <1>2, <1>3, <1>4, <1>5, <1>6, <1>7, <1>8, <1>9, <1>10, <1>11, Steps

\* What no step takes back of a connection that nobody serves.
LEMMA LeftAsItIs ==
    ASSUME TypeOK, ProxyInv, [Next]_vars, NEW c \in Conns, c \notin gone', link[c] = "accepted"
    PROVE  /\ reply[c] # NoAddress => reply'[c] # NoAddress
           /\ ~Served(c) /\ LetThrough(c) /\ sent[c] = NoAddress /\ Origins(c) = {} =>
                 LetThrough(c)' /\ sent'[c] = NoAddress /\ Origins(c)' = {}
<1>1. reply[c] # NoAddress => reply'[c] # NoAddress
  <2>1. ASSUME NEW t \in Threads, NEW whom \in Hosts \cup {Itself}, Serves(t), Answer(t, whom)
        PROVE  reply'[c] = reply[c] \/ reply'[c] = whom
    BY <2>1, AnswerType
  <2>2. NoAddress \notin Hosts \cup {Itself}
    BY ProxyAssumption
  <2>3. ASSUME NEW t \in Threads, LookupFails(t) \/ Reject(t) \/ Relay(t)
        PROVE  \E whom \in Hosts \cup {Itself} : Serves(t) /\ Answer(t, whom)
    BY <2>3 DEF LookupFails, Reject, Relay, At, Serves, TypeOK
  <2>4. CASE \E t \in Threads : LookupFails(t) \/ Reject(t) \/ Relay(t)
    BY <2>1, <2>2, <2>3, <2>4
  <2>5. CASE ~\E t \in Threads : LookupFails(t) \/ Reject(t) \/ Relay(t)
    <3>1. reply' = reply
      BY <2>5, Steps DEF vars, results, stack, Connect, Ask, Leave, AcceptFails, Accept, ReadRequest,
         ReadNothing, Parsed, Lookup, OpenList, OpenListFails, Block, Socket, SocketFails, Resolve,
         Copy, CopyFails, Forward, ForwardFails, SigPipe, CloseList, Exit
    <3> QED BY <3>1
  <2> QED BY <2>4, <2>5
<1>2. ASSUME ~Served(c), LetThrough(c), sent[c] = NoAddress, Origins(c) = {}
      PROVE  LetThrough(c)' /\ sent'[c] = NoAddress /\ Origins(c)' = {}
  <2>1. asked'[c] = asked[c]
    <3>1. ASSUME NEW b \in Conns, Ask(b)
          PROVE  asked'[c] = asked[c]
      BY <1>2, <3>1 DEF Ask, LetThrough, Asked, TypeOK
    <3>2. CASE ~\E b \in Conns : Ask(b)
      <4>1. asked' = asked
        BY <3>2, Steps DEF vars, clients, stack, Connect, Leave, AcceptFails, Accept, ReadRequest,
           ReadNothing, Parsed, Lookup, LookupFails, OpenList, OpenListFails, Block, Reject, Socket,
           SocketFails, Resolve, Copy, CopyFails, Forward, ForwardFails, Relay, SigPipe, CloseList,
           Exit, Exits
      <4> QED BY <4>1
    <3> QED BY <3>1, <3>2
  <2>2. sent'[c] = NoAddress
    <3>1. ASSUME NEW t \in Threads, Forward(t)
          PROVE  sent'[c] = NoAddress
      <4>1. Serves(t) /\ Has(t)
        BY <3>1 DEF Forward, At, Serves, Forwards, ProxyInv, OwnConnection
      <4>2. Peer(t) # c
        BY <1>2, <4>1 DEF Served
      <4> QED BY <1>2, <3>1, <4>2 DEF Forward, TypeOK
    <3>2. CASE ~\E t \in Threads : Forward(t)
      <4>1. sent' = sent
        BY <3>2, Steps DEF vars, results, stack, Connect, Ask, Leave, AcceptFails, Accept, ReadRequest,
           ReadNothing, Parsed, Lookup, LookupFails, OpenList, OpenListFails, Block, Reject, Socket,
           SocketFails, Resolve, Copy, CopyFails, ForwardFails, Relay, SigPipe, CloseList,
           Exit, Exits
      <4> QED BY <1>2, <4>1
    <3> QED BY <3>1, <3>2
  <2>3. Origins(c)' = {}
    <3>1. ASSUME NEW d, Closes(d)
          PROVE  Origins(c)' = {}
      BY <1>2, <3>1, HeldClose
    <3>2. ASSUME NEW b \in Conns, NEW t \in Threads, Accept(b, t)
          PROVE  Origins(c)' = {}
      <4>1. PICK d \in Fds : Lowest(d) /\ Opens(d, "conn", b)
        BY <3>2 DEF Accept
      <4> QED BY <1>2, <4>1, HeldOpen
    <3>3. ASSUME NEW t \in Threads, OpenList(t)
          PROVE  Origins(c)' = {}
      <4>1. PICK d \in Fds : Lowest(d) /\ Opens(d, "stream", Nobody)
        BY <3>3 DEF OpenList
      <4> QED BY <1>2, <4>1, HeldOpen
    <3>4. ASSUME NEW t \in Threads, Socket(t)
          PROVE  Origins(c)' = {}
      <4>1. Serves(t) /\ Has(t)
        BY <3>4 DEF Socket, At, Serves, ProxyInv, OwnConnection
      <4>2. Peer(t) \in Conns /\ Peer(t) # c
        BY <1>2, <4>1, PeerFact DEF Served
      <4>3. PICK d \in Fds : Lowest(d) /\ Opens(d, "origin", Peer(t))
        BY <3>4 DEF Socket
      <4> QED BY <1>2, <4>2, <4>3, HeldOpen
    <3>5. ASSUME NEW t \in Threads, Block(t) \/ Reject(t) \/ CloseList(t)
          PROVE  \E d : Closes(d)
      BY <3>5 DEF Block, Reject, CloseList, CloseConn
    <3>6. CASE table' = table
      BY <1>2, <3>6 DEF Origins
    <3>7. ASSUME NEW t \in Threads,
                 \/ AcceptFails(t) \/ ReadRequest(t) \/ ReadNothing(t) \/ Lookup(t) \/ LookupFails(t)
                 \/ OpenListFails(t) \/ SocketFails(t) \/ Resolve(t) \/ Copy(t) \/ CopyFails(t)
                 \/ Forward(t) \/ ForwardFails(t) \/ Relay(t) \/ SigPipe(t)
          PROVE  table' = table
      BY <3>7 DEF AcceptFails, ReadRequest, ReadNothing, Parsed, Lookup, LookupFails, OpenListFails,
         SocketFails, Resolve, Copy, CopyFails, Forward, ForwardFails, Relay, SigPipe, Exit, Exits
    <3>8. ASSUME NEW b \in Conns, Connect(b) \/ Ask(b) \/ Leave(b)
          PROVE  table' = table
      BY <3>8 DEF Connect, Ask, Leave
    <3>9. UNCHANGED vars => table' = table
      BY DEF vars
    <3> QED BY <3>1, <3>2, <3>3, <3>4, <3>5, <3>6, <3>7, <3>8, <3>9, Steps
  <2> QED BY <1>2, <2>1, <2>2, <2>3 DEF LetThrough, Asked
<1> QED BY <1>1, <1>2

LEMMA AttendedStep == ProxyAll /\ Attended /\ [Next]_vars => Attended'
<1> SUFFICES ASSUME TypeOK, ProxyInv, Attended, [Next]_vars,
                    NEW c \in Conns, c \notin gone', link'[c] = "accepted"
             PROVE  \/ Served(c)'
                    \/ reply'[c] # NoAddress
                    \/ LetThrough(c)' /\ sent'[c] = NoAddress /\ Origins(c)' = {}
  BY DEF ProxyAll, Attended
<1>0. /\ DOMAIN tpc = Threads /\ DOMAIN fd = Threads /\ DOMAIN link = Conns
  BY DEF TypeOK
<1>1. CASE link[c] = "accepted"
  <2>1. c \notin gone
    <3>1. gone \subseteq gone'
      BY Steps DEF vars, clients, stack, Connect, Ask, Leave, AcceptFails, Accept, ReadRequest,
         ReadNothing, Parsed, Lookup, LookupFails, OpenList, OpenListFails, Block, Reject, Socket,
         SocketFails, Resolve, Copy, CopyFails, Forward, ForwardFails, Relay, SigPipe, CloseList,
         Exit, Exits
    <3> QED BY <3>1
  <2>2. CASE ~Served(c)
    BY <1>1, <2>1, <2>2, LeftAsItIs DEF Attended
  <2>3. CASE Served(c)
    <3>1. PICK u \in Threads : Serves(u) /\ Has(u) /\ Peer(u) = c
      BY <2>3 DEF Served
    <3>2. CASE ~Block(u) /\ ~Reject(u) /\ ~SocketFails(u) /\ ~Relay(u)
      BY <3>1, <3>2, KeptByOthers DEF Served
    <3>3. CASE Block(u) \/ Reject(u)
      <4>1. CloseConn(u)
        BY <3>3 DEF Block, Reject
      <4>2. link'[c] = "ended"
        BY <3>1, <4>1, CloseType
      <4> QED BY <4>2
    <3>4. CASE SocketFails(u)
      <4>1. /\ tpc[u] = "check" /\ ~Listed(u) /\ get[u]
            /\ UNCHANGED <<table, asked, sent>>
        BY <3>4 DEF SocketFails, At, clients, results
      <4>2. LetThrough(c)
        BY <3>1, <4>1, KnownRequest
      <4>3. sent[c] = NoAddress /\ Origins(c) = {}
        BY <3>1, <4>1, PeerFact DEF Serving, Forwards
      <4> QED BY <4>1, <4>2, <4>3 DEF LetThrough, Asked, Origins
    <3>5. CASE Relay(u)
      <4>1. addr[u] \in Hosts /\ Answer(u, addr[u])
        BY <3>5 DEF Relay, At, TypeOK
      <4>2. reply'[c] = addr[u]
        BY <2>1, <3>1, <4>1, AnswerType
      <4> QED BY <4>1, <4>2, ProxyAssumption
    <3> QED BY <3>2, <3>3, <3>4, <3>5
  <2> QED BY <2>2, <2>3
<1>2. CASE link[c] # "accepted"
  <2>1. PICK t \in Threads : Accept(c, t)
    <3>1. ASSUME NEW b \in Conns, NEW t \in Threads, Accept(b, t), b # c
          PROVE  link'[c] = link[c]
      BY <1>0, <3>1 DEF Accept
    <3>2. ASSUME NEW b \in Conns, Connect(b)
          PROVE  link'[c] # "accepted"
      BY <1>0, <1>2, <3>2 DEF Connect
    <3>3. ASSUME NEW t \in Threads, Block(t) \/ Reject(t)
          PROVE  link'[c] # "accepted"
      <4>1. CloseConn(t) /\ Serves(t)
        BY <3>3 DEF Block, Reject, At, Serves
      <4>2. link'[c] = "ended" \/ link'[c] = link[c]
        BY <4>1, CloseType
      <4> QED BY <1>2, <4>2
    <3>4. link' # link
      BY <1>2
    <3>5. ASSUME NEW b \in Conns, Ask(b) \/ Leave(b)
          PROVE  UNCHANGED link
      BY <3>5 DEF Ask, Leave
    <3>6. ASSUME NEW t \in Threads,
                 \/ AcceptFails(t) \/ ReadRequest(t) \/ ReadNothing(t) \/ Lookup(t) \/ LookupFails(t)
                 \/ OpenList(t) \/ OpenListFails(t) \/ Socket(t) \/ SocketFails(t) \/ Resolve(t)
                 \/ Copy(t) \/ CopyFails(t) \/ Forward(t) \/ ForwardFails(t) \/ Relay(t)
                 \/ SigPipe(t) \/ CloseList(t)
          PROVE  UNCHANGED link
      BY <3>6 DEF AcceptFails, ReadRequest, ReadNothing, Parsed, Lookup, LookupFails, OpenList,
         OpenListFails, Socket, SocketFails, Resolve, Copy, CopyFails, Forward, ForwardFails, Relay,
         SigPipe, CloseList, Exit, Exits
    <3>7. UNCHANGED vars => UNCHANGED link
      BY DEF vars
    <3> QED BY <1>2, <3>1, <3>2, <3>3, <3>4, <3>5, <3>6, <3>7, Steps
  <2>2. PICK d \in Fds : Lowest(d) /\ Opens(d, "conn", c) /\ fd' = [fd EXCEPT ![t] = d]
    BY <2>1 DEF Accept
  <2>3. table'[d] = [is |-> "conn", of |-> c] /\ fd'[t] = d
    BY <1>0, <2>2, OpensFact
  <2>4. tpc'[t] = "read"
    BY <1>0, <2>1 DEF Accept
  <2> QED BY <2>3, <2>4 DEF Served, Serves, Has, Peer
<1> QED BY <1>1, <1>2

\* No connection that was accepted is left with nobody at work on it and nothing
\* sent to it, but for a request for which there was no descriptor left: no
\* interleaving of the threads loses another one.
THEOREM NobodyForgotten == Spec => []Attended
<1>1. Init => Attended
  BY DEF Init, Attended
<1>2. ProxyAll /\ Attended /\ [Next]_vars => Attended'
  BY AttendedStep
<1> QED BY <1>1, <1>2, AllAlways, PTL DEF Spec
=============================================================================
