----------------------------- MODULE DfsServer -----------------------------
(***************************************************************************)
(* dfs.c: a process per server and a thread per connection.  A thread      *)
(* reads one request, the credentials and, for PUT, two parts, each with a *)
(* single read(), and is done: it never reads a second request and never   *)
(* closes its connection.  exit() in any thread ends the whole server.     *)
(***************************************************************************)
EXTENDS DfsWire

CONSTANTS
    NoReq,      \* no request read yet
    Missing,    \* no such file
    Creatable,  \* the files whose directory the servers have
    MaxFds,     \* the connections and files a server may have open at once
    Zeros       \* bytes that no client wrote, as many as a part has

ASSUME ServerAssumption ==
    /\ NoReq \notin Chunk /\ Missing \notin Seq(Chunk \cup {Zeros})
    /\ Creatable \subseteq Files /\ MaxFds \in Nat

VARIABLES
    tpc,        \* [Conns -> where the connection's thread is]
    req,        \* [Conns -> the request it has parsed]
    valid,      \* [Conns -> userN and passN hold a pair of dfc.conf]
    buf,        \* [Conns -> buf4Files1]
    n2,         \* [Conns -> what the read into buf4Files2 returned]
    store,      \* [Servers -> [Files -> contents or Missing]]
    starved     \* the servers of which a call has failed for want of a descriptor

serverVars == <<tpc, req, valid, buf, n2, store, starved>>

ServerTypeOK ==
    /\ tpc \in [Conns -> {"none", "queued", "request", "cred", "list", "part1", "part2",
                          "open1", "open2", "close2", "close1", "done"}]
    /\ req \in [Conns -> Requests \cup {NoReq}]
    /\ valid \in [Conns -> BOOLEAN]
    /\ buf \in [Conns -> Seq(Chunk)]
    /\ n2 \in [Conns -> Nat]
    /\ store \in [Servers -> [Files -> Seq(Chunk \cup {Zeros}) \cup {Missing}]]
    /\ starved \subseteq Running
    /\ \A k \in Conns :
          /\ tpc[k] \notin {"none", "queued", "request", "done"} => req[k] # NoReq
          /\ tpc[k] \in {"open2", "close2", "close1"} => store[k[2]][req[k].name] # Missing
          /\ tpc[k] \in {"close2", "close1"} => store[k[2]][Second[req[k].name]] # Missing

ServerInit ==
    /\ tpc = [k \in Conns |-> "none"]
    /\ req = [k \in Conns |-> NoReq]
    /\ valid = [k \in Conns |-> FALSE]
    /\ buf = [k \in Conns |-> <<>>]
    /\ n2 = [k \in Conns |-> 0]
    /\ store = [s \in Servers |-> [f \in Files |-> Missing]]
    /\ starved = {}

At(k, pc) == k[2] \in alive /\ tpc[k] = pc
Goto(k, pc) == tpc' = [tpc EXCEPT ![k] = pc]

Done(k) == tpc[k] = "done"
Ends(s) == alive' = alive \ {s}

\* No thread closes its connection, and none has more than two files open: that is
\* when a call of a server may find no descriptor, and accept() the last one taken.
Started(s) == {c \in Clients : tpc[<<c, s>>] \notin {"none", "queued"}}
Crowded(s) == 3 * Cardinality(Started(s)) >= MaxFds
Starves(s) == Crowded(s) /\ starved' = starved \cup {s}

\* The kernel completes the connection; main() accepts it and starts its thread.
Queue(k) == Goto(k, "queued")

Accept(k) ==
    /\ At(k, "queued")
    /\ Cardinality(Started(k[2])) < MaxFds
    /\ Goto(k, "request")
    /\ UNCHANGED <<req, valid, buf, n2, store, starved, wireVars>>

\* accept() fails, and a thread is started all the same.  It reads nothing: buffer,
\* userN and passN hold what is on its stack, which ends the server,
AcceptFails(s) ==
    /\ s \in alive
    /\ Starves(s)
    /\ Ends(s) \/ UNCHANGED alive
    /\ UNCHANGED <<tpc, req, valid, buf, n2, store, up, down, closed>>

\* or is a finished thread's PUT and pair.  Then the files are truncated and -1 bytes
\* of the heap written to them, at any time later: what there is, or a crash.
StrayWrite(s) ==
    /\ s \in alive \cap starved
    /\ \E i, j \in Conns :
          /\ i[2] = s /\ Done(i) /\ valid[i]
          /\ j[2] = s /\ Done(j) /\ req[j] # NoReq /\ req[j].op = "PUT"
          /\ \/ Ends(s) /\ UNCHANGED store
             \/ /\ \E f \in {req[j].name, Second[req[j].name]}, v \in {<<>>, <<Zeros>>} :
                      store' = [store EXCEPT ![s][f] = v]
                /\ UNCHANGED alive
    /\ UNCHANGED <<tpc, req, valid, buf, n2, starved, up, down, closed>>

\* read() and sscanf() of the request.
ReadRequest(k) ==
    /\ At(k, "request")
    /\ \E n \in Amounts(k) \ {0} :
          /\ Head(up[k]).kind = "req"
          /\ req' = [req EXCEPT ![k] = Head(up[k])]
          /\ Consume(k, n)
          /\ Goto(k, "cred")
    /\ UNCHANGED <<valid, buf, n2, store, starved, down, closed, alive>>

\* No request: the client has gone, or sent something else.  buffer is not
\* initialised, so it holds nothing sscanf() makes a request of, which ends the
\* server, or the request of a thread whose stack this one was given.
Invalid(k) == 0 \in Amounts(k) \/ (up[k] # <<>> /\ Head(up[k]).kind # "req")

RequestExit(k) ==
    /\ At(k, "request")
    /\ Invalid(k)
    /\ Ends(k[2])
    /\ UNCHANGED <<serverVars, up, down, closed>>

RequestLeftover(k) ==
    /\ At(k, "request")
    /\ 0 \in Amounts(k)
    /\ \E j \in Conns :
          /\ j[2] = k[2] /\ Done(j) /\ req[j] # NoReq
          /\ req' = [req EXCEPT ![k] = req[j]]
    /\ Goto(k, "cred")
    /\ UNCHANGED <<valid, buf, n2, store, starved, wireVars>>

\* sscanf() skips empty lines: the words of the n writes that were read start with
\* the i-th.  Without any, userN and passN are those of a finished thread, or junk.
\* The pair is accepted if nothing follows it, and may be if what does starts with
\* white space; bytes of a file may be taken for a pair, or for the rest of one.
First(k, n, i) == /\ i \in 1..n /\ up[k][i].kind # "blank"
                  /\ \A j \in 1..i - 1 : up[k][j].kind = "blank"
Valid(ch) == ch.kind = "cred" /\ ch.ok
Spelt(k, n, i) == k[1] \in Spelling /\ \E j \in i..n : up[k][j].kind = "part"
Wordless(k, n) == \A i \in 1..n : up[k][i].kind = "blank"
PairLeft(k) == \E j \in Conns : j[2] = k[2] /\ Done(j) /\ valid[j]

\* (Variant: a verifyCredential() that compares the user names only.)
MayPassByName(k, n) == n > 0 /\ Head(up[k]).kind = "cred"
MayPass(k, n) ==
    \/ \E i \in 1..n : First(k, n, i) /\ (Valid(up[k][i]) \/ Spelt(k, n, i))
    \/ Wordless(k, n) /\ PairLeft(k)
MustPass(k, n) == n > 0 /\ First(k, n, n) /\ Valid(up[k][n])

\* botherUser() and verifyCredential().
ReadCred(k) ==
    /\ At(k, "cred")
    /\ \E n \in Amounts(k) :
          /\ \/ /\ MayPass(k, n)
                /\ valid' = [valid EXCEPT ![k] = TRUE]
                /\ Goto(k, IF req[k].op = "LIST" THEN "list" ELSE "part1")
             \/ ~MustPass(k, n) /\ Goto(k, "done") /\ UNCHANGED valid
          /\ Consume(k, n)
    /\ UNCHANGED <<req, buf, n2, store, starved, down, closed, alive>>

\* dfc.conf cannot be opened: exit().
CredExit(k) ==
    /\ At(k, "cred") /\ Amounts(k) # {}
    /\ Starves(k[2])
    /\ Ends(k[2])
    /\ UNCHANGED <<tpc, req, valid, buf, n2, store, up, down, closed>>

\* (Variant: the listing is read and not sent.)
SendNoListing(k) ==
    At(k, "list") /\ Goto(k, "done") /\ UNCHANGED <<req, valid, buf, n2, store, starved, wireVars>>

\* The directory, read and sent.
Listed(k, to) ==
    /\ At(k, "list")
    /\ down' = [down EXCEPT ![k] = Append(@, {f \in Files : store[k[2]][f] # Missing})]
    /\ Goto(k, to)
    /\ UNCHANGED <<req, valid, buf, n2, store, starved, up, closed, alive>>
\* (Variant: a thread that goes back for another request.)
SendListingLoop(k) == Listed(k, "request")
SendListing(k) == Listed(k, "done")

\* opendir() fails: free() of a pointer that is not set, and a listing of no bytes.
ListFails(k) ==
    /\ At(k, "list")
    /\ Starves(k[2])
    /\ \/ Ends(k[2]) /\ UNCHANGED tpc
       \/ Goto(k, "done") /\ UNCHANGED alive
    /\ UNCHANGED <<req, valid, buf, n2, store, up, down, closed>>

\* The two reads of PUT.
ReadPart1(k) ==
    /\ At(k, "part1")
    /\ \E n \in Amounts(k) :
          /\ buf' = [buf EXCEPT ![k] = SubSeq(up[k], 1, n)]
          /\ Consume(k, n)
    /\ Goto(k, "part2")
    /\ UNCHANGED <<req, valid, n2, store, starved, down, closed, alive>>

\* (Variant: the second read is into buf4Files1 too.)
ReadPart2Same(k) ==
    /\ At(k, "part2")
    /\ \E n \in Amounts(k) :
          /\ n2' = [n2 EXCEPT ![k] = n]
          /\ buf' = [buf EXCEPT ![k] = SubSeq(up[k], 1, n)]
          /\ Consume(k, n)
    /\ Goto(k, "open1")
    /\ UNCHANGED <<req, valid, store, starved, down, closed, alive>>
ReadPart2(k) ==
    /\ At(k, "part2")
    /\ \E n \in Amounts(k) :
          /\ n2' = [n2 EXCEPT ![k] = n]
          /\ Consume(k, n)
    /\ Goto(k, "open1")
    /\ UNCHANGED <<req, valid, buf, store, starved, down, closed, alive>>

\* fopen(file, "w+") and fwrite() into its buffer, for both files.
Truncate(k, f, from, to) ==
    /\ At(k, from)
    /\ f \in Creatable
    /\ store' = [store EXCEPT ![k[2]][f] = <<>>]
    /\ Goto(k, to)
    /\ UNCHANGED <<req, valid, buf, n2, starved, wireVars>>

Open1(k) == Truncate(k, req[k].name, "open1", "open2")
Open2(k) == Truncate(k, Second[req[k].name], "open2", "close2")

\* fwrite() to the NULL of an fopen() that failed.
Opens(k) == CASE tpc[k] = "open1" -> {req[k].name}
              [] tpc[k] = "open2" -> {Second[req[k].name]}
              [] OTHER            -> {}
OpenFails(k) ==
    /\ k[2] \in alive /\ Opens(k) # {}
    /\ \/ Opens(k) \cap Creatable = {} /\ UNCHANGED starved
       \/ Starves(k[2])
    /\ Ends(k[2])
    /\ UNCHANGED <<tpc, req, valid, buf, n2, store, up, down, closed>>

\* fclose() writes what fwrite() buffered over the start of the file as it is.
Over(new, old) == new \o SubSeq(old, Len(new) + 1, Len(old))

Flush(k, f, new, from, to) ==
    /\ At(k, from)
    /\ store' = [store EXCEPT ![k[2]][f] = Over(new, @)]
    /\ Goto(k, to)
    /\ UNCHANGED <<req, valid, buf, n2, starved, wireVars>>

\* Both fwrite() calls take their bytes from buf4Files1, the second one n2 of
\* them; a part is as long as any other, and buf4Files1 is zeroed past its data.
Contents1(k) == buf[k]
Contents2(k) == [i \in 1..n2[k] |-> IF i <= Len(buf[k]) THEN buf[k][i] ELSE Zeros]

\* (Variant: both into the first file.)
Close2First(k) == Flush(k, req[k].name, Contents2(k), "close2", "close1")
Close2(k) == Flush(k, Second[req[k].name], Contents2(k), "close2", "close1")
Close1(k) == Flush(k, req[k].name, Contents1(k), "close1", "done")

ThreadNext(k) ==
    \/ Accept(k) \/ ReadRequest(k) \/ RequestExit(k) \/ RequestLeftover(k)
    \/ ReadCred(k) \/ CredExit(k) \/ SendListing(k) \/ ListFails(k)
    \/ ReadPart1(k) \/ ReadPart2(k)
    \/ Open1(k) \/ Open2(k) \/ OpenFails(k) \/ Close2(k) \/ Close1(k)

StrayNext(s) == AcceptFails(s) \/ StrayWrite(s)
=============================================================================
