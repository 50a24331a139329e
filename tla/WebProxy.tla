------------------------------ MODULE WebProxy ------------------------------
(***************************************************************************)
(* webProxy.c: main() accepts connections and starts a thread for each; a  *)
(* thread reads one request, looks its host up, compares it with the       *)
(* blacklist, and sends the request to the host and the answer back.  The  *)
(* threads share the table of descriptors, the one result that             *)
(* gethostbyname() keeps, and exit() and signals.                          *)
(*                                                                         *)
(* A thread that is done may be started again: its stack, and what it left *)
(* there, is given to a later thread.                                      *)
(***************************************************************************)
EXTENDS Descriptors

CONSTANTS
    Threads,    \* as many as the process may have at once
    Names,      \* the names of hosts
    Known,      \* those that gethostbyname() finds
    Address,    \* [Known -> their addresses]
    Torn,       \* the addresses that half rewritten bytes of others may make
    Up,         \* the addresses that accept a connection on port 80
    Blacklist,  \* the names in blacklist.txt
    Requests,   \* what clients send: whether it is a GET, and for which host
    Junk,       \* the names that an uninitialised buffer may hold
    NoName,     \* of a request whose URL does not begin with "http://"
    NoRequest,  \* nothing sent yet
    NoAddress,  \* no host
    Itself      \* the proxy's own 400 response

Addresses == {Address[n] : n \in Known}
Hosts == Addresses \cup Torn

ASSUME ProxyAssumption ==
    /\ Known \subseteq Names /\ Blacklist \subseteq Names /\ Junk \subseteq Names /\ Junk # {}
    /\ NoName \notin Names
    /\ Requests \subseteq [get : BOOLEAN, name : Names \cup {NoName}]
    /\ NoRequest \notin Requests
    /\ NoAddress \notin Hosts /\ Itself \notin Hosts /\ NoAddress # Itself

VARIABLES
    link,       \* [Conns -> where the connection is, for the proxy]
    asked,      \* [Conns -> the request its client sent, or NoRequest]
    gone,       \* the connections whose client has left
    sent,       \* [Conns -> the host its request was sent to, or NoAddress]
    reply,      \* [Conns -> whose response its client was sent, or NoAddress]
    resolved,   \* the result of gethostbyname(), which all threads share
    tpc,        \* [Threads -> where the thread is]
    fd,         \* [Threads -> connfd]
    list,       \* [Threads -> the descriptor of bList]
    get,        \* [Threads -> requestType is "GET"]
    name,       \* [Threads -> hostname]
    addr,       \* [Threads -> serveraddr.sin_addr]
    alive       \* the process runs

clients == <<asked, gone>>
results == <<sent, reply>>
stack   == <<list, get, name, addr>>
vars    == <<table, link, clients, results, resolved, tpc, fd, stack, alive>>

TypeOK ==
    /\ TableTypeOK
    /\ link \in [Conns -> {"new", "queued", "accepted", "ended"}]
    /\ asked \in [Conns -> Requests \cup {NoRequest}]
    /\ gone \subseteq Conns
    /\ sent \in [Conns -> Hosts \cup {NoAddress}]
    /\ reply \in [Conns -> Hosts \cup {NoAddress, Itself}]
    /\ resolved \in Addresses \cup {NoAddress}
    /\ tpc \in [Threads -> {"idle", "read", "lookup", "list", "check", "resolve", "copy",
                            "send", "relay", "done"}]
    /\ fd \in [Threads -> Fds \cup {NoFd}]
    /\ list \in [Threads -> Fds \cup {NoFd}]
    /\ get \in [Threads -> BOOLEAN]
    /\ name \in [Threads -> Names \cup {NoName}]
    /\ addr \in [Threads -> Hosts \cup {NoAddress}]
    /\ alive \in BOOLEAN
    /\ \A t \in Threads :
          /\ tpc[t] \notin {"idle", "read"} => name[t] \in Names
          /\ tpc[t] \in {"list", "check", "resolve", "copy", "send", "relay"} => name[t] \in Known
          /\ tpc[t] = "copy" => resolved \in Addresses
          /\ tpc[t] \in {"send", "relay"} => addr[t] \in Hosts

Init ==
    /\ TableInit
    /\ link = [c \in Conns |-> "new"]
    /\ asked = [c \in Conns |-> NoRequest]
    /\ gone = {}
    /\ sent = [c \in Conns |-> NoAddress]
    /\ reply = [c \in Conns |-> NoAddress]
    /\ resolved = NoAddress
    /\ tpc = [t \in Threads |-> "idle"]
    /\ fd = [t \in Threads |-> NoFd]
    /\ list = [t \in Threads |-> NoFd]
    /\ get = [t \in Threads |-> FALSE]
    /\ name = [t \in Threads |-> NoName]
    /\ addr = [t \in Threads |-> NoAddress]
    /\ alive = TRUE
-----------------------------------------------------------------------------
\* The clients: connect, send one request, leave at any time.

Connect(c) ==
    /\ link[c] = "new"
    /\ link' = [link EXCEPT ![c] = "queued"]
    /\ UNCHANGED <<table, clients, results, resolved, tpc, fd, stack, alive>>

Ask(c) ==
    /\ link[c] \in {"queued", "accepted"} /\ c \notin gone /\ asked[c] = NoRequest
    /\ \E r \in Requests : asked' = [asked EXCEPT ![c] = r]
    /\ UNCHANGED <<table, link, gone, results, resolved, tpc, fd, stack, alive>>

Leave(c) ==
    /\ link[c] \in {"queued", "accepted"} /\ c \notin gone
    /\ gone' = gone \cup {c}
    /\ UNCHANGED <<table, link, asked, results, resolved, tpc, fd, stack, alive>>

Client(c) == alive /\ (Connect(c) \/ Ask(c) \/ Leave(c))
-----------------------------------------------------------------------------
\* main(): accept() and pthread_create(); a -1 is handed over all the same.

Accept(c, t) ==
    /\ link[c] = "queued" /\ tpc[t] = "idle"
    /\ \E d \in Fds : /\ Lowest(d) /\ Opens(d, "conn", c)
                      /\ fd' = [fd EXCEPT ![t] = d]
    /\ link' = [link EXCEPT ![c] = "accepted"]
    /\ tpc' = [tpc EXCEPT ![t] = "read"]
    /\ UNCHANGED <<clients, results, resolved, stack, alive>>

AcceptFails(t) ==
    /\ tpc[t] = "idle" /\ Unused = {}
    /\ fd' = [fd EXCEPT ![t] = NoFd]
    /\ tpc' = [tpc EXCEPT ![t] = "read"]
    /\ UNCHANGED <<table, link, clients, results, resolved, stack, alive>>

Main == alive /\ \E t \in Threads : AcceptFails(t) \/ \E c \in Conns : Accept(c, t)
-----------------------------------------------------------------------------
At(t, pc) == tpc[t] = pc
Goto(t, pc) == tpc' = [tpc EXCEPT ![t] = pc]

\* The connection that t was started for, as its descriptor finds it.
Has(t)  == fd[t] \in Fds
Peer(t) == table[fd[t]].of
PeerGone(t) == Has(t) /\ Peer(t) \in gone

\* exit(), or a signal: the process ends with all its threads and connections.
Exits == alive' = FALSE /\ UNCHANGED <<table, link, clients, sent, resolved, tpc, fd, stack>>
Exit == Exits /\ UNCHANGED reply

\* A response from whom, which reaches a client that is still there.
Answer(t, whom) ==
    reply' = IF Has(t) /\ ~PeerGone(t) THEN [reply EXCEPT ![Peer(t)] = whom] ELSE reply

\* close(connfd)
CloseConn(t) ==
    /\ Closes(fd[t])
    /\ link' = IF Has(t) THEN [link EXCEPT ![Peer(t)] = "ended"] ELSE link

\* read() and sscanf() of the request.  Where no host is found in it, hostname is
\* not set and holds what is on the stack.
Parsed(t, isGet, found) ==
    /\ get' = [get EXCEPT ![t] = isGet]
    /\ \E n \in IF found # NoName THEN {found} ELSE Junk \cup ({name[t]} \ {NoName}) :
          name' = [name EXCEPT ![t] = n]
    /\ Goto(t, "lookup")
    /\ UNCHANGED <<table, link, clients, results, resolved, fd, list, addr, alive>>

ReadRequest(t) ==
    /\ At(t, "read")
    /\ Has(t) /\ asked[Peer(t)] # NoRequest
    /\ Parsed(t, asked[Peer(t)].get, asked[Peer(t)].name)

\* Nothing to read: accept() had failed, or the client has left.
ReadNothing(t) ==
    /\ At(t, "read")
    /\ ~Has(t) \/ PeerGone(t)
    /\ Parsed(t, FALSE, NoName)

\* The first gethostbyname(); a host that is not found ends the process.
\* (Variant: the result is not compared with NULL.)
LookupUnchecked(t) ==
    /\ At(t, "lookup")
    /\ resolved' = IF name[t] \in Known THEN Address[name[t]] ELSE resolved
    /\ Goto(t, "list")
    /\ UNCHANGED <<table, link, clients, results, fd, stack, alive>>
Lookup(t) ==
    /\ At(t, "lookup") /\ name[t] \in Known
    /\ resolved' = Address[name[t]]
    /\ Goto(t, "list")
    /\ UNCHANGED <<table, link, clients, results, fd, stack, alive>>

LookupFails(t) ==
    /\ At(t, "lookup") /\ name[t] \notin Known
    /\ Answer(t, Itself)
    /\ Exits

\* fopen() of the blacklist, and the fgets() that takes its NULL.
OpenList(t) ==
    /\ At(t, "list")
    /\ \E d \in Fds : /\ Lowest(d) /\ Opens(d, "stream", Nobody)
                      /\ list' = [list EXCEPT ![t] = d]
    /\ Goto(t, "check")
    /\ UNCHANGED <<link, clients, results, resolved, fd, get, name, addr, alive>>

OpenListFails(t) == At(t, "list") /\ Unused = {} /\ Exit

\* The loop over the blacklist.
\* (Variants: no comparison; the connection is not closed; exit() as for a host
\* that is not found.)
ListedNot(t) == FALSE
Listed(t) == name[t] \in Blacklist

BlockKeeps(t) ==
    /\ At(t, "check") /\ Listed(t)
    /\ Goto(t, "done")
    /\ UNCHANGED <<table, link, clients, results, resolved, fd, stack, alive>>
Block(t) ==
    /\ At(t, "check") /\ Listed(t)
    /\ CloseConn(t)
    /\ Goto(t, "done")
    /\ UNCHANGED <<clients, results, resolved, fd, stack, alive>>

RejectExit(t) ==
    At(t, "check") /\ ~Listed(t) /\ ~get[t] /\ Answer(t, Itself) /\ Exits
Reject(t) ==
    /\ At(t, "check") /\ ~Listed(t) /\ ~get[t]
    /\ Answer(t, Itself)
    /\ CloseConn(t)
    /\ Goto(t, "done")
    /\ UNCHANGED <<clients, sent, resolved, fd, stack, alive>>

\* forwardClientReq(): a socket, which nobody closes.
Socket(t) ==
    /\ At(t, "check") /\ ~Listed(t) /\ get[t]
    /\ \E d \in Fds : Lowest(d) /\ Opens(d, "origin", Peer(t))
    /\ Goto(t, "resolve")
    /\ UNCHANGED <<link, clients, results, resolved, fd, stack, alive>>

SocketFails(t) ==
    /\ At(t, "check") /\ ~Listed(t) /\ get[t] /\ Unused = {}
    /\ Goto(t, "done")
    /\ UNCHANGED <<table, link, clients, results, resolved, fd, stack, alive>>

\* The second gethostbyname(), and the copy of its result.
\* (Variant: the result of the first one is used.)
ResolveKept(t) ==
    /\ At(t, "resolve")
    /\ Goto(t, "copy")
    /\ UNCHANGED <<table, link, clients, results, resolved, fd, stack, alive>>
Resolve(t) ==
    /\ At(t, "resolve")
    /\ resolved' = Address[name[t]]
    /\ Goto(t, "copy")
    /\ UNCHANGED <<table, link, clients, results, fd, stack, alive>>

\* While another thread is in gethostbyname(), the result is the last one, or is
\* already that of the call, or some of the bytes of each, or has no address to copy
\* (h_addr_list[0] is NULL).
Others(t) == {u \in Threads \ {t} : At(u, "lookup") \/ At(u, "resolve")}
Found(t) == {resolved} \cup {Address[name[u]] : u \in {v \in Others(t) : name[v] \in Known}}
                       \cup {a \in Torn : Others(t) # {}}

Copy(t) ==
    /\ At(t, "copy")
    /\ \E a \in Found(t) : addr' = [addr EXCEPT ![t] = a]
    /\ Goto(t, "send")
    /\ UNCHANGED <<table, link, clients, results, resolved, fd, list, get, name, alive>>

CopyFails(t) == At(t, "copy") /\ Others(t) # {} /\ Exit

\* connect() and send(): where connect() failed, send() raises SIGPIPE.
\* (Variant: the request may be sent once more.)
ForwardAgain(t) ==
    /\ At(t, "send") /\ addr[t] \in Up
    /\ sent' = [sent EXCEPT ![Peer(t)] = addr[t]]
    /\ Goto(t, "relay") \/ Goto(t, "resolve")
    /\ UNCHANGED <<table, link, clients, reply, resolved, fd, stack, alive>>
Forward(t) ==
    /\ At(t, "send") /\ addr[t] \in Up
    /\ sent' = [sent EXCEPT ![Peer(t)] = addr[t]]
    /\ Goto(t, "relay")
    /\ UNCHANGED <<table, link, clients, reply, resolved, fd, stack, alive>>

ForwardFails(t) == At(t, "send") /\ addr[t] \notin Up /\ Exit

\* read() of the response and write() of it to the client, which is not closed.
\* (Variant: nothing is written where read() returns nothing.)
RelayNothing(t) ==
    /\ At(t, "relay")
    /\ Goto(t, "done")
    /\ UNCHANGED <<table, link, clients, results, resolved, fd, stack, alive>>
Relay(t) ==
    /\ At(t, "relay")
    /\ Answer(t, addr[t])
    /\ Goto(t, "done")
    /\ UNCHANGED <<table, link, clients, sent, resolved, fd, stack, alive>>

\* A write() to a client that has left may raise SIGPIPE, which nobody handles.
SigPipe(t) ==
    /\ (At(t, "check") /\ ~Listed(t) /\ ~get[t]) \/ At(t, "relay")
    /\ PeerGone(t)
    /\ Exit

\* fclose(bList), and the thread returns.
\* (Variant: no fclose().)
CloseListNot(t) ==
    /\ At(t, "done") /\ Goto(t, "idle")
    /\ UNCHANGED <<table, link, clients, results, resolved, fd, stack, alive>>
CloseList(t) ==
    /\ At(t, "done")
    /\ Closes(list[t])
    /\ Goto(t, "idle")
    /\ UNCHANGED <<link, clients, results, resolved, fd, stack, alive>>

Thread(t) ==
    /\ alive
    /\ \/ ReadRequest(t) \/ ReadNothing(t) \/ Lookup(t) \/ LookupFails(t)
       \/ OpenList(t) \/ OpenListFails(t) \/ Block(t) \/ Reject(t)
       \/ Socket(t) \/ SocketFails(t) \/ Resolve(t) \/ Copy(t) \/ CopyFails(t)
       \/ Forward(t) \/ ForwardFails(t) \/ Relay(t) \/ SigPipe(t) \/ CloseList(t)

Next == Main \/ (\E t \in Threads : Thread(t)) \/ (\E c \in Conns : Client(c))

Spec == Init /\ [][Next]_vars

\* main() and every thread that can go on does, and hosts that are up answer.
Fairness == WF_vars(Main) /\ \A t \in Threads : WF_vars(Thread(t))

FairSpec == Spec /\ Fairness
=============================================================================
