----------------------------- MODULE HttpServer -----------------------------
(***************************************************************************)
(* httpechosrv.c: main() accepts connections and starts a thread for each; *)
(* a thread reads one request, sends one file and closes the connection.   *)
(* All of them share the table of descriptors, and exit() and SIGPIPE.     *)
(*                                                                         *)
(* A thread that is done may be started again: its stack, and what it left *)
(* there, is given to a later thread.                                      *)
(***************************************************************************)
EXTENDS Descriptors

CONSTANTS
    Threads,    \* as many as the process may have at once
    Paths,      \* what a request may name
    Kind,       \* [Paths -> "typed", "other" or "missing"]: fopen() succeeds and
                \* the extension is known, or is not, or fopen() fails
    Size,       \* [Paths -> Nat]: the bytes of the file
    Text,       \* [Paths -> Nat]: those before its first zero byte
    Index,      \* www/index.html
    Junk,       \* the paths that an uninitialised buffer may hold
    NoPath,     \* nothing asked, or parsed, yet
    NoHead      \* no header sent yet

MAXBUF == 8192

ASSUME HttpAssumption ==
    /\ Kind \in [Paths -> {"typed", "other", "missing"}]
    /\ Size \in [Paths -> Nat] /\ Text \in [Paths -> Nat]
    /\ \A p \in Paths : Text[p] <= Size[p]
    /\ Index \in Paths /\ Size[Index] < MAXBUF
    /\ Junk \subseteq Paths /\ Junk # {}
    /\ NoPath \notin Paths /\ NoHead \notin Nat

\* Content-Length, and how much of the file follows it: all of a large file, and
\* the strlen() of a small one.
Length == [p \in Paths |-> IF Kind[p] = "other" THEN Size[Index] ELSE Size[p]]
Sent(p) == IF Kind[p] = "other" THEN Text[Index]
           ELSE IF Size[p] < MAXBUF THEN Text[p] ELSE Size[p]

VARIABLES
    link,       \* [Conns -> where the connection is, for the server]
    asked,      \* [Conns -> the path its client asked for, or NoPath]
    gone,       \* the connections whose client has left
    head,       \* [Conns -> the Content-Length its client was sent, or NoHead]
    body,       \* [Conns -> the bytes its client was sent after the header]
    tpc,        \* [Threads -> where the thread is]
    fd,         \* [Threads -> *connfdp, then connfd]
    fp,         \* [Threads -> the descriptor of fp]
    path,       \* [Threads -> fullPath]
    left,       \* [Threads -> fileSize]
    alive       \* the process runs

browser == <<asked, gone>>
replies == <<head, body>>
stack   == <<fp, path, left>>
vars    == <<table, link, browser, replies, tpc, fd, stack, alive>>

TypeOK ==
    /\ TableTypeOK
    /\ link \in [Conns -> {"new", "queued", "accepted", "ended"}]
    /\ asked \in [Conns -> Paths \cup {NoPath}]
    /\ gone \subseteq Conns
    /\ head \in [Conns -> Nat \cup {NoHead}]
    /\ body \in [Conns -> Nat]
    /\ tpc \in [Threads -> {"idle", "start", "read", "open", "head", "small", "chunk",
                            "index", "page", "close"}]
    /\ fd \in [Threads -> Fds \cup {NoFd}]
    /\ fp \in [Threads -> Fds \cup {NoFd}]
    /\ path \in [Threads -> Paths \cup {NoPath}]
    /\ left \in [Threads -> Nat]
    /\ alive \in BOOLEAN
    /\ \A t \in Threads : tpc[t] \notin {"idle", "start", "read"} => path[t] \in Paths

Init ==
    /\ TableInit
    /\ link = [c \in Conns |-> "new"]
    /\ asked = [c \in Conns |-> NoPath]
    /\ gone = {}
    /\ head = [c \in Conns |-> NoHead]
    /\ body = [c \in Conns |-> 0]
    /\ tpc = [t \in Threads |-> "idle"]
    /\ fd = [t \in Threads |-> NoFd]
    /\ fp = [t \in Threads |-> NoFd]
    /\ path = [t \in Threads |-> NoPath]
    /\ left = [t \in Threads |-> 0]
    /\ alive = TRUE
-----------------------------------------------------------------------------
\* The browsers: connect, send one request, leave at any time.

Connect(c) ==
    /\ link[c] = "new"
    /\ link' = [link EXCEPT ![c] = "queued"]
    /\ UNCHANGED <<table, browser, replies, tpc, fd, stack, alive>>

Ask(c) ==
    /\ link[c] \in {"queued", "accepted"} /\ c \notin gone /\ asked[c] = NoPath
    /\ \E p \in Paths : asked' = [asked EXCEPT ![c] = p]
    /\ UNCHANGED <<table, link, gone, replies, tpc, fd, stack, alive>>

Leave(c) ==
    /\ link[c] \in {"queued", "accepted"} /\ c \notin gone
    /\ gone' = gone \cup {c}
    /\ UNCHANGED <<table, link, asked, replies, tpc, fd, stack, alive>>

Browser(c) == alive /\ (Connect(c) \/ Ask(c) \/ Leave(c))
-----------------------------------------------------------------------------
\* main(): accept() and pthread_create().  The thread is handed an int of its own.
\* (Variant: the address of main()'s variable, which the next accept() overwrites.)
HandShared(t, d) == fd' = [u \in Threads |-> IF u = t \/ tpc[u] = "start" THEN d ELSE fd[u]]
Hand(t, d) == fd' = [fd EXCEPT ![t] = d]

Accept(c, t) ==
    /\ link[c] = "queued" /\ tpc[t] = "idle"
    /\ \E d \in Fds : Lowest(d) /\ Opens(d, "conn", c) /\ Hand(t, d)
    /\ link' = [link EXCEPT ![c] = "accepted"]
    /\ tpc' = [tpc EXCEPT ![t] = "start"]
    /\ UNCHANGED <<browser, replies, stack, alive>>

\* No descriptor is left: accept() returns -1, which is handed over all the same.
AcceptFails(t) ==
    /\ tpc[t] = "idle" /\ Unused = {}
    /\ Hand(t, NoFd)
    /\ tpc' = [tpc EXCEPT ![t] = "start"]
    /\ UNCHANGED <<table, link, browser, replies, stack, alive>>

Main == alive /\ \E t \in Threads : AcceptFails(t) \/ \E c \in Conns : Accept(c, t)
-----------------------------------------------------------------------------
At(t, pc) == tpc[t] = pc
Goto(t, pc) == tpc' = [tpc EXCEPT ![t] = pc]

\* The connection that t was started for, as its descriptor finds it.
Has(t)  == fd[t] \in Fds
Peer(t) == table[fd[t]].of
PeerGone(t) == Has(t) /\ Peer(t) \in gone

\* exit(), or a signal: the process ends with all its threads and connections.
Exit == alive' = FALSE /\ UNCHANGED <<table, link, browser, replies, tpc, fd, stack>>

Start(t) == At(t, "start") /\ Goto(t, "read")
            /\ UNCHANGED <<table, link, browser, replies, fd, stack, alive>>

\* read() and sscanf() of the request.
Parsed(t, p) ==
    /\ path' = [path EXCEPT ![t] = p]
    /\ Goto(t, "open")
    /\ UNCHANGED <<table, link, browser, replies, fd, fp, left, alive>>

ReadRequest(t) ==
    /\ At(t, "read")
    /\ Has(t) /\ asked[Peer(t)] # NoPath
    /\ Parsed(t, asked[Peer(t)])

\* Nothing to read: fullPath is not set and holds what is on the stack.
ReadNothing(t) ==
    /\ At(t, "read")
    /\ ~Has(t) \/ PeerGone(t)
    /\ \E p \in Junk \cup ({path[t]} \ {NoPath}) : Parsed(t, p)

\* fopen() of the path, and the size of the file.
Open(t) ==
    /\ At(t, "open") /\ Kind[path[t]] # "missing"
    /\ \E d \in Fds :
          /\ Lowest(d)
          /\ Opens(d, "stream", IF Has(t) THEN Peer(t) ELSE Nobody)
          /\ fp' = [fp EXCEPT ![t] = d]
    /\ left' = [left EXCEPT ![t] = Size[path[t]]]
    /\ Goto(t, IF Kind[path[t]] = "typed" THEN "head" ELSE "index")
    /\ UNCHANGED <<link, browser, replies, fd, path, alive>>

OpenFails(t) ==
    /\ At(t, "open") /\ (Kind[path[t]] = "missing" \/ Unused = {})
    /\ Exit

\* write(): what arrives at a client that is still there.
Writes(t, announced, n) ==
    IF Has(t) /\ ~PeerGone(t)
    THEN /\ head' = [head EXCEPT ![Peer(t)] = announced]
         /\ body' = [body EXCEPT ![Peer(t)] = @ + n]
    ELSE UNCHANGED replies
WritesMore(t, n) == Writes(t, head[Peer(t)], n)

SendHead(t) ==
    /\ At(t, "head")
    /\ Writes(t, Length[path[t]], 0)
    /\ Goto(t, IF left[t] < MAXBUF THEN "small" ELSE "chunk")
    /\ UNCHANGED <<table, link, browser, fd, stack, alive>>

\* A file of less than MAXBUF bytes; an empty one is not written, nor closed.
SendSmall(t) ==
    /\ At(t, "small") /\ left[t] > 0
    /\ WritesMore(t, Text[path[t]])
    /\ Closes(fp[t])
    /\ Goto(t, "close")
    /\ UNCHANGED <<link, browser, fd, stack, alive>>

\* (Variant: exit() where fread() returns nothing.)
SendEmptyExit(t) == At(t, "small") /\ left[t] = 0 /\ Exit
SendEmpty(t) ==
    /\ At(t, "small") /\ left[t] = 0
    /\ Goto(t, "close")
    /\ UNCHANGED <<table, link, browser, replies, fd, stack, alive>>

\* One round of the loop for larger files, whose stream is not closed.
\* (Variants: the last piece is written whole, or not at all; a round is not counted.)
ChunkWhole(t) == MAXBUF
Chunk(t) == IF left[t] >= MAXBUF THEN MAXBUF ELSE left[t]

SendChunkDropsTail(t) ==
    /\ At(t, "chunk")
    /\ WritesMore(t, Chunk(t))
    /\ left' = [left EXCEPT ![t] = @ - Chunk(t)]
    /\ Goto(t, IF left[t] - Chunk(t) < MAXBUF THEN "close" ELSE "chunk")
    /\ UNCHANGED <<table, link, browser, fd, fp, path, alive>>
SendChunkAgain(t) ==
    /\ At(t, "chunk")
    /\ WritesMore(t, Chunk(t))
    /\ Goto(t, IF left[t] = Chunk(t) THEN "close" ELSE "chunk")
    /\ UNCHANGED <<table, link, browser, fd, stack, alive>>
SendChunk(t) ==
    /\ At(t, "chunk")
    /\ WritesMore(t, Chunk(t))
    /\ left' = [left EXCEPT ![t] = @ - Chunk(t)]
    /\ Goto(t, IF left[t] = Chunk(t) THEN "close" ELSE "chunk")
    /\ UNCHANGED <<table, link, browser, fd, fp, path, alive>>

\* The index page: fopen() over the stream that is open, then fread(), fclose()
\* and one write() of the header and the page.
OpenIndex(t) ==
    /\ At(t, "index")
    /\ \E d \in Fds :
          /\ Lowest(d)
          /\ Opens(d, "stream", IF Has(t) THEN Peer(t) ELSE Nobody)
          /\ fp' = [fp EXCEPT ![t] = d]
    /\ Goto(t, "page")
    /\ UNCHANGED <<link, browser, replies, fd, path, left, alive>>

OpenIndexFails(t) == At(t, "index") /\ Unused = {} /\ Exit

\* (Variant: no fclose().)
SendIndexOpen(t) ==
    /\ At(t, "page")
    /\ Writes(t, Size[Index], Text[Index])
    /\ Goto(t, "close")
    /\ UNCHANGED <<table, link, browser, fd, stack, alive>>
SendIndex(t) ==
    /\ At(t, "page")
    /\ Closes(fp[t])
    /\ Writes(t, Size[Index], Text[Index])
    /\ Goto(t, "close")
    /\ UNCHANGED <<link, browser, fd, stack, alive>>

\* A write() to a client that has left may raise SIGPIPE, which nobody handles.
SigPipe(t) ==
    /\ tpc[t] \in {"head", "chunk", "page"} \/ (At(t, "small") /\ Text[path[t]] > 0)
    /\ PeerGone(t)
    /\ Exit

\* (Variant: the thread returns without close().)
CloseNot(t) ==
    /\ At(t, "close") /\ Goto(t, "idle")
    /\ UNCHANGED <<table, link, browser, replies, fd, stack, alive>>

Close(t) ==
    /\ At(t, "close")
    /\ Closes(fd[t])
    /\ link' = IF Has(t) THEN [link EXCEPT ![Peer(t)] = "ended"] ELSE link
    /\ Goto(t, "idle")
    /\ UNCHANGED <<browser, replies, fd, stack, alive>>

Thread(t) ==
    /\ alive
    /\ \/ Start(t) \/ ReadRequest(t) \/ ReadNothing(t) \/ Open(t) \/ OpenFails(t)
       \/ SendHead(t) \/ SendSmall(t) \/ SendEmpty(t) \/ SendChunk(t)
       \/ OpenIndex(t) \/ OpenIndexFails(t) \/ SendIndex(t) \/ SigPipe(t) \/ Close(t)

Next == Main \/ (\E t \in Threads : Thread(t)) \/ (\E c \in Conns : Browser(c))

Spec == Init /\ [][Next]_vars

\* main() and every thread that can go on does; clients need not do anything.
Fairness == WF_vars(Main) /\ \A t \in Threads : WF_vars(Thread(t))

FairSpec == Spec /\ Fairness
=============================================================================
