-------------------------------- MODULE Http --------------------------------
(***************************************************************************)
(* What the HTTP server of 4273-PA2 is checked for.                        *)
(***************************************************************************)
EXTENDS HttpServer

Service == INSTANCE HttpService
               WITH ended <- {c \in Conns : link[c] = "ended"}, up <- alive

\* The threads implement the service: whatever they interleave, and whatever
\* descriptors accept() and fopen() give them again, a client gets the length and
\* then the bytes of the file it asked for, and close() comes after the last one.
\* (As long as SmallFilesAreText: what is sent of a file with a zero byte is less
\* than its header says.)
ServiceSpec == Service!Spec

SmallFilesAreText == \A p \in Paths : Size[p] < MAXBUF => Text[p] = Size[p]

\* The files for which a thread returns without fclose(): those sent by the loop,
\* empty ones, and whatever was opened when the index page is sent instead.
Leaky(p) == p # NoPath /\ (Kind[p] = "other" \/ Size[p] = 0 \/ Size[p] >= MAXBUF)

Busy(t) == tpc[t] # "idle"
Holds(t) == tpc[t] \in {"head", "small", "chunk", "index", "page"}

\* The streams opened for a connection, and those that no thread has any more.
StreamsOf(c) == {d \in Fds : table[d] = [is |-> "stream", of |-> c]}
Behind(c) == {d \in StreamsOf(c) : \A t \in Threads : Holds(t) => fp[t] # d}

\* What is left behind in the table of descriptors: never a connection, and of a
\* request at most one stream, which is that of a file the code does not close or
\* of a client that went away.
LeaksBounded ==
    /\ \A d \in Fds : table[d].is = "conn" => \E t \in Threads : Busy(t) /\ fd[t] = d
    /\ \A c \in Conns : \A d \in Behind(c) :
          (c \in gone \/ Leaky(asked[c])) /\ Behind(c) = {d}

\* The process ends only when a client has left, or asked for a file that is not
\* there, or no descriptor is left (now, or when accept() failed for a thread):
\* no interleaving of requests for files that exist ends it.
EndsOnlyFor ==
    ~alive =>
        \/ gone # {}
        \/ \E c \in Conns : asked[c] # NoPath /\ Kind[asked[c]] = "missing"
        \/ Unused = {}
        \/ \E t \in Threads : Busy(t) /\ fd[t] = NoFd

\* Every request is answered to the end, unless its client leaves or the server ends.
Answered ==
    \A c \in Conns : asked[c] # NoPath ~> link[c] = "ended" \/ c \in gone \/ ~alive
\* Nobody is forgotten: an accepted connection has a thread at work on it, until that
\* thread closes it.
Attended ==
    \A c \in Conns : link[c] = "accepted" =>
        \E t \in Threads : Busy(t) /\ Has(t) /\ Peer(t) = c

\* Nobody waits for ever: no step of another sets a thread back, and each of its own
\* brings it closer to close(), by a later point or by bytes in the loop.
Todo == [idle |-> 0, close |-> 1, small |-> 2, chunk |-> 2, page |-> 2, head |-> 3, index |-> 3,
         open |-> 4, read |-> 5, start |-> 6]
Closer(t) ==
    \/ Todo[tpc'[t]] < Todo[tpc[t]]
    \/ tpc'[t] = tpc[t] /\ left'[t] < left[t]
StepsOn(t) == Closer(t) \/ (UNCHANGED <<tpc[t], left[t]>> /\ (Thread(t) => ~alive'))
Progress == [][\A t \in Threads : Busy(t) => StepsOn(t)]_vars
-----------------------------------------------------------------------------
\* The inductive invariant.

\* A thread at work has an accepted connection to itself, or none.
OwnConnection ==
    \A t \in Threads : Busy(t) /\ Has(t) =>
        /\ \E c \in Conns : table[fd[t]] = [is |-> "conn", of |-> c] /\ link[c] = "accepted"
        /\ \A u \in Threads \ {t} : Busy(u) => fd[u] # fd[t]

\* No connection has two descriptors, and one that is accepted has a thread.
OneDescriptor ==
    /\ \A d, e \in Fds : table[d].is = "conn" /\ table[d] = table[e] => d = e
    /\ \A d \in Fds : table[d].is = "conn" =>
          table[d].of \in Conns /\ \E t \in Threads : Busy(t) /\ fd[t] = d
    /\ \A d \in Fds : table[d].is \in {"free", "conn", "stream"}

\* The stream that a thread has open is its own, and for its connection.
OwnStream ==
    \A t \in Threads : Holds(t) =>
        /\ fp[t] \in Fds
        /\ table[fp[t]] = [is |-> "stream", of |-> IF Has(t) THEN Peer(t) ELSE Nobody]
        /\ \A u \in Threads \ {t} : Holds(u) => fp[u] # fp[t]

\* How far a thread has got is what its client has been sent.
Sending(t) ==
    LET c == Peer(t)
        p == path[t]
    IN  /\ tpc[t] \in {"start", "read", "open", "head", "index", "page"} =>
              head[c] = NoHead /\ body[c] = 0
        /\ tpc[t] \notin {"start", "read"} => p = asked[c]
        /\ tpc[t] \in {"small", "chunk", "close"} => head[c] = Length[p]
        /\ tpc[t] = "small" => body[c] = 0
        /\ tpc[t] = "chunk" => body[c] = Size[p] - left[t]
        /\ tpc[t] = "close" => body[c] = Sent(p)

\* What t still has to send of the file it has open.
Remaining(t) ==
    /\ tpc[t] \in {"head", "small"} => left[t] = Size[path[t]]
    /\ tpc[t] \in {"head", "small", "chunk"} => Kind[path[t]] = "typed"
    /\ tpc[t] = "small" => left[t] < MAXBUF
    /\ tpc[t] = "chunk" => left[t] \in 1..Size[path[t]] /\ Size[path[t]] >= MAXBUF
    /\ tpc[t] \in {"index", "page"} => Kind[path[t]] = "other"

Answers ==
    /\ \A t \in Threads : Remaining(t)
    /\ \A t \in Threads : Busy(t) /\ Has(t) /\ Peer(t) \notin gone => Sending(t)
    /\ \A c \in Conns : link[c] \in {"new", "queued"} => head[c] = NoHead /\ body[c] = 0
    /\ \A c \in Conns \ gone : link[c] = "ended" =>
          /\ asked[c] # NoPath
          /\ head[c] = Length[asked[c]] /\ body[c] = Sent(asked[c])

\* A request opens its first stream with "open" and, for the index page, another.
Streams(c) ==
    /\ link[c] \in {"new", "queued"} => StreamsOf(c) = {}
    /\ \A t \in Threads : Busy(t) /\ Has(t) /\ Peer(t) = c =>
          /\ tpc[t] \in {"start", "read", "open"} => StreamsOf(c) = {}
          /\ tpc[t] \in {"head", "small", "chunk", "index"} => StreamsOf(c) = {fp[t]}
    /\ \A d \in Behind(c) : (c \in gone \/ Leaky(asked[c])) /\ Behind(c) = {d}

HttpInv == OwnConnection /\ OneDescriptor /\ OwnStream /\ Answers
StreamInv == \A c \in Conns : Streams(c)
=============================================================================
