------------------------------- MODULE Proxy -------------------------------
(***************************************************************************)
(* What the HTTP proxy of 4273-PA3 is checked for.                         *)
(***************************************************************************)
EXTENDS WebProxy

Service == INSTANCE ProxyService
               WITH ended <- {c \in Conns : link[c] = "ended"}, up <- alive

\* The threads implement the service: however they overtake each other and take
\* each other's lookups, a request goes out at most once and only if the blacklist
\* does not have the name in it, its client gets one response, of the host it went
\* to, and nothing after the proxy's own.
ServiceSpec == Service!Spec

Serves(t) == tpc[t] \notin {"idle", "done"}
HasList(t) == tpc[t] \in {"check", "resolve", "copy", "send", "relay", "done"}

Asked(c) == asked[c] # NoRequest
LetThrough(c) == Asked(c) /\ asked[c].get /\ asked[c].name \notin Blacklist

\* What a client is sent fits what it asked for, although descriptors are used
\* again and threads overtake each other: only a GET that names a host not on the
\* blacklist leaves the proxy, its client gets the response of the host that the
\* request was sent to, and 400 or the end of the connection is for the others.
Fit(c) ==
    /\ sent[c] # NoAddress => LetThrough(c)
    /\ reply[c] \in Hosts => reply[c] = sent[c]
    /\ reply[c] = Itself => Asked(c) /\ (~asked[c].get \/ asked[c].name \notin Known)
    /\ link[c] = "ended" /\ c \notin gone =>
          Asked(c) /\ (~asked[c].get \/ asked[c].name \notin Known \ Blacklist)
AnswersFit == \A c \in Conns : Fit(c)

\* The hosts that clients have asked for, and those an unset hostname may name.
Wanted(a) ==
    \/ \E c \in Conns : Asked(c) /\ asked[c].name \in Known /\ a = Address[asked[c].name]
    \/ \E n \in Junk \cap Known : a = Address[n]

\* Every request is sent to the host that its own client named.
OwnHost ==
    \A c \in Conns : sent[c] # NoAddress /\ asked[c].name \in Known =>
        sent[c] = Address[asked[c].name]

\* The descriptors that are open on a connection, or on a host for it.
Ends(c)    == {d \in Fds : table[d] = [is |-> "conn", of |-> c]}
Origins(c) == {d \in Fds : table[d] = [is |-> "origin", of |-> c]}

\* What is left behind in the table of descriptors: never the blacklist, nor the
\* connection of a request that was not let through; of one that was, its connection
\* and at most one socket.
Leaks(c) ==
    /\ \A d \in Ends(c) :
          Ends(c) = {d} /\ (LetThrough(c) \/ \E t \in Threads : Serves(t) /\ fd[t] = d)
    /\ \A d \in Origins(c) : Origins(c) = {d} /\ LetThrough(c)
LeaksBounded ==
    /\ \A d \in Fds : table[d].is = "stream" => \E t \in Threads : HasList(t) /\ list[t] = d
    /\ \A c \in Conns : Leaks(c)

\* The process ends only when a client has left, or named a host that is not found
\* or does not accept, or no descriptor is left (now, or when accept() failed for a
\* thread), or a thread reads the result of gethostbyname() while another writes it,
\* or has read bytes of two of them, and there is no such host.
EndsOnlyFor ==
    ~alive =>
        \/ gone # {} \/ Unused = {}
        \/ \E t \in Threads : Serves(t) /\ fd[t] = NoFd
        \/ \E c \in Conns : Asked(c) /\ asked[c].name \notin Known
        \/ \E a \in Addresses \ Up : Wanted(a)
        \/ \E t \in Threads : \/ At(t, "copy") /\ Others(t) # {}
                              \/ At(t, "send") /\ addr[t] \in Torn \ Up

\* As long as descriptors are left, every request is answered, or its connection
\* closed, unless its client leaves or the process ends.
Answered ==
    \/ <>(Unused = {})
    \/ \A c \in Conns : Asked(c) ~>
           reply[c] # NoAddress \/ link[c] = "ended" \/ c \in gone \/ ~alive
\* Nobody is forgotten: an accepted connection whose client is there has a thread at
\* work on it, or its response, or is a GET for which no socket was to be had.
Served(c) == \E t \in Threads : Serves(t) /\ Has(t) /\ Peer(t) = c
Attended ==
    \A c \in Conns \ gone : link[c] = "accepted" =>
        \/ Served(c)
        \/ reply[c] # NoAddress
        \/ LetThrough(c) /\ sent[c] = NoAddress /\ Origins(c) = {}
-----------------------------------------------------------------------------
\* The inductive invariant.

\* A thread that serves has a connection to itself, or none; it has one if it has
\* read a GET.
Forwards(t) == tpc[t] \in {"resolve", "copy", "send", "relay"}
OwnConnection ==
    /\ \A t \in Threads : Serves(t) /\ Has(t) =>
          /\ table[fd[t]].is = "conn" /\ Peer(t) \in Conns
          /\ \A u \in Threads \ {t} : Serves(u) => fd[u] # fd[t]
    /\ \A t \in Threads : Forwards(t) \/ (Serves(t) /\ tpc[t] # "read" /\ get[t]) => Has(t)

\* The blacklist that a thread has open is its own, and is closed in the end.
OwnList ==
    /\ \A t \in Threads : HasList(t) =>
          /\ list[t] \in Fds /\ table[list[t]].is = "stream"
          /\ \A u \in Threads \ {t} : HasList(u) => list[u] # list[t]
    /\ \A d \in Fds : table[d].is = "stream" => \E t \in Threads : HasList(t) /\ list[t] = d

\* What a thread knows of the request of c, as far as it has got, and what c has
\* been sent by then.
Knows(t, c) ==
    /\ Asked(c) /\ get[t] = asked[c].get
    /\ asked[c].name # NoName => name[t] = asked[c].name
Serving(t, c) ==
    /\ tpc[t] # "read" /\ (get[t] \/ c \notin gone) => Knows(t, c)
    /\ Forwards(t) => get[t] /\ ~Listed(t)
    /\ ~Forwards(t) => Origins(c) = {}
    /\ sent[c] = IF tpc[t] = "relay" THEN addr[t] ELSE NoAddress
    /\ alive => reply[c] = NoAddress

ConnInv(c) ==
    /\ Fit(c) /\ Leaks(c)
    /\ link[c] \in {"new", "queued"} =>
          sent[c] = NoAddress /\ reply[c] = NoAddress /\ Ends(c) = {} /\ Origins(c) = {}
    /\ link[c] = "ended" => Ends(c) = {}
    /\ \A t \in Threads : Serves(t) /\ Has(t) /\ Peer(t) = c => Serving(t, c)

ProxyInv == OwnConnection /\ OwnList /\ \A c \in Conns : ConnInv(c)

\* Wherever a host is kept, it is one that was asked for, or none that was meant.
KeptHosts ==
    /\ resolved # NoAddress => Wanted(resolved)
    /\ \A t \in Threads : /\ addr[t] \in Torn \cup {NoAddress} \/ Wanted(addr[t])
                          /\ name[t] \in Known => Wanted(Address[name[t]])

\* No thread is in gethostbyname() while another one reads its result.
NoOverlap == \A t \in Threads : At(t, "copy") => Others(t) = {}

\* A request goes to another host than its client named only after a thread was in
\* gethostbyname() while another one was reading its result.
OwnHostAlone == []NoOverlap => []OwnHost

\* The inductive form of OwnHost, as long as NoOverlap holds: between a thread's own
\* gethostbyname() and its send() the address it has is that of its own host.
OwnAddress ==
    /\ \A t \in Threads :
          /\ At(t, "copy") => resolved = Address[name[t]]
          /\ tpc[t] \in {"send", "relay"} => addr[t] = Address[name[t]]
    /\ OwnHost
=============================================================================
