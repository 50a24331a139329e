--------------------------------- MODULE Dfs ---------------------------------
(***************************************************************************)
(* The distributed file system of 4273-PA4: clients, servers and the       *)
(* connections between them.                                               *)
(***************************************************************************)
EXTENDS Dfc

vars == <<wireVars, serverVars, clientVars>>

Init == WireInit /\ ServerInit /\ ClientInit

Thread(k) == ThreadNext(k) /\ UNCHANGED clientVars

Stray(s) == StrayNext(s) /\ UNCHANGED clientVars

Next == \/ \E k \in Conns : Thread(k)
        \/ \E s \in Servers : Stray(s)
        \/ \E c \in Clients : Run(c) \/ Prompt(c)

Spec == Init /\ [][Next]_vars

\* Every thread and every client with something to do runs; users need not type.
Fairness == /\ \A k \in Conns : WF_vars(Thread(k))
            /\ \A c \in Clients : WF_vars(Run(c))

FairSpec == Spec /\ Fairness
-----------------------------------------------------------------------------
\* Every variable has its type, and a thread past its first read has a request.
TypeOK == WireTypeOK /\ ServerTypeOK /\ ClientTypeOK

\* A server that has ended did so because some client connected to it and went
\* away without ever sending it a request, or a call found no descriptor, or a file
\* of a PUT could not be created: no sequence of LISTs and PUTs, split and merged by
\* TCP in whatever way, makes a server see an invalid request.
SilentlyLeft(s) == \E c \in closed : s \in sock[c] \ asked[c]
CannotCreate(s) == \E c \in Clients : Opens(<<c, s>>) \ Creatable # {}
EndsOnlyFor ==
    \A s \in Running \ alive : SilentlyLeft(s) \/ s \in starved \/ CannotCreate(s)

\* The first cause is the only one as long as no server runs out of descriptors and
\* all files can be created.
ExitOnlyAfterSilentClient == \A s \in Running \ alive : SilentlyLeft(s)
EnoughDescriptors == 3 * Cardinality(Clients) < MaxFds
AllCreatable == Files \subseteq Creatable

\* Who may get past botherUser() by what it sends; whether s has let one such pass.
Entitled == Trusted \cup Spelling
Admitted(s) == \E c \in Entitled : Done(<<c, s>>) /\ valid[<<c, s>>]

\* No thread gets past botherUser() without a pair of dfc.conf in userN and passN,
\* which are its client's or those of a finished thread whose client is entitled.
PastCred ==
    \A k \in Conns :
       /\ tpc[k] \notin {"none", "queued", "request", "cred", "done"} => valid[k]
       /\ valid[k] => k[1] \in Entitled \/ Admitted(k[2])

\* A server that has had its descriptors holds bytes of a client that is not entitled
\* only if that one has sent an empty line, which is in a second command, to a server
\* that had let another in: whatever part of the stream each read() returned.
Storers(s) == {c \in Clients : c \in Entitled \/ (cmds[c] > 1 /\ Admitted(s))}
StoredBy(C, v) ==
    \A i \in 1..Len(v) : v[i] # Zeros /\ v[i].kind = "part" => v[i].from \in C
OnlyTrustedStore ==
    /\ PastCred
    /\ \A s \in Servers \ starved, f \in Files :
          store[s][f] # Missing => StoredBy(Storers(s), store[s][f])

\* A chunk that c may have written in n commands, and a queue of them.
OwnChunk(c, n, ch) == /\ ch.kind = "part" => ch.from = c
                      /\ ch.kind = "cred" => ch.ok = (c \in Trusted)
                      /\ ch.kind = "blank" => n > 1
OwnChunks(c, n, q) == \A i \in 1..Len(q) : OwnChunk(c, n, q[i])

\* A pair that is not the client's own, before a second command: what was verified
\* is the stack's, as the client has left, and nothing of it is left to be stored.
Leftover(k) == valid[k] /\ k[1] \notin Entitled /\ cmds[k[1]] <= 1
NothingLeft(k) == /\ k[1] \in closed /\ up[k] = <<>>
                  /\ tpc[k] \in {"list", "part1", "done"} \/ buf[k] = <<>>

\* The inductive form of OnlyTrustedStore: whatever is queued on a connection or
\* held by its thread was written by that connection's client.
TrustInv ==
    /\ \A c \in Clients :
          /\ again[c] => cmds[c] > 0
          /\ \A i \in 1..Len(out[c]) : OwnChunk(c, cmds[c], out[c][i][2])
    /\ \A k \in Conns :
          /\ OwnChunks(k[1], cmds[k[1]], up[k]) /\ OwnChunks(k[1], cmds[k[1]], buf[k])
          /\ Leftover(k) => NothingLeft(k)
    /\ OnlyTrustedStore

\* c still has a request to send to s, before anything else.
WillAsk(c, s) == \E j \in 1..Len(out[c]) : out[c][j][1] = s /\ out[c][j][2].kind = "req"
AsksFirst(c) ==
    \A i \in 1..Len(out[c]) :
        \/ out[c][i][1] \notin (sock[c] \cap alive) \ asked[c]
        \/ \E j \in 1..i : out[c][j][1] = out[c][i][1] /\ out[c][j][2].kind = "req"

AllAsked(c) == sock[c] \cap alive \subseteq asked[c]

\* What is on a connection: nothing before its client's request, which its thread
\* either has read or finds first.
ConnAsked(k) ==
    /\ tpc[k] # "none" => k[2] \in sock[k[1]]
    /\ k[2] \notin asked[k[1]] => up[k] = <<>>
    /\ k[2] \in asked[k[1]] /\ tpc[k] \in {"queued", "request"} =>
          up[k] # <<>> /\ Head(up[k]).kind = "req"

\* What a client may write next: a request, to a server it has sent none yet.
ClientAsks(c) ==
    /\ cpc[c] = "dial" =>
          /\ ~again[c] /\ asked[c] = {}
          /\ \A s \in Servers : s >= next[c] => tpc[<<c, s>>] = "none"
    /\ cpc[c] \in {"file", "read"} => AllAsked(c)
    /\ cpc[c] = "prompt" /\ again[c] => AllAsked(c)
    /\ cpc[c] = "send" => AsksFirst(c)
    /\ cpc[c] = "send" => \A s \in (sock[c] \cap alive) \ asked[c] : WillAsk(c, s)

\* The inductive form of EndsOnlyFor.
AskedInv ==
    /\ \A c \in closed : cpc[c] = "gone"
    /\ \A k \in Conns : ConnAsked(k)
    /\ \A c \in Clients : ClientAsks(c)
    /\ \A s \in starved : Crowded(s)
    /\ EndsOnlyFor

\* c's first PUT has been written, and all four servers are done with it.
Uploaded(c) ==
    /\ cpc[c] = "prompt" /\ cmds[c] = 1 /\ cmd[c].op = "PUT" /\ c \in Trusted
    /\ \A s \in Servers : s \in sock[c] \cap alive /\ tpc[<<c, s>>] = "done"

\* After a PUT, for each of the four parts what was written from its buffer is on
\* some server, by itself and at the start of a file: dropping the second file of
\* every server (see BothPartsKept) loses the copies and no part.
FourPartsKept ==
    \A c \in Clients : Uploaded(c) =>
        \A i \in Parts : \E s \in Servers :
            store[s][cmd[c].name] = <<Part(c, i)>>

\* What became of both files: the part that a server was sent first, twice.
FirstPartsKept ==
    \A c \in Clients : Uploaded(c) =>
        \E x \in Hashes : \A s \in Servers : \A f \in {cmd[c].name, Second[cmd[c].name]} :
            store[s][f] = <<Part(c, FirstPart(x, s))>>

\* When the two hold: one client puts, and no other leaves, whose thread might take
\* the uploader's request and pair from its stack; each read() returns one write(),
\* the servers have descriptors enough, and can create the files.
OneUploader == \A b, c \in Clients : "PUT" \in Typed[b] /\ "PUT" \in Typed[c] => b = c
OthersStay == \A c \in Clients : "exit" \in Typed[c] => "PUT" \in Typed[c]
PutPremise == OneUploader /\ OthersStay /\ EnoughDescriptors /\ AllCreatable /\ ~Coalesce

\* A client that types no PUT, while nobody has left: no thread of its writes a file.
IsPut(ch) == ch.kind = "req" /\ ch.op = "PUT"
NeverPuts(c) ==
    /\ cpc[c] # "file"
    /\ cmd[c] # NoReq => ~IsPut(cmd[c])
    /\ \A i \in 1..Len(out[c]) : ~IsPut(out[c][i][2])
    /\ \A s \in Servers :
          LET k == <<c, s>>
          IN  /\ \A i \in 1..Len(up[k]) : ~IsPut(up[k][i])
              /\ tpc[k] \in {"none", "queued", "request", "cred", "list", "done"}
              /\ tpc[k] = "cred" => ~IsPut(req[k])

\* A client before its first command.
Fresh(c) ==
    /\ asked[c] = {} /\ ~again[c] /\ cpc[c] \in {"dial", "prompt", "gone"}
    /\ cpc[c] # "gone" => \A s \in sock[c] \cap alive : tpc[<<c, s>>] \in {"queued", "request"}

\* What a PUT writes to one server, and how much of it the server's thread has read.
PutStream(c, s, x) ==
    <<cmd[c], Cred(c), Part(c, FirstPart(x, s)), Part(c, SecondPart(x, s))>>
ReadBy(k) == CASE tpc[k] \in {"queued", "request"} -> 0
               [] tpc[k] = "cred"  -> 1
               [] tpc[k] = "part1" -> 2
               [] tpc[k] = "part2" -> 3
               [] OTHER            -> 4

\* The files of a thread that has read everything.
Storing(c, s, x) ==
    LET k == <<c, s>>
        f == store[s][cmd[c].name]
        g == store[s][Second[cmd[c].name]]
        p == <<Part(c, FirstPart(x, s))>>
    IN  /\ tpc[k] \in {"open1", "open2", "close2", "close1", "done"}
        /\ n2[k] = 1
        /\ tpc[k] \in {"open2", "close2"} => f = <<>>
        /\ tpc[k] = "close2" => g = <<>>
        /\ tpc[k] = "close1" => f \in {<<>>, p} /\ g = p
        /\ tpc[k] = "done" => f = p /\ g = p

\* c's connection to s after the first w of PutStream: what was not read is queued.
Talk(c, s, x, w) ==
    LET k == <<c, s>>
        r == ReadBy(k)
    IN  /\ r <= w /\ Len(up[k]) = w - r
        /\ \A i \in 1..w - r : up[k][i] = PutStream(c, s, x)[r + i]
        /\ r > 0 => req[k] = cmd[c]
        /\ r > 2 => buf[k] = <<Part(c, FirstPart(x, s))>>
        /\ r = 4 => Storing(c, s, x)

\* The first m of the eight writes q are made; how many are those at i and j.
Sent(c, q, m) == /\ Len(out[c]) = 8 - m
                 /\ \A i \in 1..8 - m : out[c][i] = q[m + i]
Made(m, i, j) == IF j <= m THEN 2 ELSE IF i <= m THEN 1 ELSE 0

\* How far a PUT has got with the open connections: the two lines are written to
\* all servers, then the two parts to each.
Putting(c, x) ==
    LET open == sock[c] \cap alive
    IN  \/ /\ cpc[c] = "send"
           /\ \E m \in 0..7 : /\ Sent(c, ToAll(cmd[c]) \o ToAll(Cred(c)), m)
                              /\ \A s \in open : Talk(c, s, x, Made(m, s + 1, s + 5))
        \/ cpc[c] = "file" /\ \A s \in open : Talk(c, s, x, 2)
        \/ /\ cpc[c] = "send"
           /\ \E m \in 0..7 : /\ Sent(c, PartWrites(c, x), m)
                              /\ \A s \in open : Talk(c, s, x, 2 + Made(m, 2 * s + 1, 2 * s + 2))
        \/ cpc[c] = "prompt" /\ \A s \in open : Talk(c, s, x, 4)

\* The inductive form of FirstPartsKept.
PutState(c) ==
    /\ sock[c] \subseteq Running
    /\ cmds[c] # 0 => cmd[c] # NoReq
    /\ cmd[c] # NoReq => cmd[c].op \in Typed[c]
    /\ "PUT" \notin Typed[c] /\ closed = {} => NeverPuts(c)
    /\ cmds[c] = 0 => Fresh(c)
    /\ c \in Trusted /\ cmds[c] = 1 /\ cmd[c].op = "PUT" /\ cpc[c] # "gone" =>
          \E x \in Hashes : Putting(c, x)
PutInv == /\ closed # {} => \E c \in closed : "PUT" \in Typed[c]
          /\ \A c \in Clients : PutState(c)

\* c's connection to s after the first w of a LIST's line and pair: nothing of them is
\* lost, and what its thread has not read is what it reads next.
Unread(c, n, w) == SubSeq(<<cmd[c], Cred(c)>>, n + 1, w)
Asks(c, s, w) ==
    LET k == <<c, s>>
    IN  \/ tpc[k] \in {"queued", "request"} /\ up[k] = Unread(c, 0, w)
        \/ tpc[k] = "cred" /\ req[k] = cmd[c] /\ w >= 1 /\ up[k] = Unread(c, 1, w)
        \/ tpc[k] = "list" /\ w = 2
        \/ tpc[k] = "done" /\ down[k] # <<>> /\ w = 2

\* A client whose first LIST waits for the servers from next[c] on waits for nobody in
\* vain: each of them has sent its listing, ended, lacked a descriptor, or has before
\* it all that its thread needs to send one.
Serving(c) == (sock[c] \cap alive) \ starved
Awaited(c) == \A s \in Serving(c) : s >= next[c] => Asks(c, s, 2)
ListComes == \A c \in Trusted : cpc[c] = "read" /\ cmds[c] = 1 => Awaited(c)

\* The inductive form of ListComes.
ListState(c) ==
    /\ cmds[c] = 0 => Fresh(c)
    /\ (cpc[c] = "read" => cmd[c].op = "LIST") /\ (cpc[c] = "file" => cmd[c].op # "LIST")
    /\ c \in Trusted /\ cmds[c] = 1 /\ cmd[c].op = "LIST" =>
          /\ cpc[c] = "send" =>
                \E m \in 0..7 :
                    /\ Sent(c, ToAll(cmd[c]) \o ToAll(Cred(c)), m)
                    /\ \A s \in Serving(c) : Asks(c, s, Made(m, s + 1, s + 5))
          /\ cpc[c] = "read" => Awaited(c)
ListInv == \A c \in Clients : ListState(c)

\* After a PUT each server has the two parts the table gives it, so that any one
\* server may be lost.
BothPartsKept ==
    \A c \in Clients : Uploaded(c) =>
        \E x \in Hashes : \A s \in Servers :
            /\ store[s][cmd[c].name] = <<Part(c, FirstPart(x, s))>>
            /\ store[s][Second[cmd[c].name]] = <<Part(c, SecondPart(x, s))>>

\* A client's first LIST returns to the prompt, whatever other clients do, unless a
\* server it is connected to lacks a descriptor: as long as each read() of a server
\* returns one write(), and not otherwise.
FirstListReturns ==
    \A c \in Trusted :
       cpc[c] = "read" /\ cmds[c] = 1 ~> cpc[c] = "prompt" \/ sock[c] \cap starved # {}
=============================================================================
