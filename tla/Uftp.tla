-------------------------------- MODULE Uftp --------------------------------
(***************************************************************************)
(* The UDP file transfer of 4273-PA1: the server, its clients and the      *)
(* network between them.                                                   *)
(***************************************************************************)
EXTENDS UftpClient

vars == <<netVars, serverVars, clientVars>>

Init == NetInit /\ ServerInit /\ ClientInit

Server == ServerNext /\ UNCHANGED clientVars
Client(c) == ClientNext(c) /\ UNCHANGED serverVars
Network == NetNext /\ UNCHANGED <<serverVars, clientVars>>

Next == Server \/ (\E c \in Clients : Client(c)) \/ Network

Spec == Init /\ [][Next]_vars

\* A process whose socket has a datagram, or that has work left in a handler,
\* runs; users need not type and the network need not misbehave.
Fairness ==
    /\ WF_vars(Server)
    /\ \A c \in Clients :
          /\ WF_vars(ClientReceive(c) /\ UNCHANGED serverVars)
          /\ WF_vars((PutSend(c) \/ PutCrash(c)) /\ UNCHANGED serverVars)

FairSpec == Spec /\ Fairness
-----------------------------------------------------------------------------
\* Every variable has its type, and the server waiting for an upload knows the
\* put command it belongs to.
TypeOK == NetTypeOK /\ ServerTypeOK /\ ClientTypeOK

\* No exchange makes a file that the other side's fixed buffers cannot hold: a
\* server file over MAXFILESIZE is one the server started with, whatever was
\* uploaded, and likewise for the files get leaves at a client.
StoreFits ==
    /\ \A f \in Names : store[f] # NoFile =>
          store[f].len <= SERVERFILE \/ store[f] = StoreInit[f]
    /\ \A c \in Clients, f \in Names : local[c][f] # NoFile =>
          local[c][f].len <= CLIENTFILE \/ local[c][f] = LocalInit[c][f]

\* get's local file is, byte for byte, what the server sent for that name.
GetFaithful(c) ==
    cpc[c] = "getEcho" =>
        /\ served[c].name = wanted[c]
        /\ served[c].data # NoFile
        /\ local[c][wanted[c]] = Fit(served[c].data, CLIENTFILE)

\* Whatever the other clients and the network do to each other's datagrams, a
\* client that has not itself typed put, deleted an existing file, got an empty
\* one, been taken for another's upload or been hit by a fault gets its files
\* right.
GetFaithfulInStep == \A c \in Clients : ~skewed[c] => GetFaithful(c)

\* get is right for every client.
GetAlwaysFaithful == \A c \in Clients : GetFaithful(c)

\* The datagram that client c's next recvfrom() is meant to return.
IsAnswer(c, p) ==
    \/ cpc[c] = "delReply" /\ p = Line("delete", wanted[c])
    \/ cpc[c] = "getData"  /\ p = served[c].data /\ served[c].name = wanted[c]
    \/ cpc[c] = "getEcho"  /\ p = Line("get", wanted[c])
    \/ cpc[c] = "lsReply"  /\ p.kind = "list"

\* An in-step client has nothing queued at its prompt, and what it reads while
\* it waits is the answer to the command it waits for: the two sides count
\* datagrams the same way although neither numbers them.
AnswersInStep ==
    \A c \in Clients :
        ~skewed[c] /\ toClient[c] # <<>> => IsAnswer(c, Head(toClient[c]))

\* q holds nothing from c; q holds p from c and nothing else from c.
Silent(q, c) == \A i \in 1..Len(q) : q[i].from # c
Single(q, c, p) ==
    \E i \in 1..Len(q) :
        /\ q[i] = [from |-> c, data |-> p]
        /\ \A j \in 1..Len(q) : j # i => q[j].from # c

\* The line that c is waiting for an answer to.
Asked(c) == CASE cpc[c] = "delReply" -> Line("delete", wanted[c])
              [] cpc[c] = "lsReply"  -> Line("ls", NoName)
              [] OTHER               -> Line("get", wanted[c])

\* Exactly the answers c still has to read are in its queue.
Answered(c) ==
    \/ cpc[c] = "delReply" /\ toClient[c] = <<Line("delete", wanted[c])>>
    \/ /\ cpc[c] = "getData"
       /\ toClient[c] = <<served[c].data, Line("get", wanted[c])>>
       /\ served[c].name = wanted[c] /\ served[c].data # NoFile
    \/ cpc[c] = "getEcho" /\ toClient[c] = <<Line("get", wanted[c])>> /\ GetFaithful(c)
    \/ cpc[c] = "lsReply" /\ Len(toClient[c]) = 1 /\ toClient[c][1].kind = "list"

\* The conversation of an in-step client: nothing in flight at the prompt; while
\* it waits, either its request is on its way, or all that is left of the answer
\* is, or the server took the request and stopped.
InStep(c) ==
    \/ cpc[c] = "prompt" /\ Silent(toServer, c) /\ toClient[c] = <<>>
    \/ /\ cpc[c] \in Waiting \ {"getEcho"}
       /\ Single(toServer, c, Asked(c)) /\ toClient[c] = <<>>
    \/ cpc[c] \in Waiting /\ Silent(toServer, c) /\ Answered(c)
    \/ /\ cpc[c] \in Waiting \ {"getEcho"}
       /\ Silent(toServer, c) /\ toClient[c] = <<>> /\ Stopped
    \/ /\ cpc[c] = "exited" /\ toClient[c] = <<>>
       /\ Silent(toServer, c) \/ Single(toServer, c, Line("exit", NoName))

\* The inductive form of GetFaithfulInStep and AnswersInStep.
InStepInv == \A c \in Clients : ~skewed[c] => InStep(c)

\* What the server stores under a name is what some put of that name sent, cut
\* to the server's buffer: put's two datagrams stay together.
UploadsPaired ==
    \A f \in Names :
        \/ store[f] \in {NoFile, StoreInit[f]}
        \/ \E u \in uploads : u[1] = f /\ store[f] = Fit(u[2], SERVERFILE)

\* When UploadsPaired holds: one client, no faults, and no empty files.
Filled(files) == \A f \in Names : files[f] # NoFile => files[f].len > 0
Undisturbed ==
    /\ \E c : Clients = {c}
    /\ MaxFaults = 0
    /\ Filled(StoreInit) /\ \A c \in Clients : Filled(LocalInit[c])

\* The datagrams the server has still to deal with, from the put it is at.
Flight == request \o toServer
IsPut(p) == p.kind = "line" /\ p.val.op = "put"

AtPut == \E c \in Clients : cpc[c] \in {"putSend", "crashed"}

\* D is where in Flight the data of the puts is: behind the put it belongs to.
\* Everything else is a command, and only a put that the client is still in, or
\* died of, has no data yet.
DataAt(D) ==
    /\ D \subseteq 2..Len(Flight)
    /\ \A i \in D :
          /\ i - 1 \notin D /\ IsPut(Flight[i - 1].data)
          /\ <<Flight[i - 1].data.val.name, Flight[i].data>> \in uploads
    /\ \A i \in 1..Len(Flight) \ D :
          /\ Flight[i].data.kind = "line" /\ Flight[i].data.len > 0
          /\ IsPut(Flight[i].data) => i + 1 \in D \/ (i = Len(Flight) /\ AtPut)
    /\ \A c \in Clients : cpc[c] = "putSend" =>
          /\ Flight # <<>> /\ Len(Flight) \notin D
          /\ IsPut(Flight[Len(Flight)].data) /\ Flight[Len(Flight)].data.val.name = wanted[c]

\* The inductive form of UploadsPaired: no datagram is empty, so that none that
\* the server waits for is left out, and every put is followed by its data.
PairInv ==
    /\ UploadsPaired
    /\ Filled(store) /\ \A u \in uploads : u[2].len > 0
    /\ \A c \in Clients :
          Filled(local[c]) /\ \A i \in 1..Len(toClient[c]) : toClient[c][i].len > 0
    /\ (request = <<>>) <=> (srv # "putData")
    /\ \E D \in SUBSET (2..Len(Flight)) : DataAt(D)

\* A command of an in-step client is answered in full, unless the client falls
\* out of step first or the server stops: other clients and faults can delay
\* the answer but not lose it.
InStepAnswered ==
    \A c \in Clients :
        cpc[c] \in Waiting /\ ~skewed[c]
            ~> cpc[c] = "prompt" \/ skewed[c] \/ Stopped

\* Out of step or not, a client that no other disturbs, on a network that
\* delivers, and whose files are not empty, always gets its prompt back: the
\* server never owes it fewer datagrams than it waits for.
AloneAnswered ==
    \A c \in Clients : cpc[c] \in Waiting ~> cpc[c] = "prompt" \/ Stopped
=============================================================================
