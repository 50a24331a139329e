----------------------------- MODULE UftpServer -----------------------------
(***************************************************************************)
(* uftp_server.c: one process and one socket.  It takes one datagram,      *)
(* parses it as a command, runs the command, and echoes the datagram back. *)
(* put is the exception: its handler blocks in a second recvfrom() and     *)
(* takes whatever datagram comes next as the file.                         *)
(***************************************************************************)
EXTENDS UftpNet

CONSTANTS
    NoFile,     \* what store holds for a name that is not in the directory
    StoreInit   \* the server's directory at the start

ASSUME ServerAssumption ==
    /\ NoFile \notin Payload
    /\ StoreInit \in [Names -> Payload \cup {NoFile}]

VARIABLES
    srv,        \* "recv", "putData" (second recvfrom of put), "crashed", "exited"
    store,      \* the directory: [Names -> Payload \cup {NoFile}]
    request,    \* <<d>>: d is the command whose put waits for the file; else <<>>
    (* Auxiliary: the last file sent to each client in answer to its get.   *)
    served

serverVars == <<srv, store, request, served>>

Reply == [name : Names \cup {NoName}, data : Payload \cup {NoFile}]

ServerTypeOK ==
    /\ srv \in {"recv", "putData", "crashed", "exited"}
    /\ store \in [Names -> Payload \cup {NoFile}]
    /\ request \in Seq(Datagram)
    /\ srv = "putData" => /\ Len(request) = 1
                          /\ request[1].data.kind = "line"
                          /\ request[1].data.val.op = "put"
    /\ served \in [Clients -> Reply]

ServerInit ==
    /\ srv = "recv"
    /\ store = StoreInit
    /\ request = <<>>
    /\ served = [c \in Clients |-> [name |-> NoName, data |-> NoFile]]

Found(f) == store[f] # NoFile
Directory == {f \in Names : Found(f)}
Stopped == srv \in {"crashed", "exited"}

\* More than `limit` bytes are written to a buffer of `limit`: undefined, so the
\* process may die of it or go on as if nothing had happened.
Overruns(p, limit) == p.len > limit

\* The main loop's recvfrom() and sscanf(): a command op has come from d.from.
Receive(op) ==
    /\ srv = "recv"
    /\ toServer # <<>>
    /\ toServer' = Tail(toServer)
    /\ Head(toServer).data.kind = "line"
    /\ Head(toServer).data.val.op = op

\* delete: nothing but the echo where the file is missing or remove() fails.
ServeDelete ==
    LET d == Head(toServer)
        f == d.data.val.name
    IN /\ Receive("delete")
       /\ \/ /\ Found(f)
             /\ store' = [store EXCEPT ![f] = NoFile]
             /\ SendToClient(d.from, <<Deleted, Text(d.data)>>)
             /\ Skew({d.from})        \* the client reads one reply to a delete
          \/ /\ SendToClient(d.from, <<Text(d.data)>>)
             /\ UNCHANGED <<store, skewed>>
       /\ UNCHANGED <<srv, request, served, faults>>

\* The two datagrams of an answered get; what can go wrong with them.
GetRepliesSwapped(d) == <<Text(d.data), store[d.data.val.name]>>
GetRepliesNoEcho(d)  == <<store[d.data.val.name]>>
GetReplies(d)        == <<store[d.data.val.name], Text(d.data)>>

\* get of a file with something in it: the file, then the echo.
ServeGet ==
    LET d == Head(toServer)
        f == d.data.val.name
    IN /\ Receive("get")
       /\ Found(f)
       /\ store[f].len > 0
       /\ SendToClient(d.from, GetReplies(d))
       /\ served' = [served EXCEPT ![d.from] = [name |-> f, data |-> store[f]]]
       /\ UNCHANGED <<srv, store, request, faults, skewed>>

\* fread() of an empty file returns 0, so only the echo is sent.
ServeGetEmpty ==
    LET d == Head(toServer)
        f == d.data.val.name
    IN /\ Receive("get")
       /\ Found(f)
       /\ store[f].len = 0
       /\ SendToClient(d.from, <<Text(d.data)>>)
       /\ Skew({d.from})              \* the client reads two replies to a get
       /\ UNCHANGED <<serverVars, faults>>

\* fclose(NULL) for a missing file, or the overrun of net_buf by a large one.
ServeGetCrash ==
    LET f == Head(toServer).data.val.name
    IN /\ Receive("get")
       /\ Found(f) => Overruns(store[f], SERVERFILE)
       /\ srv' = "crashed"
       /\ UNCHANGED <<store, request, served, toClient, faults, skewed>>

\* put, up to its recvfrom().
ServePut ==
    /\ Receive("put")
    /\ srv' = "putData"
    /\ request' = <<Head(toServer)>>
    /\ UNCHANGED <<store, served, toClient, faults, skewed>>

\* What put keeps of the datagram it reads; other buffers it could read into.
UploadedWide(d)  == Fit(d.data, CLIENTFILE)
UploadedShort(d) == Fit(d.data, BUFSIZE)
Uploaded(d)      == Fit(d.data, SERVERFILE)

\* put, from its recvfrom() on: clientaddr is overwritten by whoever sent the
\* datagram, so that is where the echo of the put command goes.
StorePut ==
    LET d == Head(toServer)
        f == request[1].data.val.name
    IN /\ srv = "putData"
       /\ toServer # <<>>
       /\ toServer' = Tail(toServer)
       /\ store' = [store EXCEPT ![f] = Uploaded(d)]
       /\ SendToClient(d.from, <<Text(request[1].data)>>)
       /\ Skew({d.from})
       /\ srv' = "recv"
       /\ request' = <<>>
       /\ UNCHANGED <<served, faults>>

\* ls puts the listing into buf, so the listing is what is echoed.
ServeLs ==
    LET d == Head(toServer)
    IN /\ Receive("ls")
       /\ SendToClient(d.from, <<Listing(Directory)>>)
       /\ UNCHANGED <<serverVars, faults, skewed>>

ServeExit ==
    /\ Receive("exit")
    /\ srv' = "exited"
    /\ UNCHANGED <<store, request, served, toClient, faults, skewed>>

\* A datagram that is no command has come.
ReceiveOther ==
    /\ srv = "recv"
    /\ toServer # <<>>
    /\ toServer' = Tail(toServer)
    /\ Head(toServer).data.kind # "line"

\* Anything that is no command is echoed.
ServeOther ==
    LET d == Head(toServer)
    IN /\ ReceiveOther
       /\ SendToClient(d.from, <<Text(Fit(d.data, BUFSIZE))>>)
       /\ Skew({d.from})
       /\ UNCHANGED <<serverVars, faults>>

\* sscanf() runs past command with a word of a file or of a listing: undefined, as
\* for Overruns.  (The notice has short words.)
ServeOtherCrash ==
    LET p == Head(toServer).data
    IN /\ ReceiveOther
       /\ p.kind # "notice" /\ Overruns(Text(Fit(p, BUFSIZE)), WordSize)
       /\ srv' = "crashed"
       /\ UNCHANGED <<store, request, served, toClient, faults, skewed>>

ServerNext ==
    \/ ServeDelete \/ ServeGet \/ ServeGetEmpty \/ ServeGetCrash
    \/ ServePut \/ StorePut \/ ServeLs \/ ServeExit \/ ServeOther
    \/ ServeOtherCrash
============================================================================
