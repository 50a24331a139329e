----------------------------- MODULE UftpClient -----------------------------
(***************************************************************************)
(* uftp_client.c: a loop that reads a command, sends it, and waits for as  *)
(* many datagrams as the command is known to bring: one for delete and ls, *)
(* two for get (the file, then the echo), none for put.  It never looks at *)
(* what the datagrams say.                                                 *)
(***************************************************************************)
EXTENDS UftpServer

CONSTANTS
    LocalInit,  \* [Clients -> the client's directory at the start]
    Typed,      \* the operations the users type
    MaxCmds     \* bound: commands each user types

ASSUME ClientAssumption ==
    /\ LocalInit \in [Clients -> [Names -> Payload \cup {NoFile}]]
    /\ Typed \subseteq Ops
    /\ MaxCmds \in Nat

VARIABLES
    cpc,        \* where each client is in its loop
    local,      \* each client's directory
    wanted,     \* file_name of the command in progress
    typed,      \* number of commands typed so far
    (* Auxiliary: the <<name, bytes>> that each client's puts were to store. *)
    uploads

clientVars == <<cpc, local, wanted, typed, uploads>>

Waiting == {"delReply", "getData", "getEcho", "lsReply"}

ClientTypeOK ==
    /\ cpc \in [Clients -> Waiting \cup {"prompt", "putSend", "crashed", "exited"}]
    /\ local \in [Clients -> [Names -> Payload \cup {NoFile}]]
    /\ wanted \in [Clients -> Names \cup {NoName}]
    /\ \A c \in Clients : cpc[c] \in {"getData", "putSend"} => wanted[c] \in Names
    /\ typed \in [Clients -> 0..MaxCmds]
    /\ uploads \in SUBSET (Names \X Payload)

ClientInit ==
    /\ cpc = [c \in Clients |-> "prompt"]
    /\ local = LocalInit
    /\ wanted = [c \in Clients |-> NoName]
    /\ typed = [c \in Clients |-> 0]
    /\ uploads = {}

\* getUserInput(), sscanf() and sendToServer(): go on at `next`.
TypeLine(c, op, f, next) ==
    /\ cpc[c] = "prompt"
    /\ op \in Typed
    /\ typed[c] < MaxCmds
    /\ typed' = [typed EXCEPT ![c] = @ + 1]
    /\ wanted' = [wanted EXCEPT ![c] = f]
    /\ SendToServer(c, Line(op, f))
    /\ cpc' = [cpc EXCEPT ![c] = next]
    /\ UNCHANGED <<local, uploads, toClient, faults>>

TypeDelete(c, f) == TypeLine(c, "delete", f, "delReply") /\ UNCHANGED skewed
TypeGet(c, f)    == TypeLine(c, "get", f, "getData")     /\ UNCHANGED skewed
TypeLs(c)        == TypeLine(c, "ls", NoName, "lsReply") /\ UNCHANGED skewed
TypeExit(c)      == TypeLine(c, "exit", NoName, "exited") /\ UNCHANGED skewed
\* Variant: put without its file name.
TypePutNameless(c, f) == TypeLine(c, "put", NoName, "putSend") /\ Skew({c})
\* The server echoes a put, and the client never reads that echo.
TypePut(c, f)    == TypeLine(c, "put", f, "putSend")     /\ Skew({c})

\* The rest of put: open, read and send the file.  An empty file is not sent.
PutSend(c) ==
    LET p == local[c][wanted[c]]
    IN /\ cpc[c] = "putSend"
       /\ p # NoFile
       /\ IF p.len > 0
          THEN /\ SendToServer(c, p)
               /\ uploads' = uploads \cup {<<wanted[c], p>>}
          ELSE UNCHANGED <<toServer, uploads>>
       /\ cpc' = [cpc EXCEPT ![c] = "prompt"]
       /\ UNCHANGED <<local, wanted, typed, toClient, faults, skewed>>

\* fclose(NULL) for a missing file, or transfer_buf overrun by a large one.
PutCrash(c) ==
    LET p == local[c][wanted[c]]
    IN /\ cpc[c] = "putSend"
       /\ p # NoFile => Overruns(p, CLIENTFILE)
       /\ cpc' = [cpc EXCEPT ![c] = "crashed"]
       /\ UNCHANGED <<local, wanted, typed, uploads, netVars>>

\* recvfrom(): takes the oldest datagram of c's socket.
Take(c, from, to) ==
    /\ cpc[c] = from
    /\ toClient[c] # <<>>
    /\ toClient' = [toClient EXCEPT ![c] = Tail(@)]
    /\ cpc' = [cpc EXCEPT ![c] = to]
    /\ UNCHANGED <<wanted, typed, uploads, toServer, faults, skewed>>

\* get's first recvfrom() makes the local file of whatever came.
GetData(c) ==
    /\ Take(c, "getData", "getEcho")
    /\ local' = [local EXCEPT ![c][wanted[c]] = Fit(Head(toClient[c]), CLIENTFILE)]

\* serverReply() after the file, and as all that delete reads.
GetEcho(c)  == Take(c, "getEcho", "prompt")  /\ UNCHANGED local
\* Variant: delete that, like put, does not wait for its reply.
DelReplySkipped(c) ==
    /\ cpc[c] = "delReply"
    /\ cpc' = [cpc EXCEPT ![c] = "prompt"]
    /\ UNCHANGED <<local, wanted, typed, uploads, netVars>>
DelReply(c) == Take(c, "delReply", "prompt") /\ UNCHANGED local
\* ls prints whatever came as the listing.
LsReply(c)  == Take(c, "lsReply", "prompt")  /\ UNCHANGED local

ClientReceive(c) == GetData(c) \/ GetEcho(c) \/ DelReply(c) \/ LsReply(c)

ClientNext(c) ==
    \/ \E f \in Names : TypeDelete(c, f) \/ TypeGet(c, f) \/ TypePut(c, f)
    \/ TypeLs(c) \/ TypeExit(c)
    \/ PutSend(c) \/ PutCrash(c)
    \/ ClientReceive(c)
============================================================================
