------------------------------ MODULE UftpNet ------------------------------
(***************************************************************************)
(* The UDP sockets between the UFTP server and its clients (4273-PA1).     *)
(* Neither program numbers, acknowledges or checks a datagram, so all that *)
(* the two share is: the queue of the server's socket, the queue of each   *)
(* client's socket, and what the network may do to a datagram in flight.   *)
(***************************************************************************)
EXTENDS Naturals, FiniteSets, SequencesExt

CONSTANTS
    Clients,    \* client processes, one socket each
    Names,      \* file names
    Bodies,     \* contents a file may start with
    BodySize,   \* [Bodies -> Nat]: bytes of each content
    TextSize,   \* [Bodies -> Nat]: bytes before its first zero byte
    LineLen,    \* bytes of a typed command line
    ListLen,    \* bytes of a directory listing
    NoName,     \* the name field of a command without a file name
    Notice,     \* the text "The file has been deleted successfully"
    MaxFaults   \* bound: losses, duplications and reorderings explored

BUFSIZE == 1024              \* buf of both programs
SERVERFILE == 5120           \* MAXFILESIZE of the server
CLIENTFILE == 24000          \* MAXFILESIZE of the client
WordSize == 6                \* the word that command[7] of both has room for
ReplySize == 50              \* what the client's serverReply() reads
NoticeSize == 100            \* the deletion notice is sent as a char[100] ...
NoticeText == 39             \* ... whose text ends after 39 bytes

ASSUME SizeAssumption ==
    /\ BodySize \in [Bodies -> Nat]
    /\ TextSize \in [Bodies -> Nat]
    /\ LineLen \in 1..ReplySize
    /\ ListLen \in 1..BUFSIZE
    /\ MaxFaults \in Nat
    /\ NoName \notin Names

FileOps == {"get", "put", "delete"}
Ops == FileOps \cup {"ls", "exit"}
Commands == [op : FileOps, name : Names] \cup [op : Ops \ FileOps, name : {NoName}]

\* A datagram's bytes: whose text they are a prefix of, and how many.
Payload ==
         [kind : {"line"}, val : Commands, len : Nat]
    \cup [kind : {"file"}, val : Bodies, len : Nat]
    \cup [kind : {"list"}, val : [names : SUBSET Names], len : Nat]
    \cup [kind : {"notice"}, val : {Notice}, len : Nat]

Line(op, f) == [kind |-> "line", val |-> [op |-> op, name |-> f], len |-> LineLen]
File(b)     == [kind |-> "file", val |-> b, len |-> BodySize[b]]
Listing(S)  == [kind |-> "list", val |-> [names |-> S], len |-> ListLen]
Deleted     == [kind |-> "notice", val |-> Notice, len |-> NoticeSize]

Least(m, n) == IF m <= n THEN m ELSE n

\* recvfrom() into a buffer of `limit` bytes drops the rest of the datagram.
Fit(p, limit) == [p EXCEPT !.len = Least(@, limit)]

\* strlen() of a zeroed buffer that holds p.
TextLen(p) == CASE p.kind = "file"   -> TextSize[p.val]
                [] p.kind = "notice" -> NoticeText
                [] OTHER             -> p.len
Text(p) == Fit(p, TextLen(p))

Datagram == [from : Clients, data : Payload]

VARIABLES
    toServer,   \* datagrams queued on the server's socket
    toClient,   \* [Clients -> Seq(Payload)]: queued on each client's socket
    faults,     \* faults so far
    (* Auxiliary: TRUE once something has happened after which client c and *)
    (* the server may disagree on which datagram answers which command.     *)
    skewed

netVars == <<toServer, toClient, faults, skewed>>

NetTypeOK ==
    /\ toServer \in Seq(Datagram)
    /\ toClient \in [Clients -> Seq(Payload)]
    /\ faults \in 0..MaxFaults
    /\ skewed \in [Clients -> BOOLEAN]

NetInit ==
    /\ toServer = <<>>
    /\ toClient = [c \in Clients |-> <<>>]
    /\ faults = 0
    /\ skewed = [c \in Clients |-> FALSE]

\* What the programs do to the sockets.
SendToServer(c, p) == toServer' = Append(toServer, [from |-> c, data |-> p])
SendToClient(c, ps) == toClient' = [toClient EXCEPT ![c] = @ \o ps]
Skew(C) == skewed' = [c \in Clients |-> skewed[c] \/ c \in C]

\* What UDP may do to the datagram at the head of a queue: drop it, deliver it
\* once more behind the others, or deliver the others first.
Perturbed(q) == {Tail(q), Append(q, Head(q)), Append(Tail(q), Head(q))}

Fault == faults < MaxFaults /\ faults' = faults + 1

FaultToServer ==
    /\ Fault
    /\ toServer # <<>>
    /\ toServer' \in Perturbed(toServer)
    /\ Skew({Head(toServer).from})
    /\ UNCHANGED toClient

FaultToClient(c) ==
    /\ Fault
    /\ toClient[c] # <<>>
    /\ \E q \in Perturbed(toClient[c]) : toClient' = [toClient EXCEPT ![c] = q]
    /\ Skew({c})
    /\ UNCHANGED toServer

NetNext == FaultToServer \/ \E c \in Clients : FaultToClient(c)
============================================================================
