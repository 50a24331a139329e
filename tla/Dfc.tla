--------------------------------- MODULE Dfc ---------------------------------
(***************************************************************************)
(* dfc.c: connects to the four servers, then reads commands.  LIST and PUT *)
(* send the command and the credentials to every server; LIST then reads a *)
(* listing from each in turn, PUT writes two parts of the file to each.    *)
(***************************************************************************)
EXTENDS DfsServer

CONSTANTS
    Local,      \* [Clients -> SUBSET Names]: the files a client has
    Typed,      \* [Clients -> the commands the user types]
    MaxCmds     \* [Clients -> Nat], a bound: commands run by each client

ASSUME ClientAssumption ==
    /\ Local \in [Clients -> SUBSET Names]
    /\ Typed \in [Clients -> SUBSET {"LIST", "PUT", "exit"}]
    /\ MaxCmds \in [Clients -> Nat]

VARIABLES
    cpc,        \* "dial", "prompt", "send", "file", "read" or "gone"
    next,       \* the server to be dialled or read next
    sock,       \* [Clients -> the servers it is connected to]
    out,        \* [Clients -> the writes of the command still to be made]
    cmd,        \* [Clients -> what command and file hold]
    again,      \* TRUE: the newline after the password is still in stdin
    cmds,       \* [Clients -> number of commands run]
    (* Auxiliary: the servers that have been sent a request by each client. *)
    asked

clientVars == <<cpc, next, sock, out, cmd, again, cmds, asked>>

ClientTypeOK ==
    /\ cpc \in [Clients -> {"dial", "prompt", "send", "file", "read", "gone"}]
    /\ next \in [Clients -> Servers]
    /\ sock \in [Clients -> SUBSET Servers]
    /\ out \in [Clients -> Seq(Servers \X Chunk)]
    /\ cmd \in [Clients -> Requests \cup {NoReq}]
    /\ again \in [Clients -> BOOLEAN]
    /\ cmds \in [Clients -> Nat]
    /\ asked \in [Clients -> SUBSET Servers]
    /\ \A c \in Clients :
          again[c] \/ cpc[c] \in {"send", "file", "read"} => cmd[c] # NoReq

ClientInit ==
    /\ cpc = [c \in Clients |-> "dial"]
    /\ next = [c \in Clients |-> 0]
    /\ sock = [c \in Clients |-> {}]
    /\ out = [c \in Clients |-> <<>>]
    /\ cmd = [c \in Clients |-> NoReq]
    /\ again = [c \in Clients |-> FALSE]
    /\ cmds = [c \in Clients |-> 0]
    /\ asked = [c \in Clients |-> {}]

Step(c, from, to) == cpc[c] = from /\ cpc' = [cpc EXCEPT ![c] = to]
\* The loops over sockfd[0..3]: on to the next server, or to pc `to` after the last.
\* (Variant: a loop that does not start at 0 again.)
AdvanceOnly(c, from, to) ==
    /\ Step(c, from, IF next[c] = 3 THEN to ELSE from)
    /\ next' = [next EXCEPT ![c] = @ + 1]
Advance(c, from, to) ==
    /\ Step(c, from, IF next[c] = 3 THEN to ELSE from)
    /\ next' = [next EXCEPT ![c] = (@ + 1) % 4]
Leave(c) == closed' = closed \cup {c}

\* connect2Server() for one server; without a listener it returns -1.
Dial(c) ==
    /\ Advance(c, "dial", "prompt")
    /\ IF next[c] \in alive
       THEN /\ sock' = [sock EXCEPT ![c] = @ \cup {next[c]}]
            /\ Queue(<<c, next[c]>>)
       ELSE UNCHANGED <<sock, tpc>>
    /\ UNCHANGED <<out, cmd, again, cmds, asked, req, valid, buf, n2, store, starved, wireVars>>

\* (Variant: a loop over the sockets that starts at 1.)
ToAllFromOne(ch) == << <<1, ch>>, <<2, ch>>, <<3, ch>> >>
\* forwardCredentials(): `line` to every server, then the pair to every server.
ToAll(ch) == << <<0, ch>>, <<1, ch>>, <<2, ch>>, <<3, ch>> >>
Forward(c, line) ==
    /\ cmds[c] < MaxCmds[c]
    /\ cmds' = [cmds EXCEPT ![c] = @ + 1]
    /\ out' = [out EXCEPT ![c] = ToAll(line) \o ToAll(Cred(c))]
    /\ Step(c, "prompt", "send")
    /\ UNCHANGED <<next, sock, asked, serverVars, wireVars>>

\* A command line the user types, with the credentials it asks for.
Type(c, op, f) ==
    /\ ~again[c]
    /\ op \in Typed[c]
    /\ cmd' = [cmd EXCEPT ![c] = Req(op, f)]
    /\ again' = [again EXCEPT ![c] = TRUE]
    /\ Forward(c, Req(op, f))

TypeExit(c) ==
    /\ ~again[c]
    /\ "exit" \in Typed[c]
    /\ Step(c, "prompt", "gone")
    /\ Leave(c)
    /\ UNCHANGED <<next, sock, out, cmd, again, cmds, asked, serverVars, up, down, alive>>

\* getUserInput() returns the newline that scanf() left, and sscanf() leaves
\* command and file as they were.  bzero() has cleared 8192 bytes from the
\* 20-byte initialReq, which is undefined: they may be among those bytes.
Repeat(c) == again[c] /\ Forward(c, Blank) /\ UNCHANGED <<cmd, again>>

Unrecognized(c) ==
    /\ cpc[c] = "prompt" /\ again[c]
    /\ again' = [again EXCEPT ![c] = FALSE]
    /\ UNCHANGED <<cpc, next, sock, out, cmd, cmds, asked, serverVars, wireVars>>

\* After its last write a command goes on to its replies, its file or the prompt.
AfterSend(c, ch) == CASE ch.kind = "part"      -> "prompt"
                      [] cmd[c].op = "LIST"    -> "read"
                      [] OTHER                 -> "file"

\* One send() or write(): lost if there is no connection or no server any more.
Send(c) ==
    /\ out[c] # <<>>
    /\ LET s == Head(out[c])[1]
           ch == Head(out[c])[2]
       IN /\ Step(c, "send", IF Len(out[c]) = 1 THEN AfterSend(c, ch) ELSE "send")
          /\ IF s \in sock[c] \cap alive
             THEN /\ up' = [up EXCEPT ![<<c, s>>] = Append(@, ch)]
                  /\ asked' = [asked EXCEPT ![c] = @ \cup {t \in {s} : ch.kind = "req"}]
             ELSE UNCHANGED <<up, asked>>
    /\ out' = [out EXCEPT ![c] = Tail(@)]
    /\ UNCHANGED <<next, sock, cmd, again, cmds, serverVars, down, closed, alive>>

\* Writing to a server that is gone may raise SIGPIPE.
SigPipe(c) ==
    /\ out[c] # <<>>
    /\ Head(out[c])[1] \in sock[c] \ alive
    /\ Step(c, "send", "gone")
    /\ Leave(c)
    /\ UNCHANGED <<next, sock, out, cmd, again, cmds, asked, serverVars, up, down, alive>>

\* LIST's read() from one server: a listing, or at once nothing without a server.
ReadListing(c) ==
    LET k == <<c, next[c]>>
    IN /\ Advance(c, "read", "prompt")
       /\ \/ down[k] # <<>> /\ down' = [down EXCEPT ![k] = Tail(@)]
          \/ down[k] = <<>> /\ next[c] \notin sock[c] \cap alive /\ UNCHANGED down
       /\ UNCHANGED <<sock, out, cmd, again, cmds, asked, serverVars, up, closed, alive>>

\* PUT's file, split and written: two parts to each server, chosen by hashInt,
\* which is summed up from an uninitialised variable.
PartWrites(c, x) ==
    << <<0, Part(c, FirstPart(x, 0))>>, <<0, Part(c, SecondPart(x, 0))>>,
       <<1, Part(c, FirstPart(x, 1))>>, <<1, Part(c, SecondPart(x, 1))>>,
       <<2, Part(c, FirstPart(x, 2))>>, <<2, Part(c, SecondPart(x, 2))>>,
       <<3, Part(c, FirstPart(x, 3))>>, <<3, Part(c, SecondPart(x, 3))>> >>

OpenFile(c) ==
    /\ Step(c, "file", "send")
    /\ cmd[c].name \in Local[c]
    /\ \E x \in Hashes : out' = [out EXCEPT ![c] = PartWrites(c, x)]
    /\ UNCHANGED <<next, sock, cmd, again, cmds, asked, serverVars, wireVars>>

\* "Try again." is followed by a break out of the command loop, and main ends.
NoSuchFile(c) ==
    /\ Step(c, "file", "gone")
    /\ cmd[c].name \notin Local[c]
    /\ Leave(c)
    /\ UNCHANGED <<next, sock, out, cmd, again, cmds, asked, serverVars, up, down, alive>>

Run(c) == Dial(c) \/ Send(c) \/ SigPipe(c) \/ ReadListing(c) \/ OpenFile(c) \/ NoSuchFile(c)
Prompt(c) ==
    \/ \E f \in Names, op \in {"LIST", "PUT"} : Type(c, op, f)
    \/ TypeExit(c) \/ Repeat(c) \/ Unrecognized(c)
=============================================================================
