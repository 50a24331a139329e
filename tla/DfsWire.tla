------------------------------ MODULE DfsWire ------------------------------
(***************************************************************************)
(* The TCP connections between the clients (dfc.c) and the servers (dfs.c) *)
(* of 4273-PA4.  Each client opens one connection to each server.  Writes  *)
(* have no framing: a read() returns as much of what was written, from the *)
(* first unread byte, as has arrived.                                      *)
(***************************************************************************)
EXTENDS DfsPlacement, FiniteSets, SequencesExt

CONSTANTS
    Clients,    \* client processes
    Trusted,    \* those whose user types a pair that is in dfc.conf
    Spelling,   \* those with files whose bytes pass for such a pair, or complete one
    Running,    \* the servers that have been started
    Names,      \* file names that users type
    Second,     \* [Names -> Files]: the name with a "2" after it
    Coalesce    \* FALSE: every read() returns exactly one write()

ASSUME WireAssumption ==
    /\ IsFiniteSet(Clients)
    /\ Trusted \subseteq Clients /\ Spelling \subseteq Clients
    /\ Running \subseteq Servers
    /\ Coalesce \in BOOLEAN

Conns == Clients \X Servers
Files == Names \cup {Second[f] : f \in Names}

\* What one write() of the client puts on a connection.  Part(c, i) is the write
\* that starts at part i's buffer: strlen(DFCBuf[0]) bytes, whichever part it is,
\* and the buffers are not terminated, so it may run on into the next part.
Req(op, f) == [kind |-> "req", op |-> op, name |-> f]
Blank      == [kind |-> "blank"]
Cred(c)    == [kind |-> "cred", ok |-> c \in Trusted]
Part(c, i) == [kind |-> "part", from |-> c, part |-> i]
Requests == {Req(op, f) : op \in {"LIST", "PUT"}, f \in Names}
Chunk == Requests \cup {Blank}
         \cup {Cred(c) : c \in Clients} \cup {Part(c, i) : c \in Clients, i \in Parts}

VARIABLES
    up,         \* [Conns -> Seq(Chunk)]: written by the client, not read yet
    down,       \* [Conns -> Seq(SUBSET Files)]: listings not read yet
    closed,     \* the clients that are gone: their connections are at their end
    alive       \* the server processes that run

wireVars == <<up, down, closed, alive>>

WireTypeOK ==
    /\ up \in [Conns -> Seq(Chunk)]
    /\ down \in [Conns -> Seq(SUBSET Files)]
    /\ closed \subseteq Clients
    /\ alive \subseteq Running

WireInit ==
    /\ up = [k \in Conns |-> <<>>]
    /\ down = [k \in Conns |-> <<>>]
    /\ closed = {}
    /\ alive = Running

\* How many writes one read() on k can return; 0 is the end of the connection.
Amounts(k) ==
    {n \in 1..Len(up[k]) : Coalesce \/ n = 1}
        \cup {n \in {0} : up[k] = <<>> /\ k[1] \in closed}

Consume(k, n) == up' = [up EXCEPT ![k] = SubSeq(@, n + 1, Len(@))]
=============================================================================
