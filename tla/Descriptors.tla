---------------------------- MODULE Descriptors ----------------------------
(***************************************************************************)
(* The table of open files of one process, as the kernel keeps it for the  *)
(* HTTP server (4273-PA2) and the proxy (4273-PA3): every socket and every *)
(* stream takes the lowest descriptor that is not in use.  An entry also   *)
(* records the connection it was opened for, which no program can see.     *)
(***************************************************************************)
EXTENDS Integers

CONSTANTS
    Conns,      \* the connections clients make
    Fds,        \* the descriptors the process may have open at once
    NoFd,       \* the -1 of a call that failed
    Nobody      \* no connection

ASSUME DescriptorAssumption == Fds \subseteq Nat /\ NoFd \notin Fds /\ Nobody \notin Conns

VARIABLE table  \* [Fds -> what the descriptor is open on]

Free == [is |-> "free", of |-> Nobody]
Entries == [is : {"free", "conn", "stream", "origin"}, of : Conns \cup {Nobody}]

TableTypeOK == table \in [Fds -> Entries]
TableInit == table = [d \in Fds |-> Free]

Unused == {d \in Fds : table[d] = Free}
Lowest(d) == d \in Unused /\ \A e \in Unused : d <= e

\* d is opened, or closed; close(-1) does nothing.
Opens(d, is, c) == table' = [table EXCEPT ![d] = [is |-> is, of |-> c]]
Closes(d) == table' = IF d \in Fds THEN [table EXCEPT ![d] = Free] ELSE table
=============================================================================
