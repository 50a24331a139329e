---------------------------- MODULE HttpService ----------------------------
(***************************************************************************)
(* What an HTTP server promises each of its clients: one header, with the  *)
(* length of the file that this client asked for; after it never more than *)
(* that many bytes; and the end of the connection when all of them have    *)
(* been sent, or the client has left, or the server has stopped.           *)
(***************************************************************************)
EXTENDS Integers

CONSTANTS
    Conns,      \* the connections clients make
    Paths,      \* what they ask for
    Length,     \* [Paths -> Nat]: the bytes of the answer
    NoPath,     \* nothing asked yet
    NoHead      \* no header sent yet

VARIABLES
    asked,      \* [Conns -> the path asked for, or NoPath]
    gone,       \* the connections whose client has left
    head,       \* [Conns -> the length announced, or NoHead]
    body,       \* [Conns -> bytes sent after the header]
    ended,      \* the connections the server has closed
    up          \* the server runs

service == <<asked, gone, head, body, ended, up>>

Init ==
    /\ asked = [c \in Conns |-> NoPath]
    /\ gone = {}
    /\ head = [c \in Conns |-> NoHead]
    /\ body = [c \in Conns |-> 0]
    /\ ended = {}
    /\ up = TRUE

Ask(c) ==
    /\ asked[c] = NoPath
    /\ \E p \in Paths : asked' = [asked EXCEPT ![c] = p]
    /\ UNCHANGED <<gone, head, body, ended, up>>

Leave(c) == gone' = gone \cup {c} /\ UNCHANGED <<asked, head, body, ended, up>>

\* The header may come with the first bytes.
Announce(c) ==
    /\ asked[c] # NoPath /\ head[c] = NoHead
    /\ head' = [head EXCEPT ![c] = Length[asked[c]]]
    /\ \E n \in 0..Length[asked[c]] : body' = [body EXCEPT ![c] = n]
    /\ UNCHANGED <<asked, gone, ended, up>>

Deliver(c) ==
    /\ head[c] # NoHead
    /\ \E n \in body[c]..head[c] : body' = [body EXCEPT ![c] = n]
    /\ UNCHANGED <<asked, gone, head, ended, up>>

End(c) ==
    /\ c \in gone \/ (head[c] # NoHead /\ body[c] = head[c])
    /\ ended' = ended \cup {c}
    /\ UNCHANGED <<asked, gone, head, body, up>>

Stop == up' = FALSE /\ UNCHANGED <<asked, gone, head, body, ended>>

Next ==
    \/ Stop
    \/ up /\ \E c \in Conns \ ended : Ask(c) \/ Leave(c) \/ Announce(c) \/ Deliver(c) \/ End(c)

Spec == Init /\ [][Next]_service
=============================================================================
