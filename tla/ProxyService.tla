---------------------------- MODULE ProxyService ----------------------------
(***************************************************************************)
(* What the proxy promises the two sides it stands between.  To the hosts: *)
(* nothing but GETs of clients that do not name a listed host, each sent   *)
(* at most once.  To a client: at most one response, the one of the host   *)
(* its request went to or the proxy's own, and the end of the connection   *)
(* only when nothing more will come.                                       *)
(***************************************************************************)
CONSTANTS
    Conns,      \* the connections clients make
    Requests,   \* what they ask for
    Known,      \* the names with an address
    Address,    \* [Known -> addresses]
    Torn,       \* addresses that nobody meant
    Blacklist,  \* the names nothing is sent to
    Junk,       \* what a request without a host may be taken for
    NoRequest,  \* nothing asked yet
    NoAddress,  \* nothing sent yet
    Itself      \* the proxy's own response

VARIABLES
    asked,      \* [Conns -> the request, or NoRequest]
    gone,       \* the connections whose client has left
    sent,       \* [Conns -> the host its request was sent to, or NoAddress]
    reply,      \* [Conns -> whose response its client got, or NoAddress]
    ended,      \* the connections the proxy has closed
    up          \* the proxy runs

service == <<asked, gone, sent, reply, ended, up>>

Init ==
    /\ asked = [c \in Conns |-> NoRequest]
    /\ gone = {}
    /\ sent = [c \in Conns |-> NoAddress]
    /\ reply = [c \in Conns |-> NoAddress]
    /\ ended = {}
    /\ up = TRUE

\* The hosts that somebody has asked for.
Targets ==
    {Address[n] : n \in Known \cap (Junk \cup {asked[c].name : c \in {b \in Conns : asked[b] # NoRequest}})}

Ask(c) ==
    /\ asked[c] = NoRequest
    /\ \E r \in Requests : asked' = [asked EXCEPT ![c] = r]
    /\ UNCHANGED <<gone, sent, reply, ended, up>>

Leave(c) == gone' = gone \cup {c} /\ UNCHANGED <<asked, sent, reply, ended, up>>

\* (Which host is less than one would wish: the proxy's threads share a lookup, and
\* may read it while it is written.)
Forward(c) ==
    /\ asked[c] # NoRequest /\ asked[c].get /\ asked[c].name \notin Blacklist
    /\ sent[c] = NoAddress /\ reply[c] = NoAddress
    /\ \E a \in Targets \cup Torn : sent' = [sent EXCEPT ![c] = a]
    /\ UNCHANGED <<asked, gone, reply, ended, up>>

Answer(c) ==
    /\ sent[c] # NoAddress /\ reply[c] = NoAddress /\ c \notin gone
    /\ reply' = [reply EXCEPT ![c] = sent[c]]
    /\ UNCHANGED <<asked, gone, sent, ended, up>>

\* The proxy's own response is the last thing a client gets: with it the connection
\* is closed, or the proxy stops.
Refuse(c) ==
    /\ asked[c] # NoRequest /\ (~asked[c].get \/ asked[c].name \notin Known)
    /\ sent[c] = NoAddress /\ reply[c] = NoAddress /\ c \notin gone
    /\ reply' = [reply EXCEPT ![c] = Itself]
    /\ \/ ended' = ended \cup {c} /\ up' = up
       \/ ended' = ended /\ up' = FALSE
    /\ UNCHANGED <<asked, gone, sent>>

\* A connection is closed without a response only for a listed host, also one that
\* a request without a host was taken for, or when nobody is there to read it.
End(c) ==
    /\ \/ c \in gone
       \/ asked[c] # NoRequest /\ sent[c] = NoAddress /\ asked[c].name \notin Known \ Blacklist
       \/ reply[c] # NoAddress
    /\ ended' = ended \cup {c}
    /\ UNCHANGED <<asked, gone, sent, reply, up>>

Stop == up' = FALSE /\ UNCHANGED <<asked, gone, sent, reply, ended>>

Next ==
    \/ up /\ Stop
    \/ up /\ \E c \in Conns \ ended :
          Ask(c) \/ Leave(c) \/ Forward(c) \/ Answer(c) \/ Refuse(c) \/ End(c)

Spec == Init /\ [][Next]_service
=============================================================================
