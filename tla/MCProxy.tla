------------------------------ MODULE MCProxy ------------------------------
EXTENDS Proxy

CONSTANTS c1, c2, news, social, lost, down, mixed, nowhere

\* One address for each name.
MCAddress == [n \in Known |-> n]
Get(n) == [get |-> TRUE, name |-> n]
Post(n) == [get |-> FALSE, name |-> n]
MCRequests == {Get(news), Get(social), Get(lost), Get(down), Post(news), Get(NoName)}
=============================================================================
