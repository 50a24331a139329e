-------------------------------- MODULE MCDfs --------------------------------
EXTENDS Dfs

CONSTANTS c1, c2, foo, foo2, dir, dir2

MCSecond == [f \in Names |-> IF f = foo THEN foo2 ELSE dir2]

\* What the users type.
MCPut     == [c \in Clients |-> {"PUT"}]
MCList    == [c \in Clients |-> {"LIST"}]
MCLists   == [c \in Clients |-> IF c = c2 THEN {"exit"} ELSE {"LIST", "PUT"}]
MCMixed   == [c \in Clients |-> IF c = c2 THEN {"PUT", "exit"} ELSE {"PUT"}]

MCOnce    == [c \in Clients |-> 1]
MCTwice   == [c \in Clients |-> 2]
MCC2Twice == [c \in Clients |-> IF c = c2 THEN 2 ELSE 1]

\* Every client has every file, nobody has any, or c2 alone has one.
MCLocal    == [c \in Clients |-> Names]
MCLocalNo  == [c \in Clients |-> {}]
MCLocalTwo == [c \in Clients |-> IF c = c2 THEN {foo} ELSE {}]
=============================================================================
