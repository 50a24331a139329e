------------------------------- MODULE MCUftp -------------------------------
EXTENDS Uftp

CONSTANTS c1, c2, f1, f2, foo1, foo2, foo3, empty

\* The files beside 4273-PA1/README, and one with nothing in it.
MCBodies == {foo1, foo2, foo3, empty}
MCBodySize == [b \in MCBodies |->
    CASE b = foo1 -> 22133 [] b = foo2 -> 1469 [] b = foo3 -> 1339 [] OTHER -> 0]
\* foo1 is text; foo2 and foo3 are JPEGs, with a zero byte at offset 4.
MCTextSize == [b \in MCBodies |->
    CASE b = foo1 -> 22133 [] b = empty -> 0 [] OTHER -> 4]

\* What is on each side under f1, and under f2.
Files(a, b) == [f \in Names |-> IF f = f1 THEN a ELSE b]

MCStore      == Files(File(foo2), NoFile)
MCLocal      == [c \in Clients |-> Files(File(foo3), NoFile)]
MCLocalLarge == [c \in Clients |-> Files(File(foo1), NoFile)]
MCLocalMixed == [c \in Clients |-> Files(File(IF c = c1 THEN empty ELSE foo1), NoFile)]
=============================================================================
