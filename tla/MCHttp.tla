------------------------------- MODULE MCHttp -------------------------------
EXTENDS Http

CONSTANTS c1, c2, index, fancybox, root, lost, empty

\* Files of 4273-PA2/www: index.html and fancybox/fancybox.png; "/" is the directory,
\* for which the index page is sent; one that is empty and one that is not there.
MCSize == [p \in Paths |->
    CASE p = index -> 3348 [] p = fancybox -> 15287 [] OTHER -> 0]
\* A PNG has its first zero byte at offset 8.
MCText == [p \in Paths |-> IF p = fancybox THEN 8 ELSE MCSize[p]]
MCKind == [p \in Paths |->
    CASE p = root -> "other" [] p = lost -> "missing" [] OTHER -> "typed"]
=============================================================================
