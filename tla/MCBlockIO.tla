------------------------------ MODULE MCBlockIO ------------------------------
(* Model-checking instances of BlockIO: the files a run reads.              *)
EXTENDS BlockIO

CONSTANTS b1, b2, b3, p1, p2, q1

MCBuffers    == {b1, b2, b3}
MCContiguous == {<<p1>>, <<p2>>}   \* each file is one extent, one bio
MCFragmented == {<<p1, p2>>}       \* readahead splits the file in two bios
MCMapped     == {<<q1>>}
=============================================================================
