---------------------------- MODULE MCFileSystem ----------------------------
\* A volume of four clusters of three cells, the first of them the root
\* directory, with an empty file or one of two cells.
EXTENDS FileSystem

CONSTANTS a, b

Texts == {<<Piece("x")>>, [i \in 1 .. 4 |-> Piece(IF i < 4 THEN "y" ELSE "x")]}
Either == Permutations(Names)
=============================================================================
