------------------------------ MODULE MCTagPtr ------------------------------
(* A TLC instance of TagPtr: the chunks are interchangeable.               *)
EXTENDS TagPtr, TLC

MCSym == Permutations(Chunk)

=============================================================================
