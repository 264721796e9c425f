------------------------------- MODULE MCBuffer -------------------------------
(* Small instances of Buffer for TLC. *)
EXTENDS Buffer, TLC

(* One byte, and more than the vector may hold. *)
MCChunks == {<<1>>, <<1, 0, 1, 1, 0, 1>>}

Symmetry == Permutations(Buffers)
==============================================================================
