--------------------------- MODULE MCPixelTeaching ---------------------------
(* Two commands at a time over two places and two arms, none of which the code tells apart. *)
EXTENDS PixelTeaching

Symmetry == Permutations(Procs) \cup Permutations(Places) \cup Permutations(Stamps)

=============================================================================
