-------------------------- MODULE MCSidecarFile --------------------------
(* Instance for TLC: two pieces, which nothing tells apart. *)
EXTENDS SidecarFile, TLC

CONSTANTS p1, p2

PieceSymmetry == Permutations({p1, p2})
=============================================================================
