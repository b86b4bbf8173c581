------------------------------ MODULE MCBuffer ------------------------------
(* Instances of BufferCache for TLC. *)
EXTENDS BufferCache
CONSTANTS p1, p2, p3, k1, k2, k3, v0, v1
MCProc == {p1, p2, p3}
MCBlock == {k1, k2, k3}
MCOneWritten == {k1}
MCValue == {v0, v1}
=============================================================================
