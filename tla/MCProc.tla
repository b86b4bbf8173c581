------------------------------- MODULE MCProc -------------------------------
(* Instances of Proc for TLC: the numbers of the small machines it explores. *)
EXTENDS Proc
MCNaps == {0, 2}
MCOneNap == {1}
\* 0 is the pid field of a slot that was freed or never used.
MCKillPids == {0, 2}
MCOwnPids == {2, 3}
=============================================================================
