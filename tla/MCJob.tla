------------------------------- MODULE MCJob --------------------------------
(* Instances of JobControl for TLC. *)
EXTENDS JobControl
=============================================================================
