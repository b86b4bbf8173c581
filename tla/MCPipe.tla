------------------------------- MODULE MCPipe -------------------------------
(* Instances of Pipe for TLC. *)
EXTENDS Pipe
CONSTANTS p1, p2, q1
MCProc == {p1, p2}
MCPage == {q1}
MCPayload == {<<0, 1, 0>>}
=============================================================================
