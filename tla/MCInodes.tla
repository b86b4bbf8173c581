------------------------------ MODULE MCInodes ------------------------------
(* Instances of Inodes for TLC. *)
EXTENDS Inodes, TLC
CONSTANTS p1, p2, a, b
MCProc == {p1, p2}
One(k, s) == [kind |-> k, path |-> s, new |-> <<>>]
\* A directory a, a file b, and a second name a/b for the file.
MCRequest ==
    {One("mkdir", <<a>>), One("create", <<b>>), One("chdir", <<a>>), One("open", <<b>>),
     One("unlink", <<a>>), One("unlink", <<b>>), One("unlink", <<a, b>>),
     One("create", <<a, b>>),
     [kind |-> "link", path |-> <<b>>, new |-> <<a, b>>]}
ProcSymmetry == Permutations(MCProc)
=============================================================================
