------------------------------ MODULE AtomicFS ------------------------------
(***************************************************************************)
(* What the log promises to the file system calls that use it: a crash     *)
(* brings the blocks back to a moment at which no call was under way, and   *)
(* never to a mixture of two such moments.                                 *)
(***************************************************************************)
CONSTANTS Proc, Block, Data

VARIABLES
    mem,        \* the blocks as the running system sees them
    stable,     \* the blocks as they will be found after a crash
    active      \* the processes inside a file system call

vars == <<mem, stable, active>>

Init ==
    /\ mem \in [Block -> Data]
    /\ stable = mem
    /\ active = {}

Begin(p) ==
    /\ p \notin active
    /\ active' = active \cup {p}
    /\ UNCHANGED <<mem, stable>>

Write(p, b) ==
    /\ p \in active
    /\ \E v \in Data : mem' = [mem EXCEPT ![b] = v]
    /\ UNCHANGED <<stable, active>>

End(p) ==
    /\ p \in active
    /\ active' = active \ {p}
    /\ UNCHANGED <<mem, stable>>

\* All the calls since the last commit become permanent together.
Commit ==
    /\ active = {}
    /\ stable' = mem
    /\ UNCHANGED <<mem, active>>

Crash ==
    /\ mem' = stable
    /\ active' = {}
    /\ UNCHANGED stable

Next ==
    \/ \E p \in Proc : Begin(p) \/ End(p) \/ \E b \in Block : Write(p, b)
    \/ Commit
    \/ Crash

Spec == Init /\ [][Next]_vars
=============================================================================
