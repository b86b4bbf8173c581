----------------------------- MODULE BlockStore -----------------------------
(***************************************************************************)
(* What bread(), bwrite() and brelse() promise their callers: each disk    *)
(* block is a register with a lock.  Whoever holds the lock sees the last  *)
(* contents anyone gave the block, and what bwrite() returns from is on    *)
(* the disk.                                                               *)
(***************************************************************************)
CONSTANTS Proc, Block, Value, Nobody

VARIABLES
    current,    \* contents a holder of the block sees
    stored,     \* contents on the disk
    holder      \* who holds the block's lock, or Nobody

vars == <<current, stored, holder>>

Init ==
    /\ stored \in [Block -> Value] /\ current = stored
    /\ holder = [k \in Block |-> Nobody]

Lock(p, k) ==
    /\ holder[k] = Nobody /\ holder' = [holder EXCEPT ![k] = p]
    /\ UNCHANGED <<current, stored>>

Modify(k, v) ==
    /\ holder[k] # Nobody /\ current' = [current EXCEPT ![k] = v]
    /\ UNCHANGED <<stored, holder>>

Sync(k) ==
    /\ holder[k] # Nobody /\ stored' = [stored EXCEPT ![k] = current[k]]
    /\ UNCHANGED <<current, holder>>

Unlock(k) ==
    /\ holder[k] # Nobody /\ holder' = [holder EXCEPT ![k] = Nobody]
    /\ UNCHANGED <<current, stored>>

Next ==
    \E k \in Block :
        \/ \E p \in Proc : Lock(p, k)
        \/ \E v \in Value : Modify(k, v)
        \/ Sync(k) \/ Unlock(k)

Spec == Init /\ [][Next]_vars
=============================================================================
