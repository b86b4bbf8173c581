----------------------------- MODULE ByteStream -----------------------------
(***************************************************************************)
(* What a pipe promises: bytes leave it in the order they entered it, none *)
(* lost and none twice, never more than it holds at once; and it starts    *)
(* afresh, empty, when it is made.                                         *)
(***************************************************************************)
EXTENDS Naturals, Sequences

CONSTANTS Byte, Capacity

VARIABLES
    open,       \* the pipe exists
    stream      \* bytes written and not yet read

Init == ~open /\ stream = <<>>

Create == ~open /\ open' /\ stream' = <<>>

\* At least one byte enters, in one piece.
Write ==
    /\ open /\ UNCHANGED open
    /\ \E n \in 1 .. Capacity - Len(stream) : \E s \in [1 .. n -> Byte] : stream' = stream \o s

Read ==
    /\ open /\ UNCHANGED open
    /\ \E n \in 1 .. Len(stream) : stream' = SubSeq(stream, n + 1, Len(stream))

\* The last end is closed: what was not read is gone.
Destroy == open /\ ~open' /\ stream' = <<>>

Next == Create \/ Write \/ Read \/ Destroy

Spec == Init /\ [][Next]_<<open, stream>>
=============================================================================
