------------------------------- MODULE MCLog --------------------------------
(* Instances of Log for TLC. *)
EXTENDS Log, TLC
CONSTANTS p1, p2, p3, b1, b2, b3, b4, b5, v0, v1
MCTwo == {p1, p2}
MCThree == {p1, p2, p3}
MCTwoBlocks == {b1, b2}
MCBlocks == {b1, b2, b3}
MCFiveBlocks == {b1, b2, b3, b4, b5}
MCOneData == {v0}
MCData == {v0, v1}
MCSymmetry == Permutations(MCFiveBlocks) \cup Permutations(MCData)

\* filewrite() on a small file system with the kernel's MAXOPBLOCKS: chunks of 3 blocks
\* of 2 bytes, 3 direct and 6 indirect blocks.  A file has
\* the blocks of its first size bytes: it has no holes, and no call leaves it more.
FW == INSTANCE FileWrite WITH
    MAXOPBLOCKS <- 10, BSIZE <- 2, NDIRECT <- 3, NINDIRECT <- 6, UintRange <- 32
MCFile(size) ==
    LET blocks == (size + 1) \div 2
    IN  [size |-> size, blocks |-> 0..(blocks - 1), indirect |-> blocks > 3]
MCWrites == {w \in (0..18) \X (0..18) \X (1..12) :
                w[2] <= w[1] /\ FW!Accepts(MCFile(w[1]), w[2], FW!Chunk(w[3], 0))}
MCLogged(w) == FW!Logged(MCFile(w[1]), w[2], FW!Chunk(w[3], 0))

ASSUME MCSizes == FW!Sizes

\* The loop of writei() visits the blocks that Touched names (fs.c:511).
ASSUME LoopTouches == \A off \in 0..8, n \in 0..12 : FW!Visited(off, n) = FW!Touched(off, n)

\* A chunk keeps two blocks of the reservation, and the bound is not far: an unaligned
\* one reaches 7 of the 10 (file.c:129-143).
ASSUME ChunkSlack ==
    /\ \A w \in MCWrites : Cardinality(MCLogged(w)) + 2 <= 10
    /\ \E w \in MCWrites : Cardinality(MCLogged(w)) = 7

\* writei() accepts no write past the largest file, nor a sum that wraps (fs.c:506-509).
ASSUME AcceptedInFile ==
    \A off \in 0..31, n \in 0..31 :
        FW!Accepts(MCFile(18), off, n) => FW!Touched(off, n) \subseteq 0..8
=============================================================================
