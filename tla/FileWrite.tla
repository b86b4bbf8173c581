----------------------------- MODULE FileWrite ------------------------------
(***************************************************************************)
(* The blocks one transaction of filewrite() logs (src/xv6-public_1/file.c *)
(* and fs.c).  filewrite() splits a write into chunks, one begin_op() and  *)
(* one writei() each, small enough for what the log reserves for a call.   *)
(* A block is a number: block bn of the file is bn, the others are named   *)
(* below.  The free map is one block, as FSSIZE <= BPB (param.h:13).       *)
(***************************************************************************)
EXTENDS Integers, FiniteSets

CONSTANTS
    MAXOPBLOCKS,            \* blocks begin_op() reserves for a chunk
    BSIZE,                  \* bytes of a block
    NDIRECT, NINDIRECT,     \* block numbers in the inode, in the indirect block
    UintRange               \* 2^32: off and n are uint in writei()

\* Below 8 the division by two leaves no room for the slop; below 6 a chunk is empty.
Sizes ==
    /\ MAXOPBLOCKS \in Nat /\ MAXOPBLOCKS >= 8
    /\ BSIZE \in Nat \ {0}
    /\ NDIRECT \in Nat /\ NINDIRECT \in Nat
    /\ UintRange \in Nat

Bitmap == -1
Indirect == -2
InodeBlock == -3

MAXFILE == NDIRECT + NINDIRECT

MaxChunk == ((MAXOPBLOCKS - 1 - 1 - 2) \div 2) * BSIZE

\* n1, the bytes of the chunk that starts at byte i of an n byte write
Chunk(n, i) == IF n - i > MaxChunk THEN MaxChunk ELSE n - i

\* writei()'s tests.  The sum of two uints wraps; f is the file: its size, the blocks
\* allocated to it, and whether its indirect block is.
Sum(off, n) == IF off + n >= UintRange THEN off + n - UintRange ELSE off + n
Accepts(f, off, n) ==
    /\ off <= f.size /\ Sum(off, n) >= off
    /\ Sum(off, n) <= MAXFILE * BSIZE

\* bytes of the iteration of writei() that has tot bytes behind it
Piece(off, n, tot) ==
    LET room == BSIZE - ((off + tot) % BSIZE)
    IN  IF n - tot < room THEN n - tot ELSE room

\* bn of the iterations, as the loop of writei() computes them
Visited(off, n) ==
    LET from[tot \in 0..n] ==
            IF tot = n THEN {}
            ELSE {(off + tot) \div BSIZE} \cup from[tot + Piece(off, n, tot)]
    IN  from[0]

\* the same, without the loop
Touched(off, n) ==
    IF n = 0 THEN {} ELSE (off \div BSIZE)..((off + n - 1) \div BSIZE)

\* what bmap(ip, bn) logs: balloc() logs the free map and, in bzero(), the new block
BmapLogs(f, bn) ==
    LET new == bn \notin f.blocks
        far == bn >= NDIRECT
    IN  (IF new THEN {bn, Bitmap} ELSE {})
          \cup (IF far /\ ~f.indirect THEN {Indirect, Bitmap} ELSE {})
          \cup (IF far /\ new THEN {Indirect} ELSE {})

\* what writei(ip, src, off, n) logs once it accepts: the data, bmap()'s blocks, and the
\* inode of a file that grows
Logged(f, off, n) ==
    Touched(off, n)
      \cup (UNION {BmapLogs(f, bn) : bn \in Touched(off, n)})
      \cup (IF n > 0 /\ off + n > f.size THEN {InodeBlock} ELSE {})
=============================================================================
